--------------------------- MODULE SessionsProofs ---------------------------
(* Proofs about Sessions, for any number of browsers, requests and links    *)
(* and without the bounds of the runs.                                      *)
EXTENDS Sessions, TLAPS

-----------------------------------------------------------------------------
(* The records a handler builds are requests, and the rows it writes rows.  *)

\* The empty parts and the empty request have their types.
LEMMA EmptyTypes ==
    /\ NoLogin \in Login /\ NoFlow \in Flow /\ NoAccess \in Access
    /\ NoRequest \in Request
  BY DEF NoLogin, NoFlow, NoAccess, NoRequest, Login, Flow, Access, Roles,
         Request, PCs, AllOps

\* A finished handler leaves a request that only has its answer to deliver.
LEMMA AnsweredType ==
    ASSUME NEW q \in Request
    PROVE  Answered(q) \in Request /\ Answered(q).pc = "answer"
  <1>1. "answer" \in PCs
    BY DEF PCs
  <1> QED
    BY <1>1, EmptyTypes DEF Answered, Request

\* Wherever a handler goes on to, the result is a request.
LEMMA ContinueType ==
    ASSUME NEW q \in Request, NEW pc \in PCs
    PROVE  Continue(q, pc) \in Request
  BY AnsweredType DEF Continue, Request

\* So it is when the handler is refused.
LEMMA RefusedType ==
    ASSUME NEW q \in Request
    PROVE  Refused(q) \in Request
  BY AnsweredType DEF Refused, Request

\* Every place a handler can go to is a step.
LEMMA WithoutSessionType ==
    ASSUME NEW q \in Request
    PROVE  WithoutSession(q) \in PCs
  BY DEF WithoutSession, Request, PCs

\* So is every place the gate, the second factor or the logout can choose.
LEMMA WithSessionType ==
    ASSUME NEW q \in Request, NEW row
    PROVE  WithSession(q, row) \subseteq PCs
  BY DEF WithSession, Request, PCs

\* So is what follows a renewal.
LEMMA AfterRenewType ==
    ASSUME NEW op \in AllOps
    PROVE  AfterRenew(op) \in PCs
  BY DEF AfterRenew, AllOps, PCs

\* A request that has renewed its session is a request.
LEMMA RenewedType ==
    ASSUME NEW q \in Request, NEW s \in Nat, issued \in Nat
    PROVE  Renewed(q, s) \in Request
  <1>1. AfterRenew(q.op) \in PCs
    BY AfterRenewType DEF Request
  <1>2. [q EXCEPT !.known = 0, !.sid = s, !.new = issued + 1] \in Request
    <2> DEFINE n == issued + 1
    <2>1. n \in Nat
      OBVIOUS
    <2> HIDE DEF n
    <2>2. [q EXCEPT !.known = 0, !.sid = s, !.new = n] \in Request
      BY <2>1 DEF Request
    <2> QED
      BY <2>2 DEF n
  <1> QED
    BY <1>1, <1>2, ContinueType DEF Renewed

\* The clean-up of a row leaves a row.
LEMMA CleanedRowType ==
    ASSUME NEW row \in Row
    PROVE  WithoutExpiredParts(row) \in Row
  <1>1. ASSUME NEW l1 \in Login, NEW l2 \in Flow, NEW l3 \in Access,
               NEW l4 \in {"none", row.legacy}
        PROVE  [row EXCEPT !.login = l1, !.flow = l2, !.access = l3, !.legacy = l4]
                  \in Row
    BY DEF Row
  <1> QED
    BY <1>1, EmptyTypes DEF WithoutExpiredParts, Row

-----------------------------------------------------------------------------
(* Type correctness.                                                        *)

\* Every step keeps every variable in its type.
LEMMA TypeStep == TypeOK /\ [Next]_vars => TypeOK'
  <1> SUFFICES ASSUME TypeOK, [Next]_vars
               PROVE  TypeOK'
    OBVIOUS
  <1> USE SessionsAssumption
  <1>1. ASSUME NEW r \in Requests, NEW op \in Ops, Begin(r, op)
        PROVE  TypeOK'
    <2>1. PICK param \in Params(r, op),
               link \in IF op = "redeem" THEN Links ELSE {NoLink},
               done \in IF op = "login" THEN BOOLEAN ELSE {op = "login_totp"} :
            Goto(r, [NoRequest EXCEPT
                !.pc = IF op = "redeem" THEN "validate" ELSE "load",
                !.next = First(op), !.op = op, !.param = param,
                !.link = link, !.done = done,
                !.cookie = CookieFor(r, op)])
      BY <1>1 DEF Begin
    <2>2. op \in AllOps /\ First(op) \in PCs
      BY DEF SessionsAssumption, AllOps, First, PCs
    <2>3. CookieFor(r, op) \in Nat /\ param \in Nat
      BY DEF SessionsAssumption, CookieFor, Params, TypeOK
    <2>4. link \in Links \cup {NoLink} /\ done \in BOOLEAN
      OBVIOUS
    <2>5. "validate" \in PCs /\ "load" \in PCs
      BY DEF PCs
    <2>6. req' \in [Requests -> Request]
      BY <2>1, <2>2, <2>3, <2>4, <2>5, EmptyTypes DEF Goto, Request, TypeOK
    <2> QED
      BY <1>1, <2>6 DEF Begin, TypeOK, Live
  <1>2. ASSUME NEW r \in Requests, Validate(r)
        PROVE  TypeOK'
    <2>1. "load" \in PCs /\ "answer" \in PCs
      BY DEF PCs
    <2>2. req' \in [Requests -> Request]
      BY <1>2, <2>1, ContinueType DEF Validate, Goto, TypeOK
    <2> QED
      BY <1>2, <2>2 DEF Validate, TypeOK, Live
  <1>3. ASSUME NEW r \in Requests, LoadRow(r)
        PROVE  TypeOK'
    <2> DEFINE q == req[r]
    <2>1. ASSUME NEW s \in Live
          PROVE  [q EXCEPT !.pc = "parts", !.known = s, !.moment = clock] \in Request
      <3>1. s \in Nat /\ clock \in Nat /\ q \in Request /\ "parts" \in PCs
        BY DEF TypeOK, PCs
      <3> QED
        BY <3>1 DEF Request
    <2>2. ASSUME NEW c \in BOOLEAN
          PROVE  [q EXCEPT !.known = 0, !.clear = c] \in Request
      BY DEF TypeOK, Request
    <2>3. ASSUME NEW p \in Request
          PROVE  Continue(p, WithoutSession(q)) \in Request
      BY <2>3, WithoutSessionType, ContinueType DEF TypeOK
    <2>4. req' \in [Requests -> Request]
      <3>1. CASE \E s \in Live :
                    Goto(r, [q EXCEPT !.pc = "parts", !.known = s, !.moment = clock])
        BY <3>1, <2>1 DEF Goto, TypeOK
      <3>2. CASE \E c \in BOOLEAN : Goto(r, Continue([q EXCEPT !.known = 0, !.clear = c],
                                                   WithoutSession(q)))
        <4>1. \A c \in BOOLEAN : Continue([q EXCEPT !.known = 0, !.clear = c],
                                          WithoutSession(q)) \in Request
          BY <2>2, <2>3
        <4> QED
          BY <3>2, <4>1 DEF Goto, TypeOK
      <3> QED
        BY <1>3, <3>1, <3>2 DEF LoadRow
    <2> QED
      BY <1>3, <2>4 DEF LoadRow, TypeOK, Live

  <1>4. ASSUME NEW r \in Requests, LoadParts(r)
        PROVE  TypeOK'
    <2> DEFINE q == req[r]
    <2>1. CASE q.known \in Live
      <3> DEFINE row == db[q.known]
                 l == IF q.op = "visit" THEN LinkAt(row, q.moment) ELSE q.link
                 p == [q EXCEPT !.moment = 0, !.link = l]
      <3>1. q \in Request /\ row \in Row
        BY <2>1 DEF TypeOK
      <3>2. [row EXCEPT !.seen = q.moment] \in Row
        BY <3>1 DEF Request, Row
      <3>3. l \in Links \cup {NoLink}
        BY <3>1 DEF LinkAt, Request, Row, Access
      <3>4. p \in Request
        BY <3>1, <3>3 DEF Request
      <3>5. \A pc \in WithSession(q, row) : Continue(p, pc) \in Request
        BY <3>1, <3>4, WithSessionType, ContinueType
      <3>6. /\ db' = [db EXCEPT ![q.known] = [row EXCEPT !.seen = q.moment]]
            /\ \E pc \in WithSession(q, row) : req' = [req EXCEPT ![r] = Continue(p, pc)]
        BY <1>4, <2>1 DEF LoadParts, Goto
      <3> QED
        BY <1>4, <3>2, <3>5, <3>6 DEF LoadParts, TypeOK, Live
    <2>2. CASE q.known \notin Live
      BY <1>4, <2>2, EmptyTypes DEF LoadParts, Goto, TypeOK, Live
    <2> QED
      BY <2>1, <2>2
  <1>5. ASSUME NEW r \in Requests, Renew(r)
        PROVE  TypeOK'
    <2> DEFINE q == req[r]
    <2>1. q \in Request
      BY DEF TypeOK
    <2>2. CASE q.known \in Live
      <3>1. [q EXCEPT !.pc = "renewSet"] \in Request
        BY <2>1 DEF Request, PCs
      <3> QED
        BY <1>5, <2>2, <3>1 DEF Renew, Goto, TypeOK, Live
    <2>3. CASE q.known \notin Live
      <3> DEFINE n == made + 1
                 t == issued + 1
      <3>1. n \in Nat /\ t \in Nat /\ n \in 1 .. n /\ Live \subseteq 1 .. n
        BY DEF TypeOK
      <3>2. Renewed(q, n) \in Request
        BY <2>1, <3>1, RenewedType DEF TypeOK
      <3>3. NewRow(t) \in Row
        BY <3>1, EmptyTypes DEF NewRow, Row, TypeOK
      <3>4. /\ db' = [i \in Live \cup {n} |-> IF i = n THEN NewRow(t) ELSE db[i]]
            /\ req' = [req EXCEPT ![r] = Renewed(q, n)]
            /\ issued' = t /\ made' = n
            /\ UNCHANGED <<clock, links, views, cookie, states, accepted, begun>>
        BY <1>5, <2>3 DEF Renew, Goto, With
      <3>5. Live' = Live \cup {n}
        BY <3>4 DEF Live
      <3> HIDE DEF n, t
      <3>6. db' \in [Live' -> Row]
        BY <3>3, <3>4, <3>5 DEF TypeOK
      <3> QED
        BY <3>1, <3>2, <3>4, <3>5, <3>6 DEF TypeOK
    <2> QED
      BY <2>2, <2>3
  <1>6. ASSUME NEW r \in Requests, RenewSet(r)
        PROVE  TypeOK'
    <2> DEFINE q == req[r]
    <2>1. q \in Request
      BY DEF TypeOK
    <2>2. CASE q.known \in Live
      <3>1. q.known \in Nat /\ Renewed(q, q.known) \in Request
        BY <2>1, RenewedType DEF Request, TypeOK
      <3>2. Retokened(db[q.known]) \in Row
        <4>1. \A n \in Nat : [db[q.known] EXCEPT !.token = n] \in Row
          BY <2>2 DEF TypeOK, Row
        <4> QED
          BY <4>1 DEF Retokened, TypeOK
      <3>3. /\ db' = [db EXCEPT ![q.known] = Retokened(db[q.known])]
            /\ issued' = issued + 1
            /\ req' = [req EXCEPT ![r] = Renewed(q, q.known)]
            /\ UNCHANGED <<clock, links, views, cookie, made, states, accepted, begun>>
        BY <1>6, <2>2 DEF RenewSet, Goto
      <3>4. issued' \in Nat
        BY <3>3 DEF TypeOK
      <3> QED
        BY <3>1, <3>2, <3>3, <3>4 DEF TypeOK, Live
    <2>3. CASE q.known \notin Live
      BY <1>6, <2>3, EmptyTypes DEF RenewSet, Goto, TypeOK, Live
    <2> QED
      BY <2>2, <2>3
  <1>7. ASSUME NEW r \in Requests, Grant(r)
        PROVE  TypeOK'
    <2> DEFINE q == req[r]
    <2>1. q \in Request
      BY DEF TypeOK
    <2>2. CASE /\ q.sid \in Live
               /\ db' = [db EXCEPT ![q.sid].access = [link |-> q.link, at |-> clock]]
               /\ Goto(r, [q EXCEPT !.pc = "view"])
      <3>1. [q EXCEPT !.pc = "view"] \in Request
        BY <2>1 DEF Request, PCs
      <3>2. [link |-> q.link, at |-> clock] \in Access
        BY <2>1 DEF Request, Access, TypeOK
      <3>3. [db[q.sid] EXCEPT !.access = [link |-> q.link, at |-> clock]] \in Row
        BY <2>2, <3>2 DEF Row, TypeOK
      <3> QED
        BY <1>7, <2>2, <3>1, <3>3 DEF Grant, Goto, TypeOK, Live
    <2>3. CASE Goto(r, Refused(q)) /\ UNCHANGED db
      BY <1>7, <2>1, <2>3, RefusedType DEF Grant, Goto, TypeOK, Live
    <2> QED
      BY <1>7, <2>2, <2>3 DEF Grant
  <1>8. ASSUME NEW r \in Requests, RecordView(r)
        PROVE  TypeOK'
    <2>1. Answered(req[r]) \in Request
      BY AnsweredType DEF TypeOK
    <2>2. views' \in [Links -> Nat]
      <3> DEFINE l == req[r].link
                 n == views[l] + 1
      <3>1. views' = [views EXCEPT ![l] = n] /\ views \in [Links -> Nat]
        BY <1>8 DEF RecordView, TypeOK
      <3>2. CASE l \in Links
        <4>1. n \in Nat
          BY <3>1, <3>2
        <4> HIDE DEF n, l
        <4> QED
          BY <3>1, <4>1
      <3>3. CASE l \notin Links
        <4> HIDE DEF n, l
        <4> QED
          BY <3>1, <3>3
      <3> QED
        BY <3>2, <3>3
    <2> QED
      BY <1>8, <2>1, <2>2 DEF RecordView, Goto, TypeOK, Live
  <1>9. ASSUME NEW r \in Requests, End(r)
        PROVE  TypeOK'
    <2> DEFINE q == req[r]
               p == [q EXCEPT !.known = 0, !.new = 0, !.clear = TRUE]
    <2>1. p \in Request
      BY DEF TypeOK, Request
    <2>2. "answer" \in PCs /\ "renew" \in PCs
      BY DEF PCs
    <2>3. req' \in [Requests -> Request]
      BY <1>9, <2>1, <2>2, ContinueType DEF End, Goto, TypeOK
    <2>4. Live' = Live \ {q.known} /\ db' \in [Live' -> Row]
      BY <1>9 DEF End, Without, Live, TypeOK
    <2> QED
      BY <1>9, <2>3, <2>4 DEF End, TypeOK
  <1>10. ASSUME NEW r \in Requests, InsertLegacy(r)
         PROVE  TypeOK'
    <2>1. Answered(req[r]) \in Request
      BY AnsweredType DEF TypeOK
    <2>2. ASSUME NEW s \in Live, NEW l \in {"done", "pending"}
          PROVE  [db[s] EXCEPT !.legacy = l] \in Row
      BY DEF Row, TypeOK
    <2>3. db' \in [Live' -> Row] /\ Live' = Live
      BY <1>10, <2>2 DEF InsertLegacy, TypeOK, Live
    <2> QED
      BY <1>10, <2>1, <2>3 DEF InsertLegacy, Goto, TypeOK
  <1>11. ASSUME NEW r \in Requests, Gate(r)
         PROVE  TypeOK'
    <2>1. "answer" \in PCs /\ "dropAccess" \in PCs
      BY DEF PCs
    <2>2. req' \in [Requests -> Request]
      BY <1>11, <2>1, ContinueType DEF Gate, Goto, TypeOK
    <2> QED
      BY <1>11, <2>2 DEF Gate, TypeOK, Live
  <1>12. ASSUME NEW r \in Requests, DropAccess(r)
         PROVE  TypeOK'
    <2>1. Answered(req[r]) \in Request
      BY AnsweredType DEF TypeOK
    <2>2. \A s \in Live : [db[s] EXCEPT !.access = NoAccess] \in Row
      BY EmptyTypes DEF Row, TypeOK
    <2>3. db' \in [Live' -> Row] /\ Live' = Live
      BY <1>12, <2>2 DEF DropAccess, TypeOK, Live
    <2> QED
      BY <1>12, <2>1, <2>3 DEF DropAccess, Goto, TypeOK
  <1>13. ASSUME NEW r \in Requests, DropFlow(r)
         PROVE  TypeOK'
    <2> DEFINE q == req[r]
               i == IF q.new = 0 THEN q.known ELSE q.sid
    <2>1. q \in Request /\ i \in Nat /\ "insertFlow" \in PCs
      BY DEF TypeOK, Request, PCs
    <2>2. [q EXCEPT !.pc = "insertFlow", !.known = 0, !.sid = i] \in Request
      BY <2>1 DEF Request
    <2>3. \A s \in Live : FlowDropped(db[s]) \in Row
      BY EmptyTypes DEF FlowDropped, Row, TypeOK
    <2>4. db' \in [Live' -> Row] /\ Live' = Live
      BY <1>13, <2>3 DEF DropFlow, TypeOK, Live
    <2> QED
      BY <1>13, <2>2, <2>4 DEF DropFlow, Goto, TypeOK
  <1>14. ASSUME NEW r \in Requests, InsertFlow(r)
         PROVE  TypeOK'
    <2> DEFINE s == req[r].sid
               n == states + 1
    <2>1. Answered(req[r]) \in Request
      BY AnsweredType DEF TypeOK
    <2>2. n \in Nat
      BY DEF TypeOK
    <2>3. /\ \/ /\ s \in Live
                /\ db' = [db EXCEPT ![s].flow = [state |-> n, at |-> clock]]
             \/ db' = db
          /\ states' = n
          /\ req' = [req EXCEPT ![r] = Answered(req[r])]
          /\ UNCHANGED <<clock, links, views, cookie, issued, made, accepted, begun>>
      BY <1>14 DEF InsertFlow, Goto
    <2> HIDE DEF n
    <2>4. ASSUME s \in Live
          PROVE  [db[s] EXCEPT !.flow = [state |-> n, at |-> clock]] \in Row
      BY <2>2, <2>4 DEF Row, Flow, TypeOK
    <2> QED
      BY <2>1, <2>2, <2>3, <2>4 DEF TypeOK, Live
  <1>15. ASSUME NEW r \in Requests, TakeFlow(r)
         PROVE  TypeOK'
    <2> DEFINE q == req[r]
    <2>1. q \in Request /\ Answered(q) \in Request
      BY AnsweredType DEF TypeOK
    <2>2. [q EXCEPT !.pc = "exchange"] \in Request
      BY <2>1 DEF Request, PCs
    <2>3. req' \in [Requests -> Request]
      BY <1>15, <2>1, <2>2 DEF TakeFlow, Goto, TypeOK
    <2>4. FlowTaken(q.known) \in Nat
      BY DEF FlowTaken, TypeOK, Row, Flow
    <2>5. accepted' \subseteq Nat
      BY <1>15, <2>4 DEF TakeFlow, TypeOK
    <2>6. \A s \in Live : FlowDropped(db[s]) \in Row
      BY EmptyTypes DEF FlowDropped, Row, TypeOK
    <2>7. db' \in [Live' -> Row] /\ Live' = Live
      BY <1>15, <2>6 DEF TakeFlow, TypeOK, Live
    <2> QED
      BY <1>15, <2>3, <2>5, <2>7 DEF TakeFlow, TypeOK
  <1>16. ASSUME NEW r \in Requests, Exchange(r)
         PROVE  TypeOK'
    <2> DEFINE q == req[r]
    <2>1. q \in Request /\ Answered(q) \in Request
      BY AnsweredType DEF TypeOK
    <2>2. ASSUME NEW roles \in RoleSets
          PROVE  [q EXCEPT !.pc = "dropLogins", !.roles = roles] \in Request
      <3>1. roles \in SUBSET Roles /\ "dropLogins" \in PCs
        BY DEF RoleSets, Roles, PCs
      <3> QED
        BY <2>1, <3>1 DEF Request
    <2>3. req' \in [Requests -> Request]
      BY <1>16, <2>1, <2>2 DEF Exchange, Goto, TypeOK
    <2> QED
      BY <1>16, <2>3 DEF Exchange, TypeOK, Live
  <1>17. ASSUME NEW r \in Requests, DropLogins(r)
         PROVE  TypeOK'
    <2> DEFINE q == req[r]
    <2>1. q \in Request /\ Answered(q) \in Request
      BY AnsweredType DEF TypeOK
    <2>2. [q EXCEPT !.pc = "load", !.next = "renew", !.known = 0, !.before = issued]
            \in Request
      <3>1. "load" \in PCs /\ "renew" \in PCs /\ issued \in Nat
        BY DEF PCs, TypeOK
      <3> QED
        BY <2>1, <3>1 DEF Request
    <2>3. req' \in [Requests -> Request]
      BY <1>17, <2>1, <2>2 DEF DropLogins, Goto, TypeOK
    <2>4. \A s \in Live : LoginsDropped(db[s]) \in Row
      BY EmptyTypes DEF LoginsDropped, Row, TypeOK
    <2>5. db' \in [Live' -> Row] /\ Live' = Live
      BY <1>17, <2>4 DEF DropLogins, TypeOK, Live
    <2> QED
      BY <1>17, <2>3, <2>5 DEF DropLogins, TypeOK
  <1>18. ASSUME NEW r \in Requests, Record(r)
         PROVE  TypeOK'
    <2> DEFINE q == req[r]
               l == [before |-> q.before, at |-> clock, roles |-> q.roles]
    <2>1. Answered(q) \in Request
      BY AnsweredType DEF TypeOK
    <2>2. l \in Login
      BY DEF TypeOK, Request, Login
    <2>3. ASSUME q.sid \in Live
          PROVE  [db[q.sid] EXCEPT !.login = l] \in Row
      BY <2>2, <2>3 DEF Row, TypeOK
    <2>4. db' \in [Live' -> Row] /\ Live' = Live
      BY <1>18, <2>3 DEF Record, TypeOK, Live
    <2> QED
      BY <1>18, <2>1, <2>4 DEF Record, Goto, TypeOK
  <1>19. ASSUME NEW r \in Requests, Deliver(r) \/ Abort(r)
         PROVE  TypeOK'
    <2>1. cookie' \in [Browsers -> Nat]
      BY <1>19 DEF Deliver, Abort, TypeOK, Request
    <2> QED
      BY <1>19, <2>1, EmptyTypes DEF Deliver, Abort, Goto, TypeOK, Live
  <1>20. ASSUME NEW l \in Links, RevokeLink(l) \/ MoveExpiry(l)
         PROVE  TypeOK'
    BY <1>20 DEF RevokeLink, MoveExpiry, TypeOK, Live
  <1>21. CASE Tick
    BY <1>21 DEF Tick, TypeOK, Live
  <1>22. CASE CleanUp
    <2>1. \A s \in Live : WithoutExpiredParts(db[s]) \in Row
      BY CleanedRowType DEF TypeOK
    <2>2. Live' \subseteq Live /\ db' \in [Live' -> Row]
      BY <1>22, <2>1 DEF CleanUp, TypeOK, Live
    <2> QED
      BY <1>22, <2>2 DEF CleanUp, TypeOK
  <1>23. CASE UNCHANGED vars
    BY <1>23 DEF vars, TypeOK, Live
  <1> QED
    BY <1>1, <1>2, <1>3, <1>4, <1>5, <1>6, <1>7, <1>8, <1>9, <1>10, <1>11, <1>12,
       <1>13, <1>14, <1>15, <1>16, <1>17, <1>18, <1>19, <1>20, <1>21, <1>22, <1>23
       DEF Next, Handler

\* Type correctness, whatever the number of browsers, requests and links.
THEOREM TypeCorrect == Spec => []TypeOK
  <1>1. Init => TypeOK
    BY EmptyTypes DEF Init, TypeOK, Live
  <1> QED
    BY <1>1, TypeStep, PTL DEF Spec

-----------------------------------------------------------------------------
(* A deleted session stays deleted.                                         *)

\* The only row a step can add is one under the next number.
LEMMA LiveStep == TypeOK /\ [Next]_vars => Live' \subseteq Live \cup {made + 1}
  <1> SUFFICES ASSUME TypeOK, [Next]_vars
               PROVE  Live' \subseteq Live \cup {made + 1}
    OBVIOUS
  <1>1. ASSUME NEW r \in Requests, Renew(r)
        PROVE  Live' \subseteq Live \cup {made + 1}
    BY <1>1 DEF Renew, With, Live, TypeOK
  <1>2. ASSUME NEW r \in Requests,
               \/ LoadParts(r) \/ RenewSet(r) \/ Grant(r) \/ End(r)
               \/ InsertLegacy(r) \/ DropAccess(r) \/ DropFlow(r)
               \/ InsertFlow(r) \/ TakeFlow(r) \/ DropLogins(r) \/ Record(r)
        PROVE  Live' \subseteq Live
    BY <1>2 DEF LoadParts, RenewSet, Grant, End, InsertLegacy, DropAccess, DropFlow,
                InsertFlow, TakeFlow, DropLogins, Record, Without, Live, TypeOK
  <1>3. ASSUME NEW r \in Requests, NEW op \in Ops,
               \/ Begin(r, op) \/ Validate(r) \/ LoadRow(r) \/ RecordView(r)
               \/ Gate(r) \/ Exchange(r) \/ Deliver(r) \/ Abort(r)
        PROVE  db' = db
    BY <1>3 DEF Begin, Validate, LoadRow, RecordView, Gate, Exchange, Deliver, Abort
  <1>4. ASSUME NEW r \in Requests,
               \/ Validate(r) \/ LoadRow(r) \/ RecordView(r)
               \/ Gate(r) \/ Exchange(r) \/ Deliver(r) \/ Abort(r)
        PROVE  db' = db
    BY <1>4 DEF Validate, LoadRow, RecordView, Gate, Exchange, Deliver, Abort
  <1>5. ASSUME NEW l \in Links, RevokeLink(l) \/ MoveExpiry(l)
        PROVE  db' = db
    BY <1>5 DEF RevokeLink, MoveExpiry
  <1>6. CASE Tick \/ UNCHANGED vars
    BY <1>6 DEF Tick, vars, Live
  <1>7. CASE CleanUp
    BY <1>7 DEF CleanUp, Live
  <1> QED
    BY <1>1, <1>2, <1>3, <1>4, <1>5, <1>6, <1>7 DEF Next, Handler, Live

\* A request that still remembers a deleted session never writes it back.
THEOREM DeletedRowsStayDeleted == Spec => DeletedStaysDeleted
  <1>1. TypeOK /\ [Next]_vars
            => [\A s \in 1 .. made : s \notin Live => s \notin Live']_vars
    BY LiveStep DEF TypeOK
  <1> QED
    BY <1>1, TypeCorrect, PTL DEF Spec, DeletedStaysDeleted

-----------------------------------------------------------------------------
(* The clean-up and the reads agree.                                        *)

\* A cleaned row gives what the row gave.
LEMMA CleanedRowGivesTheSame ==
    ASSUME NEW row \in Row
    PROVE  LET c == WithoutExpiredParts(row) IN
           /\ c.token = row.token /\ c.seen = row.seen
           /\ RolesAt(c, clock) = RolesAt(row, clock)
           /\ LegacyAt(c, clock) = LegacyAt(row, clock)
           /\ LinkAt(c, clock) = LinkAt(row, clock)
           /\ (IF Expired(c.flow.at, FlowLife, clock) THEN 0 ELSE c.flow.state)
                = (IF Expired(row.flow.at, FlowLife, clock) THEN 0 ELSE row.flow.state)
  <1> DEFINE c == WithoutExpiredParts(row)
  <1>1. /\ c.token = row.token /\ c.seen = row.seen /\ c.created = row.created
        /\ c.login = IF Expired(row.login.at, LoginLife, clock) THEN NoLogin ELSE row.login
        /\ c.flow = IF Expired(row.flow.at, FlowLife, clock) THEN NoFlow ELSE row.flow
        /\ c.access = IF Expired(row.access.at, AccessLife, clock) THEN NoAccess
                                                                   ELSE row.access
        /\ c.legacy = IF Expired(row.created, LoginLife, clock) THEN "none" ELSE row.legacy
    BY DEF WithoutExpiredParts, Row
  <1> HIDE DEF c
  <1>2. RolesAt(c, clock) = RolesAt(row, clock)
    BY <1>1 DEF RolesAt, NoLogin
  <1>3. LegacyAt(c, clock) = LegacyAt(row, clock)
    BY <1>1 DEF LegacyAt
  <1>4. LinkAt(c, clock) = LinkAt(row, clock)
    BY <1>1 DEF LinkAt, NoAccess
  <1>5. (IF Expired(c.flow.at, FlowLife, clock) THEN 0 ELSE c.flow.state)
          = (IF Expired(row.flow.at, FlowLife, clock) THEN 0 ELSE row.flow.state)
    BY <1>1 DEF NoFlow
  <1> QED
    BY <1>1, <1>2, <1>3, <1>4, <1>5 DEF c

\* No request can tell whether the hourly clean-up has run.
THEOREM CleanUpInvisible == Spec => CleanUpIsInvisible
  <1>1. ASSUME TypeOK, CleanUp, NEW t
        PROVE  Given(t)' = Given(t)
    <2>1. /\ db' = [s \in {i \in Live : ~Expired(db[i].seen, Idle, clock)} |->
                        WithoutExpiredParts(db[s])]
          /\ clock' = clock
      BY <1>1 DEF CleanUp
    <2>2. Live' = {i \in Live : ~Expired(db[i].seen, Idle, clock)}
      BY <2>1 DEF Live
    <2>3. \A i \in Live' : db'[i] = WithoutExpiredParts(db[i]) /\ db[i] \in Row
      BY <1>1, <2>1, <2>2 DEF TypeOK
    <2>4. {i \in Live : Matches(i, t, clock)}' = {i \in Live : Matches(i, t, clock)}
      BY <2>1, <2>2, <2>3, CleanedRowGivesTheSame DEF Matches
    <2>5. ASSUME NEW i \in {j \in Live : Matches(j, t, clock)}
          PROVE  /\ RolesAt(db[i], clock)' = RolesAt(db[i], clock)
                 /\ LegacyAt(db[i], clock)' = LegacyAt(db[i], clock)
                 /\ LinkAt(db[i], clock)' = LinkAt(db[i], clock)
                 /\ FlowTaken(i)' = FlowTaken(i)
      <3>1. i \in Live /\ i \in Live'
        BY <2>2 DEF Matches
      <3>2. db'[i] = WithoutExpiredParts(db[i]) /\ db[i] \in Row
        BY <2>3, <3>1
      <3>3. /\ RolesAt(db[i], clock)' = RolesAt(db'[i], clock)
            /\ LegacyAt(db[i], clock)' = LegacyAt(db'[i], clock)
            /\ LinkAt(db[i], clock)' = LinkAt(db'[i], clock)
        BY <2>1 DEF RolesAt, LegacyAt, LinkAt, Expired
      <3>4. FlowTaken(i)' = IF Expired(db'[i].flow.at, FlowLife, clock)
                            THEN 0 ELSE db'[i].flow.state
        BY <2>1, <3>1 DEF FlowTaken, Expired
      <3>5. FlowTaken(i) = IF Expired(db[i].flow.at, FlowLife, clock)
                           THEN 0 ELSE db[i].flow.state
        BY <3>1 DEF FlowTaken
      <3> QED
        BY <3>2, <3>3, <3>4, <3>5, CleanedRowGivesTheSame
    <2> QED
      BY <2>4, <2>5 DEF Given
  <1>2. TypeOK /\ [Next]_vars
            => [CleanUp => \A t \in 1 .. issued : Given(t)' = Given(t)]_vars
    BY <1>1
  <1> QED
    BY <1>2, TypeCorrect, PTL DEF Spec, CleanUpIsInvisible

-----------------------------------------------------------------------------
(* A login opens only with a token handed out after it began.               *)

\* The steps a handler can have ahead of it while it reads the session.
NextSteps == {"idle", "gate", "renew", "end", "dropFlow", "takeFlow", "dropLogins"}

\* No row has a token that was not handed out, and none with a login one from
\* before that login.
RowsFresh ==
    \A s \in Live : /\ db[s].token <= issued
                    /\ db[s].login # NoLogin => db[s].login.before < db[s].token

\* A callback about to record its login has renewed the session since it
\* dropped the logins before it.
RequestsFresh ==
    \A r \in Requests :
        /\ req[r].next \in NextSteps
        /\ req[r].before <= issued
        /\ req[r].pc = "record" /\ req[r].sid \in Live
                => req[r].before < db[req[r].sid].token

\* The inductive invariant: a row's token is only ever replaced by a newer one,
\* so what has been true of it stays true.
FreshInv == TypeOK /\ RowsFresh /\ RequestsFresh

\* A request in a step that is not the last one of a callback.
Plain(q) == q.next \in NextSteps /\ q.before <= issued /\ q.pc # "record"

\* What is left of a finished handler is plain, and so is a handler that goes on.
LEMMA PlainAnswers ==
    ASSUME issued \in Nat, NEW q \in Request
    PROVE  /\ Plain(NoRequest) /\ Plain(Answered(q)) /\ Plain(Refused(q))
           /\ \A pc \in PCs \ {"record"} :
                q.next \in NextSteps /\ q.before <= issued => Plain(Continue(q, pc))
  <1>1. Plain(NoRequest)
    BY DEF Plain, NoRequest, NextSteps
  <1>2. \A p : Plain(Answered(p))
    BY DEF Plain, Answered, NoRequest, NextSteps
  <1>3. Plain(Refused(q))
    BY <1>2 DEF Refused
  <1>4. \A pc \in PCs \ {"record"} :
            q.next \in NextSteps /\ q.before <= issued => Plain(Continue(q, pc))
    BY <1>2 DEF Continue, Plain, Request
  <1> QED
    BY <1>1, <1>2, <1>3, <1>4

\* No step of a handler's choosing is the one that records a login.
LEMMA PlainChoices ==
    ASSUME NEW q \in Request, q.next \in NextSteps, NEW row
    PROVE  /\ WithoutSession(q) \in PCs \ {"record"}
           /\ WithSession(q, row) \subseteq PCs \ {"record"}
  BY DEF WithoutSession, WithSession, NextSteps, PCs, Request

\* A step that hands out no token, gives no row a login and takes no request to
\* the recording of one keeps the invariant.
LEMMA QuietStep ==
    ASSUME FreshInv, TypeOK', issued' = issued,
           Live' \subseteq Live,
           \A s \in Live' : /\ db'[s].token = db[s].token
                            /\ db'[s].login \in {db[s].login, NoLogin},
           \A r \in Requests : req'[r] = req[r] \/ Plain(req'[r])
    PROVE  FreshInv'
  <1>1. RowsFresh'
    BY DEF FreshInv, RowsFresh
  <1>2. RequestsFresh'
    BY DEF FreshInv, RequestsFresh, Plain
  <1> QED
    BY <1>1, <1>2 DEF FreshInv

\* Every step keeps the invariant.
LEMMA FreshStep == FreshInv /\ [Next]_vars => FreshInv'
  <1> SUFFICES ASSUME FreshInv, [Next]_vars
               PROVE  FreshInv'
    OBVIOUS
  <1> USE SessionsAssumption
  <1>0. TypeOK' /\ TypeOK /\ issued \in Nat
    BY TypeStep DEF FreshInv, TypeOK
  <1>q. \A r \in Requests : req[r] \in Request
    BY <1>0 DEF TypeOK
  <1>1. ASSUME NEW r \in Requests, NEW op \in Ops, Begin(r, op)
        PROVE  FreshInv'
    <2>1. PICK param, link, done :
            Goto(r, [NoRequest EXCEPT
                !.pc = IF op = "redeem" THEN "validate" ELSE "load",
                !.next = First(op), !.op = op, !.param = param,
                !.link = link, !.done = done,
                !.cookie = CookieFor(r, op)])
      BY <1>1 DEF Begin
    <2>2. First(op) \in NextSteps
      BY DEF SessionsAssumption, AllOps, First, NextSteps
    <2>3. Plain(req'[r])
      BY <1>0, <2>1, <2>2 DEF Goto, Plain, NoRequest, TypeOK
    <2>4. \A o \in Requests : req'[o] = req[o] \/ Plain(req'[o])
      BY <1>0, <2>1, <2>3 DEF Goto, TypeOK
    <2> QED
      BY <1>0, <1>1, <2>4, QuietStep DEF Begin, Live
  <1>2. ASSUME NEW r \in Requests, Validate(r) \/ Gate(r) \/ RecordView(r)
        PROVE  FreshInv'
    <2>1. {"load", "answer", "dropAccess"} \subseteq PCs \ {"record"}
      BY DEF PCs
    <2>2. Plain(req'[r]) /\ \A o \in Requests \ {r} : req'[o] = req[o]
      BY <1>0, <1>q, <1>2, <2>1, PlainAnswers
         DEF Validate, Gate, RecordView, Goto, TypeOK, FreshInv, RequestsFresh
    <2> QED
      BY <1>0, <1>2, <2>2, QuietStep DEF Validate, Gate, RecordView, Live
  <1>3. ASSUME NEW r \in Requests, LoadRow(r)
        PROVE  FreshInv'
    <2> DEFINE q == req[r]
    <2>1. q \in Request /\ q.next \in NextSteps /\ q.before <= issued
      BY <1>q DEF FreshInv, RequestsFresh
    <2>2. CASE \E s \in Live :
                  Goto(r, [q EXCEPT !.pc = "parts", !.known = s, !.moment = clock])
      <3>1. \A s : Plain([q EXCEPT !.pc = "parts", !.known = s, !.moment = clock])
        BY <2>1 DEF Plain, Request
      <3>2. \A o \in Requests : req'[o] = req[o] \/ Plain(req'[o])
        <4>1. PICK s \in Live :
                req' = [req EXCEPT ![r] = [q EXCEPT !.pc = "parts", !.known = s,
                                                    !.moment = clock]]
          BY <2>2 DEF Goto
        <4> DEFINE p == [q EXCEPT !.pc = "parts", !.known = s, !.moment = clock]
        <4>2. Plain(p)
          BY <3>1
        <4> HIDE DEF p
        <4> QED
          BY <1>0, <4>1, <4>2 DEF TypeOK, p
      <3> QED
        <4>1. db' = db /\ issued' = issued
          BY <1>3 DEF LoadRow
        <4> QED
          BY <1>0, <3>2, <4>1, QuietStep DEF Live
    <2>3. CASE \E c \in BOOLEAN : Goto(r, Continue([q EXCEPT !.known = 0, !.clear = c],
                                                   WithoutSession(q)))
      <3>1. PICK c \in BOOLEAN : Goto(r, Continue([q EXCEPT !.known = 0, !.clear = c],
                                                  WithoutSession(q)))
        BY <2>3
      <3> DEFINE p == [q EXCEPT !.known = 0, !.clear = c]
      <3>2. p \in Request /\ p.next \in NextSteps /\ p.before <= issued
        BY <2>1 DEF Request
      <3>3. Plain(Continue(p, WithoutSession(q)))
        BY <1>0, <2>1, <3>2, PlainAnswers, PlainChoices
      <3> QED
        BY <1>0, <1>3, <3>1, <3>3, QuietStep DEF Goto, TypeOK, LoadRow, Live
    <2> QED
      BY <1>3, <2>2, <2>3 DEF LoadRow
  <1>4. ASSUME NEW r \in Requests, LoadParts(r)
        PROVE  FreshInv'
    <2> DEFINE q == req[r]
    <2>1. q \in Request /\ q.next \in NextSteps /\ q.before <= issued
      BY <1>q DEF FreshInv, RequestsFresh
    <2>2. CASE q.known \in Live
      <3> DEFINE row == db[q.known]
                 l == IF q.op = "visit" THEN LinkAt(row, q.moment) ELSE q.link
                 p == [q EXCEPT !.moment = 0, !.link = l]
      <3>1. l \in Links \cup {NoLink}
        BY <1>0, <2>1, <2>2 DEF LinkAt, Request, Row, Access, TypeOK
      <3>2. p \in Request /\ p.next \in NextSteps /\ p.before <= issued
        BY <2>1, <3>1 DEF Request
      <3>3. \A pc \in WithSession(q, row) : Plain(Continue(p, pc))
        BY <1>0, <2>1, <3>2, PlainAnswers, PlainChoices
      <3>4. /\ db' = [db EXCEPT ![q.known].seen = q.moment]
            /\ \E pc \in WithSession(q, row) : req' = [req EXCEPT ![r] = Continue(p, pc)]
            /\ issued' = issued
        BY <1>4, <2>2 DEF LoadParts, Goto
      <3>5. \A o \in Requests : req'[o] = req[o] \/ Plain(req'[o])
        BY <1>0, <3>3, <3>4 DEF TypeOK
      <3>6. Live' = Live /\ \A s \in Live : /\ db'[s].token = db[s].token
                                            /\ db'[s].login = db[s].login
        BY <1>0, <3>4 DEF Live, TypeOK, Row
      <3> QED
        BY <1>0, <3>4, <3>5, <3>6, QuietStep
    <2>3. CASE q.known \notin Live
      <3>1. \A o \in Requests : req'[o] = req[o] \/ Plain(req'[o])
        BY <1>0, <1>4, <2>1, <2>3, PlainAnswers DEF LoadParts, Goto, TypeOK
      <3> QED
        BY <1>0, <1>4, <2>3, <3>1, QuietStep DEF LoadParts, Live
    <2> QED
      BY <2>2, <2>3
  <1>5. ASSUME NEW r \in Requests, NEW s \in Nat,
               req' = [req EXCEPT ![r] = Renewed(req[r], s)],
               issued' = issued + 1,
               s \in Live', db'[s].token = issued + 1,
               s \in Live => db'[s].login = db[s].login,
               s \notin Live => db'[s].login = NoLogin,
               Live' = Live \cup {s}, \A i \in Live \ {s} : db'[i] = db[i]
        PROVE  FreshInv'
    <2> DEFINE q == req[r]
               p == [q EXCEPT !.known = 0, !.sid = s, !.new = issued + 1]
    <2>1. q \in Request /\ q.next \in NextSteps /\ q.before <= issued
      BY <1>q DEF FreshInv, RequestsFresh
    <2>2. /\ p.next = q.next /\ p.before = q.before /\ p.sid = s
          /\ \A pc \in PCs : [p EXCEPT !.pc = pc].next = q.next
                          /\ [p EXCEPT !.pc = pc].before = q.before
                          /\ [p EXCEPT !.pc = pc].sid = s
      BY <2>1 DEF Request
    <2>3. AfterRenew(q.op) \in PCs
      BY <2>1, AfterRenewType DEF Request
    <2>4. Plain(Answered(p))
      BY <1>0 DEF Plain, Answered, NoRequest, NextSteps
    <2>5. req'[r] = Renewed(q, s) /\ \A o \in Requests \ {r} : req'[o] = req[o]
      BY <1>0, <1>5 DEF TypeOK
    <2>6. /\ req'[r].next \in NextSteps /\ req'[r].before <= issued
          /\ req'[r].pc = "record" => req'[r].sid = s
      <3>1. CASE AfterRenew(q.op) = "answer"
        <4>1. Renewed(q, s) = Answered(p)
          BY <3>1 DEF Renewed, Continue
        <4> QED
          BY <2>4, <2>5, <4>1 DEF Plain
      <3>2. CASE AfterRenew(q.op) # "answer"
        <4>1. Renewed(q, s) = [p EXCEPT !.pc = AfterRenew(q.op)]
          BY <3>2 DEF Renewed, Continue
        <4> QED
          BY <2>1, <2>2, <2>3, <2>5, <4>1
      <3> QED
        BY <3>1, <3>2
    <2>7. \A i \in Live : db[i].token \in Nat /\ db[i].login.before \in Nat
      BY <1>0 DEF TypeOK, Row, Login
    <2>8. RowsFresh'
      <3> SUFFICES ASSUME NEW i \in Live'
                   PROVE  /\ db'[i].token <= issued'
                          /\ db'[i].login # NoLogin => db'[i].login.before < db'[i].token
        BY DEF RowsFresh
      <3>1. CASE i # s
        <4>1. i \in Live /\ db'[i] = db[i] /\ issued' = issued + 1
          BY <1>5, <3>1
        <4>2. /\ db[i].token <= issued
              /\ db[i].login # NoLogin => db[i].login.before < db[i].token
          BY <4>1 DEF FreshInv, RowsFresh
        <4>3. db[i].token <= issued + 1
          BY <1>0, <2>7, <4>1, <4>2
        <4> QED
          BY <4>1, <4>2, <4>3
      <3>2. CASE i = s
        <4> DEFINE b == db[i].login.before
                   t == db[i].token
        <4>1. ASSUME db'[i].login # NoLogin
              PROVE  i \in Live /\ db'[i].login = db[i].login /\ b < t /\ t <= issued
          BY <1>5, <3>2, <4>1 DEF FreshInv, RowsFresh
        <4>2. ASSUME db'[i].login # NoLogin
              PROVE  b < issued + 1
          <5>1. b \in Nat /\ t \in Nat
            BY <2>7, <4>1, <4>2
          <5>2. b < t /\ t <= issued
            BY <4>1, <4>2
          <5> HIDE DEF b, t
          <5> QED
            BY <1>0, <5>1, <5>2
        <4>3. db'[i].token = issued' /\ issued' = issued + 1 /\ issued' \in Nat
          BY <1>0, <1>5, <3>2
        <4>4. issued' <= issued'
          BY <4>3
        <4> QED
          BY <4>1, <4>2, <4>3, <4>4
      <3> QED
        BY <3>1, <3>2
    <2>9. RequestsFresh'
      <3> SUFFICES ASSUME NEW o \in Requests
                   PROVE  /\ req'[o].next \in NextSteps
                          /\ req'[o].before <= issued'
                          /\ req'[o].pc = "record" /\ req'[o].sid \in Live'
                                => req'[o].before < db'[req'[o].sid].token
        BY DEF RequestsFresh
      <3>0. req[o].before \in Nat /\ req'[r].before \in Nat
        BY <1>0, <1>q DEF TypeOK, Request
      <3>1. CASE o = r
        BY <1>0, <1>5, <2>6, <3>0, <3>1
      <3>2. CASE o # r
        <4>1. req'[o] = req[o] /\ issued' = issued + 1
          BY <1>5, <2>5, <3>2
        <4>2. /\ req[o].next \in NextSteps /\ req[o].before <= issued
              /\ req[o].pc = "record" /\ req[o].sid \in Live
                    => req[o].before < db[req[o].sid].token
          BY DEF FreshInv, RequestsFresh
        <4>3. req[o].before <= issued + 1 /\ req[o].before < issued + 1
          BY <1>0, <3>0, <4>2
        <4>4. ASSUME req[o].pc = "record", req[o].sid \in Live'
              PROVE  req[o].before < db'[req[o].sid].token
          <5>1. CASE req[o].sid = s
            BY <1>5, <4>3, <5>1
          <5>2. CASE req[o].sid # s
            BY <1>5, <4>2, <4>4, <5>2
          <5> QED
            BY <5>1, <5>2
        <4> QED
          BY <4>1, <4>2, <4>3, <4>4
      <3> QED
        BY <3>1, <3>2
    <2> QED
      BY <1>0, <2>8, <2>9 DEF FreshInv
  <1>6. ASSUME NEW r \in Requests, Renew(r)
        PROVE  FreshInv'
    <2> DEFINE q == req[r]
    <2>1. CASE q.known \in Live
      <3>1. Plain([q EXCEPT !.pc = "renewSet"])
        BY <1>q DEF FreshInv, RequestsFresh, Plain, Request
      <3>2. \A o \in Requests : req'[o] = req[o] \/ Plain(req'[o])
        BY <1>0, <1>6, <2>1, <3>1 DEF Renew, Goto, TypeOK
      <3>3. db' = db /\ issued' = issued
        BY <1>6, <2>1 DEF Renew
      <3> QED
        BY <1>0, <3>2, <3>3, QuietStep DEF Live
    <2>2. CASE q.known \notin Live
      <3> DEFINE n == made + 1
      <3>1. n \in Nat /\ n \notin Live
        BY <1>0 DEF TypeOK
      <3>2. /\ db' = [i \in Live \cup {n} |-> IF i = n THEN NewRow(issued + 1) ELSE db[i]]
            /\ issued' = issued + 1
            /\ req' = [req EXCEPT ![r] = Renewed(req[r], n)]
        BY <1>6, <2>2 DEF Renew, Goto, With
      <3>3. NewRow(issued + 1).token = issued + 1 /\ NewRow(issued + 1).login = NoLogin
        BY DEF NewRow
      <3> HIDE DEF n
      <3>4. Live' = Live \cup {n} /\ db'[n].token = issued + 1 /\ db'[n].login = NoLogin
        BY <3>2, <3>3 DEF Live
      <3> QED
        BY <1>5, <3>1, <3>2, <3>4
    <2> QED
      BY <2>1, <2>2
  <1>7. ASSUME NEW r \in Requests, RenewSet(r)
        PROVE  FreshInv'
    <2> DEFINE q == req[r]
    <2>1. CASE q.known \in Live
      <3>1. q.known \in Nat /\ db[q.known] \in Row
        BY <1>q, <2>1, <1>0 DEF Request, TypeOK
      <3>2. /\ db' = [db EXCEPT ![q.known] = Retokened(db[q.known])]
            /\ issued' = issued + 1
            /\ req' = [req EXCEPT ![r] = Renewed(req[r], q.known)]
        BY <1>7, <2>1 DEF RenewSet, Goto
      <3>3. /\ Retokened(db[q.known]).token = issued + 1
            /\ Retokened(db[q.known]).login = db[q.known].login
        <4>1. \A n : /\ [db[q.known] EXCEPT !.token = n].token = n
                     /\ [db[q.known] EXCEPT !.token = n].login = db[q.known].login
          BY <3>1 DEF Row
        <4> QED
          BY <4>1 DEF Retokened
      <3>4. /\ Live' = Live /\ db'[q.known] = Retokened(db[q.known])
            /\ \A i \in Live \ {q.known} : db'[i] = db[i]
        BY <1>0, <2>1, <3>2 DEF TypeOK, Live
      <3>5. /\ q.known \in Live' /\ Live' = Live \cup {q.known}
            /\ db'[q.known].token = issued + 1
            /\ db'[q.known].login = db[q.known].login
        BY <2>1, <3>3, <3>4
      <3> QED
        BY <1>5, <2>1, <3>1, <3>2, <3>4, <3>5
    <2>2. CASE q.known \notin Live
      <3>1. \A o \in Requests : req'[o] = req[o] \/ Plain(req'[o])
        BY <1>0, <1>7, <1>q, <2>2, PlainAnswers DEF RenewSet, Goto, TypeOK
      <3>2. db' = db /\ issued' = issued
        BY <1>7, <2>2 DEF RenewSet
      <3> QED
        BY <1>0, <3>1, <3>2, QuietStep DEF Live
    <2> QED
      BY <2>1, <2>2
  <1>8. ASSUME NEW r \in Requests,
               \/ Grant(r) \/ InsertLegacy(r) \/ DropAccess(r) \/ InsertFlow(r)
        PROVE  FreshInv'
    <2> DEFINE q == req[r]
    <2>1. Plain([q EXCEPT !.pc = "view"])
      BY <1>q DEF FreshInv, RequestsFresh, Plain, Request
    <2>2. \A o \in Requests : req'[o] = req[o] \/ Plain(req'[o])
      BY <1>0, <1>8, <1>q, <2>1, PlainAnswers
         DEF Grant, InsertLegacy, DropAccess, InsertFlow, Goto, TypeOK
    <2>3. issued' = issued
      BY <1>8 DEF Grant, InsertLegacy, DropAccess, InsertFlow
    <2>4. /\ Live' = Live
          /\ \A s \in Live : db'[s].token = db[s].token /\ db'[s].login = db[s].login
      <3>1. CASE Grant(r)
        BY <1>0, <3>1 DEF Grant, Live, TypeOK, Row
      <3>2. CASE InsertLegacy(r)
        BY <1>0, <3>2 DEF InsertLegacy, Live, TypeOK, Row
      <3>3. CASE DropAccess(r)
        BY <1>0, <3>3 DEF DropAccess, Live, TypeOK, Row
      <3>4. CASE InsertFlow(r)
        <4> DEFINE f == [state |-> states + 1, at |-> clock]
        <4>1. \/ q.sid \in Live /\ db' = [db EXCEPT ![q.sid].flow = f]
              \/ db' = db
          BY <3>4 DEF InsertFlow
        <4> HIDE DEF f
        <4> QED
          BY <1>0, <4>1 DEF Live, TypeOK, Row
      <3> QED
        BY <1>8, <3>1, <3>2, <3>3, <3>4
    <2> QED
      BY <1>0, <2>2, <2>3, <2>4, QuietStep
  <1>9. ASSUME NEW r \in Requests,
               \/ End(r) \/ DropFlow(r) \/ TakeFlow(r) \/ Exchange(r) \/ DropLogins(r)
        PROVE  FreshInv'
    <2> DEFINE q == req[r]
    <2>1. q \in Request /\ q.next \in NextSteps /\ q.before <= issued
      BY <1>q DEF FreshInv, RequestsFresh
    <2>2. Plain(req'[r]) /\ \A o \in Requests \ {r} : req'[o] = req[o]
      <3>1. CASE End(r)
        <4>1. {"answer", "renew"} \subseteq PCs \ {"record"}
          BY DEF PCs
        <4>2. [q EXCEPT !.known = 0, !.new = 0, !.clear = TRUE] \in Request
          BY <2>1 DEF Request
        <4>3. /\ [q EXCEPT !.known = 0, !.new = 0, !.clear = TRUE].next = q.next
              /\ [q EXCEPT !.known = 0, !.new = 0, !.clear = TRUE].before = q.before
          BY <2>1 DEF Request
        <4> QED
          BY <1>0, <2>1, <3>1, <4>1, <4>2, <4>3, PlainAnswers DEF End, Goto, TypeOK
      <3>2. CASE DropFlow(r)
        <4>1. \A i : Plain([q EXCEPT !.pc = "insertFlow", !.known = 0, !.sid = i])
          BY <2>1 DEF Plain, Request
        <4> QED
          BY <1>0, <3>2, <4>1 DEF DropFlow, Goto, TypeOK
      <3>3. CASE TakeFlow(r)
        <4>1. Plain([q EXCEPT !.pc = "exchange"])
          BY <2>1 DEF Plain, Request
        <4> QED
          BY <1>0, <2>1, <3>3, <4>1, PlainAnswers DEF TakeFlow, Goto, TypeOK
      <3>4. CASE Exchange(r)
        <4>1. \A i : Plain([q EXCEPT !.pc = "dropLogins", !.roles = i])
          BY <2>1 DEF Plain, Request
        <4>2. Plain(Answered(q))
          BY <1>0, <2>1, PlainAnswers
        <4>3. \E p : Plain(p) /\ req' = [req EXCEPT ![r] = p]
          BY <3>4, <4>1, <4>2 DEF Exchange, Goto
        <4> QED
          BY <1>0, <4>3 DEF TypeOK
      <3>5. CASE DropLogins(r)
        <4>1. issued <= issued /\ "renew" \in NextSteps
          BY <1>0 DEF NextSteps
        <4>2. Plain([q EXCEPT !.pc = "load", !.next = "renew", !.known = 0,
                              !.before = issued])
          BY <2>1, <4>1 DEF Plain, Request
        <4> QED
          BY <1>0, <2>1, <3>5, <4>2, PlainAnswers DEF DropLogins, Goto, TypeOK
      <3> QED
        BY <1>9, <3>1, <3>2, <3>3, <3>4, <3>5
    <2>3. issued' = issued
      BY <1>9 DEF End, DropFlow, TakeFlow, Exchange, DropLogins
    <2>4. /\ Live' \subseteq Live
          /\ \A s \in Live' : /\ db'[s].token = db[s].token
                              /\ db'[s].login \in {db[s].login, NoLogin}
      <3>1. \A s \in Live : /\ FlowDropped(db[s]).token = db[s].token
                            /\ FlowDropped(db[s]).login = db[s].login
                            /\ LoginsDropped(db[s]).token = db[s].token
                            /\ LoginsDropped(db[s]).login = NoLogin
        BY <1>0 DEF TypeOK, Row, FlowDropped, LoginsDropped
      <3>2. CASE End(r) \/ Exchange(r)
        BY <3>2 DEF End, Exchange, Without, Live
      <3>3. CASE DropFlow(r) \/ TakeFlow(r) \/ DropLogins(r)
        BY <3>1, <3>3 DEF DropFlow, TakeFlow, DropLogins, Live
      <3> QED
        BY <1>9, <3>2, <3>3
    <2> QED
      BY <1>0, <2>2, <2>3, <2>4, QuietStep
  <1>10. ASSUME NEW r \in Requests, Record(r)
         PROVE  FreshInv'
    <2> DEFINE q == req[r]
               l == [before |-> q.before, at |-> clock, roles |-> q.roles]
    <2>1. Plain(Answered(q))
      BY <1>0, <1>q, PlainAnswers
    <2>2. \A o \in Requests : req'[o] = req[o] \/ Plain(req'[o])
      BY <1>0, <1>10, <2>1 DEF Record, Goto, TypeOK
    <2>3. issued' = issued
      BY <1>10 DEF Record
    <2>4. CASE q.sid \in Live /\ db' = [db EXCEPT ![q.sid].login = l]
      <3>1. q.before < db[q.sid].token /\ l.before = q.before
        BY <1>10, <2>4 DEF Record, FreshInv, RequestsFresh
      <3>2. /\ Live' = Live /\ db'[q.sid].login = l
            /\ \A s \in Live : db'[s].token = db[s].token
            /\ \A s \in Live \ {q.sid} : db'[s] = db[s]
        BY <1>0, <2>4 DEF Live, TypeOK, Row
      <3> HIDE DEF l
      <3>3. RowsFresh'
        BY <2>3, <2>4, <3>1, <3>2 DEF FreshInv, RowsFresh
      <3>4. RequestsFresh'
        BY <2>2, <2>3, <3>2 DEF FreshInv, RequestsFresh, Plain
      <3> QED
        BY <1>0, <3>3, <3>4 DEF FreshInv
    <2>5. CASE db' = db
      BY <1>0, <2>2, <2>3, <2>5, QuietStep DEF Live
    <2> QED
      BY <1>10, <2>4, <2>5 DEF Record
  <1>11. ASSUME NEW r \in Requests, Deliver(r) \/ Abort(r)
         PROVE  FreshInv'
    <2>1. \A o \in Requests : req'[o] = req[o] \/ Plain(req'[o])
      BY <1>0, <1>11, <1>q, PlainAnswers DEF Deliver, Abort, Goto, TypeOK
    <2>2. db' = db /\ issued' = issued
      BY <1>11 DEF Deliver, Abort
    <2> QED
      BY <1>0, <2>1, <2>2, QuietStep DEF Live
  <1>12. CASE CleanUp
    <2>1. \A s \in Live : LET c == WithoutExpiredParts(db[s]) IN
              c.token = db[s].token /\ c.login \in {db[s].login, NoLogin}
      BY <1>0 DEF TypeOK, Row, WithoutExpiredParts
    <2>2. /\ Live' \subseteq Live
          /\ \A s \in Live' : /\ db'[s].token = db[s].token
                              /\ db'[s].login \in {db[s].login, NoLogin}
      BY <1>12, <2>1 DEF CleanUp, Live
    <2>3. req' = req /\ issued' = issued
      BY <1>12 DEF CleanUp
    <2> QED
      BY <1>0, <2>2, <2>3, QuietStep
  <1>13. CASE \/ Tick \/ UNCHANGED vars
              \/ \E l \in Links : RevokeLink(l) \/ MoveExpiry(l)
    <2>1. req' = req /\ issued' = issued /\ db' = db
      BY <1>13 DEF Tick, vars, RevokeLink, MoveExpiry
    <2> QED
      BY <1>0, <2>1, QuietStep DEF Live
  <1> QED
    BY <1>1, <1>2, <1>3, <1>4, <1>6, <1>7, <1>8, <1>9, <1>10, <1>11, <1>12, <1>13
       DEF Next, Handler

\* Whatever renewals and logins overlap, a session with a login through
\* authentik opens only with a token handed out after that login's callback
\* dropped the logins before it.
THEOREM LoginsAreUnderFreshTokens == Spec => []LoginUnderFreshToken
  <1>1. Init => FreshInv
    BY EmptyTypes, SessionsAssumption
       DEF Init, FreshInv, TypeOK, Live, RowsFresh, RequestsFresh, NoRequest, NextSteps
  <1>2. FreshInv => LoginUnderFreshToken
    BY DEF FreshInv, TypeOK, RowsFresh, LoginUnderFreshToken, Row, Login
  <1> QED
    BY <1>1, <1>2, FreshStep, PTL DEF Spec

-----------------------------------------------------------------------------
(* A login state is good for one attempt.                                   *)

FlowState(s) == db[s].flow.state

\* The inductive invariant: a state waits in one session at most, and not any
\* more once it has been accepted.
StateInv ==
    /\ TypeOK
    /\ \A n \in accepted : n <= states
    /\ \A s \in Live :
        /\ FlowState(s) <= states
        /\ FlowState(s) # 0 => /\ FlowState(s) \notin accepted
                               /\ \A u \in Live \ {s} : FlowState(u) # FlowState(s)

\* No step but the start of a login puts a flow into a session.
LEMMA FlowsOnlyGo ==
    ASSUME TypeOK, [Next]_vars, ~\E r \in Requests : InsertFlow(r)
    PROVE  /\ states' = states
           /\ \A s \in Live' : \/ s \in Live /\ db'[s].flow = db[s].flow
                               \/ db'[s].flow.state = 0
  <1> DEFINE P == /\ states' = states
                  /\ \A s \in Live' : \/ s \in Live /\ db'[s].flow = db[s].flow
                                      \/ db'[s].flow.state = 0
  <1>1. ASSUME db' = db, states' = states
        PROVE  P
    BY <1>1 DEF Live
  <1>2. ASSUME NEW r \in Requests, Renew(r)
        PROVE  P
    <2>1. CASE req[r].known \in Live
      BY <1>2, <2>1 DEF Renew, Live
    <2>2. CASE req[r].known \notin Live
      <3> DEFINE n == made + 1
                 row == NewRow(issued + 1)
      <3>1. row.flow.state = 0
        BY DEF NewRow, NoFlow
      <3>2. /\ db' = [i \in Live \cup {n} |-> IF i = n THEN row ELSE db[i]]
            /\ states' = states
        BY <1>2, <2>2 DEF Renew, With
      <3> HIDE DEF n, row
      <3> QED
        BY <3>1, <3>2 DEF Live
    <2> QED
      BY <2>1, <2>2
  <1>3. ASSUME NEW r \in Requests, RenewSet(r)
        PROVE  P
    <2>1. CASE req[r].known \in Live
      <3> DEFINE k == req[r].known
      <3>1. db[k] \in Row
        BY <2>1 DEF TypeOK
      <3>2. \A n : [db[k] EXCEPT !.token = n].flow = db[k].flow
        BY <3>1 DEF Row
      <3>3. db' = [db EXCEPT ![k] = Retokened(db[k])] /\ states' = states
        BY <1>3, <2>1 DEF RenewSet
      <3>4. Retokened(db[k]).flow = db[k].flow
        BY <3>2 DEF Retokened
      <3> HIDE DEF k
      <3> QED
        BY <3>3, <3>4 DEF Live, TypeOK
    <2>2. CASE req[r].known \notin Live
      BY <1>1, <1>3, <2>2 DEF RenewSet
    <2> QED
      BY <2>1, <2>2
  <1>4. ASSUME NEW r \in Requests, LoadParts(r) \/ Grant(r) \/ InsertLegacy(r)
        PROVE  P
    <2>1. states' = states
      BY <1>4 DEF LoadParts, Grant, InsertLegacy
    <2>2. CASE LoadParts(r)
      BY <2>1, <2>2 DEF LoadParts, Live, TypeOK, Row
    <2>3. CASE Grant(r)
      BY <2>1, <2>3 DEF Grant, Live, TypeOK, Row
    <2>4. CASE InsertLegacy(r)
      BY <2>1, <2>4 DEF InsertLegacy, Live, TypeOK, Row
    <2> QED
      BY <1>4, <2>2, <2>3, <2>4
  <1>5. ASSUME NEW r \in Requests,
               DropAccess(r) \/ DropFlow(r) \/ TakeFlow(r) \/ DropLogins(r)
        PROVE  P
    <2>1. states' = states
      BY <1>5 DEF DropAccess, DropFlow, TakeFlow, DropLogins
    <2>2. \A s \in Live : /\ FlowDropped(db[s]).flow = NoFlow
                          /\ LoginsDropped(db[s]).flow = NoFlow
                          /\ [db[s] EXCEPT !.access = NoAccess].flow = db[s].flow
      BY DEF TypeOK, Row, FlowDropped, LoginsDropped
    <2>3. NoFlow.state = 0
      BY DEF NoFlow
    <2>4. /\ Live' = Live
          /\ \A s \in Live : db'[s] \in {db[s], FlowDropped(db[s]), LoginsDropped(db[s]),
                                         [db[s] EXCEPT !.access = NoAccess]}
      BY <1>5 DEF DropAccess, DropFlow, TakeFlow, DropLogins, Live
    <2> QED
      BY <2>1, <2>2, <2>3, <2>4
  <1>6. ASSUME NEW r \in Requests, End(r)
        PROVE  P
    BY <1>6 DEF End, Without, Live
  <1>7. ASSUME NEW r \in Requests, Record(r)
        PROVE  P
    <2> DEFINE l == [before |-> req[r].before, at |-> clock, roles |-> req[r].roles]
    <2>1. /\ states' = states
          /\ \/ req[r].sid \in Live /\ db' = [db EXCEPT ![req[r].sid].login = l]
             \/ db' = db
      BY <1>7 DEF Record
    <2> HIDE DEF l
    <2> QED
      BY <2>1 DEF Live, TypeOK, Row
  <1>8. ASSUME CleanUp
        PROVE  P
    <2>1. \A s \in Live : WithoutExpiredParts(db[s]).flow \in {db[s].flow, NoFlow}
      BY DEF TypeOK, Row, WithoutExpiredParts
    <2> QED
      BY <1>8, <2>1 DEF CleanUp, Live, NoFlow
  <1>9. ASSUME NEW r \in Requests, NEW op \in Ops, Begin(r, op)
        PROVE  P
    BY <1>1, <1>9 DEF Begin
  <1>10. ASSUME NEW r \in Requests,
                \/ Validate(r) \/ LoadRow(r) \/ RecordView(r) \/ Gate(r)
                \/ Exchange(r) \/ Deliver(r) \/ Abort(r)
         PROVE  P
    BY <1>1, <1>10 DEF Validate, LoadRow, RecordView, Gate, Exchange, Deliver, Abort
  <1>11. ASSUME NEW l \in Links, RevokeLink(l) \/ MoveExpiry(l)
         PROVE  P
    BY <1>1, <1>11 DEF RevokeLink, MoveExpiry
  <1>12. ASSUME Tick \/ UNCHANGED vars
         PROVE  P
    BY <1>1, <1>12 DEF Tick, vars
  <1> HIDE DEF P
  <1>13. ASSUME NEW r \in Requests, Handler(r) \/ Deliver(r) \/ Abort(r)
         PROVE  P
    <2>1. ~InsertFlow(r)
      OBVIOUS
    <2> QED
      BY <1>2, <1>3, <1>4, <1>5, <1>6, <1>7, <1>10, <1>13, <2>1 DEF Handler
  <1>14. P
    <2>1. CASE \E r \in Requests : \/ \E op \in Ops : Begin(r, op)
                                   \/ Handler(r) \/ Deliver(r) \/ Abort(r)
      BY <1>9, <1>13, <2>1
    <2>2. CASE \E l \in Links : RevokeLink(l) \/ MoveExpiry(l)
      BY <1>11, <2>2
    <2>3. CASE Tick \/ CleanUp \/ UNCHANGED vars
      BY <1>8, <1>12, <2>3
    <2> QED
      BY <2>1, <2>2, <2>3 DEF Next
  <1> QED
    BY <1>14 DEF P

\* Only the state check of a callback accepts a state.
LEMMA AcceptedOnlyThere ==
    ASSUME [Next]_vars, accepted' # accepted
    PROVE  \E r \in Requests : TakeFlow(r)
  <1>1. ASSUME NEW r \in Requests, NEW op \in Ops, Begin(r, op)
        PROVE  FALSE
    BY <1>1 DEF Begin
  <1>2. ASSUME NEW r \in Requests,
               \/ Validate(r) \/ LoadRow(r) \/ LoadParts(r) \/ Renew(r) \/ RenewSet(r)
               \/ Grant(r) \/ RecordView(r) \/ End(r) \/ InsertLegacy(r) \/ Gate(r)
               \/ DropAccess(r) \/ DropFlow(r) \/ InsertFlow(r) \/ Exchange(r)
               \/ DropLogins(r) \/ Record(r) \/ Deliver(r) \/ Abort(r)
        PROVE  FALSE
    BY <1>2 DEF Validate, LoadRow, LoadParts, Renew, RenewSet, Grant, RecordView, End,
                InsertLegacy, Gate, DropAccess, DropFlow, InsertFlow, Exchange,
                DropLogins, Record, Deliver, Abort
  <1>3. ASSUME NEW l \in Links, RevokeLink(l) \/ MoveExpiry(l)
        PROVE  FALSE
    BY <1>3 DEF RevokeLink, MoveExpiry
  <1>4. CASE Tick \/ CleanUp \/ UNCHANGED vars
    BY <1>4 DEF Tick, CleanUp, vars
  <1> QED
    BY <1>1, <1>2, <1>3, <1>4 DEF Next, Handler

\* Every step keeps the invariant.
LEMMA StateStep == StateInv /\ [Next]_vars => StateInv'
  <1> SUFFICES ASSUME StateInv, [Next]_vars
               PROVE  StateInv'
    OBVIOUS
  <1>1. TypeOK /\ TypeOK'
    BY TypeStep DEF StateInv
  <1>2. /\ \A s \in Live : FlowState(s) \in Nat
        /\ \A s \in Live' : FlowState(s)' \in Nat
        /\ states \in Nat /\ accepted \subseteq Nat
    BY <1>1 DEF TypeOK, Row, Flow, FlowState
  <1>3. CASE \E r \in Requests : InsertFlow(r)
    <2>1. PICK r \in Requests : InsertFlow(r)
      BY <1>3
    <2> DEFINE n == states + 1
               f == [state |-> n, at |-> clock]
    <2>0. PICK k : k = req[r].sid
      OBVIOUS
    <2>2. /\ states' = n /\ accepted' = accepted
          /\ \/ k \in Live /\ db' = [db EXCEPT ![k].flow = f]
             \/ db' = db
      BY <2>0, <2>1 DEF InsertFlow
    <2>3. f.state = n
      OBVIOUS
    <2>4. /\ n \in Nat /\ n # 0 /\ \A m \in Nat : m <= states => m <= n /\ m # n
          /\ n <= n
      BY <1>2
    <2> HIDE DEF f, n
    <2>5. CASE k \in Live /\ db' = [db EXCEPT ![k].flow = f]
      <3>1. Live' = Live /\ FlowState(k)' = n
        BY <1>1, <2>3, <2>5 DEF Live, FlowState, TypeOK, Row
      <3>2. \A s \in Live \ {k} : FlowState(s)' = FlowState(s)
        BY <1>1, <2>5 DEF Live, FlowState, TypeOK
      <3> QED
        BY <1>1, <1>2, <2>2, <2>4, <2>5, <3>1, <3>2 DEF StateInv
    <2>6. CASE db' = db
      <3>1. Live' = Live /\ \A s \in Live : FlowState(s)' = FlowState(s)
        BY <2>6 DEF Live, FlowState
      <3> QED
        BY <1>1, <1>2, <2>2, <2>4, <3>1 DEF StateInv
    <2> QED
      BY <2>2, <2>5, <2>6
  <1>4. CASE ~\E r \in Requests : InsertFlow(r)
    <2>1. /\ states' = states
          /\ \A s \in Live' : \/ s \in Live /\ FlowState(s)' = FlowState(s)
                              \/ FlowState(s)' = 0
      BY <1>1, <1>4, FlowsOnlyGo DEF FlowState
    <2>2. CASE accepted' = accepted
      BY <1>1, <1>2, <2>1, <2>2 DEF StateInv
    <2>3. CASE accepted' # accepted
      <3>1. PICK r \in Requests : TakeFlow(r)
        BY <2>3, AcceptedOnlyThere
      <3>0. PICK k : k = req[r].known
        OBVIOUS
      <3>2. /\ k \in Live /\ FlowState(k) # 0 /\ accepted' = accepted \cup {FlowState(k)}
        BY <2>3, <3>0, <3>1 DEF TakeFlow, FlowTaken, FlowState
      <3>3. FlowState(k)' = 0 /\ Live' = Live
        BY <1>1, <3>0, <3>1, <3>2 DEF TakeFlow, FlowDropped, FlowState, Live, NoFlow, TypeOK, Row
      <3> QED
        BY <1>1, <1>2, <2>1, <3>2, <3>3 DEF StateInv
    <2> QED
      BY <2>2, <2>3
  <1> QED
    BY <1>3, <1>4

\* No callback gets past the state check with a state any callback has used.
THEOREM StatesAreGoodForOneAttempt == Spec => StateGoodForOneAttempt
  <1>1. Init => StateInv
    BY EmptyTypes, SessionsAssumption DEF Init, StateInv, TypeOK, Live
  <1>2. ASSUME StateInv, [Next]_vars, NEW r \in Requests,
               req[r].pc = "takeFlow", req'[r].pc = "exchange"
        PROVE  req[r].param \notin accepted
    <2>0. req \in [Requests -> Request]
      BY <1>2 DEF StateInv, TypeOK
    <2>1. CASE TakeFlow(r)
      <3>1. ASSUME FlowTaken(req[r].known) # req[r].param \/ FlowTaken(req[r].known) = 0
            PROVE  FALSE
        <4>1. Answered(req[r]).pc = "answer"
          BY <2>0, AnsweredType
        <4> QED
          BY <1>2, <2>0, <2>1, <3>1, <4>1 DEF TakeFlow, Goto
      <3> QED
        BY <1>2, <3>1 DEF FlowTaken, StateInv, FlowState
    <2>2. CASE ~TakeFlow(r)
      <3>1. ASSUME NEW o \in Requests, NEW q, req' = [req EXCEPT ![o] = q]
            PROVE  o = r
        BY <1>2, <2>0, <3>1
      <3>2. ASSUME NEW o \in Requests, NEW op \in Ops, Begin(o, op)
            PROVE  FALSE
        BY <1>2, <3>1, <3>2 DEF Begin, Goto
      <3>3. ASSUME NEW o \in Requests, Handler(o) \/ Deliver(o) \/ Abort(o)
            PROVE  o = r
        BY <3>1, <3>3 DEF Handler, Deliver, Abort, Goto, Validate, LoadRow, LoadParts,
                Renew, RenewSet, Grant, RecordView, End, InsertLegacy, Gate, DropAccess,
                DropFlow, InsertFlow, TakeFlow, Exchange, DropLogins, Record
      <3>4. ASSUME Handler(r) \/ Deliver(r)
            PROVE  FALSE
        BY <1>2, <2>2, <3>4 DEF Handler, Deliver, Validate, LoadRow, LoadParts,
                Renew, RenewSet, Grant, RecordView, End, InsertLegacy, Gate, DropAccess,
                DropFlow, InsertFlow, Exchange, DropLogins, Record
      <3>5. ASSUME Abort(r)
            PROVE  FALSE
        BY <1>2, <2>0, <3>5 DEF Abort, Goto, NoRequest
      <3>6. ASSUME req' = req
            PROVE  FALSE
        BY <1>2, <3>6
      <3> QED
        BY <1>2, <3>2, <3>3, <3>4, <3>5, <3>6
           DEF Next, RevokeLink, MoveExpiry, Tick, CleanUp, vars
    <2> QED
      BY <2>1, <2>2
  <1>3. StateInv /\ [Next]_vars
            => [\A r \in Requests : req[r].pc = "takeFlow" /\ req'[r].pc = "exchange"
                    => req[r].param \notin accepted]_vars
    BY <1>2
  <1> QED
    BY <1>1, <1>3, StateStep, PTL DEF Spec, StateGoodForOneAttempt

=============================================================================
