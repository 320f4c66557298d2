------------------------- MODULE AdminFactorProofs -------------------------
(* Proofs about AdminFactor, for any number of requests, clients and keys   *)
(* and without the bounds of the runs.                                      *)
EXTENDS AdminFactor, FiniteSetTheorems, TLAPS

-----------------------------------------------------------------------------
(* Types.                                                                   *)

\* The empty row and the empty request have their types.
LEMMA EmptyTypes == NoSecret \in Secret /\ NoAdmin \in Admin /\ NoRequest \in Request
  BY DEF NoSecret, NoAdmin, NoRequest, Secret, Admin, Request, Ops

\* What setup writes is a row, with a secret newer than all before.
LEMMA SetUpType ==
    ASSUME NEW a \in Admin, made \in Nat, key \in Keys \cup {NoKey}
    PROVE  /\ SetUp(a) \in Admin
           /\ SetUp(a).secret.n = made + 1
           /\ SetUp(a).present = a.present
           /\ ~SetUp(a).enabled
  <1> DEFINE n == made + 1
  <1>1. n \in Nat
    OBVIOUS
  <1> HIDE DEF n
  <1>2. [a EXCEPT !.secret = [n |-> n, key |-> key], !.enabled = FALSE] \in Admin
    BY <1>1 DEF Admin, Secret
  <1>3. SetUp(a) = [a EXCEPT !.secret = [n |-> n, key |-> key], !.enabled = FALSE]
    BY DEF SetUp, n
  <1> QED
    BY <1>2, <1>3 DEF Admin, n

\* Forgetting the attempts of a client changes nothing else of a request.
LEMMA ForgottenType ==
    ASSUME NEW c, NEW others \in [Requests -> Request]
    PROVE  /\ Forgotten(c, others) \in [Requests -> Request]
           /\ \A r \in Requests :
                /\ Forgotten(c, others)[r].pc = others[r].pc
                /\ Forgotten(c, others)[r].op = others[r].op
                /\ Forgotten(c, others)[r].code = others[r].code
                /\ Forgotten(c, others)[r].read = others[r].read
                /\ Forgotten(c, others)[r].off = others[r].off
  BY DEF Forgotten, Request

\* Every step keeps the types.
LEMMA TypeStep == TypeOK /\ [Next]_vars => TypeOK'
  <1> SUFFICES ASSUME TypeOK, [Next]_vars
               PROVE  TypeOK'
    OBVIOUS
  <1> USE EmptyTypes
  <1>1. ASSUME NEW r \in Requests, NEW op \in Ops, Begin(r, op)
        PROVE  TypeOK'
    <2> DEFINE Codes == IF op \in {"confirm", "login_totp"} THEN 0 .. made ELSE {0}
               Sids == IF op \in {"login", "login_totp"} THEN Live \cup {0} ELSE {0}
    <2>0. Codes \subseteq Nat /\ Sids \subseteq Nat
      BY DEF TypeOK
    <2>1. PICK code \in Codes, sid \in Sids :
            Goto(r, [NoRequest EXCEPT !.pc = First(op), !.op = op, !.code = code,
                                      !.sid = sid, !.off = ~admin.enabled])
      BY <1>1 DEF Begin
    <2> HIDE DEF Codes, Sids
    <2>2. First(op) \in {"load", "hit", "read"}
      BY DEF First
    <2> DEFINE pc == First(op)
               off == ~admin.enabled
    <2>3. [NoRequest EXCEPT !.pc = pc, !.op = op, !.code = code,
                            !.sid = sid, !.off = off] \in Request
      <3>1. off \in BOOLEAN
        OBVIOUS
      <3> HIDE DEF pc, off
      <3> QED
        BY <2>0, <2>2, <3>1 DEF Request, pc
    <2> QED
      BY <1>1, <2>1, <2>3 DEF Begin, Goto, TypeOK, Live
  <1>2. ASSUME NEW r \in Requests, Load(r)
        PROVE  TypeOK'
    <2>1. [req[r] EXCEPT !.pc = "hit"] \in Request
      BY DEF TypeOK, Request
    <2> QED
      BY <1>2, <2>1 DEF Load, Goto, TypeOK, Live
  <1>3. ASSUME NEW r \in Requests, Hit(r)
        PROVE  TypeOK'
    <2>1. [req[r] EXCEPT !.pc = "read", !.counted = TRUE] \in Request
      BY DEF TypeOK, Request
    <2>2. hits' \in [Clients -> Nat]
      BY <1>3, AdminFactorAssumption DEF Hit, TypeOK, Live
    <2>3. req' \in [Requests -> Request]
      BY <1>3, <2>1 DEF Hit, Goto, TypeOK, Live
    <2> QED
      BY <1>3, <2>2, <2>3 DEF Hit, TypeOK, Live
  <1>4. ASSUME NEW r \in Requests, Read(r)
        PROVE  TypeOK'
    <2>1. AfterRead(req[r].op) \in {"write", "start", "check"}
      BY DEF AfterRead
    <2>2. [req[r] EXCEPT !.pc = AfterRead(req[r].op), !.read = admin] \in Request
      BY <2>1 DEF TypeOK, Request
    <2> QED
      BY <1>4, <2>2 DEF Read, Goto, TypeOK, Live
  <1>5. ASSUME NEW r \in Requests, Check(r)
        PROVE  TypeOK'
    <2> DEFINE pc == IF req[r].op = "confirm" THEN "write" ELSE "start"
               on == [req EXCEPT ![r].pc = pc]
    <2>1. on \in [Requests -> Request]
      <3>1. [req[r] EXCEPT !.pc = pc] \in Request
        BY DEF TypeOK, Request
      <3> QED
        BY <3>1 DEF TypeOK
    <2>2. req' = [req EXCEPT ![r] = NoRequest] \/ req' = Forgotten(ClientOf[r], on)
      BY <1>5 DEF Check, Goto
    <2> HIDE DEF on
    <2>3. req' \in [Requests -> Request]
      BY <2>1, <2>2, ForgottenType DEF TypeOK
    <2>4. hits' \in [Clients -> Nat] /\ wrong' \in [Clients -> Nat]
      BY <1>5, AdminFactorAssumption DEF Check, TypeOK, Live
    <2> QED
      BY <1>5, <2>3, <2>4 DEF Check, TypeOK, Live
  <1>6. ASSUME NEW r \in Requests, WriteSetup(r)
        PROVE  TypeOK'
    <2>1. admin' \in Admin
      BY <1>6, SetUpType DEF WriteSetup, TypeOK, Live
    <2>2. \A o \in Requests : [req[o] EXCEPT !.off = @ \/ req[o].pc # "idle"] \in Request
      BY DEF TypeOK, Request
    <2>3. req' \in [Requests -> Request]
      BY <1>6, <2>2 DEF WriteSetup
    <2> QED
      BY <1>6, <2>1, <2>3 DEF WriteSetup, TypeOK, Live
  <1>7. ASSUME NEW r \in Requests, WriteConfirm(r)
        PROVE  TypeOK'
    <2>1. admin' \in Admin /\ admin.secret.n \in Nat
      BY <1>7 DEF WriteConfirm, TypeOK, Admin, Secret
    <2> QED
      BY <1>7, <2>1 DEF WriteConfirm, Goto, TypeOK, Live
  <1>8. ASSUME NEW r \in Requests, Start(r)
        PROVE  TypeOK'
    <2>1. /\ StateFor(req[r]) \in {"pending", "done"}
          /\ (IF req[r].op = "login" THEN 0 ELSE req[r].code) \in Nat
          /\ req[r].off \in BOOLEAN
      BY DEF StateFor, TypeOK, Request
    <2> DEFINE n == opened + 1
               one == [state |-> StateFor(req[r]), off |-> req[r].off,
                       code |-> IF req[r].op = "login" THEN 0 ELSE req[r].code]
    <2>2. one \in Session
      BY <2>1 DEF Session
    <2>3. /\ sess' = [s \in (Live \ {req[r].sid}) \cup {n} |-> IF s = n THEN one ELSE sess[s]]
          /\ opened' = n
      BY <1>8 DEF Start
    <2>4. n \in Nat /\ 1 .. opened \subseteq 1 .. n /\ n \in 1 .. n
      BY DEF TypeOK
    <2> HIDE DEF n, one
    <2>5. sess' \in [Live' -> Session] /\ Live' \subseteq 1 .. n
      BY <2>2, <2>3, <2>4 DEF TypeOK, Live
    <2>6. req' \in [Requests -> Request]
      BY <1>8 DEF Start, Goto, TypeOK, Live
    <2> QED
      BY <1>8, <2>3, <2>4, <2>5, <2>6 DEF Start, TypeOK
  <1>9. ASSUME NEW r \in Requests, Abort(r)
        PROVE  TypeOK'
    BY <1>9 DEF Abort, Goto, TypeOK, Live
  <1>10. ASSUME NEW s \in Live, End(s)
         PROVE  TypeOK'
    BY <1>10 DEF End, TypeOK, Live
  <1>11. ASSUME NEW c \in Clients, WindowOver(c)
         PROVE  TypeOK'
    BY <1>11, ForgottenType DEF WindowOver, TypeOK, Live
  <1>12. ASSUME StartUp
         PROVE  TypeOK'
    <2>1. admin' \in Admin /\ key' \in Keys \cup {NoKey}
      BY <1>12 DEF StartUp, TypeOK, Admin
    <2> QED
      BY <1>12, <2>1 DEF StartUp, TypeOK, Live
  <1>13. CASE UNCHANGED vars
    BY <1>13 DEF vars, TypeOK, Live
  <1> QED
    BY <1>1, <1>2, <1>3, <1>4, <1>5, <1>6, <1>7, <1>8, <1>9, <1>10, <1>11, <1>12,
       <1>13 DEF Next, Handler

\* Every variable keeps its type, whatever requests overlap and however often
\* the process starts.
THEOREM TypeCorrect == Spec => []TypeOK
  <1>1. Init => TypeOK
    BY EmptyTypes DEF Init, TypeOK, Live
  <1> QED
    BY <1>1, TypeStep, PTL DEF Spec

-----------------------------------------------------------------------------
(* The inductive invariant.                                                 *)

\* The row: a secret was made by setup, and one that is on has been confirmed.
RowSound ==
    /\ admin.secret # NoSecret => admin.present /\ admin.secret.n \in 1 .. made
    /\ admin.enabled => admin.secret # NoSecret /\ admin.secret.n \in enabledOnce
    /\ enabledOnce \subseteq 1 .. made

\* What a request may rely on between its transactions.
RequestSound(r) ==
    LET q == req[r] IN
    /\ q.pc # "idle" /\ ~admin.enabled => q.off
    /\ q.pc = "start" => q.op \in {"login", "login_totp"}
    /\ q.pc = "check" => q.op \in {"confirm", "login_totp"}
    /\ q.op = "confirm" /\ q.pc \in {"check", "write"} => admin.secret # NoSecret
    /\ q.op = "login" /\ q.pc = "start" /\ ~q.read.enabled => q.off
    /\ q.op = "login_totp" /\ q.pc = "check" => q.read.secret.n \in enabledOnce
    /\ q.op = "login_totp" /\ q.pc = "start" => q.code \in enabledOnce

FactorInv ==
    /\ TypeOK
    /\ RowSound
    /\ \A r \in Requests : RequestSound(r)
    /\ FactorNotBypassed

\* A request that has ended, or that a step changed in its history only, stays
\* sound when the row keeps a secret, the confirmed secrets stay, and a factor
\* that is switched off is noted.
LEMMA OthersStaySound ==
    ASSUME NEW r \in Requests,
           RequestSound(r),
           admin.secret # NoSecret => admin'.secret # NoSecret,
           enabledOnce \subseteq enabledOnce',
           \/ req'[r] = NoRequest
           \/ /\ req'[r].pc = req[r].pc /\ req'[r].op = req[r].op
              /\ req'[r].code = req[r].code /\ req'[r].read = req[r].read
              /\ req[r].off => req'[r].off
              /\ req[r].pc # "idle" /\ admin.enabled /\ ~admin'.enabled => req'[r].off
    PROVE  RequestSound(r)'
  <1>1. CASE req'[r] = NoRequest
    BY <1>1 DEF RequestSound, NoRequest
  <1>2. CASE req'[r] # NoRequest
    BY <1>2 DEF RequestSound
  <1> QED
    BY <1>1, <1>2

\* The sessions are judged by the same rule while the confirmed secrets stay.
LEMMA SessionsStaySound ==
    ASSUME FactorNotBypassed, enabledOnce \subseteq enabledOnce',
           Live' \subseteq Live, \A s \in Live' : sess'[s] = sess[s]
    PROVE  FactorNotBypassed'
  BY DEF FactorNotBypassed

\* Every step keeps the invariant.
LEMMA FactorStep == FactorInv /\ [Next]_vars => FactorInv'
  <1> SUFFICES ASSUME FactorInv, [Next]_vars
               PROVE  FactorInv'
    OBVIOUS
  <1> USE DEF FactorInv
  <1>0. TypeOK'
    BY TypeStep
  <1>1. ASSUME NEW r \in Requests, NEW op \in Ops, Begin(r, op)
        PROVE  FactorInv'
    <2>1. PICK code, sid :
            Goto(r, [NoRequest EXCEPT !.pc = First(op), !.op = op, !.code = code,
                                      !.sid = sid, !.off = ~admin.enabled])
      BY <1>1 DEF Begin
    <2>2. UNCHANGED <<admin, sess, made, enabledOnce>>
      BY <1>1 DEF Begin
    <2>3. RequestSound(r)'
      BY <2>1, <2>2 DEF RequestSound, Goto, TypeOK, NoRequest, First
    <2>4. ASSUME NEW o \in Requests, o # r
          PROVE  RequestSound(o)'
      <3>1. req'[o] = req[o]
        BY <2>1, <2>4 DEF Goto, TypeOK
      <3> QED
        BY <2>2, <3>1, OthersStaySound
    <2> QED
      BY <1>0, <2>2, <2>3, <2>4, SessionsStaySound DEF RowSound, Live
  <1>2. ASSUME NEW r \in Requests, Load(r) \/ Hit(r) \/ Read(r)
        PROVE  FactorInv'
    <2>1. UNCHANGED <<admin, sess, made, enabledOnce>>
      BY <1>2 DEF Load, Hit, Read
    <2>2. RequestSound(r)'
      <3>1. CASE Load(r)
        BY <2>1, <3>1 DEF RequestSound, Load, Goto, TypeOK, NoRequest
      <3>2. CASE Hit(r)
        BY <2>1, <3>2 DEF RequestSound, Hit, Goto, TypeOK, NoRequest
      <3>3. CASE Read(r)
        BY <2>1, <3>3 DEF RequestSound, RowSound, Read, MayGoOn, AfterRead, Goto,
                          TypeOK, Request, Ops, NoRequest
      <3> QED
        BY <1>2, <3>1, <3>2, <3>3
    <2>3. ASSUME NEW o \in Requests, o # r
          PROVE  RequestSound(o)'
      <3>1. req'[o] = req[o]
        BY <1>2, <2>3 DEF Load, Hit, Read, Goto, TypeOK
      <3> QED
        BY <2>1, <3>1, OthersStaySound
    <2> QED
      BY <1>0, <2>1, <2>2, <2>3, SessionsStaySound DEF RowSound, Live
  <1>3. ASSUME NEW r \in Requests, Check(r)
        PROVE  FactorInv'
    <2> DEFINE pc == IF req[r].op = "confirm" THEN "write" ELSE "start"
               on == [req EXCEPT ![r].pc = pc]
    <2>1. UNCHANGED <<admin, sess, made, enabledOnce>> /\ req[r].pc = "check"
      BY <1>3 DEF Check
    <2>2. CASE req' = [req EXCEPT ![r] = NoRequest]
      <3>1. \A o \in Requests : req'[o] = req[o] \/ req'[o] = NoRequest
        BY <2>2 DEF TypeOK
      <3> QED
        BY <1>0, <2>1, <3>1, OthersStaySound, SessionsStaySound DEF RowSound, Live
    <2>3. ASSUME req' = Forgotten(ClientOf[r], on), req[r].code = req[r].read.secret.n
          PROVE  FactorInv'
      <3>1. on \in [Requests -> Request]
        <4>1. [req[r] EXCEPT !.pc = pc] \in Request
          BY DEF TypeOK, Request
        <4> QED
          BY <4>1 DEF TypeOK
      <3>2. /\ on[r].pc = pc /\ on[r].op = req[r].op /\ on[r].code = req[r].code
            /\ on[r].read = req[r].read /\ on[r].off = req[r].off
            /\ \A o \in Requests : o # r => on[o] = req[o]
        BY DEF TypeOK, Request
      <3> HIDE DEF on
      <3>3. RequestSound(r)'
        BY <2>1, <2>3, <3>1, <3>2, ForgottenType DEF RequestSound, TypeOK
      <3>4. ASSUME NEW o \in Requests, o # r
            PROVE  RequestSound(o)'
        BY <2>1, <2>3, <3>1, <3>2, <3>4, ForgottenType, OthersStaySound
      <3> QED
        BY <1>0, <2>1, <3>3, <3>4, SessionsStaySound DEF RowSound, Live
    <2> QED
      BY <1>3, <2>2, <2>3 DEF Check, Goto
  <1>4. ASSUME NEW r \in Requests, WriteSetup(r)
        PROVE  FactorInv'
    <2>1. /\ made' = made + 1 /\ UNCHANGED <<sess, enabledOnce>>
          /\ admin' = IF admin.present THEN SetUp(admin) ELSE admin
      BY <1>4 DEF WriteSetup
    <2>2. SetUp(admin).secret # NoSecret
      BY SetUpType DEF TypeOK, NoSecret
    <2>3. RowSound'
      BY <2>1, SetUpType DEF RowSound, TypeOK, NoSecret
    <2>4. ASSUME NEW o \in Requests
          PROVE  RequestSound(o)'
      <3>1. CASE o = r
        <4>1. req'[o] = NoRequest
          BY <1>4, <3>1 DEF WriteSetup
        <4> QED
          BY <2>1, <2>2, <4>1, OthersStaySound
      <3>2. CASE o # r
        <4>1. req'[o] = [req[o] EXCEPT !.off = @ \/ req[o].pc # "idle"]
          BY <1>4, <3>2 DEF WriteSetup
        <4>2. /\ req'[o].pc = req[o].pc /\ req'[o].op = req[o].op
              /\ req'[o].code = req[o].code /\ req'[o].read = req[o].read
              /\ req'[o].off = (req[o].off \/ req[o].pc # "idle")
          BY <4>1 DEF TypeOK, Request
        <4> QED
          BY <2>1, <2>2, <4>2, OthersStaySound
      <3> QED
        BY <3>1, <3>2
    <2> QED
      BY <1>0, <2>1, <2>3, <2>4, SessionsStaySound DEF Live
  <1>5. ASSUME NEW r \in Requests, WriteConfirm(r)
        PROVE  FactorInv'
    <2>1. /\ UNCHANGED <<sess, made>> /\ enabledOnce' = enabledOnce \cup {admin.secret.n}
          /\ admin'.secret = admin.secret /\ admin'.present = admin.present
          /\ admin'.enabled
      BY <1>5 DEF WriteConfirm, TypeOK, Admin
    <2>2. admin.secret # NoSecret
      BY <1>5 DEF WriteConfirm, RequestSound
    <2>3. RowSound'
      BY <2>1, <2>2 DEF RowSound
    <2>4. \A o \in Requests : req'[o] = req[o] \/ req'[o] = NoRequest
      BY <1>5 DEF WriteConfirm, Goto, TypeOK
    <2> QED
      BY <1>0, <2>1, <2>3, <2>4, OthersStaySound, SessionsStaySound DEF Live
  <1>6. ASSUME NEW r \in Requests, Start(r)
        PROVE  FactorInv'
    <2>1. UNCHANGED <<admin, made, enabledOnce>>
      BY <1>6 DEF Start
    <2>2. \A o \in Requests : req'[o] = req[o] \/ req'[o] = NoRequest
      BY <1>6 DEF Start, Goto, TypeOK
    <2> DEFINE n == opened + 1
               one == [state |-> StateFor(req[r]), off |-> req[r].off,
                       code |-> IF req[r].op = "login" THEN 0 ELSE req[r].code]
    <2>3. sess' = [s \in (Live \ {req[r].sid}) \cup {n} |-> IF s = n THEN one ELSE sess[s]]
      BY <1>6 DEF Start
    <2>4. one.state = "done" => IF one.code = 0 THEN one.off ELSE one.code \in enabledOnce
      <3>1. RequestSound(r) /\ req[r].pc = "start"
        BY <1>6 DEF Start
      <3>2. 0 \notin enabledOnce
        BY DEF RowSound, TypeOK
      <3>3. CASE req[r].op = "login"
        BY <3>1, <3>3 DEF RequestSound, StateFor
      <3>4. CASE req[r].op = "login_totp"
        BY <3>1, <3>2, <3>4 DEF RequestSound
      <3> QED
        BY <3>1, <3>3, <3>4 DEF RequestSound
    <2> HIDE DEF n, one
    <2>5. FactorNotBypassed'
      BY <2>1, <2>3, <2>4 DEF FactorNotBypassed, Live
    <2> QED
      BY <1>0, <2>1, <2>2, <2>5, OthersStaySound DEF RowSound
  <1>7. ASSUME NEW r \in Requests, Abort(r)
        PROVE  FactorInv'
    <2>1. \A o \in Requests : req'[o] = req[o] \/ req'[o] = NoRequest
      BY <1>7 DEF Abort, Goto, TypeOK
    <2> QED
      BY <1>0, <1>7, <2>1, OthersStaySound, SessionsStaySound DEF Abort, RowSound, Live
  <1>8. ASSUME NEW s \in Live, End(s)
        PROVE  FactorInv'
    BY <1>0, <1>8, OthersStaySound, SessionsStaySound DEF End, RowSound, Live
  <1>9. ASSUME NEW c \in Clients, WindowOver(c)
        PROVE  FactorInv'
    <2>1. req' = Forgotten(c, req) /\ req \in [Requests -> Request]
          /\ UNCHANGED <<admin, sess, made, enabledOnce>>
      BY <1>9 DEF WindowOver, TypeOK
    <2>2. ASSUME NEW o \in Requests
          PROVE  RequestSound(o)'
      BY <2>1, ForgottenType, OthersStaySound
    <2> QED
      BY <1>0, <2>1, <2>2, SessionsStaySound DEF RowSound, Live
  <1>10. ASSUME StartUp
         PROVE  FactorInv'
    <2>1. /\ UNCHANGED <<sess, made, enabledOnce>>
          /\ admin'.secret = admin.secret /\ admin'.enabled = admin.enabled
          /\ admin.present => admin'.present
      BY <1>10 DEF StartUp, TypeOK, Admin
    <2>2. \A o \in Requests : req'[o] = NoRequest
      BY <1>10 DEF StartUp
    <2> QED
      BY <1>0, <2>1, <2>2, OthersStaySound, SessionsStaySound DEF RowSound, Live
  <1>11. CASE UNCHANGED vars
    BY <1>0, <1>11, OthersStaySound, SessionsStaySound DEF vars, RowSound, Live
  <1> QED
    BY <1>1, <1>2, <1>3, <1>4, <1>5, <1>6, <1>7, <1>8, <1>9, <1>10, <1>11 DEF Next, Handler

\* The invariant holds in every state.
LEMMA FactorInvariant == Spec => []FactorInv
  <1>1. Init => FactorInv
    <2> SUFFICES ASSUME Init
                 PROVE  FactorInv
      OBVIOUS
    <2>1. TypeOK
      BY EmptyTypes DEF Init, TypeOK, Live
    <2> QED
      BY <2>1 DEF Init, FactorInv, RowSound, RequestSound, FactorNotBypassed, Live,
                  NoAdmin, NoSecret, NoRequest
  <1> QED
    BY <1>1, FactorStep, PTL DEF Spec

\* However setup, confirm and logins overlap, full rights come from a login
\* during which the factor was off or from a code of a secret that was enabled.
THEOREM FactorIsNotBypassed == Spec => []FactorNotBypassed
  <1>1. FactorInv => FactorNotBypassed
    BY DEF FactorInv
  <1> QED
    BY <1>1, FactorInvariant, PTL

\* The factor is never on without a secret.
THEOREM EnabledFactorHasSecret == Spec => []EnabledHasSecret
  <1>1. FactorInv => EnabledHasSecret
    BY DEF FactorInv, RowSound, EnabledHasSecret
  <1> QED
    BY <1>1, FactorInvariant, PTL

-----------------------------------------------------------------------------
(* The limiter: every attempt it counts is a wrong code, a right one that   *)
(* resets it, or still on its way.                                          *)

InFlight(c) ==
    {r \in Requests : ClientOf[r] = c /\ req[r].counted /\ req[r].pc \in {"read", "check"}}

Counted(c) ==
    /\ wrong[c] + Cardinality(InFlight(c)) <= hits[c]
    /\ wrong[c] + Cardinality(InFlight(c)) <= MaxAttempts

LimiterInv == TypeOK /\ \A c \in Clients : Counted(c)

\* The requests on their way are finitely many.
LEMMA InFlightFinite ==
    ASSUME NEW c
    PROVE  IsFiniteSet(InFlight(c)) /\ Cardinality(InFlight(c)) \in Nat
  <1>1. IsFiniteSet(Requests) /\ InFlight(c) \in SUBSET Requests
    BY AdminFactorAssumption DEF InFlight
  <1> QED
    BY <1>1, FS_Subset, FS_CardinalityType

\* The count stays within its bounds when no attempt is added.
LEMMA FewerInFlight ==
    ASSUME NEW c \in Clients, TypeOK, TypeOK', Counted(c), InFlight(c)' \subseteq InFlight(c),
           wrong'[c] = wrong[c], hits'[c] >= hits[c]
    PROVE  Counted(c)'
  <1> DEFINE before == Cardinality(InFlight(c))
             after == Cardinality(InFlight(c)')
  <1>1. before \in Nat /\ after \in Nat /\ after <= before
    <2>1. IsFiniteSet(InFlight(c)) /\ before \in Nat
      BY InFlightFinite
    <2>2. InFlight(c)' \in SUBSET InFlight(c)
      OBVIOUS
    <2> HIDE DEF before
    <2>3. IsFiniteSet(InFlight(c)') /\ after <= Cardinality(InFlight(c))
      BY <2>1, <2>2, FS_Subset
    <2> QED
      BY <2>1, <2>3, FS_CardinalityType DEF before
  <1>2. /\ wrong[c] \in Nat /\ hits[c] \in Nat /\ hits'[c] \in Nat /\ MaxAttempts \in Nat
        /\ wrong[c] + before <= hits[c] /\ wrong[c] + before <= MaxAttempts
    BY AdminFactorAssumption DEF TypeOK, Counted
  <1> HIDE DEF before, after
  <1>3. wrong[c] + after <= hits'[c] /\ wrong[c] + after <= MaxAttempts
    BY <1>1, <1>2
  <1> QED
    BY <1>3 DEF Counted, after

\* Nothing is counted of a client whose attempts are forgotten.
LEMMA NoneCounted ==
    ASSUME NEW c \in Clients, wrong'[c] = 0, hits'[c] = 0, InFlight(c)' = {}
    PROVE  Counted(c)'
  BY AdminFactorAssumption, FS_EmptySet DEF Counted

\* Every step keeps the count.
LEMMA LimiterStep == LimiterInv /\ [Next]_vars => LimiterInv'
  <1> SUFFICES ASSUME LimiterInv, [Next]_vars
               PROVE  LimiterInv'
    OBVIOUS
  <1> USE DEF LimiterInv
  <1>0. TypeOK'
    BY TypeStep
  <1>1. ASSUME UNCHANGED <<hits, wrong>>,
               \A o \in Requests :
                    \/ req'[o] = req[o]
                    \/ req'[o].counted => req[o].counted /\ req[o].pc = "read"
                    \/ req'[o].pc \notin {"read", "check"}
        PROVE  LimiterInv'
    <2>1. ASSUME NEW c \in Clients
          PROVE  Counted(c)'
      <3>1. InFlight(c)' \subseteq InFlight(c)
        BY <1>1 DEF InFlight
      <3>2. wrong'[c] = wrong[c] /\ hits'[c] >= hits[c]
        BY <1>1 DEF TypeOK
      <3> QED
        BY <1>0, <3>1, <3>2, FewerInFlight
    <2> QED
      BY <1>0, <2>1
  <1>3. ASSUME NEW r \in Requests, NEW op \in Ops, Begin(r, op)
        PROVE  LimiterInv'
    <2>1. PICK code, sid :
            Goto(r, [NoRequest EXCEPT !.pc = First(op), !.op = op, !.code = code,
                                      !.sid = sid, !.off = ~admin.enabled])
      BY <1>3 DEF Begin
    <2>2. ~req'[r].counted /\ \A o \in Requests : o # r => req'[o] = req[o]
      BY <2>1 DEF Goto, TypeOK, NoRequest
    <2> QED
      BY <1>1, <1>3, <2>2 DEF Begin
  <1>4. ASSUME NEW r \in Requests,
               Load(r) \/ Read(r) \/ WriteConfirm(r) \/ Start(r) \/ Abort(r)
        PROVE  LimiterInv'
    <2>1. UNCHANGED <<hits, wrong>>
      BY <1>4 DEF Load, Read, WriteConfirm, Start, Abort
    <2>2. \A o \in Requests : o # r => req'[o] = req[o]
      BY <1>4 DEF Load, Read, WriteConfirm, Start, Abort, Goto, TypeOK
    <2>3. \/ req'[r].counted => req[r].counted /\ req[r].pc = "read"
          \/ req'[r].pc \notin {"read", "check"}
      <3>1. req[r] \in Request /\ \A q : Goto(r, q) => req'[r] = q
        BY DEF TypeOK, Goto
      <3>2. CASE Load(r)
        BY <3>1, <3>2 DEF Load, Request, NoRequest
      <3>3. CASE Read(r)
        <4>1. \/ req'[r] = NoRequest
              \/ req'[r] = [req[r] EXCEPT !.pc = AfterRead(req[r].op), !.read = admin]
          BY <3>3 DEF Read, Goto, TypeOK
        <4>2. req[r].pc = "read"
          BY <3>3 DEF Read
        <4>3. ASSUME req'[r] = [req[r] EXCEPT !.pc = AfterRead(req[r].op), !.read = admin]
              PROVE  req'[r].counted = req[r].counted
          BY <3>1, <4>3 DEF Request
        <4>4. ASSUME req'[r] = NoRequest
              PROVE  req'[r].pc = "idle"
          BY <4>4 DEF NoRequest
        <4> QED
          BY <4>1, <4>2, <4>3, <4>4
      <3>4. CASE WriteConfirm(r) \/ Start(r) \/ Abort(r)
        BY <3>1, <3>4 DEF WriteConfirm, Start, Abort, NoRequest
      <3> QED
        BY <1>4, <3>2, <3>3, <3>4
    <2> QED
      BY <1>1, <2>1, <2>2, <2>3
  <1>5. ASSUME NEW r \in Requests, WriteSetup(r)
        PROVE  LimiterInv'
    <2>1. ASSUME NEW o \in Requests
          PROVE  \/ req'[o].pc \notin {"read", "check"}
                 \/ req'[o].counted = req[o].counted /\ req'[o].pc = req[o].pc
      BY <1>5 DEF WriteSetup, TypeOK, Request, NoRequest
    <2>2. ASSUME NEW c \in Clients
          PROVE  Counted(c)'
      <3>1. InFlight(c)' \subseteq InFlight(c)
        BY <2>1 DEF InFlight
      <3>2. wrong'[c] = wrong[c] /\ hits'[c] >= hits[c]
        BY <1>5 DEF WriteSetup, TypeOK
      <3> QED
        BY <1>0, <3>1, <3>2, FewerInFlight
    <2> QED
      BY <1>0, <2>2
  <1>6. ASSUME NEW r \in Requests, Hit(r)
        PROVE  LimiterInv'
    <2> DEFINE client == ClientOf[r]
    <2>1. client \in Clients
      BY AdminFactorAssumption
    <2>2. ASSUME NEW c \in Clients, c # client \/ hits[client] >= MaxAttempts
          PROVE  Counted(c)'
      <3>1. InFlight(c)' \subseteq InFlight(c)
        BY <1>6, <2>2, AdminFactorAssumption DEF InFlight, Hit, Goto, TypeOK, NoRequest
      <3>2. wrong'[c] = wrong[c] /\ hits'[c] >= hits[c]
        BY <1>6, <2>2 DEF Hit, TypeOK
      <3> QED
        BY <1>0, <3>1, <3>2, FewerInFlight
    <2>3. ASSUME hits[client] < MaxAttempts
          PROVE  Counted(client)'
      <3> DEFINE before == InFlight(client)
                 more == before \cup {r}
                 after == InFlight(client)'
      <3>1. after \subseteq more
        BY <1>6 DEF InFlight, Hit, Goto, TypeOK
      <3>2. /\ hits'[client] = hits[client] + 1 /\ wrong'[client] = wrong[client]
            /\ hits[client] \in Nat /\ wrong[client] \in Nat /\ MaxAttempts \in Nat
        BY <1>6, <2>1, <2>3, AdminFactorAssumption DEF Hit, TypeOK
      <3>3. IsFiniteSet(before) /\ Cardinality(before) \in Nat
        BY InFlightFinite
      <3>4. wrong[client] + Cardinality(before) <= hits[client]
        BY <2>1 DEF Counted
      <3> HIDE DEF before, client
      <3>5. IsFiniteSet(more) /\ Cardinality(more) <= Cardinality(before) + 1
        <4>1. /\ IsFiniteSet(before \cup {r})
              /\ Cardinality(before \cup {r}) =
                    IF r \in before THEN Cardinality(before) ELSE Cardinality(before) + 1
          BY <3>3, FS_AddElement, Zenon
        <4> QED
          BY <3>3, <4>1 DEF more
      <3>6. after \in SUBSET more
        BY <3>1
      <3> HIDE DEF more, after
      <3>7. IsFiniteSet(after) /\ Cardinality(after) <= Cardinality(more)
        BY <3>5, <3>6, FS_Subset
      <3>8. Cardinality(after) \in Nat /\ Cardinality(more) \in Nat
        BY <3>5, <3>7, FS_CardinalityType
      <3>9. /\ wrong'[client] + Cardinality(after) <= hits'[client]
            /\ wrong'[client] + Cardinality(after) <= MaxAttempts
        BY <2>3, <3>2, <3>3, <3>4, <3>5, <3>7, <3>8
      <3> QED
        BY <3>9 DEF Counted, after
    <2>4. hits[client] \in Nat /\ MaxAttempts \in Nat
      BY <2>1, AdminFactorAssumption DEF TypeOK
    <2>5. ASSUME NEW c \in Clients
          PROVE  Counted(c)'
      <3>1. CASE c # client \/ hits[client] >= MaxAttempts
        BY <2>2, <3>1
      <3>2. CASE c = client /\ hits[client] < MaxAttempts
        BY <2>3, <3>2
      <3> HIDE DEF client
      <3> QED
        BY <2>4, <3>1, <3>2
    <2> QED
      BY <1>0, <2>5
  <1>7. ASSUME NEW client \in Clients, wrong' = [wrong EXCEPT ![client] = 0],
               hits' = [hits EXCEPT ![client] = 0],
               NEW on \in [Requests -> Request],
               \A o \in Requests : ClientOf[o] # client => on[o] = req[o],
               req' = Forgotten(client, on)
        PROVE  LimiterInv'
    <2>1. Counted(client)'
      <3>1. InFlight(client)' = {}
        BY <1>7 DEF InFlight, Forgotten, Request
      <3>2. wrong'[client] = 0 /\ hits'[client] = 0
        BY <1>7 DEF TypeOK
      <3> QED
        BY <3>1, <3>2, NoneCounted
    <2>2. ASSUME NEW c \in Clients, c # client
          PROVE  Counted(c)'
      <3>1. InFlight(c)' \subseteq InFlight(c)
        BY <1>7, <2>2 DEF InFlight, Forgotten
      <3>2. wrong'[c] = wrong[c] /\ hits'[c] >= hits[c]
        BY <1>7, <2>2 DEF TypeOK
      <3> QED
        BY <1>0, <3>1, <3>2, FewerInFlight
    <2> QED
      BY <1>0, <2>1, <2>2
  <1>8. ASSUME NEW r \in Requests, Check(r)
        PROVE  LimiterInv'
    <2> DEFINE client == ClientOf[r]
               pc == IF req[r].op = "confirm" THEN "write" ELSE "start"
               on == [req EXCEPT ![r].pc = pc]
    <2>1. client \in Clients /\ req[r].pc = "check"
      BY <1>8, AdminFactorAssumption DEF Check
    <2>2. CASE req' = [req EXCEPT ![r] = NoRequest] /\ UNCHANGED <<hits, wrong>>
      BY <1>1, <2>2 DEF TypeOK, NoRequest
    <2>3. ASSUME req' = [req EXCEPT ![r] = NoRequest], UNCHANGED hits,
                 wrong' = [wrong EXCEPT ![client] = IF req[r].counted THEN @ + 1 ELSE @]
          PROVE  LimiterInv'
      <3>1. CASE ~req[r].counted
        <4>1. wrong' = wrong
          BY <2>1, <2>3, <3>1 DEF TypeOK
        <4> QED
          BY <1>1, <2>3, <4>1 DEF TypeOK, NoRequest
      <3>2. CASE req[r].counted
        <4>1. ASSUME NEW c \in Clients, c # client
              PROVE  Counted(c)'
          <5>1. InFlight(c)' \subseteq InFlight(c)
            BY <2>3 DEF InFlight, NoRequest, TypeOK
          <5>2. wrong'[c] = wrong[c] /\ hits'[c] >= hits[c]
            BY <2>3, <4>1 DEF TypeOK
          <5> QED
            BY <1>0, <5>1, <5>2, FewerInFlight
        <4>2. Counted(client)'
          <5> DEFINE before == InFlight(client)
                     fewer == before \ {r}
                     after == InFlight(client)'
          <5>1. r \in before /\ after \in SUBSET fewer
            BY <2>1, <2>3, <3>2 DEF InFlight, NoRequest, TypeOK
          <5>2. /\ hits'[client] = hits[client] /\ wrong'[client] = wrong[client] + 1
                /\ hits[client] \in Nat /\ wrong[client] \in Nat /\ MaxAttempts \in Nat
            BY <2>1, <2>3, <3>2, AdminFactorAssumption DEF TypeOK
          <5>3. IsFiniteSet(before) /\ Cardinality(before) \in Nat
            BY InFlightFinite
          <5>4. /\ wrong[client] + Cardinality(before) <= hits[client]
                /\ wrong[client] + Cardinality(before) <= MaxAttempts
            BY <2>1 DEF Counted
          <5> HIDE DEF before, client
          <5>5. IsFiniteSet(fewer) /\ Cardinality(fewer) = Cardinality(before) - 1
            BY <5>1, <5>3, FS_RemoveElement
          <5> HIDE DEF fewer, after
          <5>6. IsFiniteSet(after) /\ Cardinality(after) <= Cardinality(fewer)
            BY <5>1, <5>5, FS_Subset
          <5>7. Cardinality(after) \in Nat /\ Cardinality(fewer) \in Nat
            BY <5>5, <5>6, FS_CardinalityType
          <5>8. /\ wrong'[client] + Cardinality(after) <= hits'[client]
                /\ wrong'[client] + Cardinality(after) <= MaxAttempts
            BY <5>2, <5>3, <5>4, <5>5, <5>6, <5>7
          <5> QED
            BY <5>8 DEF Counted, after
        <4> QED
          BY <1>0, <4>1, <4>2
      <3> QED
        BY <3>1, <3>2
    <2>4. ASSUME req' = Forgotten(client, on), wrong' = [wrong EXCEPT ![client] = 0],
                 hits' = [hits EXCEPT ![client] = 0]
          PROVE  LimiterInv'
      <3>1. [req[r] EXCEPT !.pc = pc] \in Request
        BY DEF TypeOK, Request
      <3>2. on \in [Requests -> Request] /\ \A o \in Requests : o # r => on[o] = req[o]
        BY <3>1 DEF TypeOK
      <3> HIDE DEF on
      <3>3. \A o \in Requests : ClientOf[o] # client => on[o] = req[o]
        BY <3>2
      <3> HIDE DEF client
      <3> QED
        BY <1>7, <2>1, <2>4, <3>2, <3>3
    <2> QED
      BY <1>8, <2>2, <2>3, <2>4 DEF Check, Goto
  <1>9. ASSUME NEW s \in Live, End(s)
        PROVE  LimiterInv'
    BY <1>1, <1>9 DEF End
  <1>10. ASSUME NEW c \in Clients, WindowOver(c)
         PROVE  LimiterInv'
    <2>1. req \in [Requests -> Request]
      BY DEF TypeOK
    <2> QED
      BY <1>7, <1>10, <2>1 DEF WindowOver
  <1>11. ASSUME StartUp
         PROVE  LimiterInv'
    <2>1. ASSUME NEW c \in Clients
          PROVE  Counted(c)'
      <3>1. InFlight(c)' = {} /\ wrong'[c] = 0 /\ hits'[c] = 0
        BY <1>11 DEF StartUp, InFlight, NoRequest
      <3> QED
        BY <3>1, NoneCounted
    <2> QED
      BY <1>0, <2>1
  <1>12. CASE UNCHANGED vars
    BY <1>1, <1>12 DEF vars
  <1> QED
    BY <1>3, <1>4, <1>5, <1>6, <1>8, <1>9, <1>10, <1>11, <1>12 DEF Next, Handler

\* The wrong codes of one window, of both routes and of any number of requests
\* that overlap, never exceed the limit.
THEOREM WrongCodesStayBounded == Spec => [](WrongCodesBounded)
  <1>1. Init => LimiterInv
    <2> SUFFICES ASSUME Init
                 PROVE  LimiterInv
      OBVIOUS
    <2>1. TypeOK
      BY EmptyTypes DEF Init, TypeOK, Live
    <2>2. ASSUME NEW c \in Clients
          PROVE  Counted(c)
      <3>1. InFlight(c) = {} /\ wrong[c] = 0 /\ hits[c] = 0
        BY DEF Init, InFlight, NoRequest
      <3> QED
        BY <3>1, AdminFactorAssumption, FS_EmptySet DEF Counted
    <2> QED
      BY <2>1, <2>2 DEF LimiterInv
  <1>2. LimiterInv => WrongCodesBounded
    <2> SUFFICES ASSUME LimiterInv, NEW c \in Clients
                 PROVE  wrong[c] <= MaxAttempts
      BY DEF WrongCodesBounded
    <2>1. wrong[c] \in Nat /\ Cardinality(InFlight(c)) \in Nat /\ MaxAttempts \in Nat
      BY InFlightFinite, AdminFactorAssumption DEF LimiterInv, TypeOK
    <2> QED
      BY <2>1 DEF LimiterInv, Counted
  <1> QED
    BY <1>1, <1>2, LimiterStep, PTL DEF Spec

=============================================================================
