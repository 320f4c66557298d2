---------------------------- MODULE AdminProofs ----------------------------
(***************************************************************************)
(* Proofs about Admin, for any number of presses and any lists.            *)
(*                                                                         *)
(*   IInv      a control has one call under way and is pending as long as  *)
(*             that lasts.  It rests on this: a timer belongs to a message *)
(*             of success, so that it takes no pending state away, and     *)
(*             what a call is tells whether it can be a load.              *)
(*   KInv      what the page knows: the address of the newest link, and    *)
(*             that the second factor is on.  The status of the factor is  *)
(*             read by the first load alone, before any set-up.            *)
(*   InPlace   where a call can be: a sign-in belongs to the login page, a *)
(*             logout to the others.                                       *)
(*                                                                         *)
(* From these follow OneCallPerControl, UrlIsTheNewest, FactorStaysOn,     *)
(* and MessageKeepsItsTime.                                                *)
(***************************************************************************)
EXTENDS Admin, TLAPS

-----------------------------------------------------------------------------
(* The invariant.                                                           *)

Reading == {"loading", "half", "loaded"}

IsCall(c) == {"what", "row", "at", "gone", "there", "ok"} \subseteq DOMAIN c

\* A load reads, and a logout does not. The form of the sign-in does not go away,
\* and waits for every sign-in that is not answered.
Fits(c) ==
    /\ IsCall(c)
    /\ c.what = "load" => c.at \in Reading
    /\ c.what = "logout" => c.at \notin Reading
    /\ c.what = "login" => (c.there \/ c.at = "released") /\ c.row.kind = "page"

CallsFit == \A i \in DOMAIN calls : i \in Calls /\ Fits(calls[i])

\* A timer is that of the success message that is shown.
TimersOfSuccess ==
    \A t \in ticking :
        /\ t.key \in DOMAIN status
        /\ status[t.key].state = "success"
        /\ t = [key |-> t.key, of |-> status[t.key].of]

Numbers == presses \in 0 .. MaxPresses

IInv == CallsFit /\ TimersOfSuccess /\ OneCallPerControl /\ Numbers

-----------------------------------------------------------------------------
(* Calls that only go on.                                                   *)

Same(c, d) ==
    /\ d.what = c.what /\ d.row = c.row
    /\ d.gone = c.gone /\ d.there = c.there

\* A call that got further has the fields of one, and is the same otherwise.
Onward(c, d, a, o) == IsCall(d) /\ Same(c, d) /\ d.at = a /\ d.ok = o

LEMMA Further ==
    ASSUME NEW c, IsCall(c), NEW a, NEW x, NEW y, NEW z
    PROVE  /\ Onward(c, [c EXCEPT !.at = a], a, c.ok)
           /\ Onward(c, [c EXCEPT !.at = a, !.token = x], a, c.ok)
           /\ Onward(c, [c EXCEPT !.at = a, !.data = x], a, c.ok)
           /\ Onward(c, [c EXCEPT !.at = a, !.ok = x], a, x)
           /\ Onward(c, [c EXCEPT !.at = a, !.got = y], a, c.ok)
           /\ Onward(c, [c EXCEPT !.at = a, !.got = y, !.gotRev = z], a, c.ok)
           /\ Onward(c, [c EXCEPT !.at = a, !.rev = x, !.got = y], a, c.ok)
           /\ Onward(c, [c EXCEPT !.at = a, !.data = x, !.got = y, !.gotRev = z], a, c.ok)
<1>1. Onward(c, [c EXCEPT !.at = a], a, c.ok)
  BY DEF IsCall, Same, Onward
<1>2. Onward(c, [c EXCEPT !.at = a, !.token = x], a, c.ok)
  BY DEF IsCall, Same, Onward
<1>3. Onward(c, [c EXCEPT !.at = a, !.data = x], a, c.ok)
  BY DEF IsCall, Same, Onward
<1>4. Onward(c, [c EXCEPT !.at = a, !.ok = x], a, x)
  BY DEF IsCall, Same, Onward
<1>5. Onward(c, [c EXCEPT !.at = a, !.got = y], a, c.ok)
  BY DEF IsCall, Same, Onward
<1>6. Onward(c, [c EXCEPT !.at = a, !.got = y, !.gotRev = z], a, c.ok)
  BY DEF IsCall, Same, Onward
<1>7. Onward(c, [c EXCEPT !.at = a, !.rev = x, !.got = y], a, c.ok)
  BY DEF IsCall, Same, Onward
<1>8. Onward(c, [c EXCEPT !.at = a, !.data = x, !.got = y, !.gotRev = z], a, c.ok)
  BY DEF IsCall, Same, Onward
<1> QED
  BY <1>1, <1>2, <1>3, <1>4, <1>5, <1>6, <1>7, <1>8

\* The calls after a step are calls from before it that got further.
Carried ==
    \A i \in DOMAIN calls' :
        i \in DOMAIN calls /\ Same(calls[i], calls'[i]) /\ Fits(calls'[i])

\* Moreover, they read when they did before.
Along ==
    /\ Carried
    /\ \A i \in DOMAIN calls' :
        /\ calls'[i].ok = calls[i].ok
        /\ calls'[i].at \in Reading <=> calls[i].at \in Reading

\* When no message changes and calls only go on, the invariant stays.
LEMMA CarriedKeeps ==
    ASSUME IInv, Carried, UNCHANGED <<status, ticking, presses>>
    PROVE  IInv'
<1>1. CallsFit'
  BY DEF IInv, CallsFit, Carried, Calls, Second
<1>2. TimersOfSuccess' /\ Numbers'
  BY DEF IInv, TimersOfSuccess, Numbers
<1>3. OneCallPerControl'
  <2> SUFFICES ASSUME NEW i \in DOMAIN calls', Reports(i)'
               PROVE  /\ Key(calls'[i]) \in DOMAIN status
                      /\ status[Key(calls'[i])] = [state |-> "pending", of |-> i]
    BY DEF OneCallPerControl
  <2>1. i \in DOMAIN calls /\ Same(calls[i], calls'[i])
    BY DEF Carried
  <2>2. Reports(i) /\ Key(calls'[i]) = Key(calls[i])
    BY <2>1 DEF Same, Reports, Key
  <2> QED
    BY <2>1, <2>2 DEF IInv, OneCallPerControl
<1> QED
  BY <1>1, <1>2, <1>3 DEF IInv

\* A call that is over, and one that goes on.
LEMMA DroppedCarries ==
    ASSUME IInv, NEW i, calls' = Restrict(calls, DOMAIN calls \ {i})
    PROVE  Along
BY DEF IInv, CallsFit, Carried, Along, Same, Restrict

LEMMA OnwardCarries ==
    ASSUME IInv, NEW i \in DOMAIN calls, NEW d, NEW a, NEW o, Onward(calls[i], d, a, o),
           calls' = [calls EXCEPT ![i] = d],
           calls[i].what = "load" => a \in Reading,
           calls[i].what = "logout" => a \notin Reading,
           calls[i].at # "released"
    PROVE  /\ Carried
           /\ calls[i].ok = o /\ (calls[i].at \in Reading <=> a \in Reading) => Along
<1>1. Fits(d) /\ Same(calls[i], d)
  BY DEF IInv, CallsFit, Fits, Onward, Same
<1>5. d.at = a /\ d.ok = o
  BY DEF Onward
<1>2. \A j \in DOMAIN calls : Fits(calls[j]) /\ Same(calls[j], calls[j])
  BY DEF IInv, CallsFit, Same
<1>3. DOMAIN calls' = DOMAIN calls
  OBVIOUS
<1>4. \A j \in DOMAIN calls : calls'[j] = IF j = i THEN d ELSE calls[j]
  OBVIOUS
<1> QED
  BY <1>1, <1>2, <1>3, <1>4, <1>5 DEF Carried, Along

LEMMA NothingCarries ==
    ASSUME IInv, UNCHANGED calls
    PROVE  Along
BY DEF IInv, CallsFit, Carried, Along, Same

\* How far a call is when it gets further fits what it is.
LEMMA Stages ==
    ASSUME IInv, NEW i \in DOMAIN calls
    PROVE  /\ IsCall(calls[i])
           /\ calls[i].at \notin Reading => calls[i].what # "load"
           /\ calls[i].at \in Reading => calls[i].what # "logout"
           /\ calls[i].what = "login" => /\ calls[i].there \/ calls[i].at = "released"
                                         /\ calls[i].row.kind = "page"
BY DEF IInv, CallsFit, Fits

-----------------------------------------------------------------------------
(* The network, the backend and the client, as far as calls only go on.     *)

LEMMA OwnTokenCarries ==
    ASSUME IInv, NEW i \in DOMAIN calls, OwnToken(i)
    PROVE  Along
<1> DEFINE d == [calls[i] EXCEPT !.at = "sent", !.token = TRUE]
<1>1. Onward(calls[i], d, "sent", calls[i].ok)
  BY Stages, Further
<1>2. calls' = [calls EXCEPT ![i] = d]
  BY DEF OwnToken
<1> HIDE DEF d
<1> QED
  <2>1. calls[i].at \notin Reading /\ "sent" \notin Reading /\ calls[i].at # "released"
    BY DEF OwnToken, Reading
  <2> QED
    BY <1>1, <1>2, <2>1, Stages, OnwardCarries

LEMMA FetchCarries ==
    ASSUME IInv, NEW i \in DOMAIN calls, Fetch(i)
    PROVE  Along
<1> DEFINE g == db[StoreOf(i)]
           r == rev[StoreOf(i)]
           d == [calls[i] EXCEPT !.at = "loaded", !.got = g, !.gotRev = r]
<1>2. calls' = [calls EXCEPT ![i] = d]
  BY DEF Fetch
<1>1. Onward(calls[i], d, "loaded", calls[i].ok)
  <2> HIDE DEF g, r
  <2> QED
    BY Stages, Further
<1> HIDE DEF d
<1> QED
  BY <1>1, <1>2, Stages, OnwardCarries DEF Fetch, Reading

LEMMA FetchPartCarries ==
    ASSUME IInv, NEW i \in DOMAIN calls, NEW kind, FetchPart(i, kind)
    PROVE  Along
<1> DEFINE part == Only(db.skills, {n \in DOMAIN db.skills : db.skills[n].kind = kind})
           whole == IF kind = "category" THEN part \o calls[i].got ELSE calls[i].got \o part
           r == rev.skills
           d == [calls[i] EXCEPT !.at = "half", !.data = kind, !.got = part, !.gotRev = r]
           e == [calls[i] EXCEPT !.at = "loaded", !.got = whole]
<1>1. \/ calls[i].at = "loading" /\ calls' = [calls EXCEPT ![i] = d]
      \/ calls[i].at = "half" /\ calls' = [calls EXCEPT ![i] = e]
  BY DEF FetchPart
<1> HIDE DEF part, whole, r
<1>2. Onward(calls[i], d, "half", calls[i].ok) /\ Onward(calls[i], e, "loaded", calls[i].ok)
  BY Stages, Further
<1> HIDE DEF d, e
<1> QED
  BY <1>1, <1>2, Stages, OnwardCarries DEF Reading

LEMMA AnsweredListCarries ==
    ASSUME IInv, NEW i \in DOMAIN calls, AnsweredList(i)
    PROVE  Carried
<1> DEFINE o == (calls[i].at = "done")
           d == [calls[i] EXCEPT !.at = "loading", !.ok = o]
<1>2. calls' = [calls EXCEPT ![i] = d]
  BY DEF AnsweredList
<1> HIDE DEF o
<1>1. Onward(calls[i], d, "loading", o)
  BY Stages, Further
<1> HIDE DEF d
<1> QED
  BY <1>1, <1>2, Stages, OnwardCarries DEF AnsweredList, Reading

LEMMA AnsweredCvCarries ==
    ASSUME IInv, NEW i \in DOMAIN calls, AnsweredCv(i)
    PROVE  Carried
<1> DEFINE d == [calls[i] EXCEPT !.at = "loading"]
<1>2. calls' = [calls EXCEPT ![i] = d]
  BY DEF AnsweredCv
<1>1. Onward(calls[i], d, "loading", calls[i].ok)
  BY Stages, Further
<1> HIDE DEF d
<1> QED
  BY <1>1, <1>2, Stages, OnwardCarries DEF AnsweredCv, Reading

LEMMA LogoutHereCarries ==
    ASSUME IInv, NEW i \in DOMAIN calls, LogoutHere(i)
    PROVE  Along
<1> DEFINE d == [calls[i] EXCEPT !.at = "sent", !.data = "password"]
<1>2. calls' = [calls EXCEPT ![i] = d]
  BY DEF LogoutHere
<1>1. Onward(calls[i], d, "sent", calls[i].ok)
  BY Stages, Further
<1> HIDE DEF d
<1> QED
  <2>1. calls[i].at \notin Reading /\ "sent" \notin Reading /\ calls[i].at # "released"
    BY DEF LogoutHere, Reading
  <2> QED
    BY <1>1, <1>2, <2>1, Stages, OnwardCarries

LEMMA AcceptedCarries ==
    ASSUME IInv, NEW i \in DOMAIN calls, calls[i].at = "sent",
           NEW store, NEW value, NEW got, Accepted(i, store, value, got)
    PROVE  Along
<1> DEFINE r == rev[store] + 1
           d == [calls[i] EXCEPT !.at = "done", !.rev = r, !.got = got]
<1>2. \/ calls' = Restrict(calls, DOMAIN calls \ {i})
      \/ calls' = [calls EXCEPT ![i] = d]
  BY DEF Accepted
<1> HIDE DEF r
<1>1. Onward(calls[i], d, "done", calls[i].ok)
  BY Stages, Further
<1> HIDE DEF d
<1> QED
  <2>1. calls[i].at \notin Reading /\ "done" \notin Reading
    BY DEF Reading
  <2>2. CASE calls' = [calls EXCEPT ![i] = d]
    BY <1>1, <2>1, <2>2, Stages, OnwardCarries
  <2> QED
    BY <1>2, <2>2, DroppedCarries

LEMMA BackendKeeps ==
    ASSUME IInv, NEW i \in DOMAIN calls, Backend(i)
    PROVE  IInv'
<1>1. calls[i].at = "sent" /\ \E store, value, got : Accepted(i, store, value, got)
  <2>1. CASE AcceptList(i)
    BY <2>1 DEF AcceptList, Admitted
  <2>2. CASE AcceptForm(i)
    BY <2>2 DEF AcceptForm, Admitted
  <2>3. CASE AcceptLogin(i)
    BY <2>3 DEF AcceptLogin
  <2>4. CASE AcceptLogout(i)
    BY <2>4 DEF AcceptLogout
  <2> QED
    BY <2>1, <2>2, <2>3, <2>4 DEF Backend
<1>2. PICK store, value, got : Accepted(i, store, value, got)
  BY <1>1
<1>3. UNCHANGED <<status, ticking, presses>>
  BY <1>2 DEF Accepted
<1> QED
  BY <1>1, <1>2, <1>3, AcceptedCarries, CarriedKeeps DEF Along

LEMMA NetworkKeeps ==
    ASSUME IInv, NEW i \in DOMAIN calls, Network(i)
    PROVE  IInv'
<1>1. Along
  <2>1. CASE Dropped(i)
    BY <2>1, DroppedCarries DEF Dropped
  <2> QED
    BY <2>1, OwnTokenCarries, FetchCarries, FetchPartCarries DEF Network
<1>2. UNCHANGED <<status, ticking, presses>>
  <2>1. CASE OwnToken(i)
    BY <2>1 DEF OwnToken
  <2>2. CASE Dropped(i)
    BY <2>2 DEF Dropped
  <2>3. CASE Fetch(i)
    BY <2>3 DEF Fetch
  <2>4. ASSUME NEW kind, FetchPart(i, kind) PROVE UNCHANGED <<status, ticking, presses>>
    BY <2>4 DEF FetchPart
  <2> QED
    BY <2>1, <2>2, <2>3, <2>4 DEF Network
<1> QED
  BY <1>1, <1>2, CarriedKeeps DEF Along

-----------------------------------------------------------------------------
(* Presses.                                                                 *)

\* A button that is pressed reports on the new call, and only on that.
LEMMA RunKeeps ==
    ASSUME IInv, NEW what, what \notin {"load", "logout"}, NEW row, NEW at, at \notin Reading,
           NEW data, Run(what, row, at, data), what = "login" => row.kind = "page"
    PROVE  IInv'
<1> DEFINE n == presses + 1
           k == [what |-> what, row |-> row]
           c == Call(what, row, at, data)
<1>1. /\ n \in Calls /\ presses' = n /\ Numbers'
      /\ calls' = Put(calls, n, c)
      /\ status' = Put(status, k, [state |-> "pending", of |-> n])
      /\ ticking' = {t \in ticking : t.key # k}
      /\ State(k) # "pending"
  BY UiAssumption DEF Run, Count, MayPress, IInv, Numbers, Calls, Second
<1>2. /\ Fits(c) /\ Key(c) = k
      /\ c.what = what /\ c.row = row
  BY DEF Call, Fits, IsCall, Key
<1>3. /\ DOMAIN calls' = DOMAIN calls \cup {n}
      /\ calls'[n] = c
      /\ \A j \in DOMAIN calls \ {n} : calls'[j] = calls[j]
  BY <1>1 DEF Put
<1>4. /\ DOMAIN status' = DOMAIN status \cup {k}
      /\ status'[k] = [state |-> "pending", of |-> n]
      /\ \A l \in DOMAIN status \ {k} : status'[l] = status[l]
  BY <1>1 DEF Put
<1> HIDE DEF n, c, k
<1>5. CallsFit'
  BY <1>1, <1>2, <1>3 DEF CallsFit, IInv, Calls, Second
<1>6. TimersOfSuccess'
  BY <1>1, <1>4 DEF TimersOfSuccess, IInv
<1>7. ASSUME NEW j \in DOMAIN calls', Reports(j)'
      PROVE  /\ Key(calls'[j]) \in DOMAIN status'
             /\ status'[Key(calls'[j])] = [state |-> "pending", of |-> j]
  <2>1. CASE j = n
    BY <2>1, <1>2, <1>3, <1>4
  <2>2. CASE j # n
    <3>1. j \in DOMAIN calls /\ calls'[j] = calls[j] /\ Reports(j)
      BY <2>2, <1>3, <1>7 DEF Reports
    <3>2. /\ Key(calls[j]) \in DOMAIN status
          /\ status[Key(calls[j])] = [state |-> "pending", of |-> j]
      BY <3>1 DEF IInv, OneCallPerControl
    <3>3. Key(calls[j]) # k
      BY <3>2, <1>1 DEF State
    <3> QED
      BY <3>1, <3>2, <3>3, <1>4
  <2> QED
    BY <2>1, <2>2
<1> QED
  BY <1>1, <1>5, <1>6, <1>7 DEF IInv, OneCallPerControl

-----------------------------------------------------------------------------
(* Outcomes.                                                                *)

\* Two calls do not report on the same control.
LEMMA OneReporter ==
    ASSUME IInv, NEW i \in DOMAIN calls, NEW j \in DOMAIN calls, Reports(i), Reports(j),
           Key(calls[i]) = Key(calls[j])
    PROVE  i = j
<1>1. /\ status[Key(calls[i])] = [state |-> "pending", of |-> i]
      /\ status[Key(calls[j])] = [state |-> "pending", of |-> j]
  BY DEF IInv, OneCallPerControl
<1>2. [state |-> "pending", of |-> i].of = [state |-> "pending", of |-> j].of
  BY <1>1
<1> QED
  BY <1>2

\* No timer runs for a control that a call reports on.
LEMMA NoTimer ==
    ASSUME IInv, NEW i \in DOMAIN calls, Reports(i), NEW t \in ticking
    PROVE  t.key # Key(calls[i])
<1> DEFINE m == [state |-> "pending", of |-> i]
<1>1. status[Key(calls[i])] = m
  BY DEF IInv, OneCallPerControl
<1>2. m.state = "pending"
  OBVIOUS
<1> QED
  BY <1>1, <1>2 DEF IInv, TimersOfSuccess

LEMMA EndKeeps ==
    ASSUME IInv, NEW i \in DOMAIN calls, NEW s, End(i, s), UNCHANGED presses,
           ~calls[i].gone, calls[i].what \notin {"load", "logout"}
    PROVE  IInv'
<1> DEFINE k == Key(calls[i])
           m == [state |-> s, of |-> i]
<1>1. /\ calls' = Restrict(calls, DOMAIN calls \ {i})
      /\ status' = Reported(i, status, s)
      /\ ticking' = ticking \cup Timers(i, s)
  BY DEF End
<1>2. CallsFit' /\ Numbers'
  BY <1>1 DEF CallsFit, IInv, Restrict, Calls, Second, Numbers
<1>3. ASSUME NEW j \in DOMAIN calls', Reports(j)'
      PROVE  j \in DOMAIN calls \ {i} /\ calls'[j] = calls[j] /\ Reports(j)
  BY <1>1, <1>3 DEF Restrict, Reports
<1>4. CASE ~(calls[i].there \/ calls[i].what \in OfPage)
  <2>1. status' = status /\ ticking' = ticking
    BY <1>1, <1>4 DEF Reported, Timers
  <2>2. TimersOfSuccess'
    BY <2>1 DEF IInv, TimersOfSuccess
  <2>3. OneCallPerControl'
    BY <2>1, <1>3 DEF IInv, OneCallPerControl
  <2> QED
    BY <1>2, <2>2, <2>3 DEF IInv
<1>5. CASE calls[i].there \/ calls[i].what \in OfPage
  <2>1. Reports(i)
    BY <1>5 DEF Reports
  <2>2. status' = Put(status, k, m)
    BY <1>1, <1>5 DEF Reported
  <2> HIDE DEF k
  <2>3. /\ DOMAIN status' = DOMAIN status \cup {k}
        /\ status'[k] = m
        /\ \A l \in DOMAIN status \ {k} : status'[l] = status[l]
    BY <2>2 DEF Put
  <2>4. ASSUME NEW t \in ticking'
        PROVE  /\ t.key \in DOMAIN status'
               /\ status'[t.key].state = "success"
               /\ t = [key |-> t.key, of |-> status'[t.key].of]
    <3>1. CASE t \in ticking
      <4>1. t.key # k
        BY <3>1, <2>1, NoTimer DEF k
      <4> QED
        BY <4>1, <3>1, <2>3 DEF IInv, TimersOfSuccess
    <3>2. CASE t \in Timers(i, s)
      <4>1. s = "success" /\ t = [key |-> k, of |-> i]
        BY <3>2 DEF Timers, k
      <4> QED
        BY <4>1, <2>3
    <3> QED
      BY <3>1, <3>2, <1>1
  <2>5. ASSUME NEW j \in DOMAIN calls', Reports(j)'
        PROVE  /\ Key(calls'[j]) \in DOMAIN status'
               /\ status'[Key(calls'[j])] = [state |-> "pending", of |-> j]
    <3>1. j \in DOMAIN calls \ {i} /\ calls'[j] = calls[j] /\ Reports(j)
      BY <2>5, <1>3
    <3>2. Key(calls[j]) # k
      BY <3>1, <2>1, OneReporter DEF k
    <3> QED
      BY <3>1, <3>2, <2>3 DEF IInv, OneCallPerControl
  <2> QED
    BY <1>2, <2>4, <2>5 DEF IInv, TimersOfSuccess, OneCallPerControl
<1> QED
  BY <1>4, <1>5

\* An answered sign-in is the same call, and its control does not wait for it.
LEMMA Released ==
    ASSUME IInv, NEW i \in DOMAIN calls, AnsweredLogin(i)
    PROVE  /\ DOMAIN calls' = DOMAIN calls
           /\ \A j \in DOMAIN calls \ {i} : calls'[j] = calls[j]
           /\ IsCall(calls'[i]) /\ calls'[i].at = "released" /\ ~calls'[i].there
           /\ calls'[i].what = "login" /\ calls'[i].row = calls[i].row
           /\ calls'[i].gone = calls[i].gone /\ calls'[i].ok = calls[i].ok
<1> DEFINE d == [calls[i] EXCEPT !.at = "released", !.there = FALSE]
<1>1. calls' = [calls EXCEPT ![i] = d] /\ calls[i].what = "login"
  BY DEF AnsweredLogin
<1>2. IsCall(calls[i])
  BY Stages
<1>3. /\ IsCall(d) /\ d.at = "released" /\ ~d.there /\ d.what = calls[i].what
      /\ d.row = calls[i].row /\ d.gone = calls[i].gone /\ d.ok = calls[i].ok
  BY <1>2 DEF IsCall
<1> HIDE DEF d
<1> QED
  BY <1>1, <1>3

LEMMA ReleasedKeeps ==
    ASSUME IInv, NEW i \in DOMAIN calls, ~calls[i].gone, AnsweredLogin(i)
    PROVE  IInv'
<1> DEFINE k == Key(calls[i])
<1>1. /\ status' = Restrict(status, DOMAIN status \ {k})
      /\ ticking' = ticking /\ presses' = presses
      /\ calls[i].what = "login" /\ calls[i].at = "done"
  BY DEF AnsweredLogin
<1>8. Reports(i)
  BY <1>1, Stages DEF Reports
<1>9. Fits(calls'[i]) /\ ~Reports(i)'
  BY <1>1, Released, Stages DEF Fits, Reports, OfPage, Reading
<1>2. CallsFit' /\ Numbers'
  BY <1>1, <1>9, Released DEF CallsFit, IInv, Calls, Second, Numbers
<1>3. \A t \in ticking : t.key # k
  BY <1>8, NoTimer
<1>4. \A j \in DOMAIN calls \ {i} : Reports(j) => Key(calls[j]) # k
  BY <1>8, OneReporter
<1> HIDE DEF k
<1>5. TimersOfSuccess'
  BY <1>1, <1>3 DEF IInv, TimersOfSuccess, Restrict
<1>6. ASSUME NEW j \in DOMAIN calls', Reports(j)'
      PROVE  j \in DOMAIN calls \ {i} /\ calls'[j] = calls[j] /\ Reports(j)
  BY <1>6, <1>9, Released DEF Reports
<1>7. OneCallPerControl'
  BY <1>1, <1>4, <1>6 DEF IInv, OneCallPerControl, Restrict
<1> QED
  BY <1>2, <1>5, <1>7 DEF IInv

\* A timer takes the message it was set for.
LEMMA TickKeeps ==
    ASSUME IInv, NEW t \in ticking, Tick(t)
    PROVE  IInv'
<1>1. /\ calls' = calls /\ presses' = presses
      /\ ticking' = ticking \ {t}
      /\ status' = Restrict(status, DOMAIN status \ {t.key})
  BY DEF Tick
<1>2. CallsFit' /\ Numbers'
  BY <1>1 DEF IInv, CallsFit, Numbers
<1>3. \A u \in ticking \ {t} : u.key # t.key
  BY DEF IInv, TimersOfSuccess
<1>4. TimersOfSuccess'
  BY <1>1, <1>3 DEF IInv, TimersOfSuccess, Restrict
<1>5. \A j \in DOMAIN calls : Reports(j) => t.key # Key(calls[j])
  BY NoTimer
<1>6. \A j \in DOMAIN calls : Reports(j)' = Reports(j)
  BY <1>1 DEF Reports
<1>7. OneCallPerControl'
  BY <1>1, <1>5, <1>6 DEF IInv, OneCallPerControl, Restrict
<1> QED
  BY <1>2, <1>4, <1>7 DEF IInv

-----------------------------------------------------------------------------
(* Rendering and mounting.                                                  *)

\* What rendering makes of the calls.
Seen(j, list, open) == calls[j].there /\ Hosted(calls[j].row, list, open)

LEMMA RenderedCalls ==
    ASSUME IInv, NEW i, NEW list, NEW open, NEW s, Rendered(list, open, i, s)
    PROVE  /\ DOMAIN calls' = DOMAIN calls \ {i}
           /\ \A j \in DOMAIN calls' :
                /\ calls'[j].what = calls[j].what /\ calls'[j].row = calls[j].row
                /\ calls'[j].at = calls[j].at /\ calls'[j].gone = calls[j].gone
                /\ calls'[j].ok = calls[j].ok
                /\ calls'[j].there = Seen(j, list, open)
                /\ IsCall(calls'[j])
<1>1. calls' = [j \in DOMAIN calls \ {i} |-> [calls[j] EXCEPT !.there = Seen(j, list, open)]]
  BY DEF Rendered, Seen
<1>2. ASSUME NEW j \in DOMAIN calls'
      PROVE  /\ calls'[j].what = calls[j].what /\ calls'[j].row = calls[j].row
             /\ calls'[j].at = calls[j].at /\ calls'[j].gone = calls[j].gone
             /\ calls'[j].ok = calls[j].ok
             /\ calls'[j].there = Seen(j, list, open)
             /\ IsCall(calls'[j])
  <2>1. IsCall(calls[j])
    BY <1>1, Stages
  <2> QED
    BY <1>1, <2>1 DEF IsCall
<1> QED
  BY <1>1, <1>2

\* Components that are gone take messages and timers with them, and no call
\* that reports loses its control that way.
LEMMA RenderedKeeps ==
    ASSUME IInv, NEW i, NEW list, NEW open, NEW s, Rendered(list, open, i, s),
           UNCHANGED presses,
           i \in DOMAIN calls => ~calls[i].gone /\ calls[i].what # "logout"
    PROVE  IInv'
<1> DEFINE kept == Restrict(status, {k \in DOMAIN status : Stays(k, list, open)})
           here == /\ i \in DOMAIN calls /\ calls[i].what # "load" /\ s # "none"
                   /\ Stays(Key(calls[i]), list, open)
           k == Key(calls[i])
           m == [state |-> s, of |-> i]
<1>1. /\ status' = IF here THEN Reported(i, kept, s) ELSE kept
      /\ ticking' = {t \in ticking : Stays(t.key, list, open)}
                        \cup (IF here THEN Timers(i, s) ELSE {})
  BY DEF Rendered
<1>3. ASSUME NEW j \in DOMAIN calls \ {i}
      PROVE  /\ calls'[j].what = calls[j].what /\ calls'[j].row = calls[j].row
             /\ calls'[j].at = calls[j].at /\ calls'[j].gone = calls[j].gone
             /\ calls'[j].there = (calls[j].there /\ Hosted(calls[j].row, list, open))
             /\ IsCall(calls'[j])
  BY RenderedCalls DEF Seen
<1>4. DOMAIN calls' = DOMAIN calls \ {i}
  BY RenderedCalls
<1>5. CallsFit' /\ Numbers'
  <2>1. \A j \in DOMAIN calls' :
            calls'[j].what = "login" => calls'[j].there \/ calls'[j].at = "released"
    BY <1>3, <1>4, Stages DEF Hosted
  <2>2. Numbers'
    BY DEF IInv, Numbers
  <2> QED
    BY <2>1, <2>2, <1>3, <1>4 DEF IInv, CallsFit, Fits, Calls, Second
<1>6. ASSUME NEW j \in DOMAIN calls', Reports(j)'
      PROVE  /\ j \in DOMAIN calls \ {i} /\ Reports(j)
             /\ Key(calls'[j]) = Key(calls[j])
             /\ Key(calls[j]) \in DOMAIN kept
             /\ kept[Key(calls[j])] = [state |-> "pending", of |-> j]
  <2>1. j \in DOMAIN calls \ {i} /\ Reports(j) /\ Key(calls'[j]) = Key(calls[j])
    BY <1>3, <1>4, <1>6 DEF Reports, Key
  <2>2. Stays(Key(calls[j]), list, open)
    BY <2>1, <1>3, <1>6 DEF Reports, Key, Stays
  <2> QED
    BY <2>1, <2>2 DEF IInv, OneCallPerControl, Restrict
<1>7. ASSUME NEW t \in ticking, Stays(t.key, list, open)
      PROVE  /\ t.key \in DOMAIN kept
             /\ kept[t.key].state = "success"
             /\ t = [key |-> t.key, of |-> kept[t.key].of]
  BY <1>7 DEF IInv, TimersOfSuccess, Restrict
<1>8. CASE here /\ (calls[i].there \/ calls[i].what \in OfPage)
  <2>1. Reports(i)
    BY <1>8 DEF Reports
  <2>2. status' = Put(kept, k, m)
    BY <1>1, <1>8 DEF Reported
  <2>3. ticking' = {t \in ticking : Stays(t.key, list, open)} \cup Timers(i, s)
    BY <1>1, <1>8
  <2> HIDE DEF kept
  <2>4. /\ DOMAIN status' = DOMAIN kept \cup {k}
        /\ status'[k] = m
        /\ \A l \in DOMAIN kept \ {k} : status'[l] = kept[l]
    <3> HIDE DEF k, m
    <3> QED
      BY <2>2 DEF Put
  <2>5. ASSUME NEW t \in ticking'
        PROVE  /\ t.key \in DOMAIN status'
               /\ status'[t.key].state = "success"
               /\ t = [key |-> t.key, of |-> status'[t.key].of]
    <3>1. CASE t \in ticking /\ Stays(t.key, list, open)
      <4>1. t.key # k
        BY <3>1, <2>1, <1>8, NoTimer
      <4> HIDE DEF k, m
      <4> QED
        BY <4>1, <3>1, <1>7, <2>4
    <3>2. CASE t \in Timers(i, s)
      <4>1. s = "success" /\ t = [key |-> k, of |-> i]
        BY <3>2 DEF Timers
      <4> HIDE DEF k
      <4> QED
        BY <4>1, <2>4
    <3> QED
      BY <3>1, <3>2, <2>3
  <2>6. ASSUME NEW j \in DOMAIN calls', Reports(j)'
        PROVE  /\ Key(calls'[j]) \in DOMAIN status'
               /\ status'[Key(calls'[j])] = [state |-> "pending", of |-> j]
    <3>1. Key(calls[j]) # k
      BY <2>6, <1>6, <1>8, <2>1, OneReporter
    <3> HIDE DEF k, m
    <3> QED
      BY <3>1, <2>6, <1>6, <2>4
  <2> QED
    BY <1>5, <2>5, <2>6 DEF IInv, TimersOfSuccess, OneCallPerControl
<1>9. CASE ~(here /\ (calls[i].there \/ calls[i].what \in OfPage))
  <2>1. status' = kept /\ ticking' = {t \in ticking : Stays(t.key, list, open)}
    BY <1>1, <1>9 DEF Reported, Timers
  <2> HIDE DEF kept, here
  <2>2. TimersOfSuccess'
    BY <2>1, <1>7 DEF TimersOfSuccess
  <2>3. OneCallPerControl'
    BY <2>1, <1>6 DEF OneCallPerControl
  <2> QED
    BY <1>5, <2>2, <2>3 DEF IInv
<1> QED
  BY <1>8, <1>9

\* The controls of the crop take their message and their timer with them.
LEMMA PortraitCalls ==
    ASSUME IInv, NEW i, NEW how, ShowPortrait(i, how)
    PROVE  /\ DOMAIN calls' = DOMAIN calls \ {i}
           /\ \A j \in DOMAIN calls' :
                /\ calls'[j].what = calls[j].what /\ calls'[j].row = calls[j].row
                /\ calls'[j].at = calls[j].at /\ calls'[j].gone = calls[j].gone
                /\ calls'[j].ok = calls[j].ok
                /\ calls'[j].there = (calls[j].there
                                        /\ ~(calls[j].what = "crop" /\ crop' = None))
                /\ IsCall(calls'[j])
<1> DEFINE there(j) == calls[j].there /\ ~(calls[j].what = "crop" /\ crop' = None)
<1>1. calls' = [j \in DOMAIN calls \ {i} |-> [calls[j] EXCEPT !.there = there(j)]]
  BY DEF ShowPortrait, Key
<1> HIDE DEF there
<1>2. ASSUME NEW j \in DOMAIN calls'
      PROVE  /\ calls'[j].what = calls[j].what /\ calls'[j].row = calls[j].row
             /\ calls'[j].at = calls[j].at /\ calls'[j].gone = calls[j].gone
             /\ calls'[j].ok = calls[j].ok
             /\ calls'[j].there = there(j)
             /\ IsCall(calls'[j])
  <2>1. IsCall(calls[j])
    BY <1>1, Stages
  <2> QED
    BY <1>1, <2>1 DEF IsCall
<1> QED
  BY <1>1, <1>2 DEF there

LEMMA PortraitKeeps ==
    ASSUME IInv, NEW i, NEW how, ShowPortrait(i, how)
    PROVE  IInv'
<1> DEFINE gone(k) == k.what = "crop" /\ crop' = None
<1>1. /\ status' = Restrict(status, {k \in DOMAIN status : ~gone(k)})
      /\ ticking' = {t \in ticking : ~gone(t.key)}
      /\ presses' = presses
  BY DEF ShowPortrait
<1>2. CallsFit' /\ Numbers'
  <2>1. Numbers'
    BY <1>1 DEF IInv, Numbers
  <2>2. ASSUME NEW j \in DOMAIN calls' PROVE j \in Calls /\ Fits(calls'[j])
    <3>1. j \in DOMAIN calls /\ j \in Calls /\ Fits(calls[j])
      BY PortraitCalls DEF IInv, CallsFit
    <3> QED
      BY <3>1, PortraitCalls DEF Fits
  <2> QED
    BY <2>1, <2>2 DEF CallsFit, Calls, Second
<1>3. ASSUME NEW j \in DOMAIN calls', Reports(j)'
      PROVE  /\ j \in DOMAIN calls /\ Reports(j) /\ Key(calls'[j]) = Key(calls[j])
             /\ ~gone(Key(calls[j]))
  BY <1>3, PortraitCalls DEF Reports, Key, OfPage
<1> HIDE DEF gone
<1>4. TimersOfSuccess'
  BY <1>1 DEF IInv, TimersOfSuccess, Restrict
<1>5. OneCallPerControl'
  BY <1>1, <1>3 DEF IInv, OneCallPerControl, Restrict
<1> QED
  BY <1>2, <1>4, <1>5 DEF IInv

\* On a page that was just mounted nothing is reported.
LEMMA MountedKeeps ==
    ASSUME IInv, NEW p, Mounted(p), Numbers'
    PROVE  IInv'
<1> DEFINE stays == {j \in DOMAIN calls : calls[j].what = "logout" /\ p \in AdminPages}
           left  == {j \in DOMAIN calls : calls[j].at \in {"csrf", "sent"}} \ stays
           load  == [Call("load", Page, "loading", 0) EXCEPT !.token = FALSE]
           gone(j) == [calls[j] EXCEPT !.gone = TRUE]
<1>1. /\ calls' = [j \in stays \cup left \cup Loads(p) |->
                        IF j \in stays THEN calls[j]
                        ELSE IF j \in left THEN gone(j) ELSE load]
      /\ status' = Nothing /\ ticking' = {}
  BY DEF Mounted
<1>2. load.what = "load" /\ load.at = "loading" /\ IsCall(load)
  BY DEF Call, IsCall
<1>3. ASSUME NEW j \in left
      PROVE  /\ gone(j).gone = TRUE /\ gone(j).what = calls[j].what
             /\ gone(j).at = calls[j].at /\ gone(j).there = calls[j].there
             /\ gone(j).row = calls[j].row /\ IsCall(gone(j))
  BY Stages DEF IsCall
<1>4. Loads(p) \subseteq Calls
  BY UiAssumption DEF Loads, Calls, Second
<1> HIDE DEF load, gone
<1>5. ASSUME NEW j \in DOMAIN calls'
      PROVE  j \in Calls /\ Fits(calls'[j]) /\ ~Reports(j)'
  <2>1. CASE j \in stays
    <3>1. calls'[j] = calls[j] /\ calls[j].what = "logout"
      BY <2>1, <1>1
    <3> QED
      BY <3>1, <2>1 DEF IInv, CallsFit, Reports
  <2>2. CASE j \in left
    <3>1. calls'[j] = gone(j)
      BY <2>2, <1>1
    <3>2. j \in Calls /\ Fits(calls[j]) /\ calls[j].at \notin Reading
      BY <2>2 DEF IInv, CallsFit, Reading
    <3> QED
      BY <3>1, <3>2, <2>2, <1>3 DEF Fits, Reports
  <2>3. CASE j \in Loads(p) \ (stays \cup left)
    <3>1. calls'[j] = load
      BY <2>3, <1>1
    <3> QED
      BY <3>1, <2>3, <1>2, <1>4 DEF Fits, Reports, Reading
  <2> QED
    BY <2>1, <2>2, <2>3, <1>1
<1> HIDE DEF stays, left
<1>6. CallsFit' /\ OneCallPerControl'
  BY <1>5 DEF CallsFit, OneCallPerControl, Calls, Second
<1>7. TimersOfSuccess'
  BY <1>1 DEF TimersOfSuccess
<1> QED
  BY <1>6, <1>7 DEF IInv

-----------------------------------------------------------------------------
(* The actions.                                                             *)

\* Every button but the one to log out runs. Only create takes an address away,
\* and the buttons of the security page wait for what it has to know.
Pressed ==
    \E what, row, at, data :
        /\ what \notin {"load", "logout"} /\ at \notin Reading
        /\ what = "login" => row.kind = "page"
        /\ what = "create" => row = Page
        /\ created' = IF what = "create" THEN 0 ELSE created
        /\ page = "security" => what \in {"setup", "confirm"} /\ (setup \/ known # "unknown")
        /\ page = "login" <=> what = "login"
        /\ Run(what, row, at, data)
        /\ UNCHANGED <<known, setup>>

LEMMA PressedKeeps ==
    ASSUME IInv, Pressed
    PROVE  IInv'
BY RunKeeps DEF Pressed

LEMMA PressRowRuns ==
    ASSUME NEW row, PressRow(row), UNCHANGED forms
    PROVE  Pressed
<1>1. CASE SaveExpiry(row)
  BY <1>1 DEF SaveExpiry, Pressed, Reading, lists, forms
<1>2. CASE Revoke(row)
  BY <1>2 DEF Revoke, Confirm, Pressed, Reading, lists, forms
<1>3. ASSUME NEW cat, SaveTechnology(row, cat) PROVE Pressed
  BY <1>3 DEF SaveTechnology, Pressed, Reading, lists, forms
<1>4. CASE DeleteTechnology(row)
  BY <1>4 DEF DeleteTechnology, Confirm, Pressed, Reading, lists, forms
<1>5. CASE AddTechnology(row)
  BY <1>5 DEF AddTechnology, Pressed, Reading, lists, forms
<1>6. CASE Rename(row)
  BY <1>6 DEF Rename, Pressed, Reading, lists, forms
<1>7. CASE DeleteCategory(row)
  BY <1>7 DEF DeleteCategory, Confirm, Pressed, Reading, lists, forms
<1>8. CASE SaveEntry(row)
  BY <1>8 DEF SaveEntry, Pressed, Reading, lists, forms
<1> QED
  BY <1>1, <1>2, <1>3, <1>4, <1>5, <1>6, <1>7, <1>8 DEF PressRow

LEMMA ListPresses ==
    ASSUME ListControls
    PROVE  Pressed \/ \E row : Toggle(row) /\ UNCHANGED forms
<1>1. CASE Create /\ UNCHANGED forms
  BY <1>1 DEF Create, Pressed, Reading, lists, forms
<1>2. CASE AddCategory /\ UNCHANGED forms
  BY <1>2 DEF AddCategory, Pressed, Reading, lists, forms
<1>3. CASE Sync /\ UNCHANGED forms
  BY <1>3 DEF Sync, Pressed, Reading, lists, forms
<1>4. ASSUME NEW row, PressRow(row), UNCHANGED forms PROVE Pressed
  BY <1>4, PressRowRuns
<1> QED
  BY <1>1, <1>2, <1>3, <1>4 DEF ListControls

LEMMA ToggleKeeps ==
    ASSUME IInv, NEW row, Toggle(row)
    PROVE  IInv'
<1>1. NoCall \notin DOMAIN calls
  BY UiAssumption DEF IInv, CallsFit, Calls, Second, NoCall
<1>2. Rendered(shown, IF opened = row.id THEN 0 ELSE row.id, NoCall, "none")
  BY DEF Toggle
<1>3. UNCHANGED presses
  BY DEF Toggle
<1> QED
  BY <1>1, <1>2, <1>3, RenderedKeeps

LEMMA FormPresses ==
    ASSUME FormControls
    PROVE  \/ Pressed \/ (Logout /\ UNCHANGED lists)
           \/ UNCHANGED <<ui, created, known, setup>>
<1>1. CASE SaveProfile /\ UNCHANGED lists
  BY <1>1 DEF SaveProfile, Pressed, Reading, lists, forms
<1>2. CASE SaveCrop /\ UNCHANGED lists
  BY <1>2 DEF SaveCrop, Pressed, Reading, lists, forms
<1>3. CASE UploadPortrait /\ UNCHANGED lists
  BY <1>3 DEF UploadPortrait, Pressed, Reading, lists, forms
<1>4. CASE UploadCv /\ UNCHANGED lists
  BY <1>4 DEF UploadCv, Pressed, Reading, lists, forms
<1>5. CASE StartSetup /\ UNCHANGED lists
  BY <1>5 DEF StartSetup, Pressed, Reading, lists, forms
<1>6. CASE ConfirmCode /\ UNCHANGED lists
  BY <1>6 DEF ConfirmCode, Pressed, Reading, lists, forms
<1>7. CASE SignIn /\ UNCHANGED lists
  BY <1>7 DEF SignIn, Pressed, Reading, lists, forms, Page, R
<1>8. CASE Adjust /\ UNCHANGED lists
  BY <1>8 DEF Adjust, lists
<1>9. ASSUME NEW f, Edit(f), UNCHANGED lists PROVE UNCHANGED <<ui, created, known, setup>>
  BY <1>9 DEF Edit, lists
<1> QED
  BY <1>1, <1>2, <1>3, <1>4, <1>5, <1>6, <1>7, <1>8, <1>9 DEF FormControls

LEMMA LogoutKeeps ==
    ASSUME IInv, Logout
    PROVE  IInv'
<1> DEFINE n == presses + 1
           c == Call("logout", Page, "csrf", "authentik")
<1>1. /\ n \in Calls /\ Numbers'
      /\ calls' = Put(calls, n, c)
      /\ status' = status /\ ticking' = ticking
  BY UiAssumption DEF Logout, Count, MayPress, IInv, Numbers, Calls, Second
<1>2. Fits(c) /\ c.what = "logout"
  BY DEF Call, Fits, IsCall, Reading
<1> HIDE DEF n, c
<1>3. /\ DOMAIN calls' = DOMAIN calls \cup {n}
      /\ calls'[n] = c
      /\ \A j \in DOMAIN calls \ {n} : calls'[j] = calls[j]
  BY <1>1 DEF Put
<1>4. CallsFit'
  BY <1>1, <1>2, <1>3 DEF CallsFit, IInv, Calls, Second
<1>5. TimersOfSuccess'
  BY <1>1 DEF TimersOfSuccess, IInv
<1>6. ASSUME NEW j \in DOMAIN calls', Reports(j)'
      PROVE  j \in DOMAIN calls /\ calls'[j] = calls[j] /\ Reports(j)
  BY <1>2, <1>3, <1>6 DEF Reports
<1>7. OneCallPerControl'
  BY <1>1, <1>6 DEF IInv, OneCallPerControl
<1> QED
  BY <1>1, <1>4, <1>5, <1>7 DEF IInv

LEMMA MountKeeps ==
    ASSUME IInv, NEW p, Mount(p), UNCHANGED presses \/ Count
    PROVE  IInv'
<1>1. Numbers'
  BY UiAssumption DEF IInv, Numbers, Count, MayPress
<1> QED
  BY <1>1, MountedKeeps DEF Mount

LEMMA StuckKeeps ==
    ASSUME IInv, NEW i \in DOMAIN calls, Stuck(i), UNCHANGED presses
    PROVE  IInv'
BY DroppedCarries, CarriedKeeps DEF Along, Stuck

LEMMA AnswersKeep ==
    ASSUME IInv, NEW i \in DOMAIN calls, ~calls[i].gone,
           Unanswered(i) \/ Uncaughts(i) \/ Enter(i) \/ LoggedOut(i)
    PROVE  IInv'
<1>1. CASE Unanswered(i)
  <2>1. End(i, "error") /\ UNCHANGED presses
    BY <1>1 DEF Unanswered
  <2>2. calls[i].what \notin {"load", "logout"}
    BY <1>1, Stages DEF Unanswered, Sent, Reading
  <2> QED
    BY <2>1, <2>2, EndKeeps
<1>2. CASE Uncaughts(i)
  BY <1>2, StuckKeeps DEF Uncaughts
<1>3. CASE Enter(i)
  BY <1>3, MountKeeps DEF Enter
<1>4. CASE LoggedOut(i)
  BY <1>4, MountKeeps DEF LoggedOut
<1> QED
  BY <1>1, <1>2, <1>3, <1>4

LEMMA ClientListsKeep ==
    ASSUME IInv, NEW i \in DOMAIN calls, ~calls[i].gone,
           AnsweredList(i) \/ \E how \in Ends(i) : ShowList(i, how)
    PROVE  IInv'
<1>1. CASE AnsweredList(i)
  <2>1. UNCHANGED <<status, ticking, presses>>
    BY <1>1 DEF AnsweredList
  <2> QED
    BY <1>1, <2>1, AnsweredListCarries, CarriedKeeps
<1>2. ASSUME NEW how \in Ends(i), ShowList(i, how) PROVE IInv'
  <2>1. PICK list, open, s : Rendered(list, open, i, s)
    BY <1>2 DEF ShowList
  <2>2. UNCHANGED presses
    BY <1>2 DEF ShowList
  <2>3. calls[i].what # "logout"
    BY Stages DEF Ends, Reading
  <2> QED
    BY <2>1, <2>2, <2>3, RenderedKeeps
<1> QED
  BY <1>1, <1>2

LEMMA ClientFormsKeep ==
    ASSUME IInv, NEW i \in DOMAIN calls, ~calls[i].gone,
           \/ AnsweredForm(i) \/ AnsweredCv(i) \/ AnsweredLogin(i) \/ AskForCode(i)
           \/ LogoutHere(i)
           \/ \E how \in Ends(i) : ShowProfile(i, how) \/ ShowPortrait(i, how) \/ ShowKnown(i, how)
    PROVE  IInv'
<1>1. CASE AnsweredForm(i)
  <2>1. /\ End(i, "success") /\ UNCHANGED presses
        /\ calls[i].what \in {"profile", "crop", "uploadPortrait", "setup", "confirm"}
    BY <1>1 DEF AnsweredForm
  <2> QED
    BY <2>1, EndKeeps
<1>2. CASE AnsweredCv(i)
  <2>1. UNCHANGED <<status, ticking, presses>>
    BY <1>2 DEF AnsweredCv
  <2> QED
    BY <1>2, <2>1, AnsweredCvCarries, CarriedKeeps
<1>3. CASE AnsweredLogin(i) \/ AskForCode(i)
  BY <1>3, ReleasedKeeps, StuckKeeps DEF AskForCode
<1>4. CASE LogoutHere(i)
  <2>1. UNCHANGED <<status, ticking, presses>>
    BY <1>4 DEF LogoutHere
  <2> QED
    BY <1>4, <2>1, LogoutHereCarries, CarriedKeeps DEF Along
<1>5. ASSUME NEW how \in Ends(i), ShowProfile(i, how) PROVE IInv'
  <2>1. /\ calls' = Restrict(calls, DOMAIN calls \ {i})
        /\ UNCHANGED <<status, ticking, presses>>
    BY <1>5 DEF ShowProfile
  <2> QED
    BY <2>1, DroppedCarries, CarriedKeeps DEF Along
<1>6. ASSUME NEW how \in Ends(i), ShowPortrait(i, how) PROVE IInv'
  BY <1>6, PortraitKeeps
<1>7. ASSUME NEW how \in Ends(i), ShowKnown(i, how) PROVE IInv'
  <2>1. UNCHANGED presses
    BY <1>7 DEF ShowKnown
  <2>2. calls[i].what # "logout"
    BY Stages DEF Ends, Reading
  <2>3. \/ Stuck(i)
        \/ calls[i].what # "load" /\ End(i, "success")
    BY <1>7 DEF ShowKnown
  <2> QED
    BY <2>1, <2>2, <2>3, StuckKeeps, EndKeeps
<1> QED
  BY <1>1, <1>2, <1>3, <1>4, <1>5, <1>6, <1>7

LEMMA ClientKeeps ==
    ASSUME IInv, NEW i \in DOMAIN calls, Client(i)
    PROVE  IInv'
BY ClientListsKeep, ClientFormsKeep, AnswersKeep DEF Client

-----------------------------------------------------------------------------
(* The theorem.                                                             *)

LEMMA InitIsSound ==
    ASSUME Init PROVE IInv
<1>1. DOMAIN calls = {} /\ ticking = {} /\ presses = 0
  BY DEF Init, Nothing
<1> QED
  BY <1>1, UiAssumption DEF IInv, CallsFit, TimersOfSuccess, OneCallPerControl, Numbers

LEMMA NextKeeps ==
    ASSUME IInv, [Next]_vars
    PROVE  IInv'
<1>1. ASSUME NEW p, Open(p) \/ Go(p) PROVE IInv'
  BY <1>1, MountKeeps DEF Open, Go
<1>2. CASE Close
  BY <1>2, MountKeeps DEF Close
<1>3. CASE Others \/ SessionEnds
  <2>1. UNCHANGED <<status, ticking, calls>> /\ Count
    <3>1. CASE Others
      BY <3>1 DEF Others
    <3>2. CASE SessionEnds
      BY <3>2 DEF SessionEnds
    <3> QED
      BY <1>3, <3>1, <3>2
  <2>2. Numbers'
    BY <2>1, UiAssumption DEF IInv, Numbers, Count, MayPress
  <2>3. (CallsFit /\ TimersOfSuccess)'
    BY <2>1 DEF IInv, CallsFit, TimersOfSuccess
  <2>4. OneCallPerControl'
    BY <2>1 DEF IInv, OneCallPerControl, Reports
  <2> QED
    BY <2>2, <2>3, <2>4 DEF IInv
<1>4. CASE Messages
  <2>1. CASE Token
    BY <2>1, NothingCarries, CarriedKeeps DEF Along, Token
  <2> QED
    BY <2>1, <1>4, TickKeeps DEF Messages
<1>5. CASE Prompt
  <2>1. UNCHANGED <<status, ticking, calls, presses>>
    BY <1>5 DEF Prompt, Arm, Cancel
  <2> QED
    BY <2>1, NothingCarries, CarriedKeeps DEF Along
<1>6. ASSUME NEW i \in DOMAIN calls, Network(i) \/ Backend(i) \/ Client(i) PROVE IInv'
  BY <1>6, NetworkKeeps, BackendKeeps, ClientKeeps
<1>7. CASE UNCHANGED vars
  BY <1>7, NothingCarries, CarriedKeeps DEF Along, vars, ui
<1>8. CASE ListControls
  <2>1. ASSUME NEW row, Toggle(row) PROVE IInv'
    BY <2>1, ToggleKeeps
  <2> QED
    BY <2>1, <1>8, ListPresses, PressedKeeps
<1>9. CASE FormControls
  <2>1. CASE UNCHANGED <<ui, created, known, setup>>
    BY <2>1, NothingCarries, CarriedKeeps DEF Along, ui
  <2> QED
    BY <2>1, <1>9, FormPresses, PressedKeeps, LogoutKeeps
<1> QED
  BY <1>1, <1>2, <1>3, <1>4, <1>5, <1>6, <1>7, <1>8, <1>9 DEF Next

\* Of a control of an admin page at most one call is under way, and it is the one
\* the control reports as pending (components/admin/ui.tsx), however many pages,
\* presses, answers and losses there were: for every MaxPresses and every list.
THEOREM AdminIsSound == Spec => []IInv
BY InitIsSound, NextKeeps, PTL DEF Spec

THEOREM ControlsCallOnce == Spec => []OneCallPerControl
<1>1. IInv => OneCallPerControl
  BY DEF IInv
<1> QED
  BY <1>1, AdminIsSound, PTL

-----------------------------------------------------------------------------
(* What the pages of the links and of the second factor know.               *)

MakeLink == [what |-> "create", row |-> Page]

\* The address of a link is shown from the answer to the press that made it.
UrlKnown ==
    \A i \in DOMAIN calls : calls[i].what = "create" /\ ~calls[i].gone =>
        /\ calls[i].row = Page
        /\ calls[i].at \notin Reading => created = 0
        /\ calls[i].at \in Reading => calls[i].ok = TRUE /\ created = New(i)

\* While the status of the factor is read, nothing else is under way about it.
FactorKnown ==
    page = "security" =>
        /\ setup => known # "unknown"
        /\ \A i \in DOMAIN calls :
            /\ calls[i].at \in Reading => i = 0 /\ known = "unknown"
            /\ ~calls[i].gone => calls[i].what \in {"load", "setup", "confirm", "logout"}
            /\ calls[i].what \in {"setup", "confirm"} /\ ~calls[i].gone => known # "unknown"

KInv == UrlIsTheNewest /\ UrlKnown /\ FactorKnown

\* Without a message or a press, calls that only go on change nothing of that.
LEMMA AlongKnows ==
    ASSUME IInv, KInv, Along, UNCHANGED <<page, status, created, known, setup>>
    PROVE  KInv'
<1>1. \A i \in DOMAIN calls' :
        /\ i \in DOMAIN calls
        /\ calls'[i].what = calls[i].what /\ calls'[i].row = calls[i].row
        /\ calls'[i].gone = calls[i].gone /\ calls'[i].ok = calls[i].ok
        /\ calls'[i].at \in Reading <=> calls[i].at \in Reading
  BY DEF Along, Carried, Same
<1>2. UrlIsTheNewest'
  BY DEF KInv, UrlIsTheNewest
<1>3. UrlKnown'
  BY <1>1 DEF KInv, UrlKnown
<1>4. FactorKnown'
  BY <1>1 DEF KInv, FactorKnown
<1> QED
  BY <1>2, <1>3, <1>4 DEF KInv

\* A call that creates a link is what the button reports on.
LEMMA CreateReports ==
    ASSUME IInv, KInv, NEW i \in DOMAIN calls, calls[i].what = "create", ~calls[i].gone
    PROVE  /\ Reports(i) /\ Key(calls[i]) = MakeLink
           /\ MakeLink \in DOMAIN status
           /\ status[MakeLink] = [state |-> "pending", of |-> i]
<1>1. Reports(i) /\ Key(calls[i]) = MakeLink
  BY DEF KInv, UrlKnown, Reports, OfPage, Key, MakeLink
<1> QED
  BY <1>1 DEF IInv, OneCallPerControl

LEMMA PressedKnows ==
    ASSUME IInv, KInv, Pressed
    PROVE  KInv'
<1>1. PICK what, row, at, data :
        /\ what \notin {"load", "logout"} /\ at \notin Reading
        /\ what = "create" => row = Page
        /\ created' = IF what = "create" THEN 0 ELSE created
        /\ page = "security" => what \in {"setup", "confirm"} /\ (setup \/ known # "unknown")
        /\ Run(what, row, at, data)
        /\ UNCHANGED <<known, setup>>
  BY DEF Pressed
<1> DEFINE n == presses + 1
           k == [what |-> what, row |-> row]
           c == Call(what, row, at, data)
<1>2. /\ calls' = Put(calls, n, c)
      /\ status' = Put(status, k, [state |-> "pending", of |-> n])
      /\ page' = page
  BY <1>1 DEF Run
<1>3. c.what = what /\ c.row = row /\ c.at = at /\ c.gone = FALSE
  BY DEF Call
<1>4. /\ DOMAIN calls' = DOMAIN calls \cup {n}
      /\ calls'[n] = c
      /\ \A j \in DOMAIN calls \ {n} : calls'[j] = calls[j]
  <2> HIDE DEF n, c
  <2> QED
    BY <1>2 DEF Put
<1>5. /\ DOMAIN status' = DOMAIN status \cup {k}
      /\ status'[k] = [state |-> "pending", of |-> n]
      /\ \A l \in DOMAIN status \ {k} : status'[l] = status[l]
  <2> HIDE DEF n, k
  <2> QED
    BY <1>2 DEF Put
<1>6. what = "create" <=> k = MakeLink
  BY <1>1 DEF MakeLink
<1>7. ASSUME NEW j \in DOMAIN calls, calls[j].what = "create", ~calls[j].gone
      PROVE  what # "create"
  <2>1. status[MakeLink].state = "pending" /\ MakeLink \in DOMAIN status
    <3> DEFINE m == [state |-> "pending", of |-> j]
    <3>1. status[MakeLink] = m /\ MakeLink \in DOMAIN status
      BY <1>7, CreateReports
    <3> QED
      BY <3>1
  <2>2. k # MakeLink
    BY <2>1, <1>1 DEF Run, State
  <2> QED
    BY <2>2, <1>6
<1> HIDE DEF n, c, k
<1>8. UrlIsTheNewest'
  <2>1. CASE what = "create"
    BY <2>1, <1>1 DEF UrlIsTheNewest
  <2>2. CASE what # "create"
    BY <2>2, <1>1, <1>5, <1>6 DEF KInv, UrlIsTheNewest, MakeLink
  <2> QED
    BY <2>1, <2>2
<1>9. UrlKnown'
  <2> SUFFICES ASSUME NEW j \in DOMAIN calls', calls'[j].what = "create", ~calls'[j].gone
               PROVE  /\ calls'[j].row = Page
                      /\ calls'[j].at \notin Reading => created' = 0
                      /\ calls'[j].at \in Reading => calls'[j].ok = TRUE /\ created' = New(j)
    BY DEF UrlKnown, New
  <2>1. CASE j = n
    BY <2>1, <1>1, <1>3, <1>4
  <2>2. CASE j # n
    <3>1. j \in DOMAIN calls /\ calls'[j] = calls[j]
      BY <2>2, <1>4
    <3>2. created' = created
      BY <3>1, <1>1, <1>7
    <3> QED
      BY <3>1, <3>2 DEF KInv, UrlKnown
  <2> QED
    BY <2>1, <2>2
<1>10. FactorKnown'
  <2> SUFFICES ASSUME page = "security" PROVE FactorKnown'
    BY <1>2 DEF FactorKnown
  <2>1. known # "unknown"
    BY <1>1 DEF KInv, FactorKnown
  <2> QED
    BY <2>1, <1>1, <1>2, <1>3, <1>4 DEF KInv, FactorKnown
<1> QED
  BY <1>8, <1>9, <1>10 DEF KInv

LEMMA LogoutKnows ==
    ASSUME IInv, KInv, Logout, UNCHANGED lists
    PROVE  KInv'
<1> DEFINE n == presses + 1
           c == Call("logout", Page, "csrf", "authentik")
<1>1. /\ calls' = Put(calls, n, c)
      /\ UNCHANGED <<page, status, created, known, setup>>
  BY DEF Logout, lists, forms
<1>2. c.what = "logout" /\ c.at \notin Reading
  BY DEF Call, Reading
<1> HIDE DEF n, c
<1>3. /\ DOMAIN calls' = DOMAIN calls \cup {n}
      /\ calls'[n] = c
      /\ \A j \in DOMAIN calls \ {n} : calls'[j] = calls[j]
  BY <1>1 DEF Put
<1>4. UrlIsTheNewest'
  BY <1>1 DEF KInv, UrlIsTheNewest
<1>5. UrlKnown'
  BY <1>1, <1>2, <1>3 DEF KInv, UrlKnown
<1>6. FactorKnown'
  BY <1>1, <1>2, <1>3 DEF KInv, FactorKnown
<1> QED
  BY <1>4, <1>5, <1>6 DEF KInv

LEMMA MountKnows ==
    ASSUME IInv, KInv, NEW p, Mount(p)
    PROVE  KInv'
<1> DEFINE stays == {j \in DOMAIN calls : calls[j].what = "logout" /\ p \in AdminPages}
           left  == {j \in DOMAIN calls : calls[j].at \in {"csrf", "sent"}} \ stays
           load  == [Call("load", Page, "loading", 0) EXCEPT !.token = FALSE]
           gone(j) == [calls[j] EXCEPT !.gone = TRUE]
<1>1. /\ page' = p
      /\ calls' = [j \in stays \cup left \cup Loads(p) |->
                        IF j \in stays THEN calls[j]
                        ELSE IF j \in left THEN gone(j) ELSE load]
      /\ created' = 0 /\ known' = "unknown" /\ setup' = FALSE
  BY DEF Mount, Mounted, MountedLists, MountedForms
<1>2. load.what = "load"
  BY DEF Call
<1>3. ASSUME NEW j \in left PROVE gone(j).gone = TRUE /\ gone(j).at = calls[j].at
  BY Stages DEF IsCall
<1> HIDE DEF load, gone
<1>4. ASSUME NEW j \in DOMAIN calls'
      PROVE  \/ j \in stays /\ calls'[j] = calls[j]
             \/ j \in left /\ calls'[j] = gone(j)
             \/ j \in Loads(p) /\ calls'[j] = load
  BY <1>1
<1>5. \A j \in stays : calls[j].what = "logout" /\ calls[j].at \notin Reading
  BY Stages
<1>6. \A j \in left : calls[j].at \notin Reading
  BY DEF Reading
<1> HIDE DEF stays, left
<1>7. UrlIsTheNewest'
  BY <1>1 DEF UrlIsTheNewest
<1>8. UrlKnown'
  BY <1>2, <1>3, <1>4, <1>5 DEF UrlKnown
<1>9. Loads("security") = {0}
  BY DEF Loads
<1>10. FactorKnown'
  BY <1>1, <1>2, <1>3, <1>4, <1>5, <1>6, <1>9 DEF FactorKnown
<1> QED
  BY <1>7, <1>8, <1>10 DEF KInv

\* The state of the button that makes links stays, goes, or is the outcome of
\* the call that makes one.
LEMMA UrlStays ==
    ASSUME IInv, KInv, NEW i, NEW s, UNCHANGED created,
           i \in DOMAIN calls => ~calls[i].gone,
           MakeLink \in DOMAIN status' =>
               \/ MakeLink \in DOMAIN status /\ status'[MakeLink] = status[MakeLink]
               \/ /\ i \in DOMAIN calls /\ calls[i].what = "create"
                  /\ status'[MakeLink] = [state |-> s, of |-> i]
                  /\ calls[i].at \in Reading => s # "error"
    PROVE  UrlIsTheNewest'
<1> SUFFICES ASSUME created # 0, MakeLink \in DOMAIN status'
             PROVE  /\ status'[MakeLink].state # "error"
                    /\ created = New(status'[MakeLink].of)
  BY DEF UrlIsTheNewest, MakeLink, New
<1>1. CASE MakeLink \in DOMAIN status /\ status'[MakeLink] = status[MakeLink]
  BY <1>1 DEF KInv, UrlIsTheNewest, MakeLink
<1>2. CASE /\ i \in DOMAIN calls /\ calls[i].what = "create"
           /\ status'[MakeLink] = [state |-> s, of |-> i]
           /\ calls[i].at \in Reading => s # "error"
  <2>1. calls[i].at \in Reading /\ created = New(i)
    BY <1>2 DEF KInv, UrlKnown
  <2>2. status'[MakeLink].state = s /\ status'[MakeLink].of = i
    BY <1>2
  <2> QED
    BY <1>2, <2>1, <2>2
<1> QED
  BY <1>1, <1>2

LEMMA ReportedMakeLink ==
    ASSUME NEW i \in DOMAIN calls, NEW st, NEW s, MakeLink \in DOMAIN Reported(i, st, s)
    PROVE  \/ MakeLink \in DOMAIN st /\ Reported(i, st, s)[MakeLink] = st[MakeLink]
           \/ /\ calls[i].what = "create"
              /\ Reported(i, st, s)[MakeLink] = [state |-> s, of |-> i]
<1> DEFINE k == Key(calls[i])
           m == [state |-> s, of |-> i]
<1>1. Reported(i, st, s) = Put(st, k, m) \/ Reported(i, st, s) = st
  BY DEF Reported
<1>2. k = MakeLink => calls[i].what = "create"
  BY DEF Key, MakeLink
<1> HIDE DEF k
<1>3. /\ DOMAIN Put(st, k, m) = DOMAIN st \cup {k}
      /\ Put(st, k, m)[k] = m
      /\ \A l \in DOMAIN st \ {k} : Put(st, k, m)[l] = st[l]
  BY DEF Put
<1> QED
  BY <1>1, <1>2, <1>3

\* A call that is over, without another outcome about the second factor.
LEMMA OverKnows ==
    ASSUME KInv, NEW i, DOMAIN calls' = DOMAIN calls \ {i},
           \A j \in DOMAIN calls' :
               /\ calls'[j].what = calls[j].what /\ calls'[j].row = calls[j].row
               /\ calls'[j].at = calls[j].at /\ calls'[j].gone = calls[j].gone
               /\ calls'[j].ok = calls[j].ok,
           UNCHANGED <<page, created>>
    PROVE  /\ UrlKnown'
           /\ UNCHANGED <<known, setup>> => FactorKnown'
<1>1. UrlKnown'
  BY DEF KInv, UrlKnown
<1>2. UNCHANGED <<known, setup>> => FactorKnown'
  BY DEF KInv, FactorKnown
<1> QED
  BY <1>1, <1>2

LEMMA EndKnows ==
    ASSUME IInv, KInv, NEW i \in DOMAIN calls, NEW s, End(i, s), ~calls[i].gone,
           UNCHANGED <<page, created>>,
           calls[i].what = "create" /\ calls[i].at \in Reading => s # "error"
    PROVE  /\ UrlIsTheNewest' /\ UrlKnown'
           /\ UNCHANGED <<known, setup>> => FactorKnown'
<1>1. status' = Reported(i, status, s)
  BY DEF End
<1>2. UrlIsTheNewest'
  <2>1. MakeLink \in DOMAIN status' =>
            \/ MakeLink \in DOMAIN status /\ status'[MakeLink] = status[MakeLink]
            \/ /\ i \in DOMAIN calls /\ calls[i].what = "create"
               /\ status'[MakeLink] = [state |-> s, of |-> i]
               /\ calls[i].at \in Reading => s # "error"
    BY <1>1, ReportedMakeLink
  <2> QED
    BY <2>1, UrlStays
<1>3. /\ DOMAIN calls' = DOMAIN calls \ {i}
      /\ \A j \in DOMAIN calls' : calls'[j] = calls[j]
  BY DEF End, Restrict
<1> QED
  BY <1>2, <1>3, OverKnows

LEMMA StuckKnows ==
    ASSUME IInv, KInv, NEW i \in DOMAIN calls, Stuck(i), UNCHANGED <<page, created, known, setup>>
    PROVE  KInv'
BY DroppedCarries, AlongKnows DEF Stuck

\* A list that is rendered reports a link that was made as such.
LEMMA RenderedKnows ==
    ASSUME IInv, KInv, NEW i, NEW list, NEW open, NEW s, Rendered(list, open, i, s),
           UNCHANGED <<page, created, known, setup>>,
           i \in DOMAIN calls => /\ ~calls[i].gone
                                 /\ calls[i].what = "create" => s # "error"
    PROVE  KInv'
<1> DEFINE kept == Restrict(status, {k \in DOMAIN status : Stays(k, list, open)})
           here == /\ i \in DOMAIN calls /\ calls[i].what # "load" /\ s # "none"
                   /\ Stays(Key(calls[i]), list, open)
<1>1. status' = IF here THEN Reported(i, kept, s) ELSE kept
  BY DEF Rendered
<1>2. \A l \in DOMAIN kept : l \in DOMAIN status /\ kept[l] = status[l]
  BY DEF Restrict
<1>3. here => i \in DOMAIN calls
  OBVIOUS
<1> HIDE DEF kept, here
<1>4. UrlIsTheNewest'
  <2>1. MakeLink \in DOMAIN status' =>
            \/ MakeLink \in DOMAIN status /\ status'[MakeLink] = status[MakeLink]
            \/ /\ i \in DOMAIN calls /\ calls[i].what = "create"
               /\ status'[MakeLink] = [state |-> s, of |-> i]
               /\ calls[i].at \in Reading => s # "error"
    <3>1. CASE here
      BY <3>1, <1>1, <1>2, <1>3, ReportedMakeLink
    <3>2. CASE ~here
      BY <3>2, <1>1, <1>2
    <3> QED
      BY <3>1, <3>2
  <2> QED
    BY <2>1, UrlStays
<1>5. UrlKnown' /\ FactorKnown'
  BY RenderedCalls, OverKnows
<1> QED
  BY <1>4, <1>5 DEF KInv

LEMMA AnsweredListKnows ==
    ASSUME IInv, KInv, NEW i \in DOMAIN calls, ~calls[i].gone, AnsweredList(i), UNCHANGED forms
    PROVE  KInv'
<1> DEFINE o == (calls[i].at = "done")
           d == [calls[i] EXCEPT !.at = "loading", !.ok = o]
<1>1. /\ page' = page /\ page # "security" /\ status' = status
      /\ calls' = [calls EXCEPT ![i] = d]
      /\ created' = IF calls[i].what = "create" THEN New(i) ELSE created
      /\ calls[i].what = "create" => o
  BY DEF AnsweredList, Lists
<1>2. /\ d.what = calls[i].what /\ d.row = calls[i].row /\ d.gone = calls[i].gone
      /\ d.at = "loading" /\ d.ok = o
  <2> HIDE DEF o
  <2> QED
    BY Stages DEF IsCall
<1>3. o \in BOOLEAN
  OBVIOUS
<1> HIDE DEF o, d
<1>4. /\ DOMAIN calls' = DOMAIN calls
      /\ \A j \in DOMAIN calls : calls'[j] = IF j = i THEN d ELSE calls[j]
  BY <1>1
<1>5. \A j \in DOMAIN calls \ {i} :
        calls[i].what = "create" => ~(calls[j].what = "create" /\ ~calls[j].gone)
  BY CreateReports, OneReporter
<1>6. UrlIsTheNewest'
  <2>1. CASE calls[i].what = "create"
    <3> DEFINE m == [state |-> "pending", of |-> i]
    <3>1. status'[MakeLink] = m /\ m.state = "pending" /\ m.of = i
      BY <2>1, <1>1, CreateReports
    <3> HIDE DEF m
    <3>2. status'[MakeLink].state # "error" /\ status'[MakeLink].of = i
      BY <3>1
    <3> QED
      BY <2>1, <3>2, <1>1 DEF UrlIsTheNewest, MakeLink, New
  <2>2. CASE calls[i].what # "create"
    BY <2>2, <1>1 DEF KInv, UrlIsTheNewest
  <2> QED
    BY <2>1, <2>2
<1>7. UrlKnown'
  <2> SUFFICES ASSUME NEW j \in DOMAIN calls', calls'[j].what = "create", ~calls'[j].gone
               PROVE  /\ calls'[j].row = Page
                      /\ calls'[j].at \notin Reading => created' = 0
                      /\ calls'[j].at \in Reading => calls'[j].ok = TRUE /\ created' = New(j)
    BY DEF UrlKnown, New
  <2>1. CASE j = i
    <3>1. calls[i].what = "create" /\ calls'[j] = d /\ created' = New(i)
      BY <2>1, <1>1, <1>2, <1>4
    <3>2. o = TRUE
      BY <3>1, <1>1, <1>3
    <3>3. calls[i].row = Page
      BY <3>1 DEF KInv, UrlKnown
    <3> QED
      BY <2>1, <3>1, <3>2, <3>3, <1>2 DEF Reading
  <2>2. CASE j # i
    BY <2>2, <1>1, <1>4, <1>5 DEF KInv, UrlKnown
  <2> QED
    BY <2>1, <2>2
<1>8. FactorKnown'
  BY <1>1 DEF FactorKnown
<1> QED
  BY <1>6, <1>7, <1>8 DEF KInv

LEMMA ClientListsKnow ==
    ASSUME IInv, KInv, NEW i \in DOMAIN calls, ~calls[i].gone, UNCHANGED forms,
           AnsweredList(i) \/ \E how \in Ends(i) : ShowList(i, how)
    PROVE  KInv'
<1>1. CASE AnsweredList(i)
  BY <1>1, AnsweredListKnows
<1>2. ASSUME NEW how \in Ends(i), ShowList(i, how) PROVE KInv'
  <2>1. PICK s \in Outcomes(calls[i]) : \E list : Rendered(list, opened, i, s)
    BY <1>2 DEF ShowList
  <2>2. UNCHANGED <<page, created, known, setup>>
    BY <1>2 DEF ShowList, forms
  <2>3. calls[i].at \in Reading
    BY DEF Ends, Reading
  <2>4. calls[i].what = "create" => s # "error"
    BY <2>3 DEF KInv, UrlKnown, Outcomes
  <2> QED
    BY <2>1, <2>2, <2>4, RenderedKnows
<1> QED
  BY <1>1, <1>2

LEMMA AnsweredFormKnows ==
    ASSUME IInv, KInv, NEW i \in DOMAIN calls, ~calls[i].gone, AnsweredForm(i), UNCHANGED lists
    PROVE  KInv'
<1>1. /\ End(i, "success") /\ UNCHANGED <<page, created>>
      /\ calls[i].what \in {"profile", "crop", "uploadPortrait", "setup", "confirm"}
      /\ setup' = IF calls[i].what = "setup" THEN TRUE
                  ELSE IF calls[i].what = "confirm" THEN FALSE ELSE setup
      /\ known' = IF calls[i].what = "confirm" THEN "yes" ELSE known
  BY DEF AnsweredForm, lists
<1>2. UrlIsTheNewest' /\ UrlKnown'
  BY <1>1, EndKnows
<1>3. /\ DOMAIN calls' = DOMAIN calls \ {i}
      /\ \A j \in DOMAIN calls' : calls'[j] = calls[j]
  BY <1>1 DEF End, Restrict
<1>4. FactorKnown'
  <2> SUFFICES ASSUME page = "security" PROVE FactorKnown'
    BY <1>1 DEF FactorKnown
  <2>1. known # "unknown" /\ known' # "unknown"
    BY <1>1 DEF KInv, FactorKnown
  <2> QED
    BY <2>1, <1>1, <1>3 DEF KInv, FactorKnown
<1> QED
  BY <1>2, <1>4 DEF KInv

LEMMA ShowKnownKnows ==
    ASSUME IInv, KInv, NEW i \in DOMAIN calls, ~calls[i].gone, NEW how \in Ends(i),
           ShowKnown(i, how), UNCHANGED lists
    PROVE  KInv'
<1>1. /\ UNCHANGED <<page, created, setup>>
      /\ Stuck(i) \/ End(i, "success")
  BY DEF ShowKnown, lists
<1>2. calls[i].at \in Reading
  BY DEF Ends, Reading
<1>3. /\ DOMAIN calls' = DOMAIN calls \ {i}
      /\ \A j \in DOMAIN calls' : calls'[j] = calls[j]
  BY <1>1 DEF Stuck, End, Restrict
<1>4. UrlIsTheNewest' /\ UrlKnown'
  <2>1. CASE Stuck(i)
    <3>1. UrlIsTheNewest'
      BY <2>1, <1>1 DEF Stuck, KInv, UrlIsTheNewest
    <3>2. UrlKnown'
      BY <1>1, <1>3 DEF KInv, UrlKnown
    <3> QED
      BY <3>1, <3>2
  <2>2. CASE End(i, "success")
    BY <2>2, <1>1, EndKnows
  <2> QED
    BY <1>1, <2>1, <2>2
<1>5. FactorKnown'
  BY <1>1, <1>2, <1>3 DEF KInv, FactorKnown
<1> QED
  BY <1>4, <1>5 DEF KInv

LEMMA ClientFormsKnow ==
    ASSUME IInv, KInv, NEW i \in DOMAIN calls, ~calls[i].gone, UNCHANGED lists,
           \/ AnsweredForm(i) \/ AnsweredCv(i) \/ AnsweredLogin(i) \/ AskForCode(i)
           \/ LogoutHere(i)
           \/ \E how \in Ends(i) : ShowProfile(i, how) \/ ShowPortrait(i, how) \/ ShowKnown(i, how)
    PROVE  KInv'
<1>1. CASE AnsweredCv(i)
  <2>1. /\ UNCHANGED <<page, status, created, known, setup>>
        /\ calls[i].what = "uploadCv"
        /\ calls' = [calls EXCEPT ![i].at = "loading"]
    BY <1>1 DEF AnsweredCv, lists, forms
  <2> DEFINE d == [calls[i] EXCEPT !.at = "loading"]
  <2>2. d.what = calls[i].what
    BY Stages DEF IsCall
  <2> HIDE DEF d
  <2>3. /\ DOMAIN calls' = DOMAIN calls
        /\ \A j \in DOMAIN calls : calls'[j] = IF j = i THEN d ELSE calls[j]
    BY <2>1 DEF d
  <2>4. UrlIsTheNewest'
    BY <2>1 DEF KInv, UrlIsTheNewest
  <2>5. UrlKnown'
    BY <2>1, <2>2, <2>3 DEF KInv, UrlKnown
  <2>6. FactorKnown'
    <3>1. page # "security"
      BY <2>1 DEF KInv, FactorKnown
    <3> QED
      BY <2>1, <3>1 DEF FactorKnown
  <2> QED
    BY <2>4, <2>5, <2>6 DEF KInv
<1>2. CASE AskForCode(i)
  BY <1>2, StuckKnows DEF AskForCode, lists
<1>6. CASE AnsweredLogin(i)
  <2>1. /\ status' = Restrict(status, DOMAIN status \ {Key(calls[i])})
        /\ UNCHANGED <<page, created, known, setup>>
        /\ calls[i].what = "login" /\ calls[i].at = "done"
    BY <1>6 DEF AnsweredLogin, lists, forms
  <2>2. UrlIsTheNewest'
    BY <2>1 DEF Restrict, KInv, UrlIsTheNewest
  <2>3. UrlKnown'
    BY <1>6, <2>1, Released DEF KInv, UrlKnown
  <2>4. FactorKnown'
    BY <1>6, <2>1, Released DEF KInv, FactorKnown, Reading
  <2> QED
    BY <2>2, <2>3, <2>4 DEF KInv
<1>3. CASE LogoutHere(i)
  BY <1>3, LogoutHereCarries, AlongKnows DEF LogoutHere, lists, forms
<1>4. ASSUME NEW how, ShowProfile(i, how) PROVE KInv'
  BY <1>4, DroppedCarries, AlongKnows DEF ShowProfile, lists
<1>5. ASSUME NEW how, ShowPortrait(i, how) PROVE KInv'
  <2>1. /\ UNCHANGED <<page, created, known, setup>>
        /\ status' = Restrict(status, {k \in DOMAIN status : ~(k.what = "crop" /\ crop' = None)})
    BY <1>5 DEF ShowPortrait, lists
  <2>2. UrlIsTheNewest'
    BY <2>1 DEF Restrict, KInv, UrlIsTheNewest
  <2> QED
    BY <1>5, <2>1, <2>2, PortraitCalls, OverKnows DEF KInv
<1> QED
  BY <1>1, <1>2, <1>3, <1>4, <1>5, <1>6, AnsweredFormKnows, ShowKnownKnows

LEMMA AnswersKnow ==
    ASSUME IInv, KInv, NEW i \in DOMAIN calls, ~calls[i].gone,
           Unanswered(i) \/ Uncaughts(i) \/ Enter(i) \/ LoggedOut(i)
    PROVE  KInv'
<1>1. CASE Unanswered(i)
  <2>1. End(i, "error") /\ UNCHANGED <<page, created, known, setup>>
    BY <1>1 DEF Unanswered, lists, forms
  <2>2. calls[i].at \notin Reading
    BY <1>1 DEF Unanswered, Sent, Reading
  <2> QED
    BY <2>1, <2>2, EndKnows DEF KInv
<1>2. CASE Uncaughts(i)
  BY <1>2, StuckKnows DEF Uncaughts, lists, forms
<1>3. CASE Enter(i)
  BY <1>3, MountKnows DEF Enter
<1>4. CASE LoggedOut(i)
  BY <1>4, MountKnows DEF LoggedOut
<1> QED
  BY <1>1, <1>2, <1>3, <1>4

LEMMA NetworkKnows ==
    ASSUME IInv, KInv, NEW i \in DOMAIN calls, Network(i)
    PROVE  KInv'
<1>1. UNCHANGED <<created, known, setup>>
  BY DEF Network, lists, forms
<1>2. CASE OwnToken(i)
  BY <1>1, <1>2, OwnTokenCarries, AlongKnows DEF OwnToken
<1>3. CASE Dropped(i)
  BY <1>1, <1>3, DroppedCarries, AlongKnows DEF Dropped
<1>4. CASE Fetch(i)
  BY <1>1, <1>4, FetchCarries, AlongKnows DEF Fetch
<1>5. ASSUME NEW kind, FetchPart(i, kind) PROVE KInv'
  <2>1. UNCHANGED <<page, status>>
    BY <1>5 DEF FetchPart
  <2> QED
    BY <1>1, <1>5, <2>1, FetchPartCarries, AlongKnows
<1> QED
  BY <1>2, <1>3, <1>4, <1>5 DEF Network

LEMMA BackendKnows ==
    ASSUME IInv, KInv, NEW i \in DOMAIN calls, Backend(i)
    PROVE  KInv'
<1>1. /\ calls[i].at = "sent" /\ UNCHANGED <<known, setup>>
      /\ \E store, value, got : Accepted(i, store, value, got)
  <2>1. CASE AcceptList(i)
    BY <2>1 DEF AcceptList, Admitted, forms
  <2>2. CASE AcceptForm(i)
    BY <2>2 DEF AcceptForm, Admitted, forms
  <2>3. CASE AcceptLogin(i)
    BY <2>3 DEF AcceptLogin
  <2>4. CASE AcceptLogout(i)
    BY <2>4 DEF AcceptLogout
  <2> QED
    BY <2>1, <2>2, <2>3, <2>4 DEF Backend
<1>2. PICK store, value, got : Accepted(i, store, value, got)
  BY <1>1
<1>3. UNCHANGED <<page, status, created>>
  BY <1>2 DEF Accepted, lists
<1> QED
  BY <1>1, <1>2, <1>3, AcceptedCarries, AlongKnows

LEMMA NextKnows ==
    ASSUME IInv, KInv, [Next]_vars
    PROVE  KInv'
<1>1. ASSUME NEW p, Open(p) \/ Go(p) PROVE KInv'
  BY <1>1, MountKnows DEF Open, Go
<1>2. CASE Close
  BY <1>2, MountKnows DEF Close
<1>3. CASE Others \/ SessionEnds
  <2>1. UNCHANGED <<page, status, calls, created, known, setup>>
    <3>1. CASE Others
      BY <3>1 DEF Others, lists, forms
    <3>2. CASE SessionEnds
      BY <3>2 DEF SessionEnds, lists
    <3> QED
      BY <1>3, <3>1, <3>2
  <2> QED
    BY <2>1, NothingCarries, AlongKnows
<1>4. CASE Messages
  <2>1. UNCHANGED <<page, calls, created, known, setup>>
    BY <1>4 DEF Messages, Token, Tick, lists, forms
  <2>2. CASE Token
    BY <2>1, <2>2, NothingCarries, AlongKnows DEF Token
  <2>3. ASSUME NEW t \in ticking, Tick(t) PROVE KInv'
    <3>1. UrlIsTheNewest'
      BY <2>1, <2>3 DEF Tick, Restrict, KInv, UrlIsTheNewest
    <3>2. UrlKnown' /\ FactorKnown'
      BY <2>1 DEF KInv, UrlKnown, FactorKnown
    <3> QED
      BY <3>1, <3>2 DEF KInv
  <2> QED
    BY <2>2, <2>3, <1>4 DEF Messages
<1>5. CASE Prompt
  <2>1. UNCHANGED <<page, status, calls, created, known, setup>>
    BY <1>5 DEF Prompt, Arm, Cancel, lists, forms
  <2> QED
    BY <2>1, NothingCarries, AlongKnows
<1>6. ASSUME NEW i \in DOMAIN calls, Network(i) \/ Backend(i) \/ Client(i) PROVE KInv'
  BY <1>6, NetworkKnows, BackendKnows, ClientListsKnow, ClientFormsKnow, AnswersKnow DEF Client
<1>7. CASE UNCHANGED vars
  BY <1>7, NothingCarries, AlongKnows DEF vars, ui, lists, forms
<1>8. CASE ListControls
  <2>1. ASSUME NEW row, Toggle(row), UNCHANGED forms PROVE KInv'
    <3>1. NoCall \notin DOMAIN calls
      BY UiAssumption DEF IInv, CallsFit, Calls, Second, NoCall
    <3>2. PICK open : Rendered(shown, open, NoCall, "none")
      BY <2>1 DEF Toggle
    <3>3. UNCHANGED <<page, created, known, setup>>
      BY <2>1 DEF Toggle, forms
    <3> QED
      BY <3>1, <3>2, <3>3, RenderedKnows
  <2> QED
    BY <2>1, <1>8, ListPresses, PressedKnows
<1>9. CASE FormControls
  <2>1. CASE UNCHANGED <<ui, created, known, setup>>
    BY <2>1, NothingCarries, AlongKnows DEF ui
  <2> QED
    BY <2>1, <1>9, FormPresses, PressedKnows, LogoutKnows
<1> QED
  BY <1>1, <1>2, <1>3, <1>4, <1>5, <1>6, <1>7, <1>8, <1>9 DEF Next

\* The two invariants together are inductive.
THEOREM AdminKnows == Spec => [](IInv /\ KInv)
<1>1. Init => IInv /\ KInv
  <2>1. ASSUME Init PROVE KInv
    <3>1. DOMAIN calls = {} /\ created = 0 /\ page = "closed"
      BY <2>1 DEF Init, Nothing
    <3> QED
      BY <3>1 DEF KInv, UrlIsTheNewest, UrlKnown, FactorKnown
  <2> QED
    BY <2>1, InitIsSound
<1>2. (IInv /\ KInv) /\ [Next]_vars => (IInv /\ KInv)'
  BY NextKeeps, NextKnows
<1> QED
  BY <1>1, <1>2, PTL DEF Spec

\* The address shown after a link was made is never that of an older link than the
\* last press was to make (app/admin/links/page.tsx).
THEOREM AddressIsTheNewest == Spec => []UrlIsTheNewest
<1>1. IInv /\ KInv => UrlIsTheNewest
  BY DEF KInv
<1> QED
  BY <1>1, AdminKnows, PTL

\* Where the page stays, only the load of a status and a code that was accepted
\* change what is known.
LEMMA FactorStep ==
    ASSUME IInv, KInv, [Next]_vars, page = "security", page' = page, known = "yes"
    PROVE  known' = "yes"
<1>1. ASSUME NEW p, Open(p) \/ Go(p) PROVE FALSE
  BY <1>1 DEF Open, Go, Mount, Mounted, AdminPages
<1>2. CASE Close
  BY <1>2 DEF Close, Mount, Mounted
<1>3. CASE Others \/ SessionEnds
  BY <1>3 DEF Others, SessionEnds, forms
<1>4. CASE Messages \/ Prompt
  BY <1>4 DEF Messages, Prompt, forms
<1>5. ASSUME NEW i \in DOMAIN calls, Network(i) PROVE known' = "yes"
  BY <1>5 DEF Network, forms
<1>6. ASSUME NEW i \in DOMAIN calls, Backend(i) PROVE known' = "yes"
  BY <1>6 DEF Backend, AcceptList, AcceptForm, AcceptLogin, AcceptLogout, forms
<1>7. ASSUME NEW i \in DOMAIN calls, Client(i) PROVE known' = "yes"
  <2>1. ASSUME NEW how \in Ends(i), ShowKnown(i, how) PROVE FALSE
    <3>1. calls[i].at \in Reading
      BY DEF Ends, Reading
    <3> QED
      BY <3>1 DEF KInv, FactorKnown
  <2>2. CASE AnsweredForm(i)
    BY <2>2 DEF AnsweredForm
  <2>3. CASE AnsweredCv(i) \/ LogoutHere(i) \/ AnsweredLogin(i) \/ AskForCode(i)
    BY <2>3 DEF AnsweredCv, LogoutHere, AnsweredLogin, AskForCode, forms
  <2>4. ASSUME NEW how, ShowProfile(i, how) \/ ShowPortrait(i, how) PROVE known' = "yes"
    BY <2>4 DEF ShowProfile, ShowPortrait
  <2>5. CASE Unanswered(i) \/ Uncaughts(i)
    BY <2>5 DEF Unanswered, Uncaughts, forms
  <2>6. CASE Enter(i)
    BY <2>6 DEF Enter, Mount, Mounted
  <2>7. CASE LoggedOut(i)
    BY <2>7 DEF LoggedOut, Mount, Mounted
  <2>8. CASE UNCHANGED forms
    BY <2>8 DEF forms
  <2> QED
    BY <1>7, <2>1, <2>2, <2>3, <2>4, <2>5, <2>6, <2>7, <2>8 DEF Client
<1>8. CASE ListControls
  BY <1>8 DEF ListControls, forms
<1>9. CASE FormControls
  <2>1. ASSUME Pressed PROVE known' = "yes"
    BY <2>1 DEF Pressed
  <2>2. ASSUME Logout PROVE known' = "yes"
    BY <2>2 DEF Logout, forms
  <2> QED
    BY <1>9, <2>1, <2>2, FormPresses
<1>10. CASE UNCHANGED vars
  BY <1>10 DEF vars, forms
<1> QED
  BY <1>1, <1>2, <1>3, <1>4, <1>5, <1>6, <1>7, <1>8, <1>9, <1>10 DEF Next

\* The security page does not go back from on to off (app/admin/security/page.tsx):
\* no load of the status is under way once it is known.
THEOREM FactorIsNotForgotten == Spec => FactorStaysOn
<1>1. (IInv /\ KInv) /\ [Next]_vars =>
          [page = "security" /\ page' = page /\ known = "yes" => known' = "yes"]_vars
  BY FactorStep
<1> QED
  BY <1>1, AdminKnows, PTL DEF Spec, FactorStaysOn

-----------------------------------------------------------------------------
(* Messages.                                                                *)

\* The sign-in has its own page, and the button to log out is on the others.
InPlace ==
    /\ \A i \in DOMAIN calls : ~calls[i].gone =>
        /\ calls[i].what = "login" => page = "login"
        /\ calls[i].what = "logout" => page \in AdminPages
    /\ page = "login" => \A k \in DOMAIN status : k.what = "login"

\* A step on one page, after which no call and no message is new.
Settles ==
    /\ page' = page
    /\ DOMAIN status' \subseteq DOMAIN status
    /\ \A i \in DOMAIN calls' :
        /\ i \in DOMAIN calls
        /\ calls'[i].what = calls[i].what /\ calls'[i].gone = calls[i].gone

KeepsMessages ==
    \A k \in DOMAIN status \ DOMAIN status' :
        k.what # "login" /\ Stays(k, shown', opened') /\ (k.what = "crop" => crop' # None)
            => /\ status[k].state = "success"
               /\ [key |-> k, of |-> status[k].of] \in ticking

LEMMA SettlesInPlace ==
    ASSUME InPlace, Settles
    PROVE  InPlace'
BY DEF InPlace, Settles

LEMMA AlongSettles ==
    ASSUME Carried, UNCHANGED <<page, status>>
    PROVE  Settles /\ KeepsMessages
BY DEF Carried, Same, Settles, KeepsMessages

\* What is reported was reported as pending.
LEMMA ReportedWhere ==
    ASSUME IInv, NEW i \in DOMAIN calls, ~calls[i].gone, calls[i].what \notin {"load", "logout"},
           NEW st, NEW s
    PROVE  /\ DOMAIN st \subseteq DOMAIN Reported(i, st, s)
           /\ DOMAIN Reported(i, st, s) \subseteq DOMAIN st \cup DOMAIN status
<1>1. CASE calls[i].there \/ calls[i].what \in OfPage
  <2>1. Key(calls[i]) \in DOMAIN status
    BY <1>1 DEF IInv, OneCallPerControl, Reports
  <2>2. Reported(i, st, s) = Put(st, Key(calls[i]), [state |-> s, of |-> i])
    BY <1>1 DEF Reported
  <2>3. DOMAIN Reported(i, st, s) = DOMAIN st \cup {Key(calls[i])}
    BY <2>2 DEF Put
  <2> QED
    BY <2>1, <2>3
<1>2. CASE ~(calls[i].there \/ calls[i].what \in OfPage)
  BY <1>2 DEF Reported
<1> QED
  BY <1>1, <1>2

LEMMA EndSettles ==
    ASSUME IInv, NEW i \in DOMAIN calls, NEW s, End(i, s), UNCHANGED page,
           ~calls[i].gone, calls[i].what \notin {"load", "logout"}
    PROVE  Settles /\ KeepsMessages
<1>1. DOMAIN status' = DOMAIN status
  BY ReportedWhere DEF End
<1> QED
  BY <1>1 DEF End, Restrict, Settles, KeepsMessages

LEMMA RenderedSettles ==
    ASSUME IInv, NEW i, NEW list, NEW open, NEW s, Rendered(list, open, i, s), UNCHANGED page,
           i \in DOMAIN calls => ~calls[i].gone /\ calls[i].what # "logout"
    PROVE  Settles /\ KeepsMessages
<1> DEFINE kept == Restrict(status, {k \in DOMAIN status : Stays(k, list, open)})
           here == /\ i \in DOMAIN calls /\ calls[i].what # "load" /\ s # "none"
                   /\ Stays(Key(calls[i]), list, open)
<1>1. status' = IF here THEN Reported(i, kept, s) ELSE kept
  BY DEF Rendered
<1>2. DOMAIN kept = {k \in DOMAIN status : Stays(k, list, open)}
  BY DEF Restrict
<1>3. here => i \in DOMAIN calls /\ ~calls[i].gone /\ calls[i].what \notin {"load", "logout"}
  OBVIOUS
<1> HIDE DEF kept, here
<1>4. DOMAIN kept \subseteq DOMAIN status' /\ DOMAIN status' \subseteq DOMAIN status
  <2>1. CASE here
    BY <2>1, <1>1, <1>2, <1>3, ReportedWhere
  <2>2. CASE ~here
    BY <2>2, <1>1, <1>2
  <2> QED
    BY <2>1, <2>2
<1>5. shown' = list /\ opened' = open
  BY DEF Rendered
<1> QED
  BY <1>2, <1>4, <1>5, RenderedCalls DEF Settles, KeepsMessages

\* A page that is mounted has no messages, and is another one than before.
LEMMA MountPlaces ==
    ASSUME IInv, InPlace, NEW p, Mount(p)
    PROVE  InPlace'
<1> DEFINE stays == {j \in DOMAIN calls : calls[j].what = "logout" /\ p \in AdminPages}
           left  == {j \in DOMAIN calls : calls[j].at \in {"csrf", "sent"}} \ stays
           load  == [Call("load", Page, "loading", 0) EXCEPT !.token = FALSE]
           gone(j) == [calls[j] EXCEPT !.gone = TRUE]
<1>1. /\ page' = p /\ DOMAIN status' = {}
      /\ calls' = [j \in stays \cup left \cup Loads(p) |->
                        IF j \in stays THEN calls[j]
                        ELSE IF j \in left THEN gone(j) ELSE load]
  BY DEF Mount, Mounted, Nothing
<1>2. load.what = "load"
  BY DEF Call
<1>3. \A j \in left : gone(j).gone = TRUE
  BY Stages DEF IsCall
<1> HIDE DEF load, gone
<1>4. ASSUME NEW j \in DOMAIN calls'
      PROVE  \/ p \in AdminPages /\ calls'[j].what = "logout"
             \/ calls'[j].gone
             \/ calls'[j].what = "load"
  BY <1>1, <1>2, <1>3
<1> QED
  BY <1>1, <1>4 DEF InPlace

LEMMA NetworkSettles ==
    ASSUME IInv, NEW i \in DOMAIN calls, Network(i)
    PROVE  Settles /\ KeepsMessages
<1>1. CASE OwnToken(i)
  BY <1>1, OwnTokenCarries, AlongSettles DEF OwnToken, Along
<1>2. CASE Dropped(i)
  BY <1>2, DroppedCarries, AlongSettles DEF Dropped, Along
<1>3. CASE Fetch(i)
  BY <1>3, FetchCarries, AlongSettles DEF Fetch, Along
<1>4. ASSUME NEW kind, FetchPart(i, kind) PROVE Settles /\ KeepsMessages
  <2>1. UNCHANGED <<page, status>>
    BY <1>4 DEF FetchPart
  <2> QED
    BY <1>4, <2>1, FetchPartCarries, AlongSettles DEF Along
<1> QED
  BY <1>1, <1>2, <1>3, <1>4 DEF Network

LEMMA BackendSettles ==
    ASSUME IInv, NEW i \in DOMAIN calls, Backend(i)
    PROVE  Settles /\ KeepsMessages
<1>1. calls[i].at = "sent" /\ \E store, value, got : Accepted(i, store, value, got)
  <2>1. CASE AcceptList(i)
    BY <2>1 DEF AcceptList, Admitted
  <2>2. CASE AcceptForm(i)
    BY <2>2 DEF AcceptForm, Admitted
  <2>3. CASE AcceptLogin(i)
    BY <2>3 DEF AcceptLogin
  <2>4. CASE AcceptLogout(i)
    BY <2>4 DEF AcceptLogout
  <2> QED
    BY <2>1, <2>2, <2>3, <2>4 DEF Backend
<1>2. PICK store, value, got : Accepted(i, store, value, got)
  BY <1>1
<1>3. UNCHANGED <<page, status>>
  BY <1>2 DEF Accepted
<1> QED
  BY <1>1, <1>2, <1>3, AcceptedCarries, AlongSettles DEF Along

LEMMA ClientSettles ==
    ASSUME IInv, NEW i \in DOMAIN calls, Client(i)
    PROVE  (Settles /\ KeepsMessages) \/ Enter(i) \/ LoggedOut(i)
<1> DEFINE Good == Settles /\ KeepsMessages
<1> USE DEF Good
<1>1. ~calls[i].gone
  BY DEF Client
<1>2. CASE AnsweredList(i)
  <2>1. UNCHANGED <<page, status>>
    BY <1>2 DEF AnsweredList
  <2> QED
    BY <1>2, <2>1, AnsweredListCarries, AlongSettles
<1>3. ASSUME NEW how \in Ends(i), ShowList(i, how) PROVE Good
  <2>1. PICK list, s : Rendered(list, opened, i, s)
    BY <1>3 DEF ShowList
  <2>2. UNCHANGED page /\ calls[i].what # "logout"
    BY <1>3, Stages DEF ShowList, Ends, Reading
  <2> QED
    BY <1>1, <2>1, <2>2, RenderedSettles
<1>4. CASE AnsweredForm(i)
  <2>1. /\ End(i, "success") /\ UNCHANGED page
        /\ calls[i].what \in {"profile", "crop", "uploadPortrait", "setup", "confirm"}
    BY <1>4 DEF AnsweredForm
  <2> QED
    BY <1>1, <2>1, EndSettles
<1>5. CASE AnsweredCv(i)
  <2>1. UNCHANGED <<page, status>>
    BY <1>5 DEF AnsweredCv
  <2> QED
    BY <1>5, <2>1, AnsweredCvCarries, AlongSettles
<1>6. CASE AnsweredLogin(i)
  <2>1. /\ status' = Restrict(status, DOMAIN status \ {Key(calls[i])})
        /\ UNCHANGED page /\ Key(calls[i]).what = "login" /\ calls[i].what = "login"
    BY <1>6 DEF AnsweredLogin, Key
  <2>2. Settles
    BY <1>6, <2>1, Released DEF Restrict, Settles
  <2>3. KeepsMessages
    BY <2>1 DEF Restrict, KeepsMessages
  <2> QED
    BY <2>2, <2>3
<1>7. CASE LogoutHere(i)
  <2>1. UNCHANGED <<page, status>>
    BY <1>7 DEF LogoutHere
  <2> QED
    BY <1>7, <2>1, LogoutHereCarries, AlongSettles DEF Along
<1>8. ASSUME calls' = Restrict(calls, DOMAIN calls \ {i}), UNCHANGED <<page, status>>
      PROVE  Good
  BY <1>8, DroppedCarries, AlongSettles DEF Along
<1>9. ASSUME NEW how, ShowProfile(i, how) PROVE Good
  BY <1>8, <1>9 DEF ShowProfile
<1>13. CASE AskForCode(i)
  BY <1>8, <1>13 DEF AskForCode, Stuck
<1>14. ASSUME NEW how, ShowPortrait(i, how) PROVE Good
  <2>1. /\ status' = Restrict(status, {k \in DOMAIN status : ~(k.what = "crop" /\ crop' = None)})
        /\ UNCHANGED page
    BY <1>14 DEF ShowPortrait
  <2>2. Settles
    BY <1>14, <2>1, PortraitCalls DEF Restrict, Settles
  <2>3. KeepsMessages
    BY <2>1 DEF Restrict, KeepsMessages
  <2> QED
    BY <2>2, <2>3
<1>10. ASSUME NEW how \in Ends(i), ShowKnown(i, how) PROVE Good
  <2>1. CASE calls[i].what = "load"
    BY <2>1, <1>8, <1>10 DEF ShowKnown, Stuck
  <2>2. CASE calls[i].what # "load"
    <3>1. End(i, "success") /\ UNCHANGED page /\ calls[i].what # "logout"
      BY <2>2, <1>10, Stages DEF ShowKnown, Ends, Reading
    <3> QED
      BY <2>2, <3>1, <1>1, EndSettles
  <2> QED
    BY <2>1, <2>2
<1>11. CASE Unanswered(i)
  <2>1. End(i, "error") /\ UNCHANGED page /\ calls[i].what \notin {"load", "logout"}
    BY <1>11, Stages DEF Unanswered, Sent, Reading
  <2> QED
    BY <1>1, <2>1, EndSettles
<1>12. CASE Uncaughts(i)
  BY <1>8, <1>12 DEF Uncaughts, Stuck
<1> QED
  <2>1. \/ AnsweredList(i) \/ AnsweredForm(i) \/ AnsweredCv(i) \/ AnsweredLogin(i)
        \/ AskForCode(i) \/ LogoutHere(i) \/ Unanswered(i) \/ Uncaughts(i) \/ Enter(i) \/ LoggedOut(i)
        \/ \E how \in Ends(i) : ShowList(i, how)
        \/ \E how \in Ends(i) : ShowProfile(i, how) \/ ShowPortrait(i, how) \/ ShowKnown(i, how)
    BY DEF Client
  <2>2. CASE \E how \in Ends(i) : ShowList(i, how)
    BY <2>2, <1>3
  <2>3. CASE \E how \in Ends(i) : ShowProfile(i, how) \/ ShowPortrait(i, how) \/ ShowKnown(i, how)
    BY <2>3, <1>9, <1>10, <1>14
  <2> QED
    BY <2>1, <2>2, <2>3, <1>2, <1>4, <1>5, <1>6, <1>7, <1>11, <1>12, <1>13

\* A press adds a message, and one that says that it is pending.
LEMMA PressedPlaces ==
    ASSUME InPlace, Pressed
    PROVE  InPlace' /\ KeepsMessages
<1>1. PICK what, row, at, data :
        /\ what \notin {"load", "logout"}
        /\ page = "login" <=> what = "login"
        /\ Run(what, row, at, data)
  BY DEF Pressed
<1> DEFINE n == presses + 1
           k == [what |-> what, row |-> row]
           c == Call(what, row, at, data)
<1>2. /\ calls' = Put(calls, n, c)
      /\ status' = Put(status, k, [state |-> "pending", of |-> n])
      /\ page' = page
  BY <1>1 DEF Run
<1>3. c.what = what /\ k.what = what
  BY DEF Call
<1> HIDE DEF n, k, c
<1>4. /\ DOMAIN calls' = DOMAIN calls \cup {n}
      /\ calls'[n] = c
      /\ \A j \in DOMAIN calls \ {n} : calls'[j] = calls[j]
  BY <1>2 DEF Put
<1>5. DOMAIN status' = DOMAIN status \cup {k}
  BY <1>2 DEF Put
<1>6. InPlace'
  BY <1>1, <1>2, <1>3, <1>4, <1>5 DEF InPlace
<1>7. KeepsMessages
  BY <1>5 DEF KeepsMessages
<1> QED
  BY <1>6, <1>7

LEMMA LogoutPlaces ==
    ASSUME InPlace, Logout
    PROVE  InPlace' /\ KeepsMessages
<1> DEFINE n == presses + 1
           c == Call("logout", Page, "csrf", "authentik")
<1>1. /\ calls' = Put(calls, n, c)
      /\ page' = page /\ status' = status /\ page \in AdminPages
  BY DEF Logout
<1>2. c.what = "logout"
  BY DEF Call
<1> HIDE DEF n, c
<1>3. /\ DOMAIN calls' = DOMAIN calls \cup {n}
      /\ calls'[n] = c
      /\ \A j \in DOMAIN calls \ {n} : calls'[j] = calls[j]
  BY <1>1 DEF Put
<1>4. InPlace'
  BY <1>1, <1>2, <1>3 DEF InPlace
<1> QED
  BY <1>1, <1>4 DEF KeepsMessages

MessageStep == page' = page => KeepsMessages

LEMMA NextPlaces ==
    ASSUME IInv, InPlace, [Next]_vars
    PROVE  InPlace' /\ MessageStep
<1>1. ASSUME NEW p, Mount(p), page = "login" \/ p # page PROVE InPlace' /\ MessageStep
  <2>1. page' = p
    BY <1>1 DEF Mount, Mounted
  <2>2. page = "login" => KeepsMessages
    BY DEF InPlace, KeepsMessages
  <2> QED
    BY <1>1, <2>1, <2>2, MountPlaces DEF MessageStep
<1>2. ASSUME Settles, KeepsMessages PROVE InPlace' /\ MessageStep
  BY <1>2, SettlesInPlace DEF MessageStep
<1>3. ASSUME NEW p \in AdminPages, Open(p) PROVE InPlace' /\ MessageStep
  <2>1. PICK q \in {p, "login"} : Mount(q) /\ page \in {"closed", "login"}
    BY <1>3 DEF Open
  <2>2. page = "login" \/ q # page
    BY <2>1 DEF AdminPages
  <2> QED
    BY <1>1, <2>1, <2>2
<1>4. ASSUME NEW p \in AdminPages, Go(p) PROVE InPlace' /\ MessageStep
  BY <1>1, <1>4 DEF Go
<1>5. CASE Close
  BY <1>1, <1>5 DEF Close
<1>6. ASSUME UNCHANGED <<page, status, calls>> PROVE Settles /\ KeepsMessages
  BY <1>6 DEF Settles, KeepsMessages
<1>7. CASE Others \/ SessionEnds \/ Prompt
  BY <1>2, <1>6, <1>7 DEF Others, SessionEnds, Prompt, Arm, Cancel
<1>8. CASE Messages
  <2>1. CASE Token
    BY <1>2, <1>6, <2>1 DEF Token
  <2>2. ASSUME NEW t \in ticking, Tick(t) PROVE Settles /\ KeepsMessages
    <3>1. /\ status[t.key].state = "success"
          /\ [key |-> t.key, of |-> status[t.key].of] \in ticking
      BY DEF IInv, TimersOfSuccess
    <3>2. /\ page' = page /\ calls' = calls
          /\ DOMAIN status' = DOMAIN status \ {t.key}
      BY <2>2 DEF Tick, Restrict
    <3> QED
      BY <3>1, <3>2 DEF Settles, KeepsMessages
  <2> QED
    BY <1>2, <1>8, <2>1, <2>2 DEF Messages
<1>9. CASE ListControls
  <2>1. ASSUME NEW row, Toggle(row) PROVE Settles /\ KeepsMessages
    <3>1. NoCall \notin DOMAIN calls
      BY UiAssumption DEF IInv, CallsFit, Calls, Second, NoCall
    <3>2. PICK open : Rendered(shown, open, NoCall, "none") /\ UNCHANGED page
      BY <2>1 DEF Toggle
    <3> QED
      BY <3>1, <3>2, RenderedSettles
  <2> QED
    BY <1>2, <1>9, <2>1, ListPresses, PressedPlaces DEF MessageStep
<1>10. CASE FormControls
  <2>1. CASE UNCHANGED <<ui, created, known, setup>>
    BY <2>1, <1>2, <1>6 DEF ui
  <2> QED
    BY <2>1, <1>10, FormPresses, PressedPlaces, LogoutPlaces DEF MessageStep
<1>11. ASSUME NEW i \in DOMAIN calls, Network(i) \/ Backend(i) PROVE InPlace' /\ MessageStep
  BY <1>2, <1>11, NetworkSettles, BackendSettles
<1>12. ASSUME NEW i \in DOMAIN calls, Client(i) PROVE InPlace' /\ MessageStep
  <2>1. ~calls[i].gone
    BY <1>12 DEF Client
  <2>2. CASE Enter(i)
    <3>1. page = "login" /\ \E p : Mount(p)
      BY <2>1, <2>2 DEF Enter, InPlace
    <3> QED
      BY <1>1, <3>1
  <2>3. CASE LoggedOut(i)
    <3>1. page \in AdminPages /\ \E p \in {"closed", "login"} : Mount(p)
      BY <2>1, <2>3 DEF LoggedOut, InPlace
    <3> QED
      BY <1>1, <3>1 DEF AdminPages
  <2> QED
    BY <1>2, <1>12, <2>2, <2>3, ClientSettles
<1>13. CASE UNCHANGED vars
  BY <1>2, <1>6, <1>13 DEF vars, ui
<1> QED
  BY <1>3, <1>4, <1>5, <1>7, <1>8, <1>9, <1>10, <1>11, <1>12, <1>13 DEF Next

\* What a control says stays until it is used again, the control goes with its row,
\* with the crop or with the page, or the timer of that very message takes it
\* (useActionFeedback in components/admin/ui.tsx).
THEOREM MessagesKeepTheirTime == Spec => MessageKeepsItsTime
<1>1. Init => InPlace
  <2>1. Init => DOMAIN calls = {} /\ DOMAIN status = {}
    BY DEF Init, Nothing
  <2> QED
    BY <2>1 DEF InPlace
<1>2. IInv /\ InPlace /\ [Next]_vars =>
        [\A k \in DOMAIN status \ DOMAIN status' :
            page' = page /\ k.what # "login" /\ Stays(k, shown', opened')
            /\ (k.what = "crop" => crop' # None)
                => /\ status[k].state = "success"
                   /\ [key |-> k, of |-> status[k].of] \in ticking]_vars
  BY NextPlaces DEF MessageStep, KeepsMessages
<1>3. IInv /\ InPlace /\ [Next]_vars => InPlace'
  BY NextPlaces
<1> QED
  BY <1>1, <1>2, <1>3, AdminIsSound, PTL DEF Spec, MessageKeepsItsTime

=============================================================================
