-------------------------- MODULE AdminShownProofs ---------------------------
(***************************************************************************)
(* What an admin page shows and sends agrees with the backend.             *)
(*                                                                         *)
(*   HeldInv   what is stored, read, typed and sent has its type, and a    *)
(*             call that has read again after its write has read that      *)
(*             write, or a later one.  It rests on this: a call that has   *)
(*             not been left behind is on the page it belongs to, so that  *)
(*             it reads what it has written.                               *)
(*   KeptInv   what was made of a revision of the profile that is still    *)
(*             the last one is that revision, in the fields, on its way    *)
(*             there and on the way back.                                  *)
(*                                                                         *)
(* From these follow TypeOK, SuccessIsShown and ProfileKept.               *)
(***************************************************************************)
EXTENDS AdminProofs, SequenceTheorems, FiniteSetTheorems, WellFoundedInduction

-----------------------------------------------------------------------------
(* The invariants.                                                          *)

Stores == {"links", "skills", "portfolio", "profile", "portrait", "cv", "security"}

Content(store) ==
    CASE store \in Lists -> Seq(Row)
      [] store = "profile" -> Profile
      [] store = "portrait" -> Crop \cup {None}
      [] OTHER -> {"no", "yes"}

DbFits ==
    /\ DOMAIN db = Stores /\ DOMAIN rev = Stores
    /\ \A s \in Stores : db[s] \in Content(s) /\ rev[s] \in Nat \ {0}

\* The pages a call belongs to.
Home(what) ==
    CASE what \in {"create", "expiry", "revoke"} -> {"links"}
      [] what \in {"entry", "sync"} -> {"portfolio"}
      [] what \in {"profile", "crop", "uploadPortrait"} -> {"profile"}
      [] what = "uploadCv" -> {"cv"}
      [] what \in {"setup", "confirm"} -> {"security"}
      [] what = "login" -> {"login"}
      [] what = "logout" -> AdminPages
      [] what = "load" -> Pages
      [] OTHER -> {"skills"}

Fields == {"what", "row", "at", "data", "token", "gone", "there", "ok", "rev", "got", "gotRev"}

Unread == {"csrf", "sent"}

DataFits(what, data) ==
    /\ what = "saveTechnology" => data \in Nat
    /\ what = "crop" => data \in Crop
    /\ what = "profile" => data.body \in Profile /\ data.of \in Nat

Placed(i) ==
    LET c == calls[i] IN
    /\ Fields \subseteq DOMAIN c
    /\ c.row \in Row
    /\ IF c.what = "load" THEN i \in Loads(page) ELSE i \in 1 .. presses
    /\ IF c.gone THEN c.at \in Unread ELSE page \in Home(c.what)
    /\ c.at \in {"csrf", "sent", "done", "released", "loading", "half", "loaded"}
    /\ c.at \in Reading => c.what = "load" \/ StoreOf(i) = page

Dated(i) ==
    LET c == calls[i] IN
    /\ c.rev \in Nat /\ c.gotRev \in Nat
    /\ c.at \in Unread => c.rev = 0 /\ DataFits(c.what, c.data)
    /\ c.what = "load" => c.rev = 0
    /\ c.rev > 0 => c.rev <= rev[StoreOf(i)]
    /\ c.at = "half" => StoreOf(i) = "skills" /\ c.got \in Seq(Row) /\ c.gotRev >= c.rev
    /\ c.at = "loaded" => c.got \in Content(StoreOf(i)) /\ c.gotRev >= c.rev

\* Message m of control k is that of a press, and while the call is under way
\* that of its control.
Told(k, m) ==
    /\ m.state \in {"pending", "success", "error"}
    /\ m.of \in 1 .. presses
    /\ m.of \in DOMAIN calls => Reports(m.of) /\ Key(calls[m.of]) = k

MessagesFit == \A k \in DOMAIN status : Told(k, status[k])

CallsHold == \A i \in DOMAIN calls : Placed(i) /\ Dated(i)

\* What the page shows has its type.
ListFits ==
    /\ Range(shown) \subseteq Row /\ armed \subseteq RowsOn(shown)
    /\ shownRev \in Nat /\ created \in Nat /\ opened \in Nat /\ loadError \in BOOLEAN

FormFits ==
    /\ form \in Form /\ formRev \in Nat /\ crop \in Crop \cup {None}
    /\ known \in {"unknown", "no", "yes"} /\ step \in {"password", "code"}
    /\ setup \in BOOLEAN /\ session \in BOOLEAN /\ waiting \in BOOLEAN

PageFits == page \in Pages /\ token \in BOOLEAN /\ ListFits /\ FormFits

HeldInv == IInv /\ PageFits /\ DbFits /\ MessagesFit /\ CallsHold

\* An address of empty lines is none.
Lined(profile) == profile.address = [street |-> "", city |-> ""] => profile.address = None

\* What was made of revision r of the profile is still right.
Current(r, profile) == r <= rev.profile /\ (r = rev.profile => profile = db.profile)

Kept(i) ==
    LET c == calls[i] IN
    /\ c.what = "profile" /\ c.at \in Unread =>
        /\ Lined(c.data.body)
        /\ Current(c.data.of, c.data.body)
    /\ c.at = "loaded" /\ StoreOf(i) = "profile" => Current(c.gotRev, c.got)

CallsKept == \A i \in DOMAIN calls : Kept(i)

KeptInv ==
    /\ Lined(db.profile)
    /\ Current(formRev, ToBody(form))
    /\ CallsKept

-----------------------------------------------------------------------------
(* Lists.                                                                   *)

LEMMA HasLeast ==
    ASSUME NEW T \in SUBSET Nat, T # {}
    PROVE  \E m \in T : \A n \in T : m <= n
<1>1. PICK m \in T : \A n \in T : <<n, m>> \notin OpToRel(<, Nat)
  BY WFMin, NatLessThanWellFounded, Zenon
<1>2. \A n \in T : ~(n < m)
  BY <1>1, Zenon DEF OpToRel
<1> QED
  BY <1>2

\* Counted from the first on, each place among some of a list is the next one.
LEMMA EachHasAPlace ==
    ASSUME NEW len \in Nat, NEW places \in SUBSET (1 .. len),
           NEW n \in 1 .. Cardinality(places)
    PROVE  \E m \in places : Cardinality({l \in places : l <= m}) = n
<1> DEFINE Upto(m) == {l \in places : l <= m}
           T == {m \in Nat : n <= Cardinality(Upto(m))}
<1>0. \A p \in places : p \in Nat /\ 1 <= p /\ p <= len
  OBVIOUS
<1>1. \A m \in Nat : IsFiniteSet(Upto(m)) /\ Cardinality(Upto(m)) \in Nat
  <2> TAKE m \in Nat
  <2>1. IsFiniteSet(1 .. len)
    BY FS_Interval
  <2>2. Upto(m) \in SUBSET (1 .. len)
    OBVIOUS
  <2>3. IsFiniteSet(Upto(m))
    BY <2>1, <2>2, FS_Subset
  <2> QED
    BY <2>3, FS_CardinalityType
<1>2. Upto(len) = places
  BY <1>0
<1>3. Upto(0) = {}
  <2>1. \A l \in places : ~(l <= 0)
    BY <1>0
  <2> QED
    BY <2>1, Zenon
<1>4. \A m \in Nat \ {0} :
        /\ m \in places => Upto(m) = Upto(m - 1) \cup {m} /\ m \notin Upto(m - 1)
        /\ m \notin places => Upto(m) = Upto(m - 1)
  <2> TAKE m \in Nat \ {0}
  <2>1. ASSUME NEW l \in places PROVE l <= m - 1 <=> l <= m /\ l # m
    BY <1>0
  <2>2. m <= m /\ ~(m <= m - 1)
    OBVIOUS
  <2>3. \A l : l \in Upto(m) <=> l \in places /\ l <= m
    OBVIOUS
  <2>4. \A l : l \in Upto(m - 1) <=> l \in places /\ l <= m - 1
    OBVIOUS
  <2> HIDE DEF Upto
  <2>5. m \in places => Upto(m) = Upto(m - 1) \cup {m}
    BY <2>1, <2>2, <2>3, <2>4
  <2>6. m \notin Upto(m - 1)
    BY <2>2, <2>4
  <2>7. m \notin places => Upto(m) = Upto(m - 1)
    BY <2>1, <2>3, <2>4
  <2> QED
    BY <2>5, <2>6, <2>7
<1>5. n \in Nat /\ 1 <= n /\ n <= Cardinality(places)
  BY <1>1, <1>2
<1> SUFFICES \E m \in places : Cardinality(Upto(m)) = n
  OBVIOUS
<1> HIDE DEF Upto
<1>6. PICK m \in T : \A k \in T : m <= k
  <2>1. len \in T
    BY <1>2, <1>5
  <2> QED
    BY <2>1, HasLeast
<1>7. Cardinality(Upto(0)) = 0
  BY <1>3, FS_EmptySet
<1>8. m \in Nat \ {0}
  BY <1>5, <1>6, <1>7
<1>9. m - 1 \in Nat /\ m - 1 \notin T
  BY <1>6, <1>8
<1>10. Cardinality(Upto(m - 1)) < n /\ n <= Cardinality(Upto(m))
  BY <1>1, <1>5, <1>6, <1>9
<1>11. m \in places
  BY <1>1, <1>4, <1>5, <1>8, <1>9, <1>10
<1>12. Cardinality(Upto(m)) = Cardinality(Upto(m - 1)) + 1
  BY <1>1, <1>4, <1>8, <1>9, <1>11, FS_AddElement
<1> QED
  BY <1>1, <1>5, <1>8, <1>9, <1>10, <1>11, <1>12

\* Some rows of a list are a list.
LEMMA OnlyIsAList ==
    ASSUME NEW S, NEW list \in Seq(S), NEW places, places \subseteq DOMAIN list
    PROVE  Only(list, places) \in Seq(S)
<1>1. Len(list) \in Nat /\ DOMAIN list = 1 .. Len(list)
  OBVIOUS
<1> DEFINE Place(n) == CHOOSE m \in places : Cardinality({l \in places : l <= m}) = n
           size == Cardinality(places)
<1>2. size \in Nat
  <2>1. IsFiniteSet(1 .. Len(list)) /\ places \in SUBSET (1 .. Len(list))
    BY <1>1, FS_Interval
  <2>2. IsFiniteSet(places)
    BY <2>1, FS_Subset
  <2> QED
    BY <2>2, FS_CardinalityType
<1>3. \A n \in 1 .. size : Place(n) \in places
  BY <1>1, EachHasAPlace
<1> HIDE DEF Place
<1>4. \A n \in 1 .. size : list[Place(n)] \in S
  BY <1>1, <1>3
<1>5. Only(list, places) = [n \in 1 .. size |-> list[Place(n)]]
  BY DEF Only, Place
<1> HIDE DEF size
<1> QED
  BY <1>2, <1>4, <1>5, IsASeq

LEMMA MapIsAList ==
    ASSUME NEW S, NEW list \in Seq(S), NEW f, DOMAIN f = DOMAIN list,
           f = [n \in DOMAIN list |-> f[n]],
           \A n \in DOMAIN list : f[n] \in S
    PROVE  f \in Seq(S)
<1>1. Len(list) \in Nat /\ DOMAIN list = 1 .. Len(list)
  OBVIOUS
<1> QED
  BY <1>1, SeqDef

LEMMA RowsHaveFields ==
    ASSUME NEW id \in Nat, NEW kind \in Kinds, NEW cat \in Nat
    PROVE  R(id, kind, cat) \in Row
BY DEF R, Row

\* What a write makes of a list is a list.
LEMMA ChangedIsAList ==
    ASSUME NEW list \in Seq(Row), NEW what, NEW row \in Row, NEW data, NEW new \in Nat,
           what = "saveTechnology" => data \in Nat
    PROVE  Changed(list, what, row, data, new) \in Seq(Row)
<1> DEFINE rest == Only(list, {n \in DOMAIN list : list[n].id # row.id})
           out == Changed(list, what, row, data, new)
<1>1. rest \in Seq(Row)
  BY OnlyIsAList
<1>2. row.id \in Nat /\ \A n \in DOMAIN list : list[n] \in Row
  <2>1. row.id \in Nat
    BY DEF Row
  <2> QED
    BY <2>1
<1>3. \A n \in DOMAIN rest : rest[n] \in Row
  BY <1>1
<1> HIDE DEF rest
<1>4. CASE what = "create"
  <2>1. out = <<R(new, "link", 0)>> \o list
    BY <1>4 DEF Changed
  <2>2. <<R(new, "link", 0)>> \in Seq(Row)
    BY RowsHaveFields DEF Kinds
  <2> QED
    BY <2>1, <2>2
<1>5. CASE what = "revoke"
  <2> DEFINE x == R(row.id, "revoked", 0)
             f == [n \in DOMAIN list |-> IF list[n].id = row.id THEN x ELSE list[n]]
  <2>1. out = f
    BY <1>5 DEF Changed
  <2>2. x \in Row
    BY <1>2, RowsHaveFields DEF Kinds
  <2> HIDE DEF x
  <2> QED
    BY <1>2, <2>1, <2>2, MapIsAList
<1>6. CASE what = "saveTechnology"
  <2> DEFINE x == R(row.id, "technology", data)
             f == [n \in DOMAIN list |-> IF list[n].id = row.id THEN x ELSE list[n]]
  <2>1. out = f
    BY <1>6 DEF Changed
  <2>2. x \in Row
    BY <1>2, <1>6, RowsHaveFields DEF Kinds
  <2> HIDE DEF x
  <2> QED
    BY <1>2, <2>1, <2>2, MapIsAList
<1>7. CASE what = "deleteTechnology"
  BY <1>1, <1>7 DEF Changed, rest
<1>8. CASE what = "deleteCategory"
  <2> DEFINE f == [n \in DOMAIN rest |->
                      [rest[n] EXCEPT !.cat = IF rest[n].cat = row.id THEN 0 ELSE rest[n].cat]]
  <2>1. out = f
    BY <1>8 DEF Changed, rest
  <2>2. \A n \in DOMAIN rest : f[n] \in Row
    BY <1>3 DEF Row
  <2> QED
    BY <1>1, <2>1, <2>2, MapIsAList
<1>9. CASE what = "addTechnology"
  <2>1. out = Append(list, R(new, "technology", row.id))
    BY <1>9 DEF Changed
  <2> QED
    BY <1>2, <2>1, RowsHaveFields DEF Kinds
<1>10. CASE what = "addCategory"
  <2>1. out = Append(list, R(new, "category", 0))
    BY <1>10 DEF Changed
  <2> QED
    BY <2>1, RowsHaveFields DEF Kinds
<1>11. CASE what \notin {"create", "revoke", "saveTechnology", "deleteTechnology",
                         "deleteCategory", "addTechnology", "addCategory"}
  BY <1>11 DEF Changed
<1> QED
  BY <1>4, <1>5, <1>6, <1>7, <1>8, <1>9, <1>10, <1>11

LEMMA SyncedAreLists ==
    ASSUME NEW list \in Seq(Row), NEW new \in Nat, NEW out \in Synced(list, new)
    PROVE  out \in Seq(Row)
<1>1. R(new, "repo", 0) \in Row
  BY RowsHaveFields DEF Kinds
<1> QED
  BY <1>1 DEF Synced

-----------------------------------------------------------------------------
(* The backend.                                                             *)

\* Revisions only grow, and with each change.
Grows ==
    \A s \in Stores :
        rev'[s] \in Nat /\ rev[s] <= rev'[s] /\ (rev'[s] = rev[s] => db'[s] = db[s])

LEMMA Written ==
    ASSUME DbFits, NEW store \in Stores, NEW value \in Content(store),
           db' = [db EXCEPT ![store] = value], rev' = [rev EXCEPT ![store] = @ + 1]
    PROVE  DbFits' /\ Grows
<1>1. \A s \in Stores : rev'[s] = (IF s = store THEN rev[s] + 1 ELSE rev[s])
                        /\ db'[s] = (IF s = store THEN value ELSE db[s])
  BY DEF DbFits
<1> QED
  BY <1>1 DEF DbFits, Grows

LEMMA Unwritten ==
    ASSUME DbFits, UNCHANGED <<db, rev>>
    PROVE  DbFits' /\ Grows
BY DEF DbFits, Grows

LEMMA StoreOfWrite ==
    ASSUME NEW i, calls[i].what # "load"
    PROVE  StoreOf(i) \in Stores
BY DEF StoreOf, Stores

LEMMA NewIsANumber == ASSUME NEW i \in Nat PROVE New(i) \in Nat
BY DEF New

\* What a write stores is what belongs there, and where it does.
LEMMA BackendWrites ==
    ASSUME HeldInv, NEW i \in DOMAIN calls, Backend(i)
    PROVE  /\ calls[i].at = "sent" /\ calls[i].what # "load"
           /\ \E value \in Content(StoreOf(i)) : \E got : Accepted(i, StoreOf(i), value, got)
<1>1. /\ calls[i].at = "sent" => calls[i].what # "load"
      /\ calls[i].row \in Row
      /\ calls[i].at = "sent" => DataFits(calls[i].what, calls[i].data)
  BY Stages DEF HeldInv, CallsHold, Reading, Placed, Dated, Unread
<1>2. DbFits /\ i \in Nat
  BY UiAssumption DEF HeldInv, IInv, CallsFit, Calls, Second
<1>3. CASE AcceptList(i)
  <2> DEFINE c == calls[i]
             store == StoreOf(i)
  <2>1. PICK list \in IF c.what = "sync" THEN Synced(db[store], New(i))
                      ELSE {Changed(db[store], c.what, c.row, c.data, New(i))} :
          Accepted(i, store, list, None)
    BY <1>3 DEF AcceptList
  <2>2. c.at = "sent" /\ store \in Lists
    BY <1>3 DEF AcceptList, Admitted
  <2>3. Content(store) = Seq(Row) /\ store \in Stores
    BY <2>2 DEF Content, Lists, Stores
  <2>4. db[store] \in Seq(Row)
    BY <1>2, <2>3 DEF DbFits
  <2>5. list \in Seq(Row)
    <3>1. CASE c.what = "sync"
      BY <1>2, <2>1, <2>4, <3>1, NewIsANumber, SyncedAreLists
    <3>2. CASE c.what # "sync"
      <4>1. list = Changed(db[store], c.what, c.row, c.data, New(i))
        BY <2>1, <3>2
      <4>2. c.what = "saveTechnology" => c.data \in Nat
        BY <1>1, <2>2 DEF DataFits
      <4> HIDE DEF c, store
      <4> QED
        BY <1>1, <1>2, <2>4, <4>1, <4>2, NewIsANumber, ChangedIsAList DEF c
    <3> QED
      BY <3>1, <3>2
  <2> QED
    BY <1>1, <2>1, <2>2, <2>3, <2>5
<1>4. CASE AcceptForm(i)
  <2>1. calls[i].at = "sent" /\ DataFits(calls[i].what, calls[i].data)
    BY <1>1, <1>4 DEF AcceptForm, Admitted
  <2>2. CASE calls[i].what = "profile" /\ Accepted(i, "profile", calls[i].data.body, None)
    BY <1>1, <2>1, <2>2 DEF StoreOf, Content, DataFits, Lists
  <2>3. CASE calls[i].what = "crop" /\ Accepted(i, "portrait", calls[i].data, None)
    BY <1>1, <2>1, <2>3 DEF StoreOf, Content, DataFits, Lists
  <2>4. CASE calls[i].what = "uploadPortrait" /\ Accepted(i, "portrait", Start, None)
    <3>1. Start \in Crop
      BY FormsAssumption DEF Start, Crop
    <3> QED
      BY <1>1, <2>1, <2>4, <3>1 DEF StoreOf, Content, Lists
  <2>5. CASE calls[i].what = "uploadCv" /\ Accepted(i, "cv", "yes", None)
    BY <1>1, <2>1, <2>5 DEF StoreOf, Content, Lists
  <2>6. CASE \/ calls[i].what = "setup" /\ Accepted(i, "security", "no", None)
             \/ calls[i].what = "confirm" /\ Accepted(i, "security", "yes", None)
    BY <1>1, <2>1, <2>6 DEF StoreOf, Content, Lists
  <2> QED
    BY <1>4, <2>2, <2>3, <2>4, <2>5, <2>6 DEF AcceptForm
<1>5. Content("security") = {"no", "yes"} /\ db.security \in {"no", "yes"}
  <2>1. "security" \in Stores /\ Content("security") = {"no", "yes"}
    BY DEF Stores, Content, Lists
  <2> QED
    BY <1>2, <2>1 DEF DbFits
<1>6. CASE AcceptLogin(i)
  <2>1. /\ calls[i].at = "sent" /\ calls[i].what = "login"
        /\ \E got : Accepted(i, "security", db.security, got)
    BY <1>6 DEF AcceptLogin
  <2> QED
    BY <1>5, <2>1 DEF StoreOf
<1>7. CASE AcceptLogout(i)
  <2>1. /\ calls[i].at = "sent" /\ calls[i].what = "logout"
        /\ \E got : Accepted(i, "security", db.security, got)
    BY <1>7 DEF AcceptLogout
  <2> QED
    BY <1>5, <2>1 DEF StoreOf
<1> QED
  BY <1>3, <1>4, <1>6, <1>7 DEF Backend

LEMMA BackendGrows ==
    ASSUME HeldInv, NEW i \in DOMAIN calls, Backend(i)
    PROVE  DbFits' /\ Grows
<1>1. PICK value \in Content(StoreOf(i)) : \E got : Accepted(i, StoreOf(i), value, got)
  BY BackendWrites
<1>2. StoreOf(i) \in Stores
  BY BackendWrites, StoreOfWrite
<1> QED
  BY <1>1, <1>2, Written DEF Accepted, HeldInv

\* So does what others write.
LEMMA OthersWrite ==
    ASSUME HeldInv, Others
    PROVE  DbFits' /\ Grows
<1> DEFINE Becomes(store, value) ==
            /\ db' = [db EXCEPT ![store] = value]
            /\ rev' = [rev EXCEPT ![store] = @ + 1]
<1>1. DbFits /\ presses + 1 \in Nat
  BY DEF HeldInv, IInv, Numbers
<1>2. Page \in Row
  BY RowsHaveFields DEF Page, Kinds
<1>3. /\ "links" \in Stores /\ db.links \in Seq(Row) /\ Content("links") = Seq(Row)
      /\ "skills" \in Stores /\ db.skills \in Seq(Row) /\ Content("skills") = Seq(Row)
      /\ "portfolio" \in Stores /\ db.portfolio \in Seq(Row) /\ Content("portfolio") = Seq(Row)
  <2>1. \A s \in Lists : s \in Stores /\ Content(s) = Seq(Row)
    BY DEF Lists, Stores, Content
  <2> QED
    BY <1>1, <2>1 DEF Lists, DbFits
<1>4. ASSUME NEW store \in Stores, NEW value \in Content(store), Becomes(store, value)
      PROVE  DbFits' /\ Grows
  BY <1>1, <1>4, Written
<1>5. CASE Becomes("links", Changed(db.links, "create", Page, 0, New(presses + 1)))
  <2>1. Changed(db.links, "create", Page, 0, New(presses + 1)) \in Seq(Row)
    BY <1>1, <1>2, <1>3, NewIsANumber, ChangedIsAList
  <2> QED
    BY <1>3, <1>4, <1>5, <2>1
<1>6. ASSUME NEW r \in Range(db.links), Becomes("links", Changed(db.links, "revoke", r, 0, 0))
      PROVE  DbFits' /\ Grows
  <2>1. r \in Row
    BY <1>3 DEF Range
  <2>2. Changed(db.links, "revoke", r, 0, 0) \in Seq(Row)
    BY <1>3, <2>1, ChangedIsAList
  <2> QED
    BY <1>3, <1>4, <1>6, <2>2
<1>7. ASSUME NEW r \in Range(db.skills), NEW what \in {"deleteCategory", "deleteTechnology"},
             Becomes("skills", Changed(db.skills, what, r, 0, 0))
      PROVE  DbFits' /\ Grows
  <2>1. r \in Row
    BY <1>3 DEF Range
  <2>2. Changed(db.skills, what, r, 0, 0) \in Seq(Row)
    BY <1>3, <2>1, ChangedIsAList
  <2> QED
    BY <1>3, <1>4, <1>7, <2>2
<1>8. ASSUME NEW list \in Synced(db.portfolio, New(presses + 1)), Becomes("portfolio", list)
      PROVE  DbFits' /\ Grows
  <2>1. list \in Seq(Row)
    BY <1>1, <1>3, NewIsANumber, SyncedAreLists
  <2> QED
    BY <1>3, <1>4, <1>8, <2>1
<1>9. ASSUME NEW s \in Starts, Becomes("profile", s.profile)
      PROVE  DbFits' /\ Grows
  <2>1. "profile" \in Stores /\ s.profile \in Content("profile")
    BY AdminAssumption DEF Stores, Content, Lists
  <2> QED
    BY <1>4, <1>9, <2>1
<1>10. CASE Becomes("portrait", Start)
  <2>1. "portrait" \in Stores /\ Start \in Content("portrait")
    BY FormsAssumption DEF Stores, Content, Lists, Start, Crop
  <2> QED
    BY <1>4, <1>10, <2>1
<1>11. ASSUME NEW s \in {"no", "yes"}, Becomes("security", s)
      PROVE  DbFits' /\ Grows
  <2>1. "security" \in Stores /\ s \in Content("security")
    BY DEF Stores, Content, Lists
  <2> QED
    BY <1>4, <1>11, <2>1
<1> HIDE DEF Becomes
<1>12. \/ Becomes("links", Changed(db.links, "create", Page, 0, New(presses + 1)))
       \/ \E r \in Range(db.links) : Becomes("links", Changed(db.links, "revoke", r, 0, 0))
       \/ \E r \in Range(db.skills) :
             Becomes("skills", Changed(db.skills, IF r.kind = "category" THEN "deleteCategory"
                                                  ELSE "deleteTechnology", r, 0, 0))
       \/ \E list \in Synced(db.portfolio, New(presses + 1)) : Becomes("portfolio", list)
       \/ \E s \in Starts : Becomes("profile", s.profile)
       \/ Becomes("portrait", Start)
       \/ \E s \in {"no", "yes"} : Becomes("security", s)
  BY DEF Others, Becomes
<1> QED
  BY <1>5, <1>6, <1>7, <1>8, <1>9, <1>10, <1>11, <1>12

\* Nothing else writes.
LEMMA Writers ==
    ASSUME [Next]_vars
    PROVE  UNCHANGED <<db, rev>> \/ Others \/ \E i \in DOMAIN calls : Backend(i)
<1>1. ASSUME Pressed PROVE UNCHANGED <<db, rev>>
  BY <1>1 DEF Pressed, Run
<1>2. CASE ListControls
  BY <1>1, <1>2, ListPresses DEF Toggle
<1>3. CASE FormControls
  BY <1>1, <1>3, FormPresses DEF Logout, ui
<1>4. CASE Messages \/ Prompt \/ SessionEnds \/ Close \/ UNCHANGED vars
  BY <1>4 DEF Messages, Prompt, SessionEnds, Close, vars, ui, Token, Tick, Arm, Cancel
<1>5. ASSUME NEW p, Open(p) \/ Go(p) PROVE UNCHANGED <<db, rev>>
  BY <1>5 DEF Open, Go
<1>6. ASSUME NEW i, Network(i) PROVE UNCHANGED <<db, rev>>
  BY <1>6 DEF Network, OwnToken, Dropped, Fetch, FetchPart
<1>7. ASSUME NEW i, Client(i) PROVE UNCHANGED <<db, rev>>
  BY <1>7 DEF Client, AnsweredList, ShowList, AnsweredForm, AnsweredCv, AnsweredLogin, AskForCode,
       LogoutHere, ShowProfile, ShowPortrait, ShowKnown, Unanswered, Uncaughts, Enter, LoggedOut
<1> QED
  BY <1>2, <1>3, <1>4, <1>5, <1>6, <1>7 DEF Next

LEMMA DbStep ==
    ASSUME HeldInv, [Next]_vars
    PROVE  DbFits' /\ Grows
BY Writers, BackendGrows, OthersWrite, Unwritten DEF HeldInv

-----------------------------------------------------------------------------
(* Calls on a page that stays.                                              *)

OnPage == page' = page /\ presses' \in Nat /\ presses <= presses' /\ Grows

\* The same call, but for its token, its component and how the write went.
Alike(c, d) ==
    /\ Fields \subseteq DOMAIN d
    /\ d.what = c.what /\ d.row = c.row /\ d.at = c.at /\ d.data = c.data /\ d.gone = c.gone
    /\ d.rev = c.rev /\ d.got = c.got /\ d.gotRev = c.gotRev

\* After a step there are the calls from before, but for some.
Retains(S) == \A j \in DOMAIN calls' \ S : j \in DOMAIN calls /\ Alike(calls[j], calls'[j])

Goes(i) == Placed(i)' /\ Dated(i)' /\ (KeptInv => Kept(i)')

CallsGo == CallsHold' /\ (KeptInv => CallsKept')

LEMMA SameStore ==
    ASSUME NEW i, calls'[i].what = calls[i].what, page' = page \/ calls[i].what # "load"
    PROVE  StoreOf(i)' = StoreOf(i)
BY DEF StoreOf, Second

\* What is stored stays what was made of its revision, or gets another.
LEMMA StaysCurrent ==
    ASSUME DbFits, Grows, NEW r \in Nat, NEW profile, Current(r, profile)
    PROVE  Current(r, profile)'
<1>1. "profile" \in Stores
  BY DEF Stores
<1>2. /\ rev.profile \in Nat /\ rev'.profile \in Nat /\ rev.profile <= rev'.profile
      /\ rev'.profile = rev.profile => db'.profile = db.profile
  BY <1>1 DEF DbFits, Grows
<1> QED
  BY <1>2 DEF Current

LEMMA CallFacts ==
    ASSUME HeldInv, NEW i \in DOMAIN calls
    PROVE  /\ Placed(i) /\ Dated(i) /\ IsCall(calls[i])
           /\ i \in Nat /\ presses \in Nat
           /\ calls[i].what # "load" => StoreOf(i) \in Stores
           /\ calls[i].what = "load" => calls[i].at \in Reading
           /\ calls[i].what = "logout" => calls[i].at \notin Reading
BY StoreOfWrite, Stages, UiAssumption
   DEF HeldInv, IInv, CallsFit, CallsHold, Numbers, Calls, Second

LEMMA AlikeGoes ==
    ASSUME HeldInv, OnPage, NEW i \in DOMAIN calls, Alike(calls[i], calls'[i])
    PROVE  Goes(i)
<1>1. Placed(i) /\ Dated(i) /\ presses \in Nat
  BY CallFacts
<1>2. StoreOf(i)' = StoreOf(i)
  BY SameStore DEF OnPage, Alike
<1>3. Placed(i)'
  BY <1>1, <1>2 DEF Placed, Alike, OnPage, Loads, Second
<1>4. calls[i].rev > 0 => rev[StoreOf(i)] \in Nat /\ rev'[StoreOf(i)] \in Nat
                         /\ rev[StoreOf(i)] <= rev'[StoreOf(i)]
  BY <1>1, CallFacts DEF Dated, HeldInv, DbFits, OnPage, Grows
<1>5. Dated(i)'
  BY <1>1, <1>2, <1>4 DEF Dated, Alike
<1>6. ASSUME KeptInv PROVE Kept(i)'
  <2>1. Kept(i)
    BY <1>6 DEF KeptInv, CallsKept
  <2>2. DbFits /\ Grows
    BY DEF HeldInv, OnPage
  <2>3. CASE calls[i].what = "profile" /\ calls[i].at \in Unread
    <3>1. Current(calls[i].data.of, calls[i].data.body) /\ calls[i].data.of \in Nat
      BY <1>1, <2>1, <2>3 DEF Kept, Dated, DataFits, Unread
    <3>2. Current(calls[i].data.of, calls[i].data.body)'
      BY <2>2, <3>1, StaysCurrent DEF Current, Alike
    <3> QED
      BY <2>1, <2>3, <3>2 DEF Kept, Alike, Unread
  <2>4. CASE calls[i].at = "loaded" /\ StoreOf(i) = "profile"
    <3>1. Current(calls[i].gotRev, calls[i].got) /\ calls[i].gotRev \in Nat
      BY <1>1, <2>1, <2>4 DEF Kept, Dated
    <3>2. Current(calls[i].gotRev, calls[i].got)'
      BY <2>2, <3>1, StaysCurrent DEF Current, Alike
    <3> QED
      BY <1>2, <2>4, <3>2 DEF Kept, Alike, Unread
  <2>5. CASE /\ ~(calls[i].what = "profile" /\ calls[i].at \in Unread)
             /\ ~(calls[i].at = "loaded" /\ StoreOf(i) = "profile")
    BY <1>2, <2>5 DEF Kept, Alike
  <2> QED
    BY <2>3, <2>4, <2>5
<1> QED
  BY <1>3, <1>5, <1>6 DEF Goes

LEMMA RetainsGoes ==
    ASSUME HeldInv, OnPage, NEW S, Retains(S), \A j \in S : j \in DOMAIN calls' => Goes(j)
    PROVE  CallsGo
<1>1. \A j \in DOMAIN calls' : Goes(j)
  BY AlikeGoes DEF Retains
<1> QED
  BY <1>1 DEF CallsGo, CallsHold, CallsKept, Goes

LEMMA OneGoes ==
    ASSUME HeldInv, OnPage, NEW i \in DOMAIN calls, NEW d, calls' = [calls EXCEPT ![i] = d],
           calls'[i] = d => Goes(i)
    PROVE  CallsGo
<1>1. \A j \in DOMAIN calls : Fields \subseteq DOMAIN calls[j]
  BY CallFacts DEF Placed
<1>2. Retains({i})
  BY <1>1 DEF Retains, Alike
<1> QED
  BY <1>2, RetainsGoes

LEMMA OverGoes ==
    ASSUME HeldInv, OnPage, NEW i, calls' = Restrict(calls, DOMAIN calls \ {i})
    PROVE  CallsGo
<1>1. \A j \in DOMAIN calls : Fields \subseteq DOMAIN calls[j]
  BY CallFacts DEF Placed
<1>2. Retains({})
  BY <1>1 DEF Retains, Alike, Restrict
<1> QED
  BY <1>2, RetainsGoes

LEMMA NoneGoes ==
    ASSUME HeldInv, OnPage, calls' = calls
    PROVE  CallsGo
<1>1. \A j \in DOMAIN calls : Fields \subseteq DOMAIN calls[j]
  BY CallFacts DEF Placed
<1>2. Retains({})
  BY <1>1 DEF Retains, Alike
<1> QED
  BY <1>2, RetainsGoes

-----------------------------------------------------------------------------
(* The network and the backend.                                             *)

LEMMA Stands ==
    ASSUME HeldInv, UNCHANGED <<page, presses, db, rev>>
    PROVE  OnPage
<1>1. presses \in Nat
  BY DEF HeldInv, IInv, Numbers
<1> QED
  BY <1>1, Unwritten DEF OnPage, HeldInv

LEMMA OwnTokenGoes ==
    ASSUME HeldInv, NEW i \in DOMAIN calls, OwnToken(i)
    PROVE  CallsGo
<1> DEFINE d == [calls[i] EXCEPT !.at = "sent", !.token = TRUE]
<1>1. /\ calls' = [calls EXCEPT ![i] = d] /\ calls[i].at = "csrf"
      /\ UNCHANGED <<page, presses, db, rev>>
  BY DEF OwnToken
<1>2. Placed(i) /\ Dated(i)
  BY CallFacts
<1>3. /\ Fields \subseteq DOMAIN d
      /\ d.what = calls[i].what /\ d.row = calls[i].row /\ d.at = "sent"
      /\ d.data = calls[i].data /\ d.gone = calls[i].gone
      /\ d.rev = calls[i].rev /\ d.got = calls[i].got /\ d.gotRev = calls[i].gotRev
  BY <1>2 DEF Placed, Fields
<1> HIDE DEF d
<1>4. ASSUME calls'[i] = d PROVE Goes(i)
  <2>1. StoreOf(i)' = StoreOf(i)
    BY <1>1, <1>3, <1>4, SameStore
  <2>2. Placed(i)'
    BY <1>1, <1>2, <1>3, <1>4, <2>1 DEF Placed, Loads, Second, Unread, Reading
  <2>3. Dated(i)'
    BY <1>1, <1>2, <1>3, <1>4, <2>1 DEF Dated, Unread
  <2>4. KeptInv => Kept(i)'
    BY <1>1, <1>3, <1>4 DEF KeptInv, CallsKept, Kept, Current, Unread
  <2> QED
    BY <2>2, <2>3, <2>4 DEF Goes
<1> QED
  BY <1>1, <1>4, Stands, OneGoes

LEMMA FetchGoes ==
    ASSUME HeldInv, NEW i \in DOMAIN calls, Fetch(i)
    PROVE  CallsGo
<1> DEFINE store == StoreOf(i)
           g == db[store]
           r == rev[store]
           d == [calls[i] EXCEPT !.at = "loaded", !.got = g, !.gotRev = r]
<1>1. /\ calls' = [calls EXCEPT ![i] = d] /\ calls[i].at = "loading"
      /\ UNCHANGED <<page, presses, db, rev>>
  BY DEF Fetch
<1>2. Placed(i) /\ Dated(i)
  BY CallFacts
<1>3. /\ store \in Stores
      /\ g \in Content(store) /\ r \in Nat /\ calls[i].rev <= r
  <2>1. CASE calls[i].what = "load"
    <3>1. page \in Stores /\ Second # 0 /\ calls[i].rev = 0
      BY <1>2, <2>1, UiAssumption
         DEF Placed, Dated, Loads, Stores, Second, HeldInv, PageFits, ListFits, FormFits, Pages, AdminPages
    <3>2. store \in Stores
      BY <2>1, <3>1 DEF StoreOf, Stores
    <3> QED
      BY <3>1, <3>2 DEF HeldInv, DbFits
  <2>2. CASE calls[i].what # "load"
    <3>1. store \in Stores
      BY <2>2, StoreOfWrite
    <3>2. r \in Nat /\ g \in Content(store)
      BY <3>1 DEF HeldInv, DbFits
    <3> QED
      BY <1>2, <3>1, <3>2 DEF Dated
  <2> QED
    BY <2>1, <2>2
<1> HIDE DEF g, r, store
<1>4. /\ Fields \subseteq DOMAIN d
      /\ d.what = calls[i].what /\ d.row = calls[i].row /\ d.at = "loaded"
      /\ d.data = calls[i].data /\ d.gone = calls[i].gone
      /\ d.rev = calls[i].rev /\ d.got = g /\ d.gotRev = r
  BY <1>2 DEF Placed, Fields
<1> HIDE DEF d
<1>5. ASSUME calls'[i] = d PROVE Goes(i)
  <2>1. StoreOf(i)' = store
    BY <1>1, <1>4, <1>5, SameStore DEF store
  <2>2. Placed(i)'
    BY <1>1, <1>2, <1>4, <1>5, <2>1 DEF Placed, Loads, Second, Unread, Reading, store
  <2>3. Dated(i)'
    BY <1>1, <1>2, <1>3, <1>4, <1>5, <2>1 DEF Dated, Unread, store
  <2>4. Kept(i)'
    <3>1. store = "profile" => r <= rev'.profile /\ g = db'.profile
      BY <1>1, <1>3 DEF g, r
    <3> QED
      BY <1>4, <1>5, <2>1, <3>1 DEF Kept, Unread, Current
  <2> QED
    BY <2>2, <2>3, <2>4 DEF Goes
<1> QED
  BY <1>1, <1>5, Stands, OneGoes

LEMMA FetchPartGoes ==
    ASSUME HeldInv, NEW i \in DOMAIN calls, NEW kind, FetchPart(i, kind)
    PROVE  CallsGo
<1> DEFINE part == Only(db.skills, {n \in DOMAIN db.skills : db.skills[n].kind = kind})
           whole == IF kind = "category" THEN part \o calls[i].got ELSE calls[i].got \o part
           r == rev.skills
           d == [calls[i] EXCEPT !.at = "half", !.data = kind, !.got = part, !.gotRev = r]
           e == [calls[i] EXCEPT !.at = "loaded", !.got = whole]
<1>1. /\ \/ calls[i].at = "loading" /\ calls' = [calls EXCEPT ![i] = d]
         \/ calls[i].at = "half" /\ calls' = [calls EXCEPT ![i] = e]
      /\ page = "skills"
      /\ UNCHANGED <<page, presses, db, rev>>
  BY DEF FetchPart
<1>2. Placed(i) /\ Dated(i)
  BY CallFacts
<1>3. /\ part \in Seq(Row) /\ r \in Nat
      /\ StoreOf(i) = "skills" => calls[i].rev <= r
  <2>1. "skills" \in Stores /\ Content("skills") = Seq(Row)
    BY DEF Stores, Content, Lists
  <2>2. db.skills \in Seq(Row) /\ r \in Nat
    BY <2>1 DEF HeldInv, DbFits
  <2>3. part \in Seq(Row)
    BY <2>2, OnlyIsAList
  <2> QED
    BY <1>2, <2>2, <2>3 DEF Dated
<1> HIDE DEF part, r
<1>4. calls[i].at = "half" => whole \in Seq(Row)
  BY <1>2, <1>3 DEF Dated
<1> HIDE DEF whole
<1>5. calls[i].at \in Reading => StoreOf(i) = "skills"
  BY <1>1, <1>2, UiAssumption DEF Placed, Loads, StoreOf, Second
<1>6. /\ Fields \subseteq DOMAIN d
      /\ d.what = calls[i].what /\ d.row = calls[i].row /\ d.at = "half" /\ d.gone = calls[i].gone
      /\ d.rev = calls[i].rev /\ d.got = part /\ d.gotRev = r
  BY <1>2 DEF Placed, Fields
<1>7. /\ Fields \subseteq DOMAIN e
      /\ e.what = calls[i].what /\ e.row = calls[i].row /\ e.at = "loaded" /\ e.gone = calls[i].gone
      /\ e.rev = calls[i].rev /\ e.got = whole /\ e.gotRev = calls[i].gotRev
  BY <1>2 DEF Placed, Fields
<1> HIDE DEF d, e
<1>8. ASSUME calls[i].at = "loading", calls'[i] = d PROVE Goes(i)
  <2>1. StoreOf(i)' = "skills"
    BY <1>1, <1>5, <1>6, <1>8, SameStore DEF Reading
  <2>2. Placed(i)'
    BY <1>1, <1>2, <1>6, <1>8, <2>1 DEF Placed, Loads, Second, Unread, Reading
  <2>3. Dated(i)'
    BY <1>1, <1>2, <1>3, <1>5, <1>6, <1>8, <2>1 DEF Dated, Unread, Reading
  <2>4. Kept(i)'
    BY <1>6, <1>8, <2>1 DEF Kept, Unread
  <2> QED
    BY <2>2, <2>3, <2>4 DEF Goes
<1>9. ASSUME calls[i].at = "half", calls'[i] = e PROVE Goes(i)
  <2>1. StoreOf(i)' = "skills"
    BY <1>1, <1>5, <1>7, <1>9, SameStore DEF Reading
  <2>2. Placed(i)'
    BY <1>1, <1>2, <1>7, <1>9, <2>1 DEF Placed, Loads, Second, Unread, Reading
  <2>3. whole \in Content("skills")
    BY <1>4, <1>9 DEF Content, Lists
  <2>4. Dated(i)'
    BY <1>1, <1>2, <1>5, <1>7, <1>9, <2>1, <2>3 DEF Dated, Unread, Reading
  <2>5. Kept(i)'
    BY <1>7, <1>9, <2>1 DEF Kept, Unread
  <2> QED
    BY <2>2, <2>4, <2>5 DEF Goes
<1> QED
  BY <1>1, <1>8, <1>9, Stands, OneGoes

LEMMA NetworkGoes ==
    ASSUME HeldInv, NEW i \in DOMAIN calls, Network(i)
    PROVE  CallsGo
<1>1. CASE Dropped(i)
  BY <1>1, Stands, OverGoes DEF Dropped
<1> QED
  BY <1>1, OwnTokenGoes, FetchGoes, FetchPartGoes DEF Network

LEMMA BackendGoes ==
    ASSUME HeldInv, NEW i \in DOMAIN calls, Backend(i)
    PROVE  CallsGo
<1> DEFINE store == StoreOf(i)
           r == rev[store] + 1
<1>1. PICK value \in Content(store) : \E got : Accepted(i, store, value, got)
  BY BackendWrites
<1>2. PICK got : Accepted(i, store, value, got)
  BY <1>1
<1> DEFINE d == [calls[i] EXCEPT !.at = "done", !.rev = r, !.got = got]
<1>3. /\ \/ calls' = Restrict(calls, DOMAIN calls \ {i})
         \/ ~calls[i].gone /\ calls' = [calls EXCEPT ![i] = d]
      /\ UNCHANGED <<page, presses>>
      /\ rev' = [rev EXCEPT ![store] = @ + 1]
  BY <1>2 DEF Accepted
<1>4. calls[i].at = "sent" /\ calls[i].what # "load" /\ store \in Stores
  BY BackendWrites, StoreOfWrite
<1>5. Placed(i) /\ Dated(i)
  BY CallFacts
<1>6. OnPage
  BY <1>3, BackendGrows, CallFacts DEF OnPage
<1>7. r \in Nat /\ r > 0 /\ rev'[store] = r
  BY <1>3, <1>4 DEF HeldInv, DbFits
<1> HIDE DEF r, store
<1>8. /\ Fields \subseteq DOMAIN d
      /\ d.what = calls[i].what /\ d.row = calls[i].row /\ d.at = "done" /\ d.gone = calls[i].gone
      /\ d.rev = r /\ d.gotRev = calls[i].gotRev
  BY <1>5 DEF Placed, Fields
<1> HIDE DEF d
<1>9. ASSUME ~calls[i].gone, calls'[i] = d PROVE Goes(i)
  <2>1. StoreOf(i)' = store
    BY <1>3, <1>8, <1>9, SameStore DEF store
  <2>2. Placed(i)'
    BY <1>3, <1>4, <1>5, <1>8, <1>9, <2>1 DEF Placed, Unread, Reading
  <2>3. Dated(i)'
    BY <1>4, <1>5, <1>7, <1>8, <1>9, <2>1 DEF Dated, Unread
  <2>4. Kept(i)'
    BY <1>8, <1>9 DEF Kept, Unread
  <2> QED
    BY <2>2, <2>3, <2>4 DEF Goes
<1> QED
  BY <1>3, <1>6, <1>9, OverGoes, OneGoes

-----------------------------------------------------------------------------
(* Presses.                                                                 *)

\* What a press may send.
Sends(what, row, at, data) ==
    /\ what # "load" /\ row \in Row /\ at \in Unread
    /\ DataFits(what, data)
    /\ page \in Home(what)
    /\ KeptInv /\ what = "profile" =>
        /\ Lined(data.body)
        /\ Current(data.of, data.body)

LEMMA SendsGoes ==
    ASSUME HeldInv, NEW what, NEW row, NEW at, NEW data, Sends(what, row, at, data),
           calls' = Put(calls, presses + 1, Call(what, row, at, data)),
           presses' = presses + 1, UNCHANGED <<page, db, rev>>
    PROVE  CallsGo
<1> DEFINE c == Call(what, row, at, data)
<1>1. /\ Fields \subseteq DOMAIN c
      /\ c.what = what /\ c.row = row /\ c.at = at /\ c.data = data
      /\ c.gone = FALSE /\ c.rev = 0 /\ c.gotRev = 0
  BY DEF Call, Fields
<1>2. PICK n \in Nat : n = presses + 1
  BY DEF HeldInv, IInv, Numbers
<1> HIDE DEF c
<1>3. presses \in Nat /\ n \in 1 .. n /\ presses' = n /\ OnPage
  <2>1. presses \in Nat
    BY DEF HeldInv, IInv, Numbers
  <2> QED
    BY <1>2, <2>1, Unwritten DEF OnPage, HeldInv
<1>4. /\ DOMAIN calls' = DOMAIN calls \cup {n}
      /\ calls'[n] = c
      /\ \A j \in DOMAIN calls \ {n} : calls'[j] = calls[j]
  BY <1>2 DEF Put, c
<1>5. Retains({n})
  <2>1. \A j \in DOMAIN calls : Fields \subseteq DOMAIN calls[j]
    BY CallFacts DEF Placed
  <2> QED
    BY <1>4, <2>1 DEF Retains, Alike
<1>6. Placed(n)'
  BY <1>1, <1>3, <1>4 DEF Placed, Sends, Unread, Reading
<1>7. Dated(n)'
  <2>1. at \notin {"half", "loaded"} /\ DataFits(what, data)
    BY DEF Sends, Unread
  <2> QED
    BY <1>1, <1>4, <2>1 DEF Dated
<1>8. KeptInv => Kept(n)'
  BY <1>1, <1>4 DEF Kept, Sends, Unread, Current
<1> QED
  BY <1>3, <1>5, <1>6, <1>7, <1>8, RetainsGoes DEF Goes

\* A button of a page runs what belongs there.
Runs ==
    \E what, row, at, data :
        /\ what # "logout" /\ Sends(what, row, at, data) /\ Run(what, row, at, data)

LEMMA RunsGo ==
    ASSUME HeldInv, Runs
    PROVE  CallsGo
BY SendsGoes DEF Runs, Run, Count

LEMMA LogoutGoes ==
    ASSUME HeldInv, Logout
    PROVE  CallsGo
<1>1. Page \in Row
  BY RowsHaveFields DEF Page, Kinds
<1>2. Sends("logout", Page, "csrf", "authentik")
  BY <1>1 DEF Logout, Sends, Unread, DataFits, Home
<1> QED
  BY <1>2, SendsGoes DEF Logout, Count

\* Of the writes with data there are three.
LEMMA PlainData ==
    ASSUME NEW what, what \notin {"saveTechnology", "crop", "profile"}, NEW data
    PROVE  DataFits(what, data)
BY DEF DataFits

LEMMA RowRuns ==
    ASSUME HeldInv, NEW row \in Row, PressRow(row)
    PROVE  Runs
<1> USE DEF Sends, Unread
<1>1. CASE SaveExpiry(row)
  BY <1>1, PlainData DEF SaveExpiry, Runs, Home
<1>2. CASE Revoke(row)
  BY <1>2, PlainData DEF Revoke, Confirm, Runs, Home
<1>3. ASSUME NEW cat \in {0} \cup {r.id : r \in Range(shown)}, SaveTechnology(row, cat) PROVE Runs
  <2>1. \A r \in Range(shown) : r.id \in Nat
    BY DEF HeldInv, PageFits, ListFits, FormFits, Row
  <2>2. cat \in Nat
    BY <1>3, <2>1
  <2> QED
    BY <1>3, <2>2 DEF SaveTechnology, Runs, Home, DataFits
<1>4. CASE DeleteTechnology(row)
  BY <1>4, PlainData DEF DeleteTechnology, Confirm, Runs, Home
<1>5. CASE AddTechnology(row)
  BY <1>5, PlainData DEF AddTechnology, Runs, Home
<1>6. CASE Rename(row)
  BY <1>6, PlainData DEF Rename, Runs, Home
<1>7. CASE DeleteCategory(row)
  BY <1>7, PlainData DEF DeleteCategory, Confirm, Runs, Home
<1>8. CASE SaveEntry(row)
  <2>1. R(row.id, "form", 0) \in Row
    BY RowsHaveFields DEF Row, Kinds
  <2> QED
    BY <1>8, <2>1, PlainData DEF SaveEntry, Runs, Home
<1> QED
  BY <1>1, <1>2, <1>3, <1>4, <1>5, <1>6, <1>7, <1>8 DEF PressRow

LEMMA ListRuns ==
    ASSUME HeldInv, ListControls
    PROVE  Runs \/ \E row : Toggle(row)
<1> USE DEF Sends, Unread
<1>1. Page \in Row
  BY RowsHaveFields DEF Page, Kinds
<1>2. CASE Create
  BY <1>1, <1>2, PlainData DEF Create, Runs, Home
<1>3. CASE AddCategory
  BY <1>1, <1>3, PlainData DEF AddCategory, Runs, Home
<1>4. CASE Sync
  BY <1>1, <1>4, PlainData DEF Sync, Runs, Home
<1>5. ASSUME NEW row \in RowsOn(shown) \cup {Page}, PressRow(row) PROVE Runs
  <2>1. row \in Row
    BY <1>1 DEF HeldInv, PageFits, ListFits, RowsOn
  <2> QED
    BY <1>5, <2>1, RowRuns
<1> QED
  BY <1>2, <1>3, <1>4, <1>5 DEF ListControls

\* What the form sends is a profile, and what it makes of one is that profile.
LEMMA BodyIsAProfile ==
    ASSUME NEW f \in Form
    PROVE  ToBody(f) \in Profile /\ Lined(ToBody(f))
<1> DEFINE a == [street |-> f.street, city |-> f.city]
           blank == [street |-> "", city |-> ""]
<1>1. f.link \in Texts /\ f.street \in Texts /\ f.city \in Texts
  BY DEF Form
<1>2. a \in [street : Texts, city : Texts]
  BY <1>1
<1>3. a = blank => f.street = "" /\ f.city = ""
  <2>1. a.street = f.street /\ a.city = f.city /\ blank.street = "" /\ blank.city = ""
    OBVIOUS
  <2> QED
    BY <2>1
<1> DEFINE l == IF f.link = "" THEN None ELSE f.link
           lines == IF f.street = "" /\ f.city = "" THEN None ELSE a
<1>4. ToBody(f) = [link |-> l, address |-> lines]
  BY DEF ToBody
<1>5. l \in {None, "x"} /\ lines \in {None} \cup [street : Texts, city : Texts]
  BY <1>1, <1>2 DEF Texts
<1>6. lines = blank => lines = None
  BY <1>3
<1> HIDE DEF l, lines, blank
<1>7. [link |-> l, address |-> lines].address = lines
  OBVIOUS
<1>8. ToBody(f) \in Profile
  BY <1>4, <1>5 DEF Profile
<1>9. Lined(ToBody(f))
  BY <1>4, <1>6, <1>7 DEF Lined, blank
<1> QED
  BY <1>8, <1>9

LEMMA FormIsInverse ==
    ASSUME NEW p \in Profile, Lined(p)
    PROVE  FromResponse(p) \in Form /\ ToBody(FromResponse(p)) = p
BY DEF ToBody, FromResponse, Form, Profile, Texts, Lined

LEMMA FormRuns ==
    ASSUME HeldInv, FormControls
    PROVE  Runs \/ Logout \/ Adjust \/ \E f \in Drafts : Edit(f)
<1> USE DEF Sends, Unread
<1>1. Page \in Row
  BY RowsHaveFields DEF Page, Kinds
<1>2. CASE SaveProfile
  <2> DEFINE data == [body |-> ToBody(form), of |-> formRev]
  <2>1. data.body = ToBody(form) /\ data.of = formRev
    OBVIOUS
  <2>2. page = "profile" /\ Run("profile", Page, "sent", data)
    BY <1>2 DEF SaveProfile
  <2> HIDE DEF data
  <2>3. DataFits("profile", data)
    BY <2>1, BodyIsAProfile DEF DataFits, HeldInv, PageFits, ListFits, FormFits
  <2>4. KeptInv => /\ Lined(data.body)
                   /\ Current(data.of, data.body)
    BY <2>1, BodyIsAProfile DEF KeptInv, HeldInv, PageFits, ListFits, FormFits
  <2> QED
    BY <1>1, <2>2, <2>3, <2>4 DEF Runs, Home
<1>3. CASE SaveCrop
  <2>1. crop \in Crop
    BY <1>3 DEF SaveCrop, HeldInv, PageFits, ListFits, FormFits
  <2> QED
    BY <1>1, <1>3, <2>1 DEF SaveCrop, Runs, Home, DataFits
<1>4. CASE UploadPortrait
  BY <1>1, <1>4, PlainData DEF UploadPortrait, Runs, Home
<1>5. CASE UploadCv
  BY <1>1, <1>5, PlainData DEF UploadCv, Runs, Home
<1>6. CASE StartSetup
  BY <1>1, <1>6, PlainData DEF StartSetup, Runs, Home
<1>7. CASE ConfirmCode
  BY <1>1, <1>7, PlainData DEF ConfirmCode, Runs, Home
<1>8. CASE SignIn
  BY <1>1, <1>8, PlainData DEF SignIn, Runs, Home
<1> QED
  BY <1>2, <1>3, <1>4, <1>5, <1>6, <1>7, <1>8 DEF FormControls

-----------------------------------------------------------------------------
(* Pages that are left, and what the client does.                           *)

LEMMA MountGoes ==
    ASSUME HeldInv, NEW p \in Pages, Mount(p), UNCHANGED <<db, rev>>, presses' \in Nat,
           presses <= presses'
    PROVE  CallsGo
<1> DEFINE stays == {j \in DOMAIN calls : calls[j].what = "logout" /\ p \in AdminPages}
           left  == {j \in DOMAIN calls : calls[j].at \in {"csrf", "sent"}} \ stays
           load  == [Call("load", Page, "loading", 0) EXCEPT !.token = FALSE]
           gone(j) == [calls[j] EXCEPT !.gone = TRUE]
<1>1. /\ page' = p
      /\ calls' = [j \in stays \cup left \cup Loads(p) |->
                        IF j \in stays THEN calls[j]
                        ELSE IF j \in left THEN gone(j) ELSE load]
  BY DEF Mount, Mounted
<1>2. /\ Fields \subseteq DOMAIN load
      /\ load.what = "load" /\ load.row = Page /\ load.at = "loading" /\ load.gone = FALSE
      /\ load.rev = 0 /\ load.gotRev = 0
  BY DEF Call, Fields
<1>3. ASSUME NEW j \in left
      PROVE  /\ Fields \subseteq DOMAIN gone(j) /\ gone(j).gone = TRUE
             /\ gone(j).what = calls[j].what /\ gone(j).row = calls[j].row
             /\ gone(j).at = calls[j].at /\ gone(j).data = calls[j].data
             /\ gone(j).rev = calls[j].rev /\ gone(j).gotRev = calls[j].gotRev
  BY CallFacts DEF Placed, Fields
<1>4. Page \in Row
  BY RowsHaveFields DEF Page, Kinds
<1> HIDE DEF load, gone
<1>5. ASSUME NEW j \in stays, calls'[j] = calls[j] PROVE Goes(j)
  <2>1. /\ Placed(j) /\ Dated(j) /\ calls[j].what = "logout" /\ calls[j].at \notin Reading
        /\ p \in AdminPages /\ presses \in Nat
    BY CallFacts
  <2>2. StoreOf(j)' = StoreOf(j)
    BY <1>5, <2>1, SameStore
  <2>3. Placed(j)'
    <3>1. Home("logout") = AdminPages
      BY DEF Home
    <3>2. j \in 1 .. presses /\ j \in 1 .. presses'
      BY <2>1 DEF Placed
    <3> QED
      BY <1>1, <1>5, <2>1, <3>1, <3>2 DEF Placed
  <2>4. Dated(j)'
    BY <1>5, <2>1, <2>2 DEF Dated, Reading
  <2>5. Kept(j)'
    BY <1>5, <2>1 DEF Kept, Reading
  <2> QED
    BY <2>3, <2>4, <2>5 DEF Goes
<1>6. ASSUME NEW j \in left, calls'[j] = gone(j) PROVE Goes(j)
  <2>1. /\ Placed(j) /\ Dated(j) /\ calls[j].at \in Unread /\ presses \in Nat
        /\ calls[j].what # "load"
    BY CallFacts DEF Unread, Reading
  <2>2. StoreOf(j)' = StoreOf(j)
    BY <1>3, <1>6, <2>1, SameStore
  <2>3. Placed(j)'
    <3>1. j \in 1 .. presses /\ j \in 1 .. presses' /\ calls[j].row \in Row
      BY <2>1 DEF Placed
    <3>2. calls[j].at \in {"csrf", "sent", "done", "loading", "half", "loaded"} \ Reading
      BY <2>1 DEF Unread, Reading
    <3>3. /\ Fields \subseteq DOMAIN calls'[j] /\ calls'[j].gone = TRUE
          /\ calls'[j].what = calls[j].what /\ calls'[j].row = calls[j].row
          /\ calls'[j].at = calls[j].at
      BY <1>3, <1>6
    <3> HIDE DEF stays, left
    <3> QED
      BY <2>1, <3>1, <3>2, <3>3 DEF Placed
  <2>4. Dated(j)'
    BY <1>3, <1>6, <2>1, <2>2 DEF Dated, Unread
  <2>5. ASSUME Kept(j) PROVE Kept(j)'
    BY <1>3, <1>6, <2>1, <2>5 DEF Kept, Current, Unread
  <2> QED
    BY <2>3, <2>4, <2>5 DEF Goes, KeptInv, CallsKept
<1>7. ASSUME NEW j \in Loads(p), calls'[j] = load PROVE Goes(j)
  <2>1. Placed(j)'
    BY <1>1, <1>2, <1>4, <1>7 DEF Placed, Home, Reading
  <2>2. Dated(j)'
    BY <1>2, <1>7 DEF Dated, Unread
  <2>3. Kept(j)'
    BY <1>2, <1>7 DEF Kept, Unread
  <2> QED
    BY <2>1, <2>2, <2>3 DEF Goes
<1>8. \A j \in DOMAIN calls' : Goes(j)
  <2> HIDE DEF stays, left
  <2> QED
    BY <1>1, <1>5, <1>6, <1>7
<1> QED
  BY <1>8 DEF CallsGo, CallsHold, CallsKept, Goes

LEMMA RenderedGoes ==
    ASSUME HeldInv, NEW i, NEW list, NEW open, NEW s, Rendered(list, open, i, s),
           UNCHANGED <<page, presses, db, rev>>
    PROVE  CallsGo
<1> DEFINE d(j) == [calls[j] EXCEPT !.there = @ /\ Hosted(calls[j].row, list, open)]
<1>1. calls' = [j \in DOMAIN calls \ {i} |-> d(j)]
  BY DEF Rendered
<1>2. ASSUME NEW j \in DOMAIN calls
      PROVE  Alike(calls[j], d(j))
  <2>1. Fields \subseteq DOMAIN calls[j]
    BY CallFacts DEF Placed
  <2> DEFINE h == calls[j].there /\ Hosted(calls[j].row, list, open)
             e == [calls[j] EXCEPT !.there = h]
  <2>2. d(j) = e
    OBVIOUS
  <2> HIDE DEF h
  <2>3. Alike(calls[j], e)
    BY <2>1 DEF Alike, Fields
  <2> QED
    BY <2>2, <2>3
<1> HIDE DEF d
<1>3. Retains({})
  BY <1>1, <1>2 DEF Retains
<1> QED
  BY <1>3, Stands, RetainsGoes

LEMMA AnsweredListGoes ==
    ASSUME HeldInv, NEW i \in DOMAIN calls, ~calls[i].gone, AnsweredList(i)
    PROVE  CallsGo
<1> DEFINE o == (calls[i].at = "done")
           d == [calls[i] EXCEPT !.at = "loading", !.ok = o]
<1>1. /\ calls' = [calls EXCEPT ![i] = d]
      /\ calls[i].at = "done" \/ (calls[i].at = "sent" /\ calls[i].what = "sync")
      /\ page \in Lists /\ calls[i].what # "logout"
      /\ UNCHANGED <<page, presses, db, rev>>
  BY DEF AnsweredList
<1>2. Placed(i) /\ Dated(i) /\ calls[i].what # "load"
  BY <1>1, CallFacts DEF Reading
<1> HIDE DEF o
<1>3. /\ Fields \subseteq DOMAIN d
      /\ d.what = calls[i].what /\ d.row = calls[i].row /\ d.at = "loading"
      /\ d.gone = calls[i].gone /\ d.rev = calls[i].rev /\ d.gotRev = calls[i].gotRev
  BY <1>2 DEF Placed, Fields
<1> HIDE DEF d
<1>4. StoreOf(i) = page
  <2>1. page \in Home(calls[i].what)
    BY <1>2 DEF Placed
  <2> QED
    BY <1>1, <1>2, <2>1 DEF StoreOf, Home, Lists
<1>5. ASSUME calls'[i] = d PROVE Goes(i)
  <2>1. StoreOf(i)' = page
    BY <1>1, <1>3, <1>4, <1>5, SameStore
  <2>2. Placed(i)'
    BY <1>1, <1>2, <1>3, <1>5, <2>1 DEF Placed, Reading
  <2>3. Dated(i)'
    BY <1>1, <1>2, <1>3, <1>4, <1>5, <2>1 DEF Dated, Unread
  <2>4. Kept(i)'
    BY <1>3, <1>5 DEF Kept, Unread
  <2> QED
    BY <2>2, <2>3, <2>4 DEF Goes
<1> QED
  BY <1>1, <1>5, Stands, OneGoes

LEMMA AnsweredCvGoes ==
    ASSUME HeldInv, NEW i \in DOMAIN calls, ~calls[i].gone, AnsweredCv(i)
    PROVE  CallsGo
<1> DEFINE d == [calls[i] EXCEPT !.at = "loading"]
<1>1. /\ calls' = [calls EXCEPT ![i] = d]
      /\ calls[i].at = "done" /\ calls[i].what = "uploadCv"
      /\ UNCHANGED <<page, presses, db, rev>>
  BY DEF AnsweredCv
<1>2. Placed(i) /\ Dated(i)
  BY CallFacts
<1>3. /\ Fields \subseteq DOMAIN d
      /\ d.what = calls[i].what /\ d.row = calls[i].row /\ d.at = "loading"
      /\ d.gone = calls[i].gone /\ d.rev = calls[i].rev /\ d.gotRev = calls[i].gotRev
  BY <1>2 DEF Placed, Fields
<1> HIDE DEF d
<1>4. StoreOf(i) = page
  BY <1>1, <1>2 DEF Placed, StoreOf, Home
<1>5. ASSUME calls'[i] = d PROVE Goes(i)
  <2>1. StoreOf(i)' = page
    BY <1>1, <1>3, <1>4, <1>5, SameStore
  <2>2. Placed(i)'
    BY <1>1, <1>2, <1>3, <1>5, <2>1 DEF Placed, Reading
  <2>3. Dated(i)'
    BY <1>1, <1>2, <1>3, <1>4, <1>5, <2>1 DEF Dated, Unread
  <2>4. Kept(i)'
    BY <1>3, <1>5 DEF Kept, Unread
  <2> QED
    BY <2>2, <2>3, <2>4 DEF Goes
<1> QED
  BY <1>1, <1>5, Stands, OneGoes

LEMMA LogoutHereGoes ==
    ASSUME HeldInv, NEW i \in DOMAIN calls, LogoutHere(i)
    PROVE  CallsGo
<1> DEFINE d == [calls[i] EXCEPT !.at = "sent", !.data = "password"]
<1>1. /\ calls' = [calls EXCEPT ![i] = d]
      /\ calls[i].at \in Unread /\ calls[i].what = "logout"
      /\ UNCHANGED <<page, presses, db, rev>>
  BY DEF LogoutHere, Unread
<1>2. Placed(i) /\ Dated(i)
  BY CallFacts
<1>3. /\ Fields \subseteq DOMAIN d
      /\ d.what = calls[i].what /\ d.row = calls[i].row /\ d.at = "sent" /\ d.data = "password"
      /\ d.gone = calls[i].gone /\ d.rev = calls[i].rev /\ d.gotRev = calls[i].gotRev
  BY <1>2 DEF Placed, Fields
<1> HIDE DEF d
<1>4. ASSUME calls'[i] = d PROVE Goes(i)
  <2>1. Placed(i)'
    BY <1>1, <1>2, <1>3, <1>4 DEF Placed, Reading, Unread
  <2>2. Dated(i)'
    BY <1>1, <1>2, <1>3, <1>4 DEF Dated, Unread, DataFits
  <2>3. Kept(i)'
    BY <1>1, <1>3, <1>4 DEF Kept
  <2> QED
    BY <2>1, <2>2, <2>3 DEF Goes
<1> QED
  BY <1>1, <1>4, Stands, OneGoes

LEMMA AnsweredLoginGoes ==
    ASSUME HeldInv, NEW i \in DOMAIN calls, AnsweredLogin(i)
    PROVE  CallsGo
<1> DEFINE d == [calls[i] EXCEPT !.at = "released", !.there = FALSE]
<1>1. /\ calls' = [calls EXCEPT ![i] = d]
      /\ calls[i].at = "done" /\ calls[i].what = "login"
      /\ UNCHANGED <<page, presses, db, rev>>
  BY DEF AnsweredLogin
<1>2. Placed(i) /\ Dated(i)
  BY CallFacts
<1>3. /\ Fields \subseteq DOMAIN d
      /\ d.what = calls[i].what /\ d.row = calls[i].row /\ d.at = "released"
      /\ d.gone = calls[i].gone /\ d.rev = calls[i].rev /\ d.gotRev = calls[i].gotRev
  BY <1>2 DEF Placed, Fields
<1> HIDE DEF d
<1>4. ASSUME calls'[i] = d PROVE Goes(i)
  <2>1. StoreOf(i)' = StoreOf(i)
    BY <1>1, <1>3, <1>4, SameStore
  <2>2. Placed(i)'
    BY <1>1, <1>2, <1>3, <1>4 DEF Placed, Reading, Unread
  <2>3. Dated(i)'
    BY <1>1, <1>2, <1>3, <1>4, <2>1 DEF Dated, Unread
  <2>4. Kept(i)'
    BY <1>3, <1>4 DEF Kept, Unread
  <2> QED
    BY <2>2, <2>3, <2>4 DEF Goes
<1> QED
  BY <1>1, <1>4, Stands, OneGoes

LEMMA PortraitGoes ==
    ASSUME HeldInv, NEW i, NEW how, ShowPortrait(i, how)
    PROVE  CallsGo
<1> DEFINE there(j) == calls[j].there /\ ~(calls[j].what = "crop" /\ crop' = None)
           d(j) == [calls[j] EXCEPT !.there = there(j)]
<1>1. calls' = [j \in DOMAIN calls \ {i} |-> d(j)] /\ UNCHANGED <<page, presses, db, rev>>
  BY DEF ShowPortrait, Key
<1> HIDE DEF there
<1>2. ASSUME NEW j \in DOMAIN calls PROVE Alike(calls[j], d(j))
  <2>1. Fields \subseteq DOMAIN calls[j]
    BY CallFacts DEF Placed
  <2> QED
    BY <2>1 DEF Alike, Fields
<1> HIDE DEF d
<1>3. Retains({})
  BY <1>1, <1>2 DEF Retains
<1> QED
  BY <1>1, <1>3, Stands, RetainsGoes

\* The other answers end a call, or leave the page.
Ended(i) ==
    /\ calls' = Restrict(calls, DOMAIN calls \ {i})
    /\ UNCHANGED <<page, presses, db, rev>>

LEMMA EndedGoes ==
    ASSUME HeldInv, NEW i, Ended(i)
    PROVE  CallsGo
BY Stands, OverGoes DEF Ended

LEMMA FormAnswerEnds ==
    ASSUME NEW i,
           \/ AnsweredForm(i) \/ AskForCode(i) \/ Unanswered(i) \/ Uncaughts(i)
           \/ \E how : ShowProfile(i, how) \/ ShowKnown(i, how)
    PROVE  Ended(i)
<1>1. CASE AnsweredForm(i)
  BY <1>1 DEF AnsweredForm, End, Ended
<1>2. CASE AskForCode(i)
  BY <1>2 DEF AskForCode, Stuck, Ended
<1>3. CASE Unanswered(i)
  BY <1>3 DEF Unanswered, End, Ended
<1>4. CASE Uncaughts(i)
  BY <1>4 DEF Uncaughts, Stuck, Ended
<1>5. ASSUME NEW how, ShowProfile(i, how) PROVE Ended(i)
  BY <1>5 DEF ShowProfile, Ended
<1>6. ASSUME NEW how, ShowKnown(i, how) PROVE Ended(i)
  <2>1. CASE calls[i].what = "load"
    BY <1>6, <2>1 DEF ShowKnown, Stuck, Ended
  <2>2. CASE calls[i].what # "load"
    BY <1>6, <2>2 DEF ShowKnown, End, Ended
  <2> QED
    BY <2>1, <2>2
<1> QED
  BY <1>1, <1>2, <1>3, <1>4, <1>5, <1>6

LEMMA LeavesGoes ==
    ASSUME HeldInv, NEW i, Enter(i) \/ LoggedOut(i)
    PROVE  CallsGo
<1>1. PICK p \in Pages : Mount(p)
  <2>1. {"overview", "login", "closed"} \subseteq Pages
    BY DEF Pages, AdminPages
  <2>2. CASE Enter(i)
    BY <2>1, <2>2 DEF Enter
  <2>3. CASE LoggedOut(i)
    BY <2>1, <2>3 DEF LoggedOut
  <2> QED
    BY <2>2, <2>3
<1>2. UNCHANGED <<presses, db, rev>> /\ presses \in Nat
  BY DEF Enter, LoggedOut, HeldInv, IInv, Numbers
<1>3. presses' \in Nat /\ presses <= presses'
  BY <1>2
<1> QED
  BY <1>1, <1>2, <1>3, MountGoes

LEMMA ClientGoes ==
    ASSUME HeldInv, NEW i \in DOMAIN calls, Client(i)
    PROVE  CallsGo
<1>1. ~calls[i].gone
  BY DEF Client
<1>2. ASSUME NEW how, ShowList(i, how) PROVE CallsGo
  <2>1. PICK list, open, s : Rendered(list, open, i, s)
    BY <1>2 DEF ShowList
  <2>2. UNCHANGED <<page, presses, db, rev>>
    BY <1>2 DEF ShowList
  <2> QED
    BY <2>1, <2>2, RenderedGoes
<1>3. CASE AnsweredList(i)
  BY <1>1, <1>3, AnsweredListGoes
<1>4. CASE AnsweredCv(i)
  BY <1>1, <1>4, AnsweredCvGoes
<1>5. CASE LogoutHere(i)
  BY <1>5, LogoutHereGoes
<1>6. CASE Enter(i) \/ LoggedOut(i)
  BY <1>6, LeavesGoes
<1>7. CASE \/ AnsweredForm(i) \/ AskForCode(i) \/ Unanswered(i) \/ Uncaughts(i)
           \/ \E how : ShowProfile(i, how) \/ ShowKnown(i, how)
  BY <1>7, FormAnswerEnds, EndedGoes
<1>8. CASE AnsweredLogin(i) \/ \E how : ShowPortrait(i, how)
  BY <1>8, AnsweredLoginGoes, PortraitGoes
<1> QED
  BY <1>2, <1>3, <1>4, <1>5, <1>6, <1>7, <1>8 DEF Client

LEMMA CallsStep ==
    ASSUME HeldInv, [Next]_vars
    PROVE  CallsGo
<1>1. presses \in Nat
  BY DEF HeldInv, IInv, Numbers
<1>2. ASSUME NEW p \in AdminPages, Open(p) \/ Go(p) PROVE CallsGo
  <2>1. PICK q \in Pages : Mount(q)
    BY <1>2 DEF Open, Go, Pages
  <2>2. UNCHANGED <<db, rev>> /\ presses' = presses + 1
    BY <1>2 DEF Open, Go, Count
  <2>3. presses' \in Nat /\ presses <= presses'
    BY <1>1, <2>2
  <2> QED
    BY <2>1, <2>2, <2>3, MountGoes
<1>3. CASE Close
  <2>1. Mount("closed") /\ "closed" \in Pages
    BY <1>3 DEF Close, Pages
  <2>2. UNCHANGED <<presses, db, rev>>
    BY <1>3 DEF Close
  <2>3. presses' \in Nat /\ presses <= presses'
    BY <1>1, <2>2
  <2> QED
    BY <2>1, <2>2, <2>3, MountGoes
<1>4. CASE Others \/ SessionEnds
  <2>1. presses' = presses + 1 /\ UNCHANGED <<page, calls>>
    BY <1>4 DEF Others, SessionEnds, Count
  <2>2. ASSUME Others PROVE Grows
    BY <2>2, OthersWrite
  <2>3. ASSUME SessionEnds PROVE Grows
    BY <2>3, Unwritten DEF SessionEnds, HeldInv
  <2>4. OnPage
    BY <1>1, <1>4, <2>1, <2>2, <2>3 DEF OnPage
  <2> QED
    BY <2>1, <2>4, NoneGoes
<1>5. ASSUME UNCHANGED <<page, presses, db, rev, calls>> PROVE CallsGo
  BY <1>5, Stands, NoneGoes
<1>6. CASE Messages
  BY <1>5, <1>6 DEF Messages, Token, Tick
<1>7. CASE Prompt
  BY <1>5, <1>7 DEF Prompt, Arm, Cancel
<1>8. CASE UNCHANGED vars
  BY <1>5, <1>8 DEF vars, ui
<1>9. CASE ListControls
  <2>1. ASSUME NEW row, Toggle(row) PROVE CallsGo
    <3>1. PICK list, open, i, s : Rendered(list, open, i, s)
      BY <2>1 DEF Toggle
    <3>2. UNCHANGED <<page, presses, db, rev>>
      BY <2>1 DEF Toggle
    <3> QED
      BY <3>1, <3>2, RenderedGoes
  <2> QED
    BY <1>9, <2>1, ListRuns, RunsGo
<1>10. CASE FormControls
  <2>1. ASSUME Adjust \/ \E f \in Drafts : Edit(f) PROVE CallsGo
    BY <1>5, <2>1 DEF Adjust, Edit, ui
  <2> QED
    BY <1>10, <2>1, FormRuns, RunsGo, LogoutGoes
<1>11. ASSUME NEW i \in DOMAIN calls, Network(i) \/ Backend(i) \/ Client(i) PROVE CallsGo
  BY <1>11, NetworkGoes, BackendGoes, ClientGoes
<1> QED
  BY <1>2, <1>3, <1>4, <1>6, <1>7, <1>8, <1>9, <1>10, <1>11 DEF Next

-----------------------------------------------------------------------------
(* What the page shows.                                                     *)

\* A call that reads does it for the page that is open, or for its portrait.
LEMMA WhatIsRead ==
    ASSUME HeldInv, NEW i \in DOMAIN calls, calls[i].at \in Reading
    PROVE  /\ StoreOf(i) = IF i = Second THEN "portrait" ELSE page
           /\ i = Second => page = "profile"
<1>1. Placed(i) /\ presses <= MaxPresses /\ presses \in Nat
  BY CallFacts, UiAssumption DEF HeldInv, IInv, Numbers
<1>2. CASE calls[i].what = "load"
  <2>1. i = Second => page = "profile"
    BY <1>1, <1>2, UiAssumption DEF Placed, Loads, Second
  <2>2. StoreOf(i) = IF i = Second THEN "portrait" ELSE page
    BY <1>2 DEF StoreOf
  <2> QED
    BY <2>1, <2>2
<1>3. CASE calls[i].what # "load"
  <2>1. i \in 1 .. presses /\ StoreOf(i) = page
    BY <1>1, <1>3 DEF Placed
  <2>2. i # Second
    BY <1>1, <2>1, UiAssumption DEF Second
  <2> QED
    BY <2>1, <2>2
<1> QED
  BY <1>2, <1>3

LEMMA ReadForLists ==
    ASSUME HeldInv, NEW i \in DOMAIN calls, "loaded" \in Ends(i), page \in Lists
    PROVE  calls[i].got \in Seq(Row) /\ calls[i].gotRev \in Nat
<1>1. calls[i].at = "loaded"
  BY DEF Ends
<1>2. StoreOf(i) = page
  BY <1>1, WhatIsRead DEF Reading, Lists
<1>3. Content(page) = Seq(Row)
  BY DEF Content, Lists
<1> QED
  BY <1>1, <1>2, <1>3, CallFacts DEF Dated

LEMMA ReadForForms ==
    ASSUME HeldInv, NEW i \in DOMAIN calls, "loaded" \in Ends(i)
    PROVE  /\ calls[i].gotRev \in Nat
           /\ page = "profile" /\ i = 0 => calls[i].got \in Profile
           /\ page = "profile" /\ i = Second => calls[i].got \in Crop \cup {None}
           /\ page \in {"cv", "security"} => calls[i].got \in {"no", "yes"}
<1>1. calls[i].at = "loaded"
  BY DEF Ends
<1>2. StoreOf(i) = IF i = Second THEN "portrait" ELSE page
  BY <1>1, WhatIsRead DEF Reading
<1>3. i = Second => page = "profile"
  BY <1>1, WhatIsRead DEF Reading
<1>4. /\ Content("profile") = Profile /\ Content("portrait") = Crop \cup {None}
      /\ Content("cv") = {"no", "yes"} /\ Content("security") = {"no", "yes"}
  BY DEF Content, Lists
<1>5. Second # 0
  BY UiAssumption DEF Second
<1>6. calls[i].got \in Content(StoreOf(i)) /\ calls[i].gotRev \in Nat
  BY <1>1, CallFacts DEF Dated
<1> QED
  BY <1>2, <1>3, <1>4, <1>5, <1>6

\* What a step can do to the list.
ListIsStill ==
    /\ UNCHANGED <<shown, shownRev, loadError, opened>>
    /\ created' \in {created, 0} /\ armed' \subseteq armed

LEMMA ListMoves ==
    ASSUME [Next]_vars
    PROVE  \/ ListIsStill
           \/ MountedLists /\ armed' = {}
           \/ \E r \in Range(shown) : Toggle(r)
           \/ \E r \in RowsOn(shown) : Arm(r) /\ UNCHANGED lists
           \/ \E i \in DOMAIN calls : AnsweredList(i) \/ \E how \in Ends(i) : ShowList(i, how)
<1> USE DEF lists, ListIsStill
<1>1. ASSUME NEW p, Mount(p) PROVE MountedLists /\ armed' = {}
  BY <1>1 DEF Mount, Mounted
<1>2. ASSUME NEW p, Open(p) \/ Go(p) PROVE MountedLists /\ armed' = {}
  BY <1>1, <1>2 DEF Open, Go
<1>3. CASE Close
  BY <1>1, <1>3 DEF Close
<1>4. CASE Others
  BY <1>4 DEF Others
<1>5. CASE SessionEnds \/ Messages \/ UNCHANGED vars
  BY <1>5 DEF SessionEnds, Messages, Token, Tick, vars, ui
<1>6. ASSUME Prompt PROVE ListIsStill \/ \E r \in RowsOn(shown) : Arm(r) /\ UNCHANGED lists
  <2>1. ASSUME NEW r, Cancel(r), UNCHANGED lists PROVE ListIsStill
    BY <2>1 DEF Cancel
  <2> QED
    BY <1>6, <2>1 DEF Prompt
<1>7. ASSUME ListControls PROVE ListIsStill \/ \E r \in Range(shown) : Toggle(r)
  <2>1. ASSUME NEW row, PressRow(row) PROVE ListIsStill
    BY <2>1 DEF PressRow, SaveExpiry, Revoke, SaveTechnology, DeleteTechnology, AddTechnology,
         Rename, DeleteCategory, SaveEntry, Confirm, Run
  <2>2. ASSUME Create \/ AddCategory \/ Sync PROVE ListIsStill
    BY <2>2 DEF Create, AddCategory, Sync, Run
  <2> QED
    BY <1>7, <2>1, <2>2 DEF ListControls
<1>8. CASE FormControls
  <2>1. UNCHANGED <<armed, lists>>
    <3>1. ASSUME NEW f, Edit(f) PROVE UNCHANGED armed
      BY <3>1 DEF Edit, ui
    <3>2. CASE Adjust
      BY <1>8, <3>2 DEF FormControls, Adjust, ui
    <3> QED
      BY <1>8, <3>1, <3>2 DEF FormControls, SaveProfile, SaveCrop, UploadPortrait, UploadCv,
           StartSetup, ConfirmCode, SignIn, Logout, Run
  <2> QED
    BY <2>1
<1>9. ASSUME NEW i \in DOMAIN calls, Network(i) PROVE ListIsStill
  BY <1>9 DEF Network, OwnToken, Dropped, Fetch, FetchPart
<1>10. ASSUME NEW i \in DOMAIN calls, Backend(i) PROVE ListIsStill
  BY <1>10 DEF Backend, AcceptList, AcceptForm, AcceptLogin, AcceptLogout, Accepted
<1>11. ASSUME NEW i \in DOMAIN calls, Client(i)
       PROVE  \/ ListIsStill
              \/ MountedLists /\ armed' = {}
              \/ AnsweredList(i) \/ \E how \in Ends(i) : ShowList(i, how)
  <2>1. CASE Enter(i) \/ LoggedOut(i)
    BY <1>1, <2>1 DEF Enter, LoggedOut
  <2>2. ASSUME Unanswered(i) \/ Uncaughts(i) PROVE ListIsStill
    BY <2>2 DEF Unanswered, Uncaughts, End, Stuck
  <2>3. ASSUME UNCHANGED lists,
               \/ AnsweredForm(i) \/ AnsweredCv(i) \/ AnsweredLogin(i) \/ AskForCode(i)
               \/ LogoutHere(i)
        PROVE  ListIsStill
    BY <2>3 DEF AnsweredForm, AnsweredCv, AnsweredLogin, AskForCode, LogoutHere, End, Stuck
  <2>4. ASSUME UNCHANGED lists, NEW how,
               ShowProfile(i, how) \/ ShowPortrait(i, how) \/ ShowKnown(i, how)
        PROVE  ListIsStill
    <3>1. CASE ShowProfile(i, how) \/ ShowPortrait(i, how)
      BY <2>4, <3>1 DEF ShowProfile, ShowPortrait
    <3>2. CASE ShowKnown(i, how)
      BY <2>4, <3>2 DEF ShowKnown, End, Stuck
    <3> QED
      BY <2>4, <3>1, <3>2
  <2> QED
    BY <1>11, <2>1, <2>2, <2>3, <2>4 DEF Client
<1> QED
  BY <1>2, <1>3, <1>4, <1>5, <1>6, <1>7, <1>8, <1>9, <1>10, <1>11 DEF Next

LEMMA ListStep ==
    ASSUME HeldInv, [Next]_vars
    PROVE  ListFits'
<1>1. ListFits
  BY DEF HeldInv, PageFits
<1>2. CASE ListIsStill
  BY <1>1, <1>2 DEF ListIsStill, ListFits, RowsOn
<1>3. CASE MountedLists /\ armed' = {}
  <2>1. Range(<<>>) = {}
    BY DEF Range
  <2>2. shown' = <<>> /\ shownRev' = 0 /\ loadError' = FALSE /\ created' = 0 /\ opened' = 0
    BY <1>3 DEF MountedLists
  <2>3. Range(shown)' = {}
    BY <2>1, <2>2
  <2> QED
    BY <1>3, <2>2, <2>3 DEF ListFits
<1>4. ASSUME NEW i, NEW list, Range(list) \subseteq Row, NEW open \in Nat, NEW s,
             Rendered(list, open, i, s)
      PROVE  Range(shown)' \subseteq Row /\ armed' \subseteq RowsOn(shown)' /\ opened' \in Nat
  BY <1>4 DEF Rendered, RowsOn
<1>5. ASSUME NEW r \in Range(shown), Toggle(r) PROVE ListFits'
  <2>1. (IF opened = r.id THEN 0 ELSE r.id) \in Nat
    BY <1>1 DEF ListFits, Row
  <2>2. Rendered(shown, IF opened = r.id THEN 0 ELSE r.id, NoCall, "none")
    BY <1>5 DEF Toggle
  <2>3. UNCHANGED <<shownRev, loadError, created>>
    BY <1>5 DEF Toggle
  <2> QED
    BY <1>1, <1>4, <2>1, <2>2, <2>3 DEF ListFits
<1>6. ASSUME NEW r \in RowsOn(shown), Arm(r), UNCHANGED lists PROVE ListFits'
  BY <1>1, <1>6 DEF Arm, lists, ListFits, RowsOn
<1>7. ASSUME NEW i \in DOMAIN calls, AnsweredList(i) PROVE ListFits'
  <2>1. New(i) \in Nat
    BY CallFacts, NewIsANumber
  <2> QED
    BY <1>1, <1>7, <2>1 DEF AnsweredList, ListFits, RowsOn
<1>8. ASSUME NEW i \in DOMAIN calls, NEW how \in Ends(i), ShowList(i, how) PROVE ListFits'
  <2> DEFINE list == CASE how = "loaded" -> calls[i].got
                       [] how = "unloaded" /\ page = "links" -> <<>>
                       [] OTHER -> shown
  <2>1. page \in Lists /\ \E s : Rendered(list, opened, i, s)
    BY <1>8 DEF ShowList
  <2>2. /\ shownRev' = IF how = "loaded" THEN calls[i].gotRev ELSE shownRev
        /\ loadError' = (loadError \/ how = "failed" \/ (how = "unloaded" /\ page # "links"))
        /\ created' = created
    BY <1>8 DEF ShowList
  <2>3. how = "loaded" => calls[i].got \in Seq(Row) /\ calls[i].gotRev \in Nat
    BY <2>1, ReadForLists
  <2>4. Range(list) \subseteq Row
    <3>1. CASE how = "loaded"
      BY <2>3, <3>1 DEF Range
    <3>2. CASE how = "unloaded" /\ page = "links"
      BY <3>2 DEF Range
    <3>3. CASE how # "loaded" /\ ~(how = "unloaded" /\ page = "links")
      BY <1>1, <3>3 DEF ListFits
    <3> QED
      BY <3>1, <3>2, <3>3
  <2> HIDE DEF list
  <2>5. Range(shown)' \subseteq Row /\ armed' \subseteq RowsOn(shown)' /\ opened' \in Nat
    BY <1>1, <1>4, <2>1, <2>4 DEF ListFits
  <2> QED
    BY <1>1, <2>2, <2>3, <2>5 DEF ListFits
<1> QED
  BY <1>2, <1>3, <1>5, <1>6, <1>7, <1>8, ListMoves

\* What a step can do to the fields of a form.
FormIsStill ==
    /\ UNCHANGED <<form, formRev, crop, known, setup, step>>
    /\ session' \in BOOLEAN /\ waiting' \in BOOLEAN

LEMMA FormMoves ==
    ASSUME FormFits, [Next]_vars
    PROVE  \/ FormIsStill
           \/ MountedForms
           \/ Adjust \/ \E f \in Drafts : Edit(f)
           \/ \E i \in DOMAIN calls :
                \/ AnsweredForm(i) \/ AskForCode(i)
                \/ \E how \in Ends(i) : ShowProfile(i, how) \/ ShowPortrait(i, how) \/ ShowKnown(i, how)
<1> USE DEF forms, FormIsStill
<1>1. ASSUME UNCHANGED forms PROVE FormIsStill
  BY <1>1 DEF FormFits
<1>2. ASSUME NEW p, Mount(p) PROVE MountedForms
  BY <1>2 DEF Mount
<1>3. ASSUME NEW p, Open(p) \/ Go(p) PROVE MountedForms
  BY <1>2, <1>3 DEF Open, Go
<1>4. CASE Close
  BY <1>2, <1>4 DEF Close
<1>5. CASE Others \/ Messages \/ Prompt \/ UNCHANGED vars
  BY <1>1, <1>5 DEF Others, Messages, Prompt, vars
<1>6. CASE SessionEnds
  BY <1>6 DEF SessionEnds, FormFits
<1>7. CASE ListControls
  BY <1>1, <1>7 DEF ListControls
<1>8. CASE FormControls
  <2>1. UNCHANGED forms \/ Adjust \/ \E f \in Drafts : Edit(f)
    BY <1>8 DEF FormControls, SaveProfile, SaveCrop, UploadPortrait, UploadCv, StartSetup,
         ConfirmCode, SignIn, Logout
  <2> QED
    BY <1>1, <2>1
<1>9. ASSUME NEW i, Network(i) \/ AcceptList(i) \/ AcceptForm(i) PROVE FormIsStill
  BY <1>1, <1>9 DEF Network, AcceptList, AcceptForm
<1>10. ASSUME NEW i, AcceptLogin(i) PROVE FormIsStill
  BY <1>10 DEF AcceptLogin, FormFits
<1>11. ASSUME NEW i, AcceptLogout(i) PROVE FormIsStill
  BY <1>11 DEF AcceptLogout, FormFits
<1>12. ASSUME NEW i \in DOMAIN calls, Client(i)
       PROVE  \/ FormIsStill \/ MountedForms
              \/ AnsweredForm(i) \/ AskForCode(i)
              \/ \E how \in Ends(i) : ShowProfile(i, how) \/ ShowPortrait(i, how) \/ ShowKnown(i, how)
  <2>1. CASE Enter(i) \/ LoggedOut(i)
    BY <1>2, <2>1 DEF Enter, LoggedOut
  <2>2. CASE \/ Unanswered(i) \/ Uncaughts(i) \/ AnsweredCv(i) \/ AnsweredLogin(i)
             \/ LogoutHere(i) \/ UNCHANGED forms
    BY <1>1, <2>2 DEF Unanswered, Uncaughts, AnsweredCv, AnsweredLogin, LogoutHere
  <2> QED
    BY <1>12, <2>1, <2>2 DEF Client
<1> QED
  BY <1>3, <1>4, <1>5, <1>6, <1>7, <1>8, <1>9, <1>10, <1>11, <1>12 DEF Next, Backend

LEMMA FormStep ==
    ASSUME HeldInv, [Next]_vars
    PROVE  FormFits'
<1>1. FormFits
  BY DEF HeldInv, PageFits
<1>2. CASE FormIsStill
  BY <1>1, <1>2 DEF FormIsStill, FormFits
<1>3. CASE MountedForms
  <2>1. Empty \in Form
    BY DEF Empty, Form, Texts
  <2> QED
    BY <1>1, <1>3, <2>1 DEF MountedForms, FormFits
<1>4. CASE Adjust
  <2>1. PICK by \in (0 - FocusMax) .. FocusMax : crop' = Shifted(crop, by)
    BY <1>4 DEF Adjust
  <2>2. crop \in Crop
    BY <1>1, <1>4 DEF Adjust, FormFits
  <2>3. crop' \in Crop
    BY <2>1, <2>2, FormsAssumption DEF Crop, Shifted
  <2> QED
    BY <1>1, <1>4, <2>3 DEF Adjust, FormFits
<1>5. ASSUME NEW f \in Drafts, Edit(f) PROVE FormFits'
  <2>1. f \in Form
    BY AdminAssumption
  <2> QED
    BY <1>1, <1>5, <2>1 DEF Edit, FormFits
<1>6. ASSUME NEW i \in DOMAIN calls, AnsweredForm(i) PROVE FormFits'
  <2>1. Start \in Crop
    BY FormsAssumption DEF Start, Crop
  <2> QED
    BY <1>1, <1>6, <2>1 DEF AnsweredForm, FormFits
<1>7. ASSUME NEW i \in DOMAIN calls, AskForCode(i) PROVE FormFits'
  BY <1>1, <1>7 DEF AskForCode, FormFits
<1>8. ASSUME NEW i \in DOMAIN calls, NEW how \in Ends(i), ShowProfile(i, how) PROVE FormFits'
  <2>1. how = "loaded" => FromResponse(calls[i].got) \in Form /\ calls[i].gotRev \in Nat
    <3>1. ASSUME how = "loaded" PROVE calls[i].got \in Profile /\ calls[i].gotRev \in Nat
      BY <1>8, <3>1, ReadForForms DEF ShowProfile
    <3>2. \A p \in Profile : FromResponse(p) \in Form
      BY DEF FromResponse, Profile, Form, Texts
    <3> QED
      BY <3>1, <3>2
  <2> QED
    BY <1>1, <1>8, <2>1 DEF ShowProfile, FormFits
<1>9. ASSUME NEW i \in DOMAIN calls, NEW how \in Ends(i), ShowPortrait(i, how) PROVE FormFits'
  <2>1. how = "loaded" => calls[i].got \in Crop \cup {None}
    BY <1>9, ReadForForms DEF ShowPortrait
  <2> QED
    BY <1>1, <1>9, <2>1 DEF ShowPortrait, FormFits
<1>10. ASSUME NEW i \in DOMAIN calls, NEW how \in Ends(i), ShowKnown(i, how) PROVE FormFits'
  <2>1. how = "loaded" => calls[i].got \in {"no", "yes"}
    BY <1>10, ReadForForms DEF ShowKnown
  <2>2. known' = CASE how = "loaded" -> calls[i].got
                   [] how = "failed" /\ page = "cv" -> known
                   [] OTHER -> "no"
    BY <1>10 DEF ShowKnown
  <2>3. known' \in {"unknown", "no", "yes"}
    BY <1>1, <2>1, <2>2 DEF FormFits
  <2> QED
    BY <1>1, <1>10, <2>3 DEF ShowKnown, FormFits
<1> QED
  BY <1>1, <1>2, <1>3, <1>4, <1>5, <1>6, <1>7, <1>8, <1>9, <1>10, FormMoves

\* Pages are mounted, and their token comes once.
LEMMA PageStep ==
    ASSUME HeldInv, [Next]_vars
    PROVE  PageFits'
<1>1. page \in Pages /\ token \in BOOLEAN
  BY DEF HeldInv, PageFits
<1> DEFINE Fit == page \in Pages /\ token \in BOOLEAN
<1> SUFFICES Fit'
  BY ListStep, FormStep DEF PageFits
<1>2. ASSUME NEW p \in Pages, Mount(p) PROVE Fit'
  BY <1>2 DEF Mount, Mounted
<1>3. AdminPages \cup {"closed", "login"} = Pages /\ "overview" \in Pages
  BY DEF Pages, AdminPages
<1>4. ASSUME UNCHANGED <<page, token>> PROVE Fit'
  BY <1>1, <1>4
<1>5. ASSUME NEW p \in AdminPages, Open(p) \/ Go(p) PROVE Fit'
  BY <1>2, <1>3, <1>5 DEF Open, Go
<1>6. CASE Close
  BY <1>2, <1>3, <1>6 DEF Close
<1>7. CASE Messages
  BY <1>1, <1>7 DEF Messages, Token, Tick
<1>8. ASSUME NEW i, Enter(i) \/ LoggedOut(i) PROVE Fit'
  <2>1. CASE Enter(i)
    BY <1>2, <1>3, <2>1 DEF Enter
  <2>2. CASE LoggedOut(i)
    BY <1>2, <1>3, <2>2 DEF LoggedOut
  <2> QED
    BY <1>8, <2>1, <2>2
<1> HIDE DEF Fit
<1>9. CASE Others \/ SessionEnds \/ Prompt \/ UNCHANGED vars
  BY <1>4, <1>9 DEF Others, SessionEnds, Prompt, Arm, Cancel, vars, ui
<1>10. ASSUME Pressed PROVE Fit'
  BY <1>4, <1>10 DEF Pressed, Run
<1>11. CASE ListControls
  BY <1>4, <1>10, <1>11, ListPresses DEF Toggle
<1>12. CASE FormControls
  BY <1>4, <1>10, <1>12, FormPresses DEF Logout, ui
<1>13. ASSUME NEW i, Network(i) PROVE Fit'
  BY <1>4, <1>13 DEF Network, OwnToken, Dropped, Fetch, FetchPart
<1>14. ASSUME NEW i, Backend(i) PROVE Fit'
  BY <1>4, <1>14 DEF Backend, AcceptList, AcceptForm, AcceptLogin, AcceptLogout, Accepted
<1>15. ASSUME NEW i, Client(i) PROVE Fit'
  BY <1>4, <1>8, <1>15 DEF Client, AnsweredList, ShowList, AnsweredForm, AnsweredCv,
       AnsweredLogin, AskForCode, LogoutHere, ShowProfile, ShowPortrait, ShowKnown, Unanswered,
       Uncaughts
<1> QED
  BY <1>5, <1>6, <1>7, <1>9, <1>11, <1>12, <1>13, <1>14, <1>15 DEF Next

-----------------------------------------------------------------------------
(* Messages.                                                                *)

LEMMA AllTold ==
    ASSUME \A k, m : k \in DOMAIN status' /\ m = status'[k] => Told(k, m)'
    PROVE  MessagesFit'
BY DEF MessagesFit, Told, Reports

\* A message stays right while its call is the same, or when it is over.
LEMMA StaysTold ==
    ASSUME HeldInv, NEW k \in DOMAIN status, NEW m, m = status[k],
           presses' \in Nat, presses <= presses',
           m.of \in 1 .. presses /\ m.of \in DOMAIN calls' =>
               /\ m.of \in DOMAIN calls /\ Key(calls'[m.of]) = Key(calls[m.of])
               /\ Key(calls[m.of]) = k /\ Reports(m.of) => Reports(m.of)'
    PROVE  Told(k, m)'
<1>1. Told(k, m) /\ presses \in Nat
  BY DEF HeldInv, IInv, Numbers, MessagesFit
<1>2. m.of \in 1 .. presses'
  BY <1>1 DEF Told
<1> QED
  BY <1>1, <1>2 DEF Told

LEMMA CarriedFit ==
    ASSUME HeldInv, Carried, presses' \in Nat, presses <= presses',
           DOMAIN status' \subseteq DOMAIN status,
           \A k \in DOMAIN status' : status'[k] = status[k]
    PROVE  MessagesFit'
<1>1. ASSUME NEW n, n \in DOMAIN calls'
      PROVE  n \in DOMAIN calls /\ Key(calls'[n]) = Key(calls[n]) /\ (Reports(n) => Reports(n)')
  BY <1>1 DEF Carried, Same, Key, Reports
<1>2. ASSUME NEW k \in DOMAIN status', NEW m, m = status'[k] PROVE Told(k, m)'
  <2>1. k \in DOMAIN status /\ m = status[k]
    BY <1>2
  <2> QED
    BY <1>1, <2>1, StaysTold
<1> QED
  BY <1>2, AllTold

LEMMA EndFits ==
    ASSUME HeldInv, NEW i \in DOMAIN calls, calls[i].what # "load",
           NEW s \in {"success", "error"}, End(i, s), UNCHANGED presses
    PROVE  MessagesFit'
<1> DEFINE e == [state |-> s, of |-> i]
           l == Key(calls[i])
<1>1. i \in 1 .. presses /\ presses \in Nat /\ presses' = presses /\ e.state = s /\ e.of = i
  BY CallFacts DEF Placed
<1>2. DOMAIN calls' = DOMAIN calls \ {i} /\ \A j \in DOMAIN calls' : calls'[j] = calls[j]
  BY DEF End, Restrict
<1>3. ASSUME NEW n, n \in DOMAIN calls'
      PROVE  n \in DOMAIN calls /\ Key(calls'[n]) = Key(calls[n]) /\ (Reports(n) => Reports(n)')
  BY <1>2, <1>3 DEF Key, Reports
<1>4. status' = Put(status, l, e) \/ status' = status
  BY DEF End, Reported
<1> HIDE DEF e, l
<1>5. ASSUME NEW k \in DOMAIN status', NEW m, m = status'[k] PROVE Told(k, m)'
  <2>1. m = e \/ (k \in DOMAIN status /\ m = status[k])
    BY <1>4, <1>5 DEF Put
  <2>2. CASE m = e
    BY <1>1, <1>2, <2>2 DEF Told
  <2>3. CASE k \in DOMAIN status /\ m = status[k]
    BY <1>1, <1>3, <2>3, StaysTold
  <2> QED
    BY <2>1, <2>2, <2>3
<1> QED
  BY <1>5, AllTold

LEMMA RenderedFits ==
    ASSUME HeldInv, NEW i, NEW list, NEW open, NEW s, Rendered(list, open, i, s),
           i \in DOMAIN calls => s \in {"success", "error", "none"}, UNCHANGED presses
    PROVE  MessagesFit'
<1> DEFINE e == [state |-> s, of |-> i]
           kept == Restrict(status, {k \in DOMAIN status : Stays(k, list, open)})
           here == i \in DOMAIN calls /\ calls[i].what # "load" /\ s # "none"
           l == Key(calls[i])
<1>1. presses \in Nat /\ presses' = presses
  BY DEF HeldInv, IInv, Numbers
<1>2. here => i \in 1 .. presses /\ e.state \in {"success", "error"} /\ e.of = i
  BY CallFacts DEF Placed
<1>3. /\ DOMAIN calls' = DOMAIN calls \ {i}
      /\ \A j \in DOMAIN calls' :
            /\ calls'[j].what = calls[j].what /\ calls'[j].row = calls[j].row
            /\ calls'[j].gone = calls[j].gone
            /\ calls'[j].there = Seen(j, list, open)
  <2>1. IInv
    BY DEF HeldInv
  <2>2. DOMAIN calls' = DOMAIN calls \ {i}
    BY <2>1, RenderedCalls
  <2>3. ASSUME NEW j \in DOMAIN calls'
        PROVE  /\ calls'[j].what = calls[j].what /\ calls'[j].row = calls[j].row
               /\ calls'[j].gone = calls[j].gone
               /\ calls'[j].there = Seen(j, list, open)
    BY <2>1, <2>3, RenderedCalls DEF Seen
  <2> QED
    BY <2>2, <2>3
<1>4. (here /\ status' = Put(kept, l, e)) \/ status' = kept
  BY DEF Rendered, Reported
<1>5. DOMAIN kept = {k \in DOMAIN status : Stays(k, list, open)}
      /\ \A k \in DOMAIN kept : kept[k] = status[k]
  BY DEF Restrict
<1> HIDE DEF e, kept, here, l
<1>6. ASSUME NEW k \in DOMAIN status', NEW m, m = status'[k] PROVE Told(k, m)'
  <2>1. \/ here /\ m = e
        \/ k \in DOMAIN status /\ m = status[k] /\ Stays(k, list, open)
    BY <1>4, <1>5, <1>6 DEF Put
  <2>2. CASE here /\ m = e
    BY <1>1, <1>2, <1>3, <2>2 DEF Told
  <2>3. CASE k \in DOMAIN status /\ m = status[k] /\ Stays(k, list, open)
    <3>1. ASSUME NEW n, n \in DOMAIN calls'
          PROVE  /\ n \in DOMAIN calls /\ Key(calls'[n]) = Key(calls[n])
                 /\ Key(calls[n]) = k /\ Reports(n) => Reports(n)'
      <4>1. k = Key(calls[n]) => k.what = calls[n].what /\ k.row = calls[n].row
        BY DEF Key
      <4>2. k = Key(calls[n]) /\ calls[n].there /\ calls[n].what \notin OfPage => calls'[n].there
        BY <1>3, <2>3, <3>1, <4>1 DEF Stays, Seen
      <4> QED
        BY <1>3, <3>1, <4>2 DEF Reports, Key
    <3> QED
      BY <1>1, <2>3, <3>1, StaysTold
  <2> QED
    BY <2>1, <2>2, <2>3
<1> QED
  BY <1>6, AllTold

\* A press has a number that no message has.
LEMMA PressedFits ==
    ASSUME HeldInv, Pressed
    PROVE  MessagesFit'
<1>1. PICK what, row, at, data : what \notin {"load", "logout"} /\ Run(what, row, at, data)
  BY DEF Pressed
<1> DEFINE l == [what |-> what, row |-> row]
           c == Call(what, row, at, data)
<1>2. PICK n \in Nat : n = presses + 1
  BY DEF HeldInv, IInv, Numbers
<1> DEFINE e == [state |-> "pending", of |-> n]
<1>3. /\ calls' = Put(calls, n, c) /\ status' = Put(status, l, e) /\ presses' = n
  BY <1>1, <1>2 DEF Run, Count
<1>4. /\ e.state = "pending" /\ e.of = n /\ n \in 1 .. n /\ presses \in Nat /\ presses <= n
      /\ n \notin 1 .. presses
  BY <1>2 DEF HeldInv, IInv, Numbers
<1>5. /\ Key(c) = l /\ c.what \notin {"load", "logout"} /\ c.gone = FALSE /\ c.there = TRUE
  BY <1>1 DEF Call, Key
<1> HIDE DEF l, c, e
<1>6. n \in DOMAIN calls' /\ calls'[n] = c
  BY <1>3 DEF Put
<1>7. ASSUME NEW o, o \in DOMAIN calls' \ {n}
      PROVE  o \in DOMAIN calls /\ Key(calls'[o]) = Key(calls[o]) /\ (Reports(o) => Reports(o)')
  BY <1>3, <1>7 DEF Put, Key, Reports
<1>8. ASSUME NEW k \in DOMAIN status', NEW m, m = status'[k] PROVE Told(k, m)'
  <2>1. (k = l /\ m = e) \/ (k \in DOMAIN status /\ m = status[k])
    BY <1>3, <1>8 DEF Put
  <2>2. CASE k = l /\ m = e
    <3>1. Reports(n)' /\ Key(calls'[n]) = k
      BY <1>5, <1>6, <2>2 DEF Reports
    <3> QED
      BY <1>3, <1>4, <2>2, <3>1 DEF Told
  <2>3. CASE k \in DOMAIN status /\ m = status[k]
    BY <1>3, <1>4, <1>7, <2>3, StaysTold
  <2> QED
    BY <2>1, <2>2, <2>3
<1> QED
  BY <1>8, AllTold

LEMMA LogoutFits ==
    ASSUME HeldInv, Logout
    PROVE  MessagesFit'
<1> DEFINE c == Call("logout", Page, "csrf", "authentik")
<1>1. PICK n \in Nat : n = presses + 1
  BY DEF HeldInv, IInv, Numbers
<1>2. calls' = Put(calls, n, c) /\ status' = status /\ presses' = n
  BY <1>1 DEF Logout, Count
<1>3. presses \in Nat /\ presses <= n /\ n \notin 1 .. presses
  BY <1>1 DEF HeldInv, IInv, Numbers
<1> HIDE DEF c
<1>4. ASSUME NEW o, o \in DOMAIN calls' \ {n}
      PROVE  o \in DOMAIN calls /\ Key(calls'[o]) = Key(calls[o]) /\ (Reports(o) => Reports(o)')
  BY <1>2, <1>4 DEF Put, Key, Reports
<1>5. ASSUME NEW k \in DOMAIN status', NEW m, m = status'[k] PROVE Told(k, m)'
  BY <1>2, <1>3, <1>4, <1>5, StaysTold
<1> QED
  BY <1>5, AllTold

\* The message of a sign-in goes when its call stops to report, and so do those of
\* the crop when its controls go.
LEMMA GoesWithItsCall ==
    ASSUME HeldInv, NEW S, UNCHANGED presses, DOMAIN calls' \subseteq DOMAIN calls,
           status' = Restrict(status, DOMAIN status \ S),
           \A n \in DOMAIN calls' :
               /\ Key(calls'[n]) = Key(calls[n])
               /\ Reports(n) /\ Key(calls[n]) \notin S => Reports(n)'
    PROVE  MessagesFit'
<1>1. ASSUME NEW k \in DOMAIN status', NEW m, m = status'[k] PROVE Told(k, m)'
  <2>1. k \in DOMAIN status /\ k \notin S /\ m = status[k]
    BY <1>1 DEF Restrict
  <2>2. presses \in Nat
    BY DEF HeldInv, IInv, Numbers
  <2> QED
    BY <2>1, <2>2, StaysTold
<1> QED
  BY <1>1, AllTold

LEMMA ReleasedFits ==
    ASSUME HeldInv, NEW i \in DOMAIN calls, AnsweredLogin(i)
    PROVE  MessagesFit'
<1>1. IInv /\ UNCHANGED presses
  BY DEF AnsweredLogin, HeldInv
<1>2. status' = Restrict(status, DOMAIN status \ {Key(calls[i])})
  BY DEF AnsweredLogin
<1>3. ASSUME NEW n \in DOMAIN calls'
      PROVE  /\ Key(calls'[n]) = Key(calls[n])
             /\ Reports(n) /\ Key(calls[n]) \notin {Key(calls[i])} => Reports(n)'
  <2>1. CASE n = i
    <3>1. calls'[i].what = calls[i].what /\ calls'[i].row = calls[i].row
      BY <1>1, Released DEF AnsweredLogin
    <3> QED
      BY <2>1, <3>1 DEF Key
  <2>2. CASE n # i
    BY <1>1, <2>2, Released DEF Key, Reports
  <2> QED
    BY <2>1, <2>2
<1>4. DOMAIN calls' \subseteq DOMAIN calls
  BY <1>1, Released
<1> QED
  BY <1>1, <1>2, <1>3, <1>4, GoesWithItsCall

LEMMA PortraitFits ==
    ASSUME HeldInv, NEW i, NEW how, ShowPortrait(i, how)
    PROVE  MessagesFit'
<1> DEFINE S == {k \in DOMAIN status : k.what = "crop" /\ crop' = None}
<1>1. IInv /\ UNCHANGED presses
  BY DEF ShowPortrait, HeldInv
<1>2. status' = Restrict(status, {k \in DOMAIN status : ~(k.what = "crop" /\ crop' = None)})
  BY DEF ShowPortrait
<1>3. {k \in DOMAIN status : ~(k.what = "crop" /\ crop' = None)} = DOMAIN status \ S
  OBVIOUS
<1>4. ASSUME NEW n \in DOMAIN calls'
      PROVE  n \in DOMAIN calls /\ Key(calls'[n]) = Key(calls[n])
  BY <1>1, PortraitCalls DEF Key
<1>5. ASSUME NEW n \in DOMAIN calls', Reports(n), Key(calls[n]) \notin S PROVE Reports(n)'
  <2>1. n \in DOMAIN calls /\ calls'[n].what = calls[n].what /\ calls'[n].gone = calls[n].gone
        /\ calls'[n].there = (calls[n].there /\ ~(calls[n].what = "crop" /\ crop' = None))
    BY <1>1, PortraitCalls
  <2>2. Key(calls[n]) \in DOMAIN status /\ Key(calls[n]).what = calls[n].what
    BY <1>1, <1>5, <2>1 DEF IInv, OneCallPerControl, Key
  <2>3. ~(calls[n].what = "crop" /\ crop' = None)
    BY <1>5, <2>2
  <2> QED
    BY <1>5, <2>1, <2>3 DEF Reports
<1> HIDE DEF S
<1> QED
  BY <1>1, <1>2, <1>3, <1>4, <1>5, GoesWithItsCall

LEMMA ClientFits ==
    ASSUME HeldInv, NEW i \in DOMAIN calls, Client(i)
    PROVE  MessagesFit'
<1>1. IInv /\ ~calls[i].gone /\ presses \in Nat
  BY DEF HeldInv, IInv, Numbers, Client
<1>2. ASSUME Carried, UNCHANGED <<status, presses>> PROVE MessagesFit'
  <2>1. presses' \in Nat /\ presses <= presses'
    BY <1>1, <1>2
  <2> QED
    BY <1>2, <2>1, CarriedFit
<1>3. ASSUME NEW p, Mounted(p) PROVE MessagesFit'
  <2>1. DOMAIN status' = {}
    BY <1>3 DEF Mounted, Nothing
  <2> QED
    BY <2>1, AllTold
<1>4. CASE AnsweredList(i)
  <2>1. UNCHANGED <<status, presses>>
    BY <1>4 DEF AnsweredList
  <2> QED
    BY <1>1, <1>2, <1>4, <2>1, AnsweredListCarries
<1>5. ASSUME NEW how \in Ends(i), ShowList(i, how) PROVE MessagesFit'
  <2>1. PICK list, open : \E s \in Outcomes(calls[i]) : Rendered(list, open, i, s)
    BY <1>5 DEF ShowList
  <2>2. Outcomes(calls[i]) \subseteq {"success", "error", "none"}
    BY DEF Outcomes
  <2>3. UNCHANGED presses
    BY <1>5 DEF ShowList
  <2> QED
    BY <2>1, <2>2, <2>3, RenderedFits
<1>6. CASE AnsweredForm(i)
  <2>1. End(i, "success") /\ UNCHANGED presses /\ calls[i].what # "load"
    BY <1>6 DEF AnsweredForm
  <2> QED
    BY <2>1, EndFits
<1>7. CASE AnsweredCv(i)
  <2>1. UNCHANGED <<status, presses>>
    BY <1>7 DEF AnsweredCv
  <2> QED
    BY <1>1, <1>2, <1>7, <2>1, AnsweredCvCarries
<1>8. CASE LogoutHere(i)
  <2>1. UNCHANGED <<status, presses>>
    BY <1>8 DEF LogoutHere
  <2> QED
    BY <1>1, <1>2, <1>8, <2>1, LogoutHereCarries DEF Along
<1>9. ASSUME calls' = Restrict(calls, DOMAIN calls \ {i}), UNCHANGED <<status, presses>>
      PROVE  MessagesFit'
  BY <1>1, <1>2, <1>9, DroppedCarries DEF Along
<1>10. CASE AskForCode(i)
  BY <1>9, <1>10 DEF AskForCode, Stuck
<1>11. ASSUME NEW how, ShowProfile(i, how) PROVE MessagesFit'
  BY <1>9, <1>11 DEF ShowProfile
<1>12. ASSUME NEW how, ShowKnown(i, how) PROVE MessagesFit'
  <2>1. CASE calls[i].what = "load"
    BY <1>9, <1>12, <2>1 DEF ShowKnown, Stuck
  <2>2. CASE calls[i].what # "load"
    <3>1. End(i, "success") /\ UNCHANGED presses
      BY <1>12, <2>2 DEF ShowKnown
    <3> QED
      BY <2>2, <3>1, EndFits
  <2> QED
    BY <2>1, <2>2
<1>13. CASE Unanswered(i)
  <2>1. End(i, "error") /\ UNCHANGED presses
    BY <1>13 DEF Unanswered
  <2>2. calls[i].what # "load"
    BY <1>1, <1>13, Stages DEF Unanswered, Sent, Reading
  <2> QED
    BY <2>1, <2>2, EndFits
<1>14. CASE Uncaughts(i)
  BY <1>9, <1>14 DEF Uncaughts, Stuck
<1>15. CASE Enter(i) \/ LoggedOut(i)
  BY <1>3, <1>15 DEF Enter, LoggedOut, Mount
<1>16. CASE AnsweredLogin(i) \/ \E how : ShowPortrait(i, how)
  BY <1>16, ReleasedFits, PortraitFits
<1> QED
  BY <1>4, <1>5, <1>6, <1>7, <1>8, <1>10, <1>11, <1>12, <1>13, <1>14, <1>15, <1>16 DEF Client

LEMMA MessagesStep ==
    ASSUME HeldInv, [Next]_vars
    PROVE  MessagesFit'
<1>1. IInv /\ presses \in Nat
  BY DEF HeldInv, IInv, Numbers
<1>2. ASSUME Carried, UNCHANGED status, presses' = presses \/ presses' = presses + 1
      PROVE  MessagesFit'
  <2>1. presses' \in Nat /\ presses <= presses'
    BY <1>1, <1>2
  <2> QED
    BY <1>2, <2>1, CarriedFit
<1>3. ASSUME NEW p, Mount(p) PROVE MessagesFit'
  <2>1. DOMAIN status' = {}
    BY <1>3 DEF Mount, Mounted, Nothing
  <2> QED
    BY <2>1, AllTold
<1>4. ASSUME NEW p, Open(p) \/ Go(p) PROVE MessagesFit'
  BY <1>3, <1>4 DEF Open, Go
<1>5. CASE Close
  BY <1>3, <1>5 DEF Close
<1>6. Carried \/ calls' # calls
  BY <1>1, NothingCarries DEF Along
<1>7. CASE Others \/ SessionEnds
  BY <1>2, <1>6, <1>7 DEF Others, SessionEnds, Count
<1>8. CASE Token \/ Prompt \/ UNCHANGED vars
  BY <1>2, <1>6, <1>8 DEF Token, Prompt, Arm, Cancel, vars, ui
<1>9. ASSUME NEW t, Tick(t) PROVE MessagesFit'
  <2>1. /\ DOMAIN status' \subseteq DOMAIN status
        /\ \A k \in DOMAIN status' : status'[k] = status[k]
    BY <1>9 DEF Tick, Restrict
  <2>2. Carried /\ presses' \in Nat /\ presses <= presses'
    BY <1>1, <1>6, <1>9 DEF Tick
  <2> QED
    BY <2>1, <2>2, CarriedFit
<1>10. ASSUME NEW row, Toggle(row) PROVE MessagesFit'
  <2>1. NoCall \notin DOMAIN calls
    BY <1>1, UiAssumption DEF IInv, CallsFit, Calls, Second, NoCall
  <2>2. PICK open : Rendered(shown, open, NoCall, "none")
    BY <1>10 DEF Toggle
  <2>3. UNCHANGED presses
    BY <1>10 DEF Toggle
  <2> QED
    BY <2>1, <2>2, <2>3, RenderedFits
<1>11. CASE ListControls
  BY <1>10, <1>11, ListPresses, PressedFits
<1>12. CASE FormControls
  <2>1. ASSUME UNCHANGED ui PROVE MessagesFit'
    BY <1>2, <1>6, <2>1 DEF ui
  <2> QED
    BY <1>12, <2>1, FormPresses, PressedFits, LogoutFits
<1>13. ASSUME NEW i \in DOMAIN calls, Network(i) PROVE MessagesFit'
  <2>1. UNCHANGED <<status, presses>>
    BY <1>13 DEF Network, OwnToken, Dropped, Fetch, FetchPart
  <2>2. Carried
    BY <1>1, <1>13, OwnTokenCarries, DroppedCarries, FetchCarries, FetchPartCarries
       DEF Network, Along, Dropped
  <2> QED
    BY <1>2, <2>1, <2>2
<1>14. ASSUME NEW i \in DOMAIN calls, Backend(i) PROVE MessagesFit'
  <2>1. calls[i].at = "sent" /\ \E value, got : Accepted(i, StoreOf(i), value, got)
    BY <1>14, BackendWrites
  <2>2. UNCHANGED <<status, presses>>
    BY <2>1 DEF Accepted
  <2>3. Carried
    BY <1>1, <2>1, AcceptedCarries DEF Along
  <2> QED
    BY <1>2, <2>2, <2>3
<1>15. ASSUME NEW i \in DOMAIN calls, Client(i) PROVE MessagesFit'
  BY <1>15, ClientFits
<1> QED
  BY <1>4, <1>5, <1>7, <1>8, <1>9, <1>11, <1>12, <1>13, <1>14, <1>15 DEF Next, Messages

-----------------------------------------------------------------------------
(* The profile.                                                             *)

StartsLined == \A s \in Starts : Lined(s.profile)

\* Only a write of the profile changes it, and only what others write is not its.
LEMMA ProfileWrites ==
    ASSUME HeldInv, NEW i \in DOMAIN calls, Backend(i)
    PROVE  \/ rev'.profile = rev.profile /\ db'.profile = db.profile
           \/ /\ calls[i].what = "profile" /\ calls[i].at = "sent"
              /\ db'.profile = calls[i].data.body
<1>1. "profile" \in DOMAIN db /\ "profile" \in DOMAIN rev
  BY DEF HeldInv, DbFits, Stores
<1>2. ASSUME NEW store, store # "profile", NEW value, NEW got, Accepted(i, store, value, got)
      PROVE  rev'.profile = rev.profile /\ db'.profile = db.profile
  BY <1>1, <1>2 DEF Accepted
<1>3. CASE AcceptList(i)
  <2>1. StoreOf(i) # "profile" /\ \E value, got : Accepted(i, StoreOf(i), value, got)
    BY <1>3 DEF AcceptList, Lists
  <2> QED
    BY <1>2, <2>1
<1>4. CASE AcceptLogin(i)
  BY <1>2, <1>4 DEF AcceptLogin
<1>5. CASE AcceptLogout(i)
  BY <1>2, <1>5 DEF AcceptLogout
<1>6. CASE AcceptForm(i)
  <2>1. CASE calls[i].what = "profile" /\ Accepted(i, "profile", calls[i].data.body, None)
    BY <1>1, <1>6, <2>1 DEF AcceptForm, Admitted, Accepted
  <2>2. CASE \E store, value, got : store # "profile" /\ Accepted(i, store, value, got)
    BY <1>2, <2>2
  <2> QED
    BY <1>6, <2>1, <2>2 DEF AcceptForm
<1> QED
  BY <1>3, <1>4, <1>5, <1>6 DEF Backend

LEMMA LinedStep ==
    ASSUME HeldInv, KeptInv, StartsLined, [Next]_vars
    PROVE  Lined(db'.profile)
<1>1. Lined(db.profile) /\ "profile" \in DOMAIN db
  BY DEF KeptInv, HeldInv, DbFits, Stores
<1>2. CASE Others
  <2>1. db'.profile = db.profile \/ \E s \in Starts : db'.profile = s.profile
    BY <1>1, <1>2 DEF Others
  <2> QED
    BY <1>1, <2>1 DEF StartsLined
<1>3. ASSUME NEW i \in DOMAIN calls, Backend(i) PROVE Lined(db'.profile)
  <2>1. CASE db'.profile = db.profile
    BY <1>1, <2>1
  <2>2. CASE /\ calls[i].what = "profile" /\ calls[i].at = "sent"
             /\ db'.profile = calls[i].data.body
    BY <2>2 DEF KeptInv, CallsKept, Kept, Unread
  <2> QED
    BY <1>3, <2>1, <2>2, ProfileWrites
<1> QED
  BY <1>1, <1>2, <1>3, Writers

LEMMA FormStaysCurrent ==
    ASSUME HeldInv, KeptInv, [Next]_vars
    PROVE  Current(formRev, ToBody(form))'
<1>1. /\ DbFits /\ DbFits' /\ Grows /\ formRev \in Nat
      /\ Current(formRev, ToBody(form))
  BY DbStep DEF HeldInv, KeptInv, PageFits, FormFits
<1>2. ASSUME UNCHANGED <<form, formRev>> PROVE Current(formRev, ToBody(form))'
  <2>1. PICK r \in Nat : r = formRev
    BY <1>1
  <2>2. PICK profile : profile = ToBody(form)
    OBVIOUS
  <2>3. Current(r, profile)'
    BY <1>1, <2>1, <2>2, StaysCurrent
  <2>4. ToBody(form)' = profile /\ formRev' = r
    BY <1>2, <2>1, <2>2 DEF ToBody
  <2> QED
    BY <2>3, <2>4 DEF Current
<1>3. ASSUME formRev' = 0 PROVE Current(formRev, ToBody(form))'
  <2>1. rev'.profile \in Nat \ {0}
    BY <1>1 DEF DbFits, Stores
  <2> QED
    BY <1>3, <2>1 DEF Current
<1>4. ASSUME NEW i \in DOMAIN calls, NEW how \in Ends(i), ShowProfile(i, how), how = "loaded"
      PROVE  Current(formRev, ToBody(form))'
  <2>1. /\ calls[i].at = "loaded" /\ i = 0 /\ page = "profile" /\ UNCHANGED <<db, rev>>
        /\ form' = FromResponse(calls[i].got) /\ formRev' = calls[i].gotRev
    BY <1>4 DEF ShowProfile, Ends
  <2>2. StoreOf(i) = "profile"
    BY <2>1, WhatIsRead, UiAssumption DEF Reading, Second
  <2>3. Current(calls[i].gotRev, calls[i].got)
    BY <2>1, <2>2 DEF KeptInv, CallsKept, Kept
  <2>4. ASSUME calls[i].gotRev = rev.profile PROVE ToBody(form)' = db.profile
    <3>1. calls[i].got = db.profile /\ Lined(db.profile)
      BY <2>3, <2>4 DEF Current, KeptInv
    <3>2. db.profile \in Profile
      <4>1. "profile" \in Stores /\ Content("profile") = Profile
        BY DEF Stores, Content, Lists
      <4> QED
        BY <1>1, <4>1 DEF DbFits
    <3>3. ToBody(form)' = ToBody(form')
      BY DEF ToBody
    <3> QED
      BY <2>1, <3>1, <3>2, <3>3, FormIsInverse
  <2> QED
    BY <2>1, <2>3, <2>4 DEF Current
<1>5. ASSUME NEW i \in DOMAIN calls, NEW how \in Ends(i), ShowProfile(i, how)
      PROVE  Current(formRev, ToBody(form))'
  BY <1>2, <1>4, <1>5 DEF ShowProfile
<1>6. CASE FormIsStill
  BY <1>2, <1>6 DEF FormIsStill
<1>7. CASE MountedForms \/ \E f \in Drafts : Edit(f)
  BY <1>3, <1>7 DEF MountedForms, Edit
<1>8. CASE Adjust
  BY <1>2, <1>8 DEF Adjust
<1>9. ASSUME NEW i, AnsweredForm(i) \/ AskForCode(i) PROVE Current(formRev, ToBody(form))'
  BY <1>2, <1>9 DEF AnsweredForm, AskForCode
<1>10. ASSUME NEW i, NEW how, ShowPortrait(i, how) \/ ShowKnown(i, how)
       PROVE  Current(formRev, ToBody(form))'
  BY <1>2, <1>10 DEF ShowPortrait, ShowKnown
<1>11. FormFits
  BY DEF HeldInv, PageFits
<1> QED
  BY <1>5, <1>6, <1>7, <1>8, <1>9, <1>10, <1>11, FormMoves

LEMMA KeptStep ==
    ASSUME HeldInv, KeptInv, StartsLined, [Next]_vars
    PROVE  KeptInv'
<1>1. CallsKept'
  BY CallsStep DEF CallsGo
<1>2. Lined(db.profile)'
  BY LinedStep DEF Lined
<1> QED
  BY <1>1, <1>2, FormStaysCurrent DEF KeptInv

\* What the save of a profile that was not edited stores is what was there.
LEMMA KeptSave ==
    ASSUME HeldInv, KeptInv, [Next]_vars,
           NEW i \in DOMAIN calls, calls[i].what = "profile", calls[i].at = "sent",
           calls[i].data.of = rev.profile, rev'.profile # rev.profile, calls' # calls,
           i \notin DOMAIN calls' \/ calls'[i].at = "done"
    PROVE  db'.profile = db.profile
<1>1. PICK j \in DOMAIN calls : Backend(j)
  BY Writers DEF Others
<1>2. PICK store, value, got : Accepted(j, store, value, got)
  BY <1>1, BackendWrites
<1>3. j = i
  <2> SUFFICES ASSUME j # i PROVE i \in DOMAIN calls' /\ calls'[i] = calls[i]
    OBVIOUS
  <2>1. CASE calls' = Restrict(calls, DOMAIN calls \ {j})
    BY <2>1 DEF Restrict
  <2>2. CASE calls' = [calls EXCEPT ![j].at = "done", ![j].rev = rev[store] + 1, ![j].got = got]
    BY <2>2
  <2> QED
    BY <1>2, <2>1, <2>2 DEF Accepted
<1>4. db'.profile = calls[i].data.body
  BY <1>1, <1>3, ProfileWrites
<1>5. Current(calls[i].data.of, calls[i].data.body)
  BY DEF KeptInv, CallsKept, Kept, Unread
<1> QED
  BY <1>4, <1>5 DEF Current

-----------------------------------------------------------------------------
(* Success.                                                                 *)

LEMMA OldOrReported ==
    ASSUME NEW i, NEW st, NEW s, NEW k \in DOMAIN Reported(i, st, s)
    PROVE  \/ k \in DOMAIN st /\ Reported(i, st, s)[k] = st[k]
           \/ Reported(i, st, s)[k] = [state |-> s, of |-> i]
BY DEF Reported, Put

\* On the page of a list, only a call that has loaded it reports a success.
LEMMA SuccessComes ==
    ASSUME HeldInv, [Next]_vars, page \in Lists, page' = page,
           NEW k \in DOMAIN status', NEW i, status'[k] = [state |-> "success", of |-> i]
    PROVE  \/ k \in DOMAIN status /\ status'[k] = status[k]
           \/ i \in DOMAIN calls /\ \E how \in Ends(i) : ShowList(i, how)
<1> DEFINE Old == k \in DOMAIN status /\ status'[k] = status[k]
           Shown(j) == j \in DOMAIN calls /\ \E how \in Ends(j) : ShowList(j, how)
<1> SUFFICES Old \/ Shown(i)
  OBVIOUS
<1>1. ASSUME UNCHANGED status PROVE Old
  BY <1>1
<1>2. ASSUME NEW p, Mounted(p) PROVE FALSE
  BY <1>2 DEF Mounted, Nothing
<1>3. ASSUME NEW j, NEW s, s # "success", End(j, s) PROVE Old
  <2>1. [state |-> s, of |-> j].state # status'[k].state
    BY <1>3
  <2>2. status' = Reported(j, status, s)
    BY <1>3 DEF End
  <2> QED
    BY <2>1, <2>2, OldOrReported
<1>4. ASSUME NEW j, NEW list, NEW open, NEW s, Rendered(list, open, j, s), ~Old
      PROVE  j \in DOMAIN calls /\ j = i
  <2> DEFINE kept == Restrict(status, {l \in DOMAIN status : Stays(l, list, open)})
  <2>1. status' = kept \/ (j \in DOMAIN calls /\ status' = Reported(j, kept, s))
    BY <1>4 DEF Rendered
  <2>2. k \in DOMAIN kept => kept[k] = status[k] /\ k \in DOMAIN status
    BY DEF Restrict
  <2> HIDE DEF kept
  <2>3. ~(k \in DOMAIN kept /\ status'[k] = kept[k])
    BY <1>4, <2>2
  <2>4. status' = Reported(j, kept, s) /\ j \in DOMAIN calls
    BY <2>1, <2>3
  <2>5. [state |-> s, of |-> j] = [state |-> "success", of |-> i]
    BY <2>3, <2>4, OldOrReported
  <2>6. [state |-> s, of |-> j].of = [state |-> "success", of |-> i].of
    BY <2>5
  <2> QED
    BY <2>4, <2>6
<1>5. ASSUME Pressed PROVE Old
  <2>1. PICK what, row, at, data : Run(what, row, at, data)
    BY <1>5 DEF Pressed
  <2> DEFINE l == [what |-> what, row |-> row]
             e == [state |-> "pending", of |-> presses + 1]
  <2>2. status' = Put(status, l, e) /\ e.state # status'[k].state
    BY <2>1 DEF Run
  <2> HIDE DEF l, e
  <2> QED
    BY <2>2 DEF Put
<1>6. ASSUME NEW t, Tick(t) PROVE Old
  BY <1>6 DEF Tick, Restrict
<1>7. ASSUME NEW row, Toggle(row) PROVE Old
  <2>1. PICK open : Rendered(shown, open, NoCall, "none")
    BY <1>7 DEF Toggle
  <2>2. NoCall \notin DOMAIN calls
    BY UiAssumption DEF HeldInv, IInv, CallsFit, Calls, Second, NoCall
  <2> QED
    BY <1>4, <2>1, <2>2
<1>8. ASSUME NEW j \in DOMAIN calls, NEW how \in Ends(j), ShowList(j, how), ~Old PROVE Shown(i)
  <2>1. PICK list, open, s : Rendered(list, open, j, s)
    BY <1>8 DEF ShowList
  <2>2. j = i
    BY <1>4, <1>8, <2>1
  <2> QED
    BY <1>8, <2>2
<1>9. ASSUME NEW j \in DOMAIN calls, Client(j) PROVE Old \/ Shown(i)
  <2>1. CASE AnsweredForm(j)
    <3>1. Placed(j) /\ ~calls[j].gone
      BY <1>9, CallFacts DEF Client
    <3>2. page \in Home(calls[j].what)
      BY <3>1 DEF Placed
    <3> QED
      BY <2>1, <3>2 DEF AnsweredForm, Home, Lists
  <2>2. CASE AnsweredLogin(j) \/ \E how : ShowPortrait(j, how)
    BY <2>2 DEF AnsweredLogin, ShowPortrait, Restrict
  <2>3. ASSUME NEW how, ShowKnown(j, how) PROVE FALSE
    BY <2>3 DEF ShowKnown, Lists
  <2>4. CASE Enter(j) \/ LoggedOut(j)
    BY <1>2, <2>4 DEF Enter, LoggedOut, Mount
  <2>5. CASE Unanswered(j)
    BY <1>3, <2>5 DEF Unanswered
  <2>6. CASE \/ AnsweredList(j) \/ AnsweredCv(j) \/ AskForCode(j) \/ LogoutHere(j)
             \/ Uncaughts(j) \/ \E how : ShowProfile(j, how)
    BY <1>1, <2>6 DEF AnsweredList, AnsweredCv, AskForCode, LogoutHere, Uncaughts, Stuck,
         ShowProfile
  <2>7. CASE \E how \in Ends(j) : ShowList(j, how)
    BY <1>8, <2>7
  <2> HIDE DEF Old, Shown
  <2> QED
    BY <1>9, <2>1, <2>2, <2>3, <2>4, <2>5, <2>6, <2>7 DEF Client
<1>10. ASSUME NEW j, Network(j) PROVE Old
  BY <1>1, <1>10 DEF Network, OwnToken, Dropped, Fetch, FetchPart
<1>11. ASSUME NEW j, Backend(j) PROVE Old
  BY <1>1, <1>11 DEF Backend, AcceptList, AcceptForm, AcceptLogin, AcceptLogout, Accepted
<1>12. ASSUME NEW p, Open(p) \/ Go(p) PROVE FALSE
  BY <1>2, <1>12 DEF Open, Go, Mount
<1>13. CASE Close
  BY <1>2, <1>13 DEF Close, Mount
<1>14. CASE Others \/ SessionEnds \/ Token \/ Prompt \/ UNCHANGED vars
  BY <1>1, <1>14 DEF Others, SessionEnds, Token, Prompt, Arm, Cancel, vars, ui
<1>15. CASE ListControls
  BY <1>5, <1>7, <1>15, ListPresses
<1>16. CASE FormControls
  BY <1>1, <1>5, <1>16, FormPresses DEF Logout, ui
<1> HIDE DEF Old, Shown
<1> QED
  BY <1>6, <1>9, <1>10, <1>11, <1>12, <1>13, <1>14, <1>15, <1>16 DEF Next, Messages

LEMMA SuccessStep ==
    ASSUME HeldInv, [Next]_vars, page \in Lists, page' = page,
           NEW i \in DOMAIN calls, calls[i].rev > 0, calls[i].at \notin {"loading", "half"},
           Key(calls[i]) \in DOMAIN status',
           status'[Key(calls[i])] = [state |-> "success", of |-> i]
    PROVE  shownRev' >= calls[i].rev
<1>1. PICK k \in DOMAIN status' : k = Key(calls[i])
  OBVIOUS
<1> DEFINE m == [state |-> "success", of |-> i]
           p == [state |-> "pending", of |-> i]
<1>2. m.of = i /\ m.state # p.state
  OBVIOUS
<1>3. ~(k \in DOMAIN status /\ status'[k] = status[k])
  <2> SUFFICES ASSUME k \in DOMAIN status, status[k] = m PROVE FALSE
    BY <1>1
  <2> HIDE DEF m, p
  <2>1. Told(k, m)
    BY DEF HeldInv, MessagesFit
  <2>2. Reports(i)
    BY <1>2, <2>1 DEF Told
  <2>3. status[k] = p
    BY <1>1, <2>2 DEF HeldInv, IInv, OneCallPerControl, p
  <2> QED
    BY <1>2, <2>3
<1>4. PICK how \in Ends(i) : ShowList(i, how)
  BY <1>1, <1>3, SuccessComes
<1>5. calls[i].at = "loaded" /\ how = "loaded"
  BY DEF Ends
<1>6. shownRev' = calls[i].gotRev
  BY <1>4, <1>5 DEF ShowList
<1> QED
  BY <1>5, <1>6, CallFacts DEF Dated

-----------------------------------------------------------------------------
(* The theorems.                                                            *)

LEMMA InitHolds ==
    ASSUME Init
    PROVE  HeldInv /\ (StartsLined => KeptInv)
<1>1. IInv
  BY InitIsSound
<1>2. PICK s \in Starts :
        /\ db = [links |-> <<R(1, "link", 0)>>, skills |-> StoredSkills,
                 portfolio |-> <<R(1, "repo", 0), R(2, "repo", 0)>>,
                 profile |-> s.profile, portrait |-> None, cv |-> "no", security |-> s.factor]
        /\ session = s.session
  BY DEF Init
<1>3. s.profile \in Profile /\ s.factor \in {"no", "yes"} /\ s.session \in BOOLEAN
  BY AdminAssumption
<1>4. DOMAIN db = Stores /\ rev = [store \in Stores |-> 1]
  <2>1. DOMAIN db = Stores
    BY <1>2 DEF Stores
  <2> QED
    BY <2>1 DEF Init
<1>5. /\ db.links \in Seq(Row) /\ db.skills \in Seq(Row) /\ db.portfolio \in Seq(Row)
      /\ db.profile = s.profile /\ db.portrait = None /\ db.cv = "no" /\ db.security = s.factor
  <2>1. R(1, "link", 0) \in Row /\ R(1, "repo", 0) \in Row /\ R(2, "repo", 0) \in Row
    BY RowsHaveFields DEF Kinds
  <2>2. <<R(1, "link", 0)>> \in Seq(Row) /\ <<R(1, "repo", 0), R(2, "repo", 0)>> \in Seq(Row)
    BY <2>1
  <2>3. StoredSkills \in Seq(Row)
    BY AdminAssumption
  <2> QED
    BY <1>2, <2>2, <2>3
<1>6. DbFits
  <2>1. \A store \in Stores : db[store] \in Content(store)
    <3>1. /\ Content("links") = Seq(Row) /\ Content("skills") = Seq(Row)
          /\ Content("portfolio") = Seq(Row) /\ Content("profile") = Profile
          /\ Content("portrait") = Crop \cup {None}
          /\ Content("cv") = {"no", "yes"} /\ Content("security") = {"no", "yes"}
      BY DEF Content, Lists
    <3> QED
      BY <1>3, <1>5, <3>1 DEF Stores
  <2> QED
    BY <1>4, <2>1 DEF DbFits
<1>7. ListFits
  <2>1. Range(<<>>) = {}
    BY DEF Range
  <2> QED
    BY <2>1 DEF Init, ListFits
<1>8. FormFits
  <2>1. Empty \in Form
    BY DEF Empty, Form, Texts
  <2> QED
    BY <1>2, <1>3, <2>1 DEF Init, FormFits
<1>9. PageFits
  BY <1>7, <1>8 DEF Init, PageFits, Pages
<1>10. DOMAIN calls = {} /\ DOMAIN status = {}
  BY DEF Init, Nothing
<1>11. HeldInv
  BY <1>1, <1>6, <1>9, <1>10 DEF HeldInv, MessagesFit, CallsHold
<1>12. ASSUME StartsLined PROVE KeptInv
  <2>1. Lined(db.profile)
    BY <1>5, <1>12 DEF StartsLined
  <2>2. Current(formRev, ToBody(form))
    BY <1>4 DEF Init, Current, Stores
  <2> QED
    BY <1>10, <2>1, <2>2 DEF KeptInv, CallsKept
<1> QED
  BY <1>11, <1>12

LEMMA HeldStep ==
    ASSUME HeldInv, [Next]_vars
    PROVE  HeldInv'
<1>1. IInv'
  BY NextKeeps DEF HeldInv
<1> QED
  BY <1>1, PageStep, DbStep, MessagesStep, CallsStep DEF HeldInv, CallsGo

\* Every call is on the page it belongs to until that page is left, and what it
\* has read since its write is that write or a later one: load is called after
\* the await of the write in every list (admin/links/page.tsx, skills, portfolio).
THEOREM CallsReadWhatTheyWrote == Spec => []HeldInv
<1>1. Init => HeldInv
  BY InitHolds
<1>2. HeldInv /\ [Next]_vars => HeldInv'
  BY HeldStep
<1> QED
  BY <1>1, <1>2, PTL DEF Spec

\* The state of the admin pages has its types, whatever forms, profiles and
\* skills there are: the prompts belong to rows of the list, a message to a press,
\* and what is loaded into a form is what that form shows.
THEOREM AdminIsTyped == Spec => []TypeOK
<1>1. HeldInv => TypeOK
  <2> SUFFICES ASSUME HeldInv PROVE TypeOK
    OBVIOUS
  <2>1. /\ CallsFit /\ TimersOfSuccess /\ presses \in 0 .. MaxPresses
        /\ PageFits /\ ListFits /\ FormFits /\ MessagesFit
    BY DEF HeldInv, IInv, Numbers, PageFits
  <2>2. ASSUME NEW k \in DOMAIN status
        PROVE  /\ status[k].state \in {"pending", "success", "error"}
               /\ status[k].of \in 1 .. MaxPresses
    <3>1. Told(k, status[k])
      BY <2>1 DEF MessagesFit
    <3> QED
      BY <2>1, <3>1, UiAssumption DEF Told
  <2>3. ASSUME NEW t \in ticking PROVE t.of \in 1 .. MaxPresses
    <3>1. t.key \in DOMAIN status /\ t = [key |-> t.key, of |-> status[t.key].of]
      BY <2>1 DEF TimersOfSuccess
    <3>2. [key |-> t.key, of |-> status[t.key].of].of = status[t.key].of
      OBVIOUS
    <3>3. t.of = status[t.key].of
      BY <3>1, <3>2
    <3> QED
      BY <2>2, <3>1, <3>3
  <2>4. DOMAIN calls \subseteq Calls
    BY <2>1 DEF CallsFit
  <2>5. \A i \in DOMAIN calls :
          calls[i].at \in {"csrf", "sent", "done", "released", "loading", "half", "loaded"}
    BY CallFacts DEF Placed
  <2> QED
    BY <2>1, <2>2, <2>3, <2>4, <2>5 DEF TypeOK, PageFits, ListFits, FormFits
<1> QED
  BY <1>1, CallsReadWhatTheyWrote, PTL

\* A list reports a write as done only when it shows what came of it: for every
\* number of presses, in every order of the loads of other rows and of the writes
\* of others (await load() before run reports, components/admin/ui.tsx).
THEOREM ListsShowWhatTheyReport == Spec => SuccessIsShown
<1>1. HeldInv /\ [Next]_vars =>
        [\A i \in DOMAIN calls :
            (/\ page \in Lists /\ page' = page
             /\ calls[i].rev > 0 /\ calls[i].at \notin {"loading", "half"}
             /\ Key(calls[i]) \in DOMAIN status'
             /\ status'[Key(calls[i])] = [state |-> "success", of |-> i])
            => shownRev' >= calls[i].rev]_vars
  BY SuccessStep
<1> QED
  BY <1>1, CallsReadWhatTheyWrote, PTL DEF Spec, SuccessIsShown

\* Saving a profile that was loaded and not edited changes nothing, for every
\* profile whose address, if it has one, has a line: those that this form can store,
\* while the schema would also take an address of empty lines. FromResponse and
\* toBody are inverse on these, and no load, edit or save of another tab comes
\* between them unnoticed (admin/profile/page.tsx).
THEOREM UneditedProfileIsKept ==
    ASSUME StartsLined
    PROVE  Spec => ProfileKept
<1>1. Init => HeldInv /\ KeptInv
  BY InitHolds
<1>2. HeldInv /\ KeptInv /\ [Next]_vars => (HeldInv /\ KeptInv)'
  BY HeldStep, KeptStep
<1>3. HeldInv /\ KeptInv /\ [Next]_vars =>
        [\A i \in DOMAIN calls :
            (/\ calls[i].what = "profile" /\ calls[i].at = "sent"
             /\ calls[i].data.of = rev.profile
             /\ rev'.profile # rev.profile /\ calls' # calls
             /\ i \notin DOMAIN calls' \/ calls'[i].at = "done")
            => db'.profile = db.profile]_vars
  BY KeptSave
<1> QED
  BY <1>1, <1>2, <1>3, PTL DEF Spec, ProfileKept

=============================================================================
