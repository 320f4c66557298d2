------------------------------- MODULE Admin -------------------------------
(***************************************************************************)
(* The admin area in one tab: the pages of AdminLists and AdminForms       *)
(* behind the layout that asks for the session (app/admin/layout.tsx), the *)
(* network, which may refuse or lose what is sent and answers in any       *)
(* order, and the backend, which others write to as well.                  *)
(***************************************************************************)
EXTENDS AdminLists, AdminForms

CONSTANTS
    Drafts,         \* forms the admin may type
    Starts,         \* profile, second factor and session there may be at the start
    StoredSkills    \* categories and technologies there are then

ASSUME AdminAssumption ==
    /\ Drafts \subseteq Form
    /\ Starts \subseteq [profile : Profile, factor : {"no", "yes"}, session : BOOLEAN]
    /\ StoredSkills \in Seq(Row)

vars == <<ui, lists, forms>>

-----------------------------------------------------------------------------
(* Coming and going.                                                        *)

Mount(p) == Mounted(p) /\ MountedLists /\ MountedForms

\* A page is opened by its address: AdminLayout asks for the session. (Without
\* one the way leads to authentik or to the password form, which stands for both.)
Open(p) ==
    /\ page \in {"closed", "login"} /\ p \in AdminPages
    /\ Count
    /\ Mount(IF session THEN p ELSE "login")
    /\ UNCHANGED <<db, rev>>

\* A link of the navigation: the layout stays as it is, and does not ask again.
Go(p) ==
    /\ page \in AdminPages /\ p \in AdminPages \ {page}
    /\ Count
    /\ Mount(p)
    /\ UNCHANGED <<db, rev>>

Close ==
    /\ page # "closed"
    /\ Mount("closed")
    /\ UNCHANGED <<presses, db, rev>>

\* enterAdmin: the layout asks for the session again.
Enter(i) ==
    /\ calls[i].at = "released" /\ calls[i].what = "login" /\ calls[i].got = "admin"
    /\ Mount(IF session THEN "overview" ELSE "login")
    /\ UNCHANGED <<presses, db, rev>>

\* The logout goes to authentik, or to the sign-in, which it does whatever the
\* answer of the password logout was.
LoggedOut(i) ==
    /\ calls[i].what = "logout"
    /\ calls[i].at = "done" \/ (calls[i].at = "sent" /\ calls[i].data = "password")
    /\ Mount(IF calls[i].data = "authentik" THEN "closed" ELSE "login")
    /\ UNCHANGED <<presses, db, rev>>

-----------------------------------------------------------------------------
(* The backend.                                                             *)

Accepted(i, store, value, got) ==
    /\ db' = [db EXCEPT ![store] = value]
    /\ rev' = [rev EXCEPT ![store] = @ + 1]
    /\ calls' = IF calls[i].gone THEN Restrict(calls, DOMAIN calls \ {i})
                ELSE [calls EXCEPT ![i].at = "done", ![i].rev = rev[store] + 1, ![i].got = got]
    /\ UNCHANGED <<page, token, status, ticking, armed, presses>> /\ UNCHANGED lists

\* The write is allowed: an admin session with its token.
Admitted(i) == calls[i].at = "sent" /\ session /\ calls[i].token

AcceptList(i) ==
    LET c     == calls[i]
        store == StoreOf(i)
    IN /\ Admitted(i) /\ store \in Lists
       /\ Exists(c.row, db[store])
       /\ c.what = "saveTechnology" /\ c.data # 0
            => R(c.data, "category", 0) \in Range(db[store])
       /\ \E list \in IF c.what = "sync" THEN Synced(db[store], New(i))
                      ELSE {Changed(db[store], c.what, c.row, c.data, New(i))} :
            Accepted(i, store, list, None)
       /\ UNCHANGED forms

AcceptForm(i) ==
    LET c == calls[i] IN
    /\ Admitted(i)
    /\ \/ c.what = "profile" /\ Accepted(i, "profile", c.data.body, None)
       \/ c.what = "crop" /\ db.portrait # None /\ Accepted(i, "portrait", c.data, None)
       \/ c.what = "uploadPortrait" /\ Accepted(i, "portrait", Start, None)
       \/ c.what = "uploadCv" /\ Accepted(i, "cv", "yes", None)
       \/ c.what = "setup" /\ db.security = "no" /\ Accepted(i, "security", "no", None)
       \/ c.what = "confirm" /\ db.security = "no" /\ Accepted(i, "security", "yes", None)
    /\ UNCHANGED forms

\* A password or a code, each with a new session in place of the one before, and
\* the end of a session.
AcceptLogin(i) ==
    LET c    == calls[i]
        asks == c.data = "password" /\ db.security = "yes"
    IN /\ c.at = "sent" /\ c.what = "login"
       /\ c.data = "code" => waiting /\ db.security = "yes"
       /\ Accepted(i, "security", db.security, IF asks THEN "code" ELSE "admin")
       /\ waiting' = asks
       /\ session' = ~asks
       /\ UNCHANGED <<form, formRev, crop, known, setup, step>>

AcceptLogout(i) ==
    LET c == calls[i] IN
    /\ c.at = "sent" /\ c.what = "logout"
    /\ c.data = "authentik" => session /\ c.token
    /\ Accepted(i, "security", db.security, None)
    /\ session' = FALSE /\ waiting' = FALSE
    /\ UNCHANGED <<form, formRev, crop, known, setup, step>>

Backend(i) == AcceptList(i) \/ AcceptForm(i) \/ AcceptLogin(i) \/ AcceptLogout(i)

\* Another tab, the sync, or a command on the server changes the data of a page.
Others ==
    LET Becomes(store, value) ==
            /\ db' = [db EXCEPT ![store] = value]
            /\ rev' = [rev EXCEPT ![store] = @ + 1]
    IN /\ Count
       /\ \/ Becomes("links", Changed(db.links, "create", Page, 0, New(presses + 1)))
          \/ \E r \in Range(db.links) : Becomes("links", Changed(db.links, "revoke", r, 0, 0))
          \/ \E r \in Range(db.skills) :
                Becomes("skills", Changed(db.skills, IF r.kind = "category" THEN "deleteCategory"
                                                     ELSE "deleteTechnology", r, 0, 0))
          \/ \E list \in Synced(db.portfolio, New(presses + 1)) : Becomes("portfolio", list)
          \/ \E s \in Starts : Becomes("profile", s.profile)
          \/ Becomes("portrait", Start)
          \/ \E s \in {"no", "yes"} : Becomes("security", s)
       /\ UNCHANGED <<page, token, status, ticking, armed, calls>> /\ UNCHANGED <<lists, forms>>

\* The session ends: it expires, or another tab logs out.
SessionEnds ==
    /\ Count
    /\ session \/ waiting
    /\ session' = FALSE /\ waiting' = FALSE
    /\ UNCHANGED <<page, token, status, ticking, armed, calls, db, rev>> /\ UNCHANGED lists
    /\ UNCHANGED <<form, formRev, crop, known, setup, step>>

-----------------------------------------------------------------------------
(* What the tab does.                                                       *)

\* It has not been answered.
Sent(i) == calls[i].at \in {"csrf", "sent", "done"}

\* Variant: run has no catch either.
UnansweredUncaught(i) ==
    /\ calls[i].what \notin {"sync", "logout"}
    /\ IF calls[i].what = "login" THEN calls[i].at = "sent" ELSE Sent(i)
    /\ (calls[i].at = "sent" /\ End(i, "error")) \/ Stuck(i)
    /\ UNCHANGED <<page, token, presses, db, rev>> /\ UNCHANGED <<lists, forms>>

\* The catch of run, and of the uploads: a write that was refused, or that got
\* no answer, has failed. The sign-in only knows the first.
Unanswered(i) ==
    /\ calls[i].what \notin {"sync", "logout"}
    /\ IF calls[i].what = "login" THEN calls[i].at = "sent" ELSE Sent(i)
    /\ End(i, "error")
    /\ UNCHANGED <<page, token, presses, db, rev>> /\ UNCHANGED <<lists, forms>>

\* The sync, the sign-in and the logout have no catch. (Of an answer to a
\* password, the body may be what cannot be read.)
Uncaughts(i) ==
    /\ calls[i].what \in Uncaught \cup {"logout"}
    /\ Sent(i) \/ (calls[i].at = "released" /\ calls[i].data = "password")
    /\ Stuck(i)
    /\ UNCHANGED <<page, token, presses, db, rev>> /\ UNCHANGED <<lists, forms>>

Network(i) ==
    /\ OwnToken(i) \/ Dropped(i) \/ Fetch(i)
       \/ \E kind \in {"category", "technology"} : FetchPart(i, kind)
    /\ UNCHANGED <<lists, forms>>

Client(i) ==
    /\ ~calls[i].gone
    /\ \/ (AnsweredList(i) \/ \E how \in Ends(i) : ShowList(i, how)) /\ UNCHANGED forms
       \/ /\ \/ AnsweredForm(i) \/ AnsweredCv(i) \/ AnsweredLogin(i) \/ AskForCode(i)
             \/ LogoutHere(i)
             \/ \E how \in Ends(i) : ShowProfile(i, how) \/ ShowPortrait(i, how) \/ ShowKnown(i, how)
          /\ UNCHANGED lists
       \/ Unanswered(i) \/ Uncaughts(i) \/ Enter(i) \/ LoggedOut(i)

Messages ==
    /\ Token \/ \E t \in ticking : Tick(t)
    /\ UNCHANGED <<lists, forms>>

Prompt ==
    /\ \/ \E r \in RowsOn(shown) : Arm(r) /\ r.kind \in {"link", "technology", "category"}
       \/ \E r \in armed : Cancel(r)
    /\ UNCHANGED <<lists, forms>>

ListControls ==
    /\ \/ Create \/ AddCategory \/ Sync
       \/ page \in Lists /\ \E r \in RowsOn(shown) \cup {Page} : PressRow(r)
       \/ \E r \in Range(shown) : Toggle(r)
    /\ UNCHANGED forms

FormControls ==
    /\ \/ SaveProfile \/ SaveCrop \/ UploadPortrait \/ UploadCv \/ Adjust
       \/ \E f \in Drafts : Edit(f)
       \/ StartSetup \/ ConfirmCode \/ SignIn \/ Logout
    /\ UNCHANGED lists

Init ==
    /\ page = "closed" /\ token = FALSE
    /\ status = Nothing /\ ticking = {} /\ armed = {} /\ calls = Nothing
    /\ presses = 0
    /\ \E s \in Starts :
        /\ db = [links |-> <<R(1, "link", 0)>>, skills |-> StoredSkills,
                 portfolio |-> <<R(1, "repo", 0), R(2, "repo", 0)>>,
                 profile |-> s.profile, portrait |-> None, cv |-> "no", security |-> s.factor]
        /\ session = s.session
    /\ rev = [s \in DOMAIN db |-> 1]
    /\ shown = <<>> /\ shownRev = 0 /\ loadError = FALSE /\ created = 0 /\ opened = 0
    /\ form = Empty /\ formRev = 0 /\ crop = None /\ known = "unknown" /\ setup = FALSE
    /\ step = "password" /\ waiting = FALSE

Next ==
    \/ \E p \in AdminPages : Open(p) \/ Go(p)
    \/ Close \/ Others \/ SessionEnds
    \/ Messages \/ Prompt \/ ListControls \/ FormControls
    \/ \E i \in DOMAIN calls : Network(i) \/ Backend(i) \/ Client(i)

Spec == Init /\ [][Next]_vars

\* Calls and timers go on: a request is answered or fails in the end, and the
\* client goes on with what it got. Nobody has to press anything. (That some call
\* goes on is less than that each does, and enough.)
Calls == 0 .. Second

Fairness ==
    WF_vars((\E i \in DOMAIN calls : Network(i) \/ Backend(i) \/ Client(i)) \/ Messages)

FairSpec == Spec /\ Fairness

-----------------------------------------------------------------------------
(* Properties.                                                              *)

\* The variables have their types; prompts belong to rows of the list, and what
\* is typed, loaded and cropped stays within what the forms can show.
TypeOK ==
    /\ page \in Pages /\ token \in BOOLEAN /\ presses \in 0 .. MaxPresses
    /\ \A k \in DOMAIN status :
        /\ status[k].state \in {"pending", "success", "error"}
        /\ status[k].of \in 1 .. MaxPresses
    /\ \A t \in ticking : t.of \in 1 .. MaxPresses
    /\ DOMAIN calls \subseteq Calls
    /\ \A i \in DOMAIN calls :
        calls[i].at \in {"csrf", "sent", "done", "released", "loading", "half", "loaded"}
    /\ Range(shown) \subseteq Row /\ armed \subseteq RowsOn(shown)
    /\ shownRev \in Nat /\ created \in Nat /\ opened \in Nat /\ formRev \in Nat
    /\ form \in Form /\ crop \in Crop \cup {None}
    /\ known \in {"unknown", "no", "yes"} /\ step \in {"password", "code"}
    /\ {loadError, setup, session, waiting} \subseteq BOOLEAN

\* A control has at most one call under way, and says that it is pending as long
\* as that lasts: run sets the state before it awaits anything, and the buttons
\* are disabled by it. (A row that went away and came back is another control.)
Reports(i) ==
    /\ calls[i].what \notin {"load", "logout"} /\ ~calls[i].gone
    /\ calls[i].there \/ calls[i].what \in OfPage

OneCallPerControl ==
    \A i \in DOMAIN calls : Reports(i) =>
        /\ Key(calls[i]) \in DOMAIN status
        /\ status[Key(calls[i])] = [state |-> "pending", of |-> i]

\* The address shown after a link was made is never that of an older link than
\* the last press was to make: create takes it away at once, and only an answer
\* to that press brings another one.
UrlIsTheNewest ==
    LET k == [what |-> "create", row |-> Page] IN
    created # 0 /\ k \in DOMAIN status
        => status[k].state # "error" /\ created = New(status[k].of)

\* What a control says stays until it is used again, the control goes with its
\* row, with the crop or with the page, or the timer of this very message takes
\* it: never the timer of the one before, which run has to clear.
MessageKeepsItsTime ==
    [][\A k \in DOMAIN status \ DOMAIN status' :
        page' = page /\ k.what # "login" /\ Stays(k, shown', opened')
        /\ (k.what = "crop" => crop' # None)
            => /\ status[k].state = "success"
               /\ [key |-> k, of |-> status[k].of] \in ticking]_vars

\* A list reports a write as done only when it shows what came of it, or its
\* reload failed, whatever other reloads and writes of others there are
\* meanwhile.
SuccessIsShown ==
    [][\A i \in DOMAIN calls :
        (/\ page \in Lists /\ page' = page
         /\ calls[i].rev > 0 /\ calls[i].at \notin {"loading", "half"}
         /\ Key(calls[i]) \in DOMAIN status'
         /\ status'[Key(calls[i])] = [state |-> "success", of |-> i])
        => shownRev' >= calls[i].rev]_vars

\* The security page that says that the second factor is on does not go back to
\* saying that it is off: no set-up can overtake the load of the status.
FactorStaysOn ==
    [][page = "security" /\ page' = page /\ known = "yes" => known' = "yes"]_vars

\* Saving a profile that was loaded and not edited, and that nobody has changed
\* since, changes nothing: what the form makes of the record and what it sends
\* for it are inverse, except for an address that has only empty lines, which is
\* sent as none (and which no profile of Starts has).
ProfileKept ==
    [][\A i \in DOMAIN calls :
        (/\ calls[i].what = "profile" /\ calls[i].at = "sent"
         /\ calls[i].data.of = rev.profile
         /\ rev'.profile # rev.profile /\ calls' # calls
         /\ i \notin DOMAIN calls' \/ calls'[i].at = "done")
        => db'.profile = db.profile]_vars

\* Every press that run reports on has an outcome in the end, and a success
\* message goes away again: run catches what its action throws, so again and
\* again nothing is pending. (The sync and the sign-in are without a catch, and
\* can be pending for good.)
Unsettled(k) ==
    /\ k.what \notin Uncaught
    /\ status[k].state = "pending" \/ (status[k].state = "success" /\ k.what \notin Lasting)

PendingEnds == []<>(\A k \in DOMAIN status : ~Unsettled(k))

=============================================================================
