------------------------------ MODULE AdminUi ------------------------------
(***************************************************************************)
(* What the admin pages share (components/admin/ui.tsx, useCsrf.ts,        *)
(* lib/adminClient.ts): one page is open, its controls send writes, and    *)
(* each control reports the outcome of its own.                            *)
(*                                                                         *)
(* A call is a write, or a load, from the press of a button until its      *)
(* outcome is shown; it has the number of the press, and loads of a page   *)
(* that was just opened have numbers of their own.  Where a call is:       *)
(*                                                                         *)
(*   csrf     it fetches its token first     loading  data is asked for    *)
(*   sent     it is on its way               half     a part of it is read *)
(*   done     it was accepted                loaded   it was read          *)
(*   released it was answered, and the sign-in goes on with what it got     *)
(*                                                                         *)
(* A call that is refused or lost says so in one step: nothing depends on  *)
(* when that was decided.                                                  *)
(*                                                                         *)
(* The backend is what the writes do to the data of each page, and a       *)
(* revision that counts the changes.                                       *)
(***************************************************************************)
EXTENDS Naturals, Sequences, Functions

CONSTANTS
    None,
    MaxPresses      \* bound: presses of buttons, and what others do

ASSUME UiAssumption == MaxPresses \in Nat

VARIABLES
    page,       \* the page that is open
    token,      \* useCsrf has got its token
    status,     \* the outcomes reported: control -> state and call, or no entry
    ticking,    \* the timers that take a success message away
    armed,      \* the rows whose ConfirmButton asks to confirm
    calls,      \* the calls under way, by number
    presses,    \* how many there have been
    db,         \* the backend: the data of each page
    rev         \* the backend: the revision of each

ui == <<page, token, status, ticking, armed, calls, presses, db, rev>>

-----------------------------------------------------------------------------
AdminPages == {"overview", "profile", "portfolio", "skills", "cv", "links", "security"}
Pages      == AdminPages \cup {"closed", "login"}

\* A row of a list, the form of a row, or the page as a whole. Its component is
\* another one when it is rendered elsewhere: a technology has its category, a
\* link that was revoked has no controls.
Kinds == {"page", "link", "revoked", "category", "technology", "repo", "form"}
Row   == [id : Nat, kind : Kinds, cat : Nat]

R(id, kind, cat) == [id |-> id, kind |-> kind, cat |-> cat]
Page == R(0, "page", 0)

\* New rows get the numbers of the calls that make them, after those of the
\* rows that are there from the start.
New(i) == i + 3

Put(f, k, v) == [x \in DOMAIN f \cup {k} |-> IF x = k THEN v ELSE f[x]]
Nothing      == [x \in {} |-> None]

\* get: what is reported next to a control.
State(k) == IF k \in DOMAIN status THEN status[k].state ELSE "idle"

Key(c) == [what |-> c.what, row |-> c.row]

Call(what, row, at, data) ==
    [what |-> what, row |-> row, at |-> at, data |-> data, token |-> token,
     gone |-> FALSE, there |-> TRUE, ok |-> FALSE, rev |-> 0, got |-> None, gotRev |-> 0]

\* Something that counts happens. What only prepares a press, like typing,
\* happens as long as one may follow.
MayPress == presses < MaxPresses
Count == MayPress /\ presses' = presses + 1

\* Variant: the timer of the message before goes on.
RunKeepsTimer(what, row, at, data) ==
    LET k == [what |-> what, row |-> row] IN
    /\ Count
    /\ State(k) # "pending"
    /\ status' = Put(status, k, [state |-> "pending", of |-> presses + 1])
    /\ calls' = Put(calls, presses + 1, Call(what, row, at, data))
    /\ UNCHANGED <<page, token, ticking, armed, db, rev>>

\* Variant: the button can be pressed again while it is pending.
RunTwice(what, row, at, data) ==
    LET k == [what |-> what, row |-> row] IN
    /\ Count
    /\ status' = Put(status, k, [state |-> "pending", of |-> presses + 1])
    /\ ticking' = {t \in ticking : t.key # k}
    /\ calls' = Put(calls, presses + 1, Call(what, row, at, data))
    /\ UNCHANGED <<page, token, armed, db, rev>>

\* run, from the press of a button that is not pending.
Run(what, row, at, data) ==
    LET k == [what |-> what, row |-> row] IN
    /\ Count
    /\ State(k) # "pending"
    /\ status' = Put(status, k, [state |-> "pending", of |-> presses + 1])
    /\ ticking' = {t \in ticking : t.key # k}
    /\ calls' = Put(calls, presses + 1, Call(what, row, at, data))
    /\ UNCHANGED <<page, token, armed, db, rev>>

\* The timer of a success message.
Tick(t) ==
    /\ t \in ticking
    /\ ticking' = ticking \ {t}
    /\ status' = Restrict(status, DOMAIN status \ {t.key})
    /\ UNCHANGED <<page, token, armed, calls, presses, db, rev>>

\* ConfirmButton: the first click arms it, Cancel takes that back at any time,
\* and Confirm, while nothing is pending, sends.
Arm(row) ==
    /\ MayPress /\ row \notin armed
    /\ armed' = armed \cup {row}
    /\ UNCHANGED <<page, token, status, ticking, calls, presses, db, rev>>

Cancel(row) ==
    /\ row \in armed
    /\ armed' = armed \ {row}
    /\ UNCHANGED <<page, token, status, ticking, calls, presses, db, rev>>

Confirm(what, row) == row \in armed /\ Run(what, row, "sent", 0)

Destructive == {"revoke", "deleteTechnology", "deleteCategory"}

\* Messages that no timer takes away: they are not reported by run.
Lasting == {"uploadPortrait", "uploadCv", "sync", "login"}

\* What no catch surrounds: without an answer the control is pending for good.
Uncaught == {"sync", "login"}

\* Keys of hooks that live in the page itself; the others live in a row.
OfPage == {"create", "expiry", "revoke"}

\* The outcome of call i is reported if its component is still there.
Reported(i, st, s) ==
    IF calls[i].there \/ calls[i].what \in OfPage
    THEN Put(st, Key(calls[i]), [state |-> s, of |-> i])
    ELSE st

Timers(i, s) ==
    IF s = "success" /\ calls[i].what \notin Lasting
       /\ (calls[i].there \/ calls[i].what \in OfPage)
    THEN {[key |-> Key(calls[i]), of |-> i]} ELSE {}

Prompts(i) == IF calls[i].what \in Destructive /\ calls[i].there THEN {calls[i].row} ELSE {}

\* A call ends with what it reports.
End(i, s) ==
    /\ status' = Reported(i, status, s)
    /\ ticking' = ticking \cup Timers(i, s)
    /\ armed' = armed \ Prompts(i)
    /\ calls' = Restrict(calls, DOMAIN calls \ {i})

\* A call that nothing catches ends, and leaves its control as it is.
Stuck(i) ==
    /\ calls' = Restrict(calls, DOMAIN calls \ {i})
    /\ UNCHANGED <<status, ticking, armed>>

\* useCsrf has fetched its token. Without it, writes are sent and refused.
Token ==
    /\ page \in {"links", "skills", "portfolio", "profile", "security"}
    /\ ~token
    /\ token' = TRUE
    /\ UNCHANGED <<page, status, ticking, armed, calls, presses, db, rev>>

\* getCsrfToken of a write that fetches its own.
OwnToken(i) ==
    /\ calls[i].at = "csrf"
    /\ calls' = [calls EXCEPT ![i].at = "sent", ![i].token = TRUE]
    /\ UNCHANGED <<page, token, status, ticking, armed, presses, db, rev>>

\* The loads that page p starts when it is mounted. The profile has two, one
\* of them for the portrait.
Second == MaxPresses + 1

Loads(p) == CASE p \in {"closed", "login", "overview"} -> {}
              [] p = "profile" -> {0, Second}
              [] OTHER -> {0}

\* Another page is mounted. Of the calls of the old one, only a write that has
\* still to be sent or to arrive matters any more. (The button to log out is
\* part of the layout, which stays. That a second sign-in which is answered after
\* the first has left the form leads to the overview once more is left out.)
Mounted(p) ==
    /\ page' = p
    /\ token' = FALSE
    /\ status' = Nothing /\ ticking' = {} /\ armed' = {}
    /\ LET stays == {i \in DOMAIN calls : calls[i].what = "logout" /\ p \in AdminPages}
           left  == {i \in DOMAIN calls : calls[i].at \in {"csrf", "sent"}} \ stays
       IN calls' = [i \in stays \cup left \cup Loads(p) |->
                        IF i \in stays THEN calls[i]
                        ELSE IF i \in left THEN [calls[i] EXCEPT !.gone = TRUE]
                        ELSE [Call("load", Page, "loading", 0) EXCEPT !.token = FALSE]]

\* What a call writes to, and a load reads from.
StoreOf(i) ==
    LET what == calls[i].what IN
    CASE what = "load" -> IF i = Second THEN "portrait" ELSE page
      [] what \in {"create", "expiry", "revoke"} -> "links"
      [] what \in {"entry", "sync"} -> "portfolio"
      [] what = "profile" -> "profile"
      [] what \in {"crop", "uploadPortrait"} -> "portrait"
      [] what = "uploadCv" -> "cv"
      [] what \in {"setup", "confirm", "login", "logout"} -> "security"
      [] OTHER -> "skills"

\* A call of a page that was left does not arrive.
Dropped(i) ==
    /\ calls[i].gone
    /\ calls' = Restrict(calls, DOMAIN calls \ {i})
    /\ UNCHANGED <<page, token, status, ticking, armed, presses, db, rev>>

\* The data is read for a load. (The skills are read in two parts.)
Fetch(i) ==
    /\ calls[i].at = "loading"
    /\ StoreOf(i) # "skills"
    /\ calls' = [calls EXCEPT ![i].at = "loaded", ![i].got = db[StoreOf(i)],
                              ![i].gotRev = rev[StoreOf(i)]]
    /\ UNCHANGED <<page, token, status, ticking, armed, presses, db, rev>>

\* How a load can end: with the data, with an answer that is not ok, or with none.
Ends(i) == IF calls[i].at = "loaded" THEN {"loaded"}
           ELSE IF calls[i].at \in {"loading", "half"} THEN {"unloaded", "failed"}
           ELSE {}

=============================================================================
