----------------------------- MODULE AdminLists -----------------------------
(***************************************************************************)
(* The admin pages that show a list: the recruiter links, the skills and   *)
(* the portfolio (app/admin/links, skills and portfolio/page.tsx,          *)
(* components/admin/PortfolioEntryForm.tsx).  Each loads its list when it  *)
(* is opened and again after every write, before it reports the write.     *)
(*                                                                         *)
(* Of a row there is what it is and where it stands: names, topics, labels *)
(* and dates make no difference here.                                      *)
(***************************************************************************)
EXTENDS AdminUi, FiniteSets

VARIABLES
    shown,      \* the rows on the page
    shownRev,   \* history: the revision they were read at
    loadError,  \* the message of a load that failed
    created,    \* links: the link whose address is shown, 0 for none
    opened      \* portfolio: the repo whose form is open, 0 for none

lists == <<shown, shownRev, loadError, created, opened>>

-----------------------------------------------------------------------------
Lists == {"links", "skills", "portfolio"}

\* The rows of a list that are rendered. A technology stands under its category,
\* and nowhere when the list has it without that one.
RowsOn(list) ==
    {r \in Range(list) :
        r.kind = "technology" /\ r.cat # 0 => R(r.cat, "category", 0) \in Range(list)}

\* The component of a row, of a form or of the page is there.
Hosted(row, list, open) ==
    \/ row.kind = "page"
    \/ row \in RowsOn(list)
    \/ /\ row.kind = "form" /\ row.id = open
       /\ \E r \in Range(list) : r.id = row.id

\* Not the number of a call.
NoCall == MaxPresses + 2

Stays(k, list, open) == k.what \in OfPage \/ Hosted(k.row, list, open)

\* The page is rendered with another list or another form. Components that are
\* gone take their messages, timers and prompts with them, and their calls
\* report to nobody; call i, if it is one, ends with outcome s, or without any.
\* A row keeps its prompt wherever it stands in the list.
Rendered(list, open, i, s) ==
    /\ shown' = list
    /\ opened' = open
    /\ LET kept == Restrict(status, {k \in DOMAIN status : Stays(k, list, open)})
           ends == i \in DOMAIN calls /\ calls[i].what # "load" /\ s # "none"
           here == ends /\ Stays(Key(calls[i]), list, open)
       IN /\ status' = IF here THEN Reported(i, kept, s) ELSE kept
          /\ ticking' = {t \in ticking : Stays(t.key, list, open)}
                            \cup (IF here THEN Timers(i, s) ELSE {})
          /\ armed' = (armed \cap RowsOn(list)) \ (IF ends THEN Prompts(i) ELSE {})
    /\ calls' = [j \in DOMAIN calls \ {i} |->
                    [calls[j] EXCEPT !.there = @ /\ Hosted(calls[j].row, list, open)]]

\* What a write reports after its load. The sync reads the number of repos from
\* its answer only then, and stays pending when it cannot.
Outcomes(c) == CASE ~c.ok -> {"error"}
                 [] c.what = "sync" -> {"success", "none"}
                 [] OTHER -> {"success"}

\* load has its answer. An answer that is not ok empties the list of links; the
\* other pages keep what they show and say so, and the message stays.
ShowList(i, how) ==
    LET c == calls[i] IN
    /\ page \in Lists
    /\ how \in Ends(i)
    /\ \E s \in Outcomes(c) :
        Rendered(CASE how = "loaded" -> c.got
                   [] how = "unloaded" /\ page = "links" -> <<>>
                   [] OTHER -> shown,
                 opened, i, s)
    /\ shownRev' = IF how = "loaded" THEN c.gotRev ELSE shownRev
    /\ loadError' = (loadError \/ how = "failed" \/ (how = "unloaded" /\ page # "links"))
    /\ UNCHANGED <<page, token, presses, db, rev, created>>

-----------------------------------------------------------------------------
(* Links.                                                                   *)

\* Variant: the address of the link before stays.
CreateKeepsUrl ==
    /\ page = "links"
    /\ Run("create", Page, "sent", 0)
    /\ UNCHANGED lists

\* create: the address of the link before goes at once.
Create ==
    /\ page = "links"
    /\ Run("create", Page, "sent", 0)
    /\ created' = 0
    /\ UNCHANGED <<shown, shownRev, loadError, opened>>

SaveExpiry(row) ==
    /\ page = "links" /\ row.kind = "link"
    /\ Run("expiry", row, "sent", 0)
    /\ UNCHANGED lists

Revoke(row) ==
    /\ page = "links" /\ row.kind = "link"
    /\ Confirm("revoke", row)
    /\ UNCHANGED lists

-----------------------------------------------------------------------------
(* Skills.                                                                  *)

\* TechnologyRow. The category is one of those shown, or none.
SaveTechnology(row, cat) ==
    /\ page = "skills" /\ row.kind = "technology"
    /\ cat = 0 \/ R(cat, "category", 0) \in Range(shown)
    /\ Run("saveTechnology", row, "sent", cat)
    /\ UNCHANGED lists

DeleteTechnology(row) ==
    /\ page = "skills" /\ row.kind = "technology"
    /\ Confirm("deleteTechnology", row)
    /\ UNCHANGED lists

\* AddTechnology, of a category or of the technologies without one.
AddTechnology(row) ==
    /\ page = "skills" /\ row.kind \in {"category", "page"}
    /\ Run("addTechnology", row, "sent", 0)
    /\ UNCHANGED lists

\* CategoryHeader.
Rename(row) ==
    /\ page = "skills" /\ row.kind = "category"
    /\ Run("rename", row, "sent", 0)
    /\ UNCHANGED lists

DeleteCategory(row) ==
    /\ page = "skills" /\ row.kind = "category"
    /\ Confirm("deleteCategory", row)
    /\ UNCHANGED lists

AddCategory ==
    /\ page = "skills"
    /\ Run("addCategory", Page, "sent", 0)
    /\ UNCHANGED lists

-----------------------------------------------------------------------------
(* Portfolio.                                                               *)

\* The form of at most one repo is open. (A form fetches a token of its own;
\* as any write may be refused, the one of the page stands for it.)
Toggle(row) ==
    /\ page = "portfolio" /\ row.kind = "repo" /\ MayPress
    /\ Rendered(shown, IF opened = row.id THEN 0 ELSE row.id, NoCall, "none")
    /\ UNCHANGED <<page, token, presses, db, rev, shownRev, loadError, created>>

SaveEntry(row) ==
    /\ page = "portfolio" /\ row.kind = "repo" /\ row.id = opened
    /\ Run("entry", R(row.id, "form", 0), "sent", 0)
    /\ UNCHANGED lists

Sync ==
    /\ page = "portfolio"
    /\ Run("sync", Page, "sent", 0)
    /\ UNCHANGED lists

-----------------------------------------------------------------------------
\* The write of a control of a row.
PressRow(row) ==
    \/ SaveExpiry(row) \/ Revoke(row)
    \/ \E cat \in {0} \cup {r.id : r \in Range(shown)} : SaveTechnology(row, cat)
    \/ DeleteTechnology(row) \/ AddTechnology(row)
    \/ Rename(row) \/ DeleteCategory(row)
    \/ SaveEntry(row)

\* The rows at some places of a list, in their order.
Only(list, places) ==
    [n \in 1 .. Cardinality(places) |->
        list[CHOOSE m \in places : Cardinality({l \in places : l <= m}) = n]]

\* load of the skills asks for the categories and for the technologies at once,
\* and the backend reads them one after the other, in either order.
FetchPart(i, kind) ==
    LET part == Only(db.skills, {n \in DOMAIN db.skills : db.skills[n].kind = kind})
        c    == calls[i]
    IN /\ page = "skills"
       /\ \/ /\ c.at = "loading"
             /\ calls' = [calls EXCEPT ![i].at = "half", ![i].data = kind, ![i].got = part,
                                       ![i].gotRev = rev.skills]
          \/ /\ c.at = "half" /\ c.data # kind
             /\ calls' = [calls EXCEPT ![i].at = "loaded",
                                       ![i].got = IF kind = "category" THEN part \o @ ELSE @ \o part]
       /\ UNCHANGED <<page, token, status, ticking, armed, presses, db, rev>>

\* What a write of row (row.id, data) makes of a list.
Exists(row, list) == row.id = 0 \/ \E r \in Range(list) : r.id = row.id

Changed(list, what, row, data, new) ==
    LET rest         == Only(list, {n \in DOMAIN list : list[n].id # row.id})
        Become(r, x) == IF r.id = row.id THEN x ELSE r
    IN CASE what = "create" -> <<R(new, "link", 0)>> \o list
         [] what = "revoke" -> [n \in DOMAIN list |-> Become(list[n], R(row.id, "revoked", 0))]
         [] what = "saveTechnology" ->
                [n \in DOMAIN list |-> Become(list[n], R(row.id, "technology", data))]
         [] what = "deleteTechnology" -> rest
         [] what = "deleteCategory" ->
                [n \in DOMAIN rest |-> [rest[n] EXCEPT !.cat = IF @ = row.id THEN 0 ELSE @]]
         [] what = "addTechnology" -> Append(list, R(new, "technology", row.id))
         [] what = "addCategory" -> Append(list, R(new, "category", 0))
         [] OTHER -> list

\* What the sync can make of the repos.
Synced(list, new) ==
    {list, Append(list, R(new, "repo", 0))} \cup (IF list = <<>> THEN {} ELSE {Tail(list)})

\* Variant: the outcome is reported without waiting for the list.
AnsweredListAtOnce(i) ==
    LET c == calls[i] IN
    /\ page \in Lists /\ c.what # "logout"
    /\ c.at = "done" \/ (c.at = "sent" /\ c.what = "sync")
    /\ End(i, IF c.at = "done" THEN "success" ELSE "error")
    /\ created' = IF c.what = "create" THEN New(i) ELSE created
    /\ UNCHANGED <<page, token, presses, db, rev, shown, shownRev, loadError, opened>>

\* The client has the answer to a write of a list: it loads again first, and
\* createdUrl is set before that. The sync loads after a refusal as well.
AnsweredList(i) ==
    LET c == calls[i] IN
    /\ page \in Lists /\ c.what # "logout"
    /\ c.at = "done" \/ (c.at = "sent" /\ c.what = "sync")
    /\ calls' = [calls EXCEPT ![i].at = "loading", ![i].ok = (c.at = "done")]
    /\ created' = IF c.what = "create" THEN New(i) ELSE created
    /\ UNCHANGED <<page, token, status, ticking, armed, presses, db, rev, shown, shownRev,
                   loadError, opened>>

\* The lists of a page that has just been mounted.
MountedLists ==
    /\ shown' = <<>> /\ shownRev' = 0
    /\ loadError' = FALSE
    /\ created' = 0 /\ opened' = 0

=============================================================================
