# Verification of wediga-dev

TLA+ specifications of the website in this repository, model-checked with TLC
and, where it says so, proved with TLAPS. The specifications are written from
the code under `src/`; `PROJECT.json` maps every definition to the lines it
stands for.

## The system

A FastAPI backend with a PostgreSQL database, a Next.js frontend that renders
the pages and forwards every browser call to the backend ("backend for the
frontend"), and an authentik instance for logins. The backend's handlers are
synchronous functions, so each request runs in a thread of a pool; a handler
opens a transaction for every repository call, and nothing locks across two of
them. What is shared is the database, three in-memory rate limiters and one
in-memory cache.

| Component | State | Operations | Interacts with | Hard behaviour |
|---|---|---|---|---|
| Browser sessions (`auth/sessions.py`, `models.py`) | `access.session` and its parts: login through authentik, login flow, old admin login, recruiter access; the cookie in each browser; what a request has loaded | `current`, `renew`, `ensure`, `end`, `drop_parts`, `delete_expired`, the cookie middleware | every handler below | several transactions per request, several requests per browser, answers out of order, lifetimes, clean-up |
| Login through authentik (`oidc_router.py`, `oidc.py`) | the flow in the session, the groups of the ID token | start, callback, logout | sessions, authentik | a state used twice, a second tab, a callback that fails half way |
| Password login and second factor (`auth/router.py`, `totp.py`, `bootstrap.py`) | the one admin row: hash, secret, `totp_enabled` | login, second step, setup, confirm, first insert | sessions, rate limiter | read and write in different transactions |
| Rate limiter (`ratelimit.py`) | attempts and window per key | `hit`, `reset`, pruning | login, second factor, redeem | clock read before the lock, boundaries, the table's limit |
| Recruiter links (`recruiter/`) | links with expiry and revocation, views | create, revoke, set expiry, redeem, gate, list | sessions, `/r/[token]` route of the frontend | revocation against use, expiry day, repeated revocation |
| GitHub sync (`github/`) | sync runs, repositories, texts, technologies | daily loop, sync by hand, paging, finish, fail, overview | GitHub, portfolio | overlapping runs, crashes, torn reads |
| Portfolio (`portfolio/`) | entries with texts per language | tiles, admin overview, save | GitHub sync | joins across two reads, concurrent saves |
| Content and seed (`content/`, `db/seed.py`) | profile, categories, technologies with their order | save, create, move, delete, seed | | order numbers, concurrent saves |
| CV and portrait (`cv/`, `portrait/`) | one file each, crop of the portrait | upload, read, crop, delete | | an upload between two steps of an edit |
| Hub (`hub/`) | cache of the application list per account | list | authentik | age of the cache |
| Motion setting (`lib/motion.ts`, `useMotionMode.ts`) | stored choice, attribute, system setting | choose, sync from storage and system | other tabs | events in any order, storage that fails |
| Hero engine (`components/hero/`) | engine, scroll and mode | create, dispose, context loss | motion setting | asynchronous creation against unmount |
| Admin pages (`components/admin/`) | form, feedback, CSRF token | load, save | backend | late answers, timers, stale token |
| Deployment (`deploy/`) | backups | dump, rename, delete old ones | | a crash between two steps |

What can go wrong in each of them is the list of hazards in `PROJECT.json`, every
one at the line where it bites, with the property that covers it or the reason
why none does.

How they meet. The handlers of the backend share the database and nothing else
that outlives a request, apart from the limiters and the hub's cache. A page of
the frontend and the backend meet only in calls, each of which can be late,
refused or lost, and the backend is changed by other tabs meanwhile. Tabs meet
in the cookie they share and in the local storage with its events. Inside a page,
what an `await`, a timer or an effect left behind meets what has been rendered
since.

| Modules | Component | Stands on |
|---|---|---|
| `Sessions` | browser sessions, logins, redeem and gate | |
| `AdminFactor` | second factor, its limiter | `Sessions` takes `_start_session` apart |
| `GithubSync` | runs, repositories, overview | |
| `Motion` | motion setting of a tab | |
| `HeroEngine` | builds and engines of the hero | |
| `OneEngine` | abstract: what the landing promises of its engine | |
| `Landing` | the two composed, and the refinement | `Motion`, `HeroEngine`, `OneEngine` |
| `AdminUi` | what the admin pages share: calls, messages, timers, prompts | |
| `AdminLists` | links, skills, portfolio | `AdminUi` |
| `AdminForms` | profile, portrait, CV, second factor, sign-in, logout | `AdminUi` |
| `Admin` | all pages with navigation, backend and other writers | `AdminLists`, `AdminForms` |

A module with `MC` in front gives the constants for TLC, one with `Proofs`
behind holds what is proved. The operators called "Variant" in a comment are the
same step with a plausible mistake; each is used by one mutant in
`PROJECT.json`, which shows that the property named there would notice.

## Modules

### Sessions

`Sessions.tla` models the rows of `access.session` with their parts, the
cookies of the browsers, the links as the session handlers see them, and the
requests under way. A request is a record with a program counter, the cookie it
came with and the local state of its handler: the session `current()`
remembers (`known`), the session id `renew()` or `ensure()` returned (`sid`),
the token for the answer's cookie (`new`) and the order to remove the cookie
(`clear`).

An action is one transaction of one request. Two transactions are cut further,
where the database lets another request in between two statements of one: the
select of `_load` and its write (`LoadRow`, `LoadParts`), and the `db.get` of
`renew` and its update (`Renew`, `RenewSet`).

| Handler | Actions, in order |
|---|---|
| page of a recruiter (`require_recruiter_view`) | `LoadRow` `LoadParts` `Gate` `DropAccess` |
| redeem | `Validate` `LoadRow` `LoadParts` `Renew` `RenewSet` `Grant` `RecordView` |
| password login | `LoadRow` `LoadParts` `End` `Renew` `InsertLegacy` |
| second step | `LoadRow` `LoadParts` `End` `Renew` `InsertLegacy` |
| login through authentik | `LoadRow` `LoadParts` `Renew` or `DropFlow` `InsertFlow` |
| callback | `LoadRow` `LoadParts` `TakeFlow` `Exchange` `DropLogins` `LoadRow` `LoadParts` `Renew` `RenewSet` `Record` |
| logout of a login through authentik | `LoadRow` `LoadParts` `DropLogins` `LoadRow` `LoadParts` `Renew` `RenewSet` |
| logout | `LoadRow` `LoadParts` `End` |

`Deliver` is the middleware's change of the cookie as the browser sees it, in
whatever order answers arrive. `Abort` is a process that stops, a database that
fails, or an answer that is lost, between any two transactions. `CleanUp` is
the hourly task. `RevokeLink` and `MoveExpiry` are the admin; `Tick` is time.

Abstractions: ids, tokens, CSRF tokens and login states are numbers handed out
in order (a fresh random value is different from all before it; `token_hash`
and `csrf_token` are always replaced together and share a number). The
exchange with authentik is one step that gives no answer or a set of groups.
Requests that are refused before any session is read (rate limit, wrong
password, unknown link) do not arrive. A transaction that inserts a part into
a session whose unique part is there already, or whose row is gone, is refused
with 409 and changes nothing, as the handler of integrity errors in `main.py`
does. Row locks are not modelled: a write that waits for another transaction
is simply later.

`MCSessions.tla` gives the constants: one browser with two tabs, or one request
at a time where a run is about time.

| Run | Instance | What it shows |
|---|---|---|
| `sessions_logins` | 2 tabs, up to 4 requests of the login routes | `TypeOK`; `LoginUnderFreshToken`; `OneKindOfLogin`; `StateGoodForOneAttempt`; `FactorTransitionStartsEmpty`; `DeletedStaysDeleted` |
| `sessions_lifetimes` | 1 request at a time, up to 3, clock to 4, lifetimes that a living session can outlast | `CleanUpIsInvisible`: the expiry conditions, written once in the reads and once in the deletes, agree |
| `sessions_recruiter` | 2 tabs, 2 links, up to 3 requests, clock to 1 | `GateDropsWhatItJudged`: the stale verdict of the gate never costs another access |
| `sessions_redeem_login` | 1 request at a time, a login and a redeem | `RedeemKeepsLogin` fails: opening a link replaces the cookie of a logged in browser |

Bounds. Two overlapping requests are enough to interleave every pair of
handlers; a third and fourth put a finished login, a flow or a pending second
factor in front of them (start and callback of a login take two, a password
login and its second step take two). The clock stands still in
`sessions_logins`, since nothing there depends on an expiry; in
`sessions_lifetimes` a session ends after 3 ticks without a request, a flow after
1, a recruiter access after 2 and a login after 4. The request that makes a part
is followed by one that keeps the session alive, after which the part ends while
the session does not: a flow and an access by themselves, a login (in a session
that was used again in its tick 2 or 3) before the session is idle for long enough.
A session that nobody uses ends in tick 3, when a login has one tick left. So
each of the boundaries, the two of a login among them, is crossed at a moment when
no other is. With any one of the five conditions of the reads a tick longer the
run fails. `MaxRequests` and `MaxClock` are the only bounds on a behaviour.

`GateDropsWhatItJudged` holds because of the frontend: the route of a link
passes no cookie to the backend, so a redeem never changes the access of an
existing session. With the cookie passed on (the mutant of the run, and
`RedeemForwardsCookie = TRUE`) a page view that was refused for one link
removes the access a redeem of another has just granted.

No fairness is assumed: every property of the module is a safety property, and
a request may stop anywhere.

### Proofs about Sessions

`SessionsProofs.tla` proves, for any number of browsers, requests and links
and any lifetimes, under `SessionsAssumption` alone:

* `TypeCorrect`: `Spec => []TypeOK`.
* `DeletedRowsStayDeleted` and `CleanUpInvisible`, from the typing. Two lemmas
  say what the clean-up leaves of a row and that the reads do not see the
  difference.
* `LoginsAreUnderFreshTokens`. `LoginUnderFreshToken` alone is not inductive:
  `Record` writes a login for the session a request carries, so the invariant
  `FreshInv` also says of every request that is about to record that its
  session, if it still exists, has a token handed out after the request
  dropped the earlier logins, and that no row or request holds a number that
  has not been handed out.
* `StatesAreGoodForOneAttempt`. `StateInv` says that a state that was accepted
  is in no row any more, that no two rows hold the same state, and that states
  are below the counter.

`SessionsLoginProofs.tla` proves the two properties that depend on who can know
a session. Neither is inductive, and neither follows from the typing of a
handler alone; the invariant `KindInv` has four parts besides `FreshInv`:

* `Ahead` says where a password login and a callback can be, and that a password
  login renews without a known session, so that it always makes a new row.
* `Numbered` says that tokens and session ids are handed out in order and that a
  token opens one row: a token never passes from one row to another.
* `Own` and `Apart` say that the session a password login is about to be
  recorded in is empty, and that no other request and no browser knows it or its
  token. Its token is in an answer that has not been delivered.
* `Sees` says what a callback can rely on although it reads its session three
  times: its cookie opens no other session than the one it has read, and after
  `_drop_logins` the one it finds again, if any, has no old admin login. It
  finds the same row or none, because a row that was given another token
  meanwhile is not found any more.

From it follow `OneKindStays` (`Spec => []OneKindOfLogin`) and, with a lemma that
only `InsertLegacy` puts an old admin login into a row, `TransitionStartsEmpty`
(`Spec => FactorTransitionStartsEmpty`). With these every property of
`sessions_logins` is proved.

`SessionsRecruiterProofs.tla` proves `GateDropsWhatItJudged`. A page view reads
its link in one transaction, asks about it in a second and takes the part away in
a third; its invariant `VisitInv` adds to `KindInv`

* `Place`: a redeem has no cookie and knows no session until it has made one, and
  only a page view can be at the gate;
* `Unshared`: no other request and no browser knows the session, or the token, of
  a redeem that is about to write its part;
* `Judges`: the session of a page view at the gate has the part of the link that
  was read, or none any more.

What a step can do to a request, to a row and to a cookie is stated once
(`Moves`, `Spares`, `Sets`), `MovesKeep` shows that this keeps the invariant, and
the other lemmas show it of each step. `GateDropsItsOwn` has the hypothesis
`~RedeemForwardsCookie`: `app/r/[token]/route.ts` sends the backend no cookie.
Without it the property is false, which the mutant of `sessions_recruiter` shows.

### AdminFactor

`AdminFactor.tla` models the one admin row, the setup and confirm of the second
factor, the password login and its second step, and the limiter the last two
codes share. Every handler reads the row in one transaction (`Read`) and acts
on that copy in a later step (`Check`, `WriteSetup`, `WriteConfirm`, `Start`),
so the request carries the row it read. `Hit` and the reset in `Check` are the
calls of `totp_limiter`; `WindowOver` is its clock. `StartUp` is a start of the
process: requests and limiter are gone, `TOTP_ENC_KEY` may be another, and
`ensure_admin` may make the row. `_start_session` is one step (`Start`), since
`Sessions` takes it apart; `End` stands for everything else that ends a
session. A code is the number of the secret it was made for, 0 a code of none;
the 30 second window of a code is left out, as a code that is refused because it
is late is a wrong one. Setup and confirm come from any admin, also one logged
in through authentik. Wrong passwords do not arrive, and neither does what
`login_limiter` counts.

| Run | Instance | What it shows |
|---|---|---|
| `factor` | 2 parallel requests of one client, up to 6, 1 attempt per window, 2 starts | `FactorNotBypassed`, `EnabledHasSecret`, `WrongCodesBounded` hold |
| `factor_setup_race` | the same, up to 3 requests | `FactorStaysOn` fails: an old setup switches a confirmed factor off |
| `factor_confirm_race` | the same, up to 3 requests | `EnabledSecretIsProven` fails: a confirm enables a secret it has not checked |

Six requests are setup, confirm, login, a second setup that races them, the
second step, and one more; one attempt per window is the tightest limit, at
which every lost or double count shows. The behaviours end when `MaxRequests`
and `MaxStarts` are used up and everything is idle, so deadlock is not an error
in these runs; no handler ever waits for another.

### Proofs about AdminFactor

`AdminFactorProofs.tla`, under `AdminFactorAssumption` (which asks that the
requests under way are finitely many, as the threads of the pool are), without
the bounds:

* `FactorIsNotBypassed` and `EnabledFactorHasSecret`, from `FactorInv`: a row
  with a secret exists and its secret was made; an enabled one was confirmed
  once (`RowSound`). A request that has read the row relies on less than what
  it read, because setup may have changed the row: `RequestSound` says what is
  left, for example that a confirm on its way still finds a secret, and that a
  login that read "off" has seen the factor off.
* `WrongCodesStayBounded`, from `LimiterInv`: wrong codes and attempts on their
  way (`InFlight`, a cardinality) together stay within count and limit.
  `WrongCodesBounded` alone is not inductive, since a check comes after its hit.
* `TypeCorrect`.

### GithubSync

`GithubSync.tla` models `app/github`: the runs (`runs`), the repositories with
their texts (`repos`), the threads a sync runs in (`sync`) and the overview
(`reader`). `Begin` reads the clock and `StartRun` saves the run with it, so a
run's number is the rank of its `started_at`, not of its insert. `FetchPage` is
one page of `fetch_repos`, `FetchFails` a `GithubApiError` followed by
`FailRun`, `FinishRun` the transaction of `finish_run`, with the upserts and
the deletion of runs nobody needs. `Crash` is any other exception or the end of
the process, after which the run stays open. `Publish` and `Withdraw` change
the account between two pages. The overview's selects are steps of their own
(`ReadRun`, `ReadRepos`, `ReadTexts`, `ReadTechnologies`), each of which sees
what is committed by then; a repository without its name text is the `KeyError`
of the sort, one without technologies has none.

A version number stands for all that is written for a repository, its texts and
its technologies, of which each has some here. `wrote` and `last` are history
variables. The READMEs one by one, and the list of all technologies, to which a run
adds those it meets, are left out. `FinishRun` is one step:
two such transactions that share a repository wait for each other at its row.
Two that share none could each keep an old run for the sake of a repository the
other is taking over; that takes three overlapping runs with disjoint lists and
is not modelled.

| Run | Instance | What it shows |
|---|---|---|
| `github` | 2 repositories, 2 threads, 1 reader, 1 repository per page, at most 2 pages, up to 3 runs, 2 changes of the account, 1 overview | `ReposOfSuccessfulRuns`, `OverviewNotEmptied`, `OverviewOfOneRun` hold |
| `github_overlap` | the same | `LatestRunIsWhole` fails: an older run that ends later takes repositories over |

Three runs are an old successful one and two that overlap; with one repository
per page the list shifts between pages as soon as one is withdrawn, and the
page limit is reached. One overview is enough for reads, since readers do not
touch each other. The behaviours end when the bounds are used up, so deadlock
is not an error in these runs; no thread waits for another.

### Proofs about GithubSync

`GithubSyncProofs.tla`, under `GithubSyncAssumption`, for any number of
repositories, threads, readers and any page size:

* `StoredIsWritten` and `PortfolioStays`, from `Owned`. Its part `RunsApart`
  says what the code relies on without a check: no two threads write as one
  run, and the run of a thread is open until that thread closes it. So the
  upserts of one run meet only rows of finished runs, and the deletion takes no
  run away from a row or a thread. `LastOwnsAll` adds that a successful run is
  the one finished last or has a repository; without it `OverviewNotEmptied`
  is not inductive.
* `OneRunRead`, from `Owned` and `Read`: a reader has a run nobody works on any
  more, so what that run wrote does not change under it, and rows taken over by
  another run drop out of the reader's selects rather than mix in. Between the
  selects of the texts and of the technologies they drop out of the second, which is
  why the technologies are those of the run or none.
* `TypeCorrect`.

### Landing: Motion, HeroEngine, OneEngine

`Motion.tla` is one tab of the site: the choice in the local storage, the media
queries, and the `data-motion` attribute with the mode the landing was rendered
with. A tab learns of others only through storage events, so the other tabs are
writers of the storage (`OtherTab`) and `mail` holds the events under way.

| Action | Code |
|---|---|
| `Load` | the head script resolves the mode before the first paint |
| `Hydrate`, `Enter`, `Leave` | React mounts the landing, on its first load or by a link, and `subscribe` and its clean-up |
| `Render` | `useSyncExternalStore` takes the attribute as it is |
| `Choose` | `setMotionChoice`, with a write to the storage that may fail |
| `StorageEvent`, `SystemEvent` | `onStorage`, `onSystem` |
| `OtherTab`, `SystemChanges`, `Turn` | the environment: other tabs, the two media queries, the tab in front or in the background |

`seen` is what the queries matched when the browser last reported a change;
`unsaved` and `missed` are history variables that say when the page cannot know
better: a choice that could not be stored, and a change while nobody listened.

`HeroEngine.tla` is the effect of `useHeroEngine` and the engines it makes. A
build is a record: how far its asynchronous function has come, whether its
clean-up has cancelled it, and the engine's loop, frames and disposals.

| Action | Code |
|---|---|
| `Mount`, `Rerun`, `Unmount` | the effect runs, runs again for another mode or after a failure, ends; `Cleaned` is its clean-up |
| `Create`, `Throw` | the import has arrived and `createWebglEngine` makes an engine or throws |
| `Settle`, `GiveUp` | what comes after the `await`: adopt or dispose, or the fallback |
| `LoseContext` | `onContextLost` |
| `Frame`, `Visibility` | `loop`, `quietLoop`, `onVisibility` |

The import and the call of `createWebglEngine` end in two steps, because a
clean-up can run between the engine's creation and the continuation of the
`await`. What an engine draws (camera, shaders, the simulation of the atoms) and
the sizes of the page are left out; of the scroll listener there is whether the
document snaps.

`Landing.tla` composes them as `Hero.tsx` does: mounting, leaving or rendering
takes the effects with it (`Arrive`, `Return`, `Depart`, `Commit`), a fault
counts as an event. `OneEngine.tla` is the abstract specification: the page is
away, shows a mode or the fallback, holds at most one engine, made for the mode it
shows, and a mode does not stay without its engine. The refinement maps what is
rendered to `show` and the mode of the engine the page holds to `engine`; all
builds that are cancelled, thrown away or late are steps that the abstract
page does not see.

| Run | Instance | What it shows |
|---|---|---|
| `landing` | both media queries, 2 stations, 2 events | `ShowsSetting`, `EnginesAccounted`, `OneLoop`, `OnlyTheCurrentBuildSpeaks`; `CancelledIsGivenBack`, `PageFollows` (liveness); `OneEngineSafe`, `OneEngineServed` (refinement) |
| `landing_stale_choice` | the same | `StoredChoiceWins` fails: the landing reads the old attribute after another tab has chosen |

`MaxEvents` counts what the page is not master of: choices, writes of other
tabs, changes of the system, visits, going to the background and faults.
Mounting, rendering, builds and the delivery of events are free. The first
rendering always has the mode of the server and is followed by the tab's own, so
two builds overlap before anything happens; each of the two events can add
another, lose a context or hide the tab between any two of their steps. The theorems below
have no bound. The behaviours stop when the visitor does nothing more, so
deadlock is not an error there.

Fairness (`FairSpec`): the browser delivers events and frames of a visible tab,
React renders what has changed, and an import arrives or fails. Nothing is
assumed of the visitor, of other tabs, of the system and of the graphics card.
`PageFollows` speaks only of a tab that stays in front, because the code is not
told of media queries in the background.

### Proofs about Landing

`LandingProofs.tla`, under `MotionAssumption` and `HeroAssumption`, without the
bounds on events and stations. The invariant is `LandingInv`, proved by
`LandingIsSound`:

* `Resolved`: the attribute is what the choice and the last reported system
  resolve to. `ShowsSetting` alone is not inductive: it says nothing of pages other
  than the landing, nor while a change of the system has still to be reported, and
  what comes next needs to know what the attribute was resolved from.
* `Sound` says of each build which engine it can have at its stage (none before
  it was made, a live one with at most one loop until it is disposed of, once),
  and `Accounted` ties
  that to the page: the current build is not cancelled, every other is, and
  `engineRef` is the current build if it was adopted.

From it follow `SettingIsShown`, `EnginesAreAccountedFor`, `LoopsAreSingle`,
`OnlyTheCurrentSpeaks` and `ImplementsOneEngine`, which maps every step to a
step or a stutter of `OneEngine`. The liveness of the abstract specification
(`OneEngineServed`), `CancelledIsGivenBack` and `PageFollows` are model-checked
only.

### Admin: AdminUi, AdminLists, AdminForms

These model the tab of the admin. `AdminUi.tla` is what the pages share: `run` of
`useActionFeedback` with its messages and timers (`Run`, `End`, `Tick`),
`ConfirmButton` (`Arm`, `Cancel`, `Confirm`), `useCsrf` (`Token`) and the calls
under way. A call has the number of the press that made it and goes from the
press to the report; `at` says how far it is. A call that is refused, lost, or
throws is one step, since nothing depends on when that was decided. When a page
is left, its state is gone and its writes still arrive (`Mounted`, `Dropped`).

`AdminLists.tla` has links, skills and portfolio. They reload their list after
each write, before they report it (`AnsweredList`, then `ShowList`). Rows are React
components with keys, so a row that is rendered elsewhere (a technology in another
category, a link that is revoked) is another component: what it reported, its
timers and its prompt are gone, and its calls report to nobody (`Rendered`). A
technology whose category is not in the list is not rendered (`RowsOn`). That a
row keeps its own prompt when the list changes is what React's keys are for, and
taken over from there.
The skills are read in two requests, so a list can be a mixture (`FetchPart`).

`AdminForms.tla` has the record of the profile with its conversion to and from
the form (`FromResponse`, `ToBody`), the crop of the portrait, the uploads, the
page of the second factor, the sign-in in its two steps, and the logout, which
tries authentik first and the password logout after it. `CropControls` is there
only while there is a crop: a crop that is loaded late and is none takes it away,
with its message, its timer and the report of its call (`ShowPortrait`). The
button of the sign-in is free again as soon as there is an answer
(`AnsweredLogin`), before the form asks for the code or the overview is opened
(`AskForCode`, `Enter`), so a second sign-in can overlap what comes of the first.

`Admin.tla` puts them together: pages are opened and left by address, link,
sign-in and logout; the backend admits a write if the browser has an admin session
and the call its token, and changes the data with a revision; and `Others` are
another tab, the daily sync and commands on the server.

| Run | Instance | What it shows |
|---|---|---|
| `admin` | one link, one category with a technology, two repos, a profile with and without its optional parts, second factor on or off, with or without a session; 3 presses | `OneCallPerControl`, `UrlIsTheNewest`, `MessageKeepsItsTime`, `SuccessIsShown`, `FactorStaysOn`, `ProfileKept`; `PendingEnds` (liveness) |

`MaxPresses` counts pages that are opened, presses of buttons that send, changes
by others and the end of the session. Opening a page takes one, so two writes
overlap, or one write overlaps a change by others, with all orders of their
answers, reloads and timers, which are not counted. Each property needs at most
that: a press, a message and its timer against a second press; a write and its
reload against a change; a set-up against the load of the status. A
sign-in reaches the overview: opening the form and the password are two presses, the
code is the third. What is pressed there after a sign-in is beyond the bound, and
no different from what is pressed there with a session from the start. `FocusMax` gives the
crop two positions: the ends of its range, where it has to be held. The admin may stop
at any moment, so deadlock is not an error there.

Fairness (`FairSpec`): as long as a call is under way or a timer runs, one of them
goes on. Requests are answered or fail, which browsers guarantee, and timers fire.
Nobody has to press anything.

Abstractions: fields, labels and dates are gone; a profile is one link and an
address of two lines; the crop has one axis in steps. A form of a portfolio
entry fetches a token of its own, for which the page's stands, as any write may be
refused. Requests of a tab without a session are refused by the backend; that the
layout asks for the session only when it is mounted is in `Open`, `Go` and
`Enter`. A new session of the password login takes the place of the old one
(`AcceptLogin`), also while the code is still asked for. Left out is a second
sign-in that is answered after the first has left the form: it would open the
overview once more. The answer of the sync is read after the list was loaded
again, and the sync stays pending when it cannot be read (`Outcomes`); so is that
of a password, without which the form stays as it is (`Uncaughts`).

### Proofs about Admin

`AdminProofs.tla`, under `UiAssumption` and `FormsAssumption`, for any number of
presses and any data:

* `AdminIsSound` and `ControlsCallOnce`, from `IInv`. `OneCallPerControl` alone is
  not inductive: a timer of an old message could take the pending state away.
  `TimersOfSuccess` says that a timer belongs to the success message that is shown,
  and `CallsFit` what a call can be at each point.
* `AdminKnows`, with `AddressIsTheNewest` and `FactorIsNotForgotten`, from `KInv`:
  while a link is being made no other address is shown, and one that is shown is
  that of the call that reports; the status of the second factor is read by the
  first load only, and no set-up is under way before that has ended.
* `MessagesKeepTheirTime`, from `IInv` and `InPlace`, which says on which page a
  sign-in or a logout can be under way. The message of a crop may also go with
  its controls.

`AdminShownProofs.tla` is about the data, under `AdminAssumption` as well (forms,
profiles and skills are such values):

* `CallsReadWhatTheyWrote`, `AdminIsTyped` and `ListsShowWhatTheyReport`, from
  `HeldInv`. `SuccessIsShown` needs that a reload shows its write, so that what a call
  has read is at least as new as what it wrote (`Dated`). That holds because it reads
  the data it has written: a call that was not left behind is on the page it belongs
  to (`Placed`). That a success is not an old one of another press follows from
  `MessagesFit`. Typing comes with it, as what a page shows was stored by a form or a
  row: this is where the lists are followed through `Changed`, `Synced` and
  `FetchPart`. `Only`, which takes some rows of a list by counting their places, is a
  function so that it can be reasoned about; `EachHasAPlace` needs the least
  number of a set (`HasLeast`, from the well-foundedness of the numbers).
* `UneditedProfileIsKept`, from `KeptInv`: the form, a call that brings a profile and a
  call that saves one are each either made of an older revision or equal to what is
  stored (`Current`). Its hypothesis `StartsLined` says that a profile from elsewhere
  has no address of empty lines. The form drops such an address and the migration that
  filled the column writes a city. The seed stores what its file says and the schema of
  the API would take an address of empty lines: the form would then turn it into none. Without the hypothesis the theorem
  is false.

`PendingEnds` is model-checked only.

## Disagreements found

* `sessions_redeem_login`: the documentation of the login and of redeem says
  that recruiter part and login stand side by side in one session. The
  frontend's `/r/[token]` route calls redeem without the browser's cookie and
  passes the new session's cookie back, so the browser loses its login.
* `factor_setup_race`: setup says it cannot silently disable a working factor,
  but its check and its write are two transactions.
* `factor_confirm_race`: confirm says it enables the factor once a code proves
  the secret, but it enables whatever secret is stored when it writes.
* `github_overlap`: the overview returns the repositories of the latest
  successful run, chosen by start, but a run that started earlier and finishes
  later takes those both saw over to itself.
* `landing_stale_choice`: a stored choice is the highest rung of the motion
  setting, but one that another tab stores while this one is on a page without
  subscribers is not looked up when the landing comes back.

Not given a run:

* The repositories of a run are said to come with their texts and topics
  (`github/repository.py:155`), but a sync that commits between the last two selects
  of the overview leaves them without topics. `OverviewOfOneRun` therefore asks for
  the technologies of the run or none; without "or none" TLC finds that behaviour.
* `totp.decrypt_secret` says its caller treats an unreadable secret as a failed
  factor, where the router answers 500 and a test wants that.
* `motion.ts:96` says that a failed write of the choice loses only persistence
  across reloads; an event of another tab or of the system loses it within the
  visit too (`StorageEvent` and `SystemEvent` reset `unsaved`).
* The docs of a link's expiry promise the whole chosen day; the stored time is
  its last second, and the comparison ends the link there.

Behaviour that nothing documents otherwise, and that the modules have as it is:

* Reloads are not ordered, so an older list can replace a newer one. An answer
  that is not ok empties the list of links. The message of a failed load stays
  after a load that worked, and a write whose reload fails still reports success.
* The profile can be saved before it is loaded, which stores empty fields, and a
  load that is late overwrites what was typed. A crop chosen for one picture can
  be saved after another was uploaded, and a crop that is loaded late can take that of
  an upload, with its controls, off the page.
* The sync of the portfolio and the sign-in have no `catch`: without an answer, and
  the sync without a body that can be read, they stay pending. The step that asks for a code has no way back to the password.
* "Deleted" and "Revoked" are reported to a row that is gone by then.
* The logout goes to the sign-in page also when the password logout was refused
  (`LogoutButton.tsx:37`).
* When the simulation cannot be set up, the renderer made before is not given back
  (`gpgpu.ts:85`, `Throw`).

## What is proved and what is only model-checked

The theorems are listed in `PROJECT.json`. Every safety property of a passing run is
stated by one, `ProfileKept` under the hypothesis given above and `GateDropsWhatItJudged`
for a redeem without the cookie, as the frontend sends it. Only model-checked is all liveness:
`CancelledIsGivenBack`, `PageFollows`, `OneEngineServed` and `PendingEnds`. Liveness under
fairness and `ENABLED` are out of the prover's reach.

## Not modelled

* Rendering, texts and styles, with the public and recruiter pages; the numeric
  part of the hero (camera, shaders, the simulation): real numbers, checked by eye.
* The contact card and README excerpts (formatting); hashing, encryption and
  token checks (library calls).
* The clock of the rate limiter, its pruning and the other two limiters: they
  decide when a 429 is sent, which no other state depends on. `AdminFactor` ends
  a window at any moment, which includes every clock.
* Of the recruiter links: the day of an expiry, the time of a revocation, the hints
  about a device. Of the portfolio: the texts and the tiles, a join of two reads by
  an id that does not change. Of the content: labels, levels and order numbers;
  two rows may have the same.
* Files on delivery and the commands that delete them: each is one transaction.
* The hub, which reads authentik behind a cache and writes nothing.
* The exchange with authentik beyond its outcome; images, units, blueprints and
  backup scripts of the deployment; the seed script and the set-up of the database.

`PROJECT.json` lists each component with its reason.
