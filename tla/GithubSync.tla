----------------------------- MODULE GithubSync -----------------------------
(***************************************************************************)
(* The sync of the GitHub repositories and the overview read from it       *)
(* (backend/app/github).  A run is saved, the pages of the repository list *)
(* are fetched one by one while the account may change, and everything is  *)
(* written in one transaction, or the run is marked as failed.  The daily  *)
(* run and the ones by hand run in threads of their own and may overlap.   *)
(* The overview is read by several statements, each of which sees what is  *)
(* committed by then.                                                      *)
(*                                                                         *)
(* Runs are numbered by started_at.  A repository is a number, in the      *)
(* order GitHub lists them; its texts, topics, homepage and archive flag   *)
(* are one version number, 0 where there is no repository.                 *)
(***************************************************************************)
EXTENDS Naturals, FiniteSets

CONSTANTS
    Repos,          \* repositories the account may have, as numbers
    Threads,        \* threads a sync can run in
    Readers,        \* requests that read the overview
    PerPage, MaxPages,
    MaxRuns,        \* bound: runs in a behaviour
    MaxEdits,       \* bound: edits of repositories on GitHub
    MaxReads        \* bound: overviews read

ASSUME GithubSyncAssumption ==
    /\ Repos \subseteq Nat /\ IsFiniteSet(Repos)
    /\ PerPage \in Nat \ {0} /\ MaxPages \in Nat
    /\ MaxRuns \in Nat /\ MaxEdits \in Nat /\ MaxReads \in Nat

VARIABLES
    account,    \* GitHub: the version of each public repository
    edits,      \* changes of the account so far, for the bound and the versions
    runs,       \* github_sync: "open", "ok" or "failed", by run
    repos,      \* github_repo with its texts and topics, by repository
    sync,       \* the threads
    began,      \* runs started so far
    wrote,      \* history: what the transaction of each successful run wrote
    last,       \* history: the run that was finished last, 0 for none
    reader,     \* the overviews being read
    reads       \* for the bound

vars == <<account, edits, runs, repos, sync, began, wrote, last, reader, reads>>

-----------------------------------------------------------------------------
Status == {"open", "ok", "failed"}
Kept   == DOMAIN runs

\* The versions of a set of repositories, and of none.
Versions == [Repos -> Nat]
Nothing  == [r \in Repos |-> 0]
In(v)    == {r \in Repos : v[r] # 0}

Row   == [seen : Nat, version : Nat]
NoRow == [seen |-> 0, version |-> 0]

Thread == [pc : {"idle", "start", "fetch", "finish", "fail"}, run : Nat, page : Nat,
           got : Versions]

NoThread == [pc |-> "idle", run |-> 0, page |-> 0, got |-> Nothing]

Go(t, q) == sync' = [sync EXCEPT ![t] = q]

\* The scheduler's turn, or the admin's. started_at is read first ...
Begin(t) ==
    /\ sync[t].pc = "idle"
    /\ began < MaxRuns
    /\ began' = began + 1
    /\ Go(t, [NoThread EXCEPT !.pc = "start", !.run = began + 1])
    /\ UNCHANGED <<account, edits, runs, repos, wrote, last, reader, reads>>

\* ... and start_run saves the run with it.
StartRun(t) ==
    LET q == sync[t] IN
    /\ q.pc = "start"
    /\ runs' = [n \in Kept \cup {q.run} |-> IF n = q.run THEN "open" ELSE runs[n]]
    /\ Go(t, [q EXCEPT !.pc = "fetch", !.page = 1])
    /\ UNCHANGED <<account, edits, repos, began, wrote, last, reader, reads>>

\* The repositories GitHub has on a page.
OnPage(p) ==
    {r \in In(account) :
        LET place == Cardinality({o \in In(account) : o <= r}) IN
        (p - 1) * PerPage < place /\ place <= p * PerPage}

\* A page is added to what was fetched; a repository met twice counts as it
\* was met last.
Together(got, batch) ==
    [r \in Repos |-> IF r \in batch THEN account[r] ELSE got[r]]

\* _page. A page that is not full is the last, and so is the one at the limit.
FetchPage(t) ==
    LET q == sync[t]
        batch == OnPage(q.page)
    IN
    /\ q.pc = "fetch"
    /\ Go(t, [q EXCEPT
                !.got = Together(@, batch),
                !.page = @ + 1,
                !.pc = IF Cardinality(batch) < PerPage \/ q.page = MaxPages
                       THEN "finish" ELSE "fetch"])
    /\ UNCHANGED <<account, edits, runs, repos, began, wrote, last, reader, reads>>

\* A GithubApiError, from a page or from a README behind the last.
FetchFails(t) ==
    /\ sync[t].pc \in {"fetch", "finish"}
    /\ Go(t, [sync[t] EXCEPT !.pc = "fail"])
    /\ UNCHANGED <<account, edits, runs, repos, began, wrote, last, reader, reads>>

\* Variant: the run is marked with the error in place of a status.
FailRunUntold(t) ==
    /\ sync[t].pc = "fail"
    /\ runs' = [runs EXCEPT ![sync[t].run] = "request to GitHub failed"]
    /\ Go(t, NoThread)
    /\ UNCHANGED <<account, edits, repos, began, wrote, last, reader, reads>>

\* fail_run.
FailRun(t) ==
    /\ sync[t].pc = "fail"
    /\ runs' = [runs EXCEPT ![sync[t].run] = "failed"]
    /\ Go(t, NoThread)
    /\ UNCHANGED <<account, edits, repos, began, wrote, last, reader, reads>>

\* Variant: a repository keeps the run it was first seen in.
SavedFirstSeen(got, n) ==
    [r \in Repos |->
        IF got[r] = 0 THEN repos[r]
        ELSE [seen |-> IF repos[r] = NoRow THEN n ELSE repos[r].seen, version |-> got[r]]]

\* _save_repo of every repository that was fetched.
Saved(got, n) ==
    [r \in Repos |-> IF got[r] = 0 THEN repos[r] ELSE [seen |-> n, version |-> got[r]]]

\* Variant: no run is deleted.
KeptAll(n, rows) == Kept

\* The runs finish_run leaves: this one, those not finished, and those some
\* repository was last seen in.
KeptAfter(n, rows) ==
    {k \in Kept : k = n \/ runs[k] = "open" \/ \E r \in Repos : rows[r].seen = k}

\* finish_run, one transaction.
FinishRun(t) ==
    LET q == sync[t]
        rows == Saved(q.got, q.run)
    IN
    /\ q.pc = "finish"
    /\ repos' = rows
    /\ runs' = [k \in KeptAfter(q.run, rows) |-> IF k = q.run THEN "ok" ELSE runs[k]]
    /\ wrote' = [wrote EXCEPT ![q.run] = q.got]
    /\ last' = q.run
    /\ Go(t, NoThread)
    /\ UNCHANGED <<account, edits, began, reader, reads>>

\* Any other error, or the process stops: nothing marks the run.
Crash(t) ==
    /\ sync[t].pc # "idle"
    /\ Go(t, NoThread)
    /\ UNCHANGED <<account, edits, runs, repos, began, wrote, last, reader, reads>>

-----------------------------------------------------------------------------
(* The overview.                                                            *)

Reader == [pc : {"idle", "repos", "texts", "technologies", "done", "error"}, run : Nat,
           repos : SUBSET Repos,
           texts : Versions,
           technologies : Versions]

NoReader == [pc |-> "idle", run |-> 0, repos |-> {}, texts |-> Nothing,
             technologies |-> Nothing]

Successful == {n \in Kept : runs[n] = "ok"}

IsNewest(n) == n \in Successful /\ \A o \in Successful : o <= n

Seen(n) == {r \in Repos : repos[r].version # 0 /\ repos[r].seen = n}

\* The select of the latest successful run. Without one there are no repos.
ReadRun(c) ==
    /\ reader[c].pc = "idle"
    /\ reads < MaxReads
    /\ reads' = reads + 1
    /\ \/ /\ Successful = {}
          /\ reader' = [reader EXCEPT ![c] = [NoReader EXCEPT !.pc = "done"]]
       \/ \E n \in Successful :
            /\ IsNewest(n)
            /\ reader' = [reader EXCEPT ![c] = [NoReader EXCEPT !.pc = "repos", !.run = n]]
    /\ UNCHANGED <<account, edits, runs, repos, sync, began, wrote, last>>

\* The select of its repositories.
ReadRepos(c) ==
    /\ reader[c].pc = "repos"
    /\ reader' = [reader EXCEPT ![c].pc = "texts", ![c].repos = Seen(reader[c].run)]
    /\ UNCHANGED <<account, edits, runs, repos, sync, began, wrote, last, reads>>

\* Variant: the texts of the repositories found, whatever run wrote them.
TextRowsOfAny(n) == [r \in Repos |-> repos[r].version]

\* The rows of the select of their texts, and of that of their technologies.
TextRows(n) == [r \in Repos |-> IF r \in Seen(n) THEN repos[r].version ELSE 0]

Of(found, rows) == [r \in Repos |-> IF r \in found THEN rows[r] ELSE 0]

\* The select of the texts.
ReadTexts(c) ==
    LET q == reader[c] IN
    /\ q.pc = "texts"
    /\ reader' = [reader EXCEPT ![c] =
                    [q EXCEPT !.pc = "technologies",
                              !.texts = Of(q.repos, TextRows(q.run))]]
    /\ UNCHANGED <<account, edits, runs, repos, sync, began, wrote, last, reads>>

\* The select of the technologies, and the result. A repository without rows has
\* no technologies; one without a name text is a KeyError (500) of the sort.
ReadTechnologies(c) ==
    LET q == reader[c] IN
    /\ q.pc = "technologies"
    /\ reader' = [reader EXCEPT ![c] =
                    IF q.repos \subseteq In(q.texts)
                    THEN [q EXCEPT !.pc = "done",
                                   !.technologies = Of(q.repos, TextRows(q.run))]
                    ELSE [q EXCEPT !.pc = "error"]]
    /\ UNCHANGED <<account, edits, runs, repos, sync, began, wrote, last, reads>>

\* The answer is given.
Answer(c) ==
    /\ reader[c].pc \in {"done", "error"}
    /\ reader' = [reader EXCEPT ![c] = NoReader]
    /\ UNCHANGED <<account, edits, runs, repos, sync, began, wrote, last, reads>>

-----------------------------------------------------------------------------
(* The account on GitHub changes at any time.                               *)

\* A repository is made, published or edited ...
Publish(r) ==
    /\ edits < MaxEdits
    /\ edits' = edits + 1
    /\ account' = [account EXCEPT ![r] = edits + 2]
    /\ UNCHANGED <<runs, repos, sync, began, wrote, last, reader, reads>>

\* ... or deleted or made private.
Withdraw(r) ==
    /\ edits < MaxEdits
    /\ edits' = edits + 1
    /\ account[r] # 0
    /\ account' = [account EXCEPT ![r] = 0]
    /\ UNCHANGED <<runs, repos, sync, began, wrote, last, reader, reads>>

Init ==
    /\ account \in [Repos -> {0, 1}]
    /\ edits = 0 /\ began = 0 /\ last = 0 /\ reads = 0
    /\ runs = [n \in {} |-> "open"]
    /\ repos = [r \in Repos |-> NoRow]
    /\ wrote = [n \in 1 .. MaxRuns |-> Nothing]
    /\ sync = [t \in Threads |-> NoThread]
    /\ reader = [c \in Readers |-> NoReader]

Next ==
    \/ \E t \in Threads :
        \/ Begin(t) \/ StartRun(t) \/ FetchPage(t) \/ FetchFails(t) \/ FailRun(t)
        \/ FinishRun(t) \/ Crash(t)
    \/ \E c \in Readers : ReadRun(c) \/ ReadRepos(c) \/ ReadTexts(c) \/ ReadTechnologies(c)
                          \/ Answer(c)
    \/ \E r \in Repos : Publish(r) \/ Withdraw(r)

Spec == Init /\ [][Next]_vars

-----------------------------------------------------------------------------
(* Properties.                                                              *)

\* Every variable has its type.
TypeOK ==
    /\ account \in Versions
    /\ edits \in Nat /\ began \in Nat /\ last \in Nat /\ reads \in Nat
    /\ runs \in [Kept -> Status] /\ Kept \subseteq Nat
    /\ repos \in [Repos -> Row]
    /\ wrote \in [1 .. MaxRuns -> Versions]
    /\ sync \in [Threads -> Thread]
    /\ reader \in [Readers -> Reader]

\* "A failed fetch only marks the run with its error and the repos of the last
\* successful run stay as they are" (sync.py): every stored repository is, with
\* its texts, what the successful run it was last seen in has written, and that
\* run is still there, however runs overlap, fail and stop.
ReposOfSuccessfulRuns ==
    \A r \in Repos : repos[r] # NoRow =>
        /\ repos[r].seen \in Successful
        /\ repos[r].version # 0 /\ wrote[repos[r].seen][r] = repos[r].version

\* "Afterwards only the finished runs that some repo was last seen in are kept,
\* besides this one" (repository.py, finish_run): the run the overview takes
\* has repositories whenever the run finished last has written any, so the
\* portfolio does not go empty by an older run that ends late.
OverviewNotEmptied ==
    last # 0 /\ In(wrote[last]) # {} => \A n \in Successful : IsNewest(n) => Seen(n) # {}

\* An overview that is given is of one run: each repository in it has the
\* texts that run has written, and of technologies those, or none when a sync
\* committed just before the last of the three statements, but never those of
\* another run.
OverviewOfOneRun ==
    \A c \in Readers :
        reader[c].pc = "done" /\ reader[c].repos # {} =>
            \A r \in reader[c].repos :
                LET written == wrote[reader[c].run][r] IN
                /\ reader[c].texts[r] # 0 /\ reader[c].texts[r] = written
                /\ reader[c].technologies[r] \in {0, written}

\* The overview returns "the repos of the latest successful" run (repository.py):
\* those last seen in it are all it has written.
LatestRunIsWhole ==
    \A n \in Successful : IsNewest(n) => Seen(n) = In(wrote[n])

=============================================================================
