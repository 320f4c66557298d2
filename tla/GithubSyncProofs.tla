-------------------------- MODULE GithubSyncProofs --------------------------
(* Proofs about GithubSync, for any repositories, threads and readers, any  *)
(* size of a page and any number of runs.                                   *)
EXTENDS GithubSync, TLAPS

-----------------------------------------------------------------------------
(* Types.                                                                   *)

\* The empty values have their types.
LEMMA EmptyTypes ==
    /\ Nothing \in Versions /\ NoRow \in Row
    /\ NoThread \in Thread /\ NoReader \in Reader
  BY DEF Nothing, NoRow, NoThread, NoReader, Versions, Row, Thread, Reader

\* What a run has fetched are versions, and what it saves are rows.
LEMMA WrittenTypes ==
    ASSUME TypeOK, NEW got \in Versions, NEW batch, NEW n \in Nat
    PROVE  Together(got, batch) \in Versions /\ Saved(got, n) \in [Repos -> Row]
  BY DEF TypeOK, Together, Saved, Versions, Row

\* The rows of a read are versions of repositories.
LEMMA TextRowsType ==
    ASSUME TypeOK, NEW n, NEW found
    PROVE  Of(found, TextRows(n)) \in Versions
  BY DEF TypeOK, Of, TextRows, Versions, Row

\* Every step of a sync keeps the types.
LEMMA SyncTypeStep ==
    ASSUME TypeOK, NEW t \in Threads,
           \/ Begin(t) \/ StartRun(t) \/ FetchPage(t) \/ FetchFails(t) \/ FailRun(t)
           \/ FinishRun(t) \/ Crash(t)
    PROVE  TypeOK'
  <1> USE EmptyTypes, GithubSyncAssumption
  <1>0. sync[t] \in Thread /\ sync[t].got \in Versions /\ sync[t].run \in Nat /\ sync[t].page \in Nat
    BY DEF TypeOK, Thread
  <1>1. CASE Begin(t)
    <2> DEFINE n == began + 1
    <2>1. n \in Nat /\ 1 .. began \subseteq 1 .. n
      BY DEF TypeOK
    <2>2. sync' = [sync EXCEPT ![t] = [NoThread EXCEPT !.pc = "start", !.run = n]]
      BY <1>1 DEF Begin, Go
    <2>3. began' = n
      BY <1>1 DEF Begin
    <2> HIDE DEF n
    <2>4. [NoThread EXCEPT !.pc = "start", !.run = n] \in Thread
      BY <2>1 DEF Thread
    <2>5. sync' \in [Threads -> Thread]
      BY <2>2, <2>4 DEF TypeOK
    <2> QED
      BY <1>1, <2>1, <2>3, <2>5 DEF Begin, TypeOK, Kept
  <1>2. CASE StartRun(t)
    <2>1. [sync[t] EXCEPT !.pc = "fetch", !.page = 1] \in Thread
      BY <1>0 DEF Thread
    <2>2. runs' = [n \in Kept \cup {sync[t].run} |-> IF n = sync[t].run THEN "open" ELSE runs[n]]
      BY <1>2 DEF StartRun
    <2>3. Kept' = Kept \cup {sync[t].run}
      BY <2>2 DEF Kept
    <2>4. Kept' \subseteq Nat
      BY <1>0, <2>3 DEF TypeOK
    <2>5. runs' \in [Kept' -> Status]
      BY <2>2, <2>3 DEF TypeOK, Status
    <2>6. sync' \in [Threads -> Thread]
      BY <1>2, <2>1 DEF StartRun, Go, TypeOK
    <2> QED
      BY <1>2, <2>4, <2>5, <2>6 DEF StartRun, TypeOK
  <1>3. CASE FetchPage(t)
    <2> DEFINE batch == OnPage(sync[t].page)
               got == Together(sync[t].got, batch)
               page == sync[t].page + 1
               pc == IF Cardinality(batch) < PerPage \/ sync[t].page = MaxPages
                     THEN "finish" ELSE "fetch"
    <2>1. got \in Versions /\ page \in Nat /\ pc \in {"finish", "fetch"}
      BY <1>0, WrittenTypes
    <2>2. sync' = [sync EXCEPT ![t] = [sync[t] EXCEPT !.got = got, !.page = page, !.pc = pc]]
      BY <1>3 DEF FetchPage, Go
    <2> HIDE DEF batch, got, page, pc
    <2>3. [sync[t] EXCEPT !.got = got, !.page = page, !.pc = pc] \in Thread
      BY <1>0, <2>1 DEF Thread
    <2> QED
      BY <1>3, <2>2, <2>3 DEF FetchPage, TypeOK, Kept
  <1>4. CASE FetchFails(t)
    <2>1. [sync[t] EXCEPT !.pc = "fail"] \in Thread
      BY <1>0 DEF Thread
    <2> QED
      BY <1>4, <2>1 DEF FetchFails, Go, TypeOK, Kept
  <1>5. CASE FailRun(t)
    BY <1>5 DEF FailRun, Go, TypeOK, Kept, Status
  <1>6. CASE FinishRun(t)
    <2>1. Saved(sync[t].got, sync[t].run) \in [Repos -> Row]
      BY <1>0, WrittenTypes
    <2>2. repos' \in [Repos -> Row] /\ wrote' \in [1 .. MaxRuns -> Versions] /\ last' \in Nat
      BY <1>0, <1>6, <2>1 DEF FinishRun, TypeOK
    <2>3. runs' \in [Kept' -> Status] /\ Kept' \subseteq Kept
      BY <1>6 DEF FinishRun, KeptAfter, TypeOK, Kept, Status
    <2>4. sync' \in [Threads -> Thread]
      BY <1>6 DEF FinishRun, Go, TypeOK
    <2> QED
      BY <1>6, <2>2, <2>3, <2>4 DEF FinishRun, TypeOK
  <1>7. CASE Crash(t)
    BY <1>7 DEF Crash, Go, TypeOK, Kept
  <1> QED
    BY <1>1, <1>2, <1>3, <1>4, <1>5, <1>6, <1>7

\* So does every step of a read.
LEMMA ReadTypeStep ==
    ASSUME TypeOK, NEW c \in Readers,
           ReadRun(c) \/ ReadRepos(c) \/ ReadTexts(c) \/ ReadTechnologies(c) \/ Answer(c)
    PROVE  TypeOK'
  <1> USE EmptyTypes
  <1>0. reader[c] \in Reader
    BY DEF TypeOK
  <1>1. UNCHANGED <<account, edits, runs, repos, sync, began, wrote, last>> /\ reads' \in Nat
    <2>0. reads \in Nat /\ reads + 1 \in Nat
      BY DEF TypeOK
    <2>1. CASE ReadRun(c)
      BY <2>0, <2>1 DEF ReadRun
    <2>2. CASE ReadRepos(c)
      BY <2>0, <2>2 DEF ReadRepos
    <2>3. CASE ReadTexts(c)
      BY <2>0, <2>3 DEF ReadTexts
    <2>4. CASE ReadTechnologies(c)
      BY <2>0, <2>4 DEF ReadTechnologies
    <2>5. CASE Answer(c)
      BY <2>0, <2>5 DEF Answer
    <2> QED
      BY <2>1, <2>2, <2>3, <2>4, <2>5
  <1>2. \E q \in Reader : reader' = [reader EXCEPT ![c] = q]
    <2>1. CASE ReadRun(c)
      <3>1. [NoReader EXCEPT !.pc = "done"] \in Reader
        BY DEF Reader
      <3>2. ASSUME NEW n \in Successful
            PROVE  [NoReader EXCEPT !.pc = "repos", !.run = n] \in Reader
        BY DEF Reader, Successful, TypeOK
      <3> QED
        BY <2>1, <3>1, <3>2 DEF ReadRun
    <2>2. CASE ReadRepos(c)
      <3>1. [reader[c] EXCEPT !.pc = "texts", !.repos = Seen(reader[c].run)] \in Reader
        BY <1>0 DEF Reader, Seen
      <3>2. reader' = [reader EXCEPT ![c] =
                         [reader[c] EXCEPT !.pc = "texts", !.repos = Seen(reader[c].run)]]
        BY <2>2 DEF ReadRepos, TypeOK
      <3> QED
        BY <3>1, <3>2
    <2>3. CASE ReadTexts(c)
      <3> DEFINE texts == Of(reader[c].repos, TextRows(reader[c].run))
      <3>1. texts \in Versions
        BY TextRowsType
      <3>2. reader' = [reader EXCEPT ![c] =
                         [reader[c] EXCEPT !.pc = "technologies", !.texts = texts]]
        BY <2>3 DEF ReadTexts
      <3> HIDE DEF texts
      <3>3. [reader[c] EXCEPT !.pc = "technologies", !.texts = texts] \in Reader
        BY <1>0, <3>1 DEF Reader
      <3> QED
        BY <3>2, <3>3
    <2>4. CASE ReadTechnologies(c)
      <3> DEFINE known == Of(reader[c].repos, TextRows(reader[c].run))
      <3>1. known \in Versions
        BY TextRowsType
      <3>2. \/ reader' = [reader EXCEPT ![c] =
                            [reader[c] EXCEPT !.pc = "done", !.technologies = known]]
            \/ reader' = [reader EXCEPT ![c] = [reader[c] EXCEPT !.pc = "error"]]
        BY <2>4 DEF ReadTechnologies
      <3> HIDE DEF known
      <3>3. /\ [reader[c] EXCEPT !.pc = "done", !.technologies = known] \in Reader
            /\ [reader[c] EXCEPT !.pc = "error"] \in Reader
        BY <1>0, <3>1 DEF Reader
      <3> QED
        BY <3>2, <3>3
    <2>5. CASE Answer(c)
      BY <2>5 DEF Answer
    <2> QED
      BY <2>1, <2>2, <2>3, <2>4, <2>5
  <1> QED
    BY <1>1, <1>2 DEF TypeOK, Kept

\* And every other step.
LEMMA TypeStep == TypeOK /\ [Next]_vars => TypeOK'
  <1> SUFFICES ASSUME TypeOK, [Next]_vars
               PROVE  TypeOK'
    OBVIOUS
  <1>1. ASSUME NEW r \in Repos, Publish(r) \/ Withdraw(r)
        PROVE  TypeOK'
    <2>1. edits + 1 \in Nat /\ edits + 2 \in Nat /\ 0 \in Nat
      BY DEF TypeOK
    <2>2. edits' \in Nat /\ \E v \in Nat : account' = [account EXCEPT ![r] = v]
      <3>1. CASE Publish(r)
        BY <2>1, <3>1 DEF Publish
      <3>2. CASE Withdraw(r)
        BY <2>1, <3>2 DEF Withdraw
      <3> QED
        BY <1>1, <3>1, <3>2
    <2>3. account' \in Versions
      BY <2>2 DEF TypeOK, Versions
    <2>4. UNCHANGED <<runs, repos, sync, began, wrote, last, reader, reads>>
      BY <1>1 DEF Publish, Withdraw
    <2> QED
      BY <2>2, <2>3, <2>4 DEF TypeOK, Kept
  <1>2. CASE UNCHANGED vars
    BY <1>2 DEF vars, TypeOK, Kept
  <1> QED
    BY <1>1, <1>2, SyncTypeStep, ReadTypeStep DEF Next

\* The first state has its types.
LEMMA TypeInit == Init => TypeOK
  BY EmptyTypes, GithubSyncAssumption DEF Init, TypeOK, Versions, Kept

\* Every variable keeps its type.
THEOREM TypeCorrect == Spec => []TypeOK
  BY TypeInit, TypeStep, PTL DEF Spec

-----------------------------------------------------------------------------
(* Whose the stored repositories are.  The invariant says what the code     *)
(* relies on without a check: no two threads write as one run, and the run  *)
(* of a thread is open until that thread closes it.                         *)

Working(t) == sync[t].pc # "idle"

RunsApart ==
    /\ began <= MaxRuns
    /\ Kept \subseteq 1 .. began
    /\ \A t \in Threads : Working(t) => sync[t].run \in 1 .. began
    /\ \A t, u \in Threads : t # u /\ Working(t) /\ Working(u) => sync[t].run # sync[u].run
    /\ \A t \in Threads : sync[t].pc = "start" => sync[t].run \notin Kept
    /\ \A t \in Threads :
        Working(t) /\ sync[t].pc # "start" => sync[t].run \in Kept /\ runs[sync[t].run] = "open"

\* A reader has a run nobody works on any more.
ReadersApart ==
    \A c \in Readers :
        /\ reader[c].run \in 0 .. began
        /\ \A t \in Threads : Working(t) => sync[t].run # reader[c].run

\* A successful run is the one finished last, or some repository was last seen
\* in it. The one finished last has all it has written.
LastOwnsAll ==
    /\ last # 0 => Seen(last) = In(wrote[last])
    /\ \A n \in Successful : n = last \/ Seen(n) # {}

Owned == TypeOK /\ RunsApart /\ ReposOfSuccessfulRuns /\ LastOwnsAll

\* What a reader has read of its run is what that run has written, or nothing.
FromRun(rows, n) == \A r \in Repos : rows[r] # 0 => n # 0 /\ rows[r] = wrote[n][r]

PartsOfRun ==
    \A c \in Readers :
        /\ FromRun(reader[c].texts, reader[c].run)
        /\ FromRun(reader[c].technologies, reader[c].run)

\* An overview is given with all its texts.
DoneHasTexts == \A c \in Readers : reader[c].pc = "done" => reader[c].repos \subseteq In(reader[c].texts)

Read == ReadersApart /\ PartsOfRun /\ DoneHasTexts

\* A step that moves a thread on, without a run of another, and leaves the
\* tables alone keeps whose the repositories are.
LEMMA OwnedIfTablesStay ==
    ASSUME Owned, TypeOK', NEW t \in Threads, NEW q \in Thread,
           sync' = [sync EXCEPT ![t] = q],
           UNCHANGED <<runs, repos, wrote, last, began>>,
           \/ q.pc = "idle"
           \/ /\ sync[t].pc \notin {"idle", "start"} /\ q.pc \notin {"idle", "start"}
              /\ q.run = sync[t].run
    PROVE  Owned'
  <1>1. sync'[t] = q /\ \A u \in Threads : u # t => sync'[u] = sync[u]
    BY DEF Owned, TypeOK
  <1>2. RunsApart'
    BY <1>1 DEF Owned, RunsApart, Working, Kept
  <1>3. ReposOfSuccessfulRuns' /\ LastOwnsAll'
    BY DEF Owned, ReposOfSuccessfulRuns, LastOwnsAll, Successful, Kept, Seen, In
  <1> QED
    BY <1>2, <1>3 DEF Owned

\* A step that adds an open run or marks an open one as failed keeps the
\* successful runs, the repositories and what was written.
LEMMA TablesIfSuccessfulStay ==
    ASSUME Owned, Successful' = Successful, UNCHANGED <<repos, wrote, last>>
    PROVE  ReposOfSuccessfulRuns' /\ LastOwnsAll'
  BY DEF Owned, ReposOfSuccessfulRuns, LastOwnsAll, Seen, In

\* Every step of a sync but the last keeps whose the repositories are.
LEMMA OwnedSyncStep ==
    ASSUME Owned, TypeOK', NEW t \in Threads,
           \/ Begin(t) \/ StartRun(t) \/ FetchPage(t) \/ FetchFails(t) \/ FailRun(t)
           \/ Crash(t)
    PROVE  Owned'
  <1> DEFINE q == sync'[t]
             run == sync[t].run
  <1>0. /\ q \in Thread /\ sync[t] \in Thread /\ began \in Nat /\ MaxRuns \in Nat
        /\ run \in Nat
    BY GithubSyncAssumption DEF Owned, TypeOK, Thread
  <1>1. CASE Begin(t)
    <2> DEFINE n == began + 1
    <2>1. began' = n /\ n <= MaxRuns /\ began < n /\ n \in Nat
      BY <1>0, <1>1 DEF Begin
    <2>2. sync' = [sync EXCEPT ![t] = [NoThread EXCEPT !.pc = "start", !.run = n]]
      BY <1>1 DEF Begin, Go
    <2>3. /\ q.pc = "start" /\ q.run = n
          /\ \A u \in Threads : u # t => sync'[u] = sync[u]
      BY <2>2 DEF NoThread, Owned, TypeOK
    <2>4. runs' = runs /\ Kept' = Kept
      BY <1>1 DEF Begin, Kept
    <2> HIDE DEF n, q
    <2>5. n \notin 1 .. began /\ n \in 1 .. n /\ 1 .. began \subseteq 1 .. n
      BY <1>0, <2>1
    <2>6. RunsApart'
      BY <2>1, <2>3, <2>4, <2>5 DEF Owned, RunsApart, Working, q
    <2>7. ReposOfSuccessfulRuns' /\ LastOwnsAll'
      BY <1>1, <2>4, TablesIfSuccessfulStay DEF Begin, Successful
    <2> QED
      BY <2>6, <2>7 DEF Owned
  <1>2. CASE StartRun(t)
    <2>1. /\ sync' = [sync EXCEPT ![t] = [sync[t] EXCEPT !.pc = "fetch", !.page = 1]]
          /\ runs' = [n \in Kept \cup {run} |-> IF n = run THEN "open" ELSE runs[n]]
          /\ sync[t].pc = "start"
          /\ UNCHANGED <<repos, wrote, last, began>>
      BY <1>2 DEF StartRun, Go
    <2>2. /\ q.pc = "fetch" /\ q.run = run
          /\ \A u \in Threads : u # t => sync'[u] = sync[u]
      BY <1>0, <2>1 DEF Owned, TypeOK, Thread
    <2>3. /\ Kept' = Kept \cup {run} /\ runs'[run] = "open"
          /\ \A n \in Kept : n # run => runs'[n] = runs[n]
      BY <2>1 DEF Kept
    <2>4. Working(t) /\ run \notin Kept /\ run \in 1 .. began
      BY <2>1 DEF Owned, RunsApart, Working
    <2> HIDE DEF q, run
    <2>5. RunsApart'
      <3>1. began' <= MaxRuns /\ Kept' \subseteq 1 .. began'
        BY <2>1, <2>3, <2>4 DEF Owned, RunsApart
      <3>2. ASSUME NEW u \in Threads, Working(u)'
            PROVE  Working(u) /\ sync'[u].run = sync[u].run
        BY <2>2, <2>4, <3>2 DEF Working, run, q
      <3>3. ASSUME NEW u \in Threads, sync'[u].pc = "start"
            PROVE  sync'[u].run \notin Kept'
        <4>1. u # t /\ Working(u)
          BY <2>2, <3>3 DEF q, Working
        <4>2. sync[u].run # run
          BY <2>4, <4>1 DEF Owned, RunsApart, run
        <4> QED
          BY <2>2, <2>3, <3>3, <4>1, <4>2 DEF Owned, RunsApart
      <3>4. ASSUME NEW u \in Threads, Working(u)', sync'[u].pc # "start"
            PROVE  sync'[u].run \in Kept' /\ runs'[sync'[u].run] = "open"
        <4>1. CASE u = t
          BY <2>2, <2>3, <4>1 DEF q
        <4>2. CASE u # t
          <5>1. sync'[u] = sync[u] /\ Working(u)
            BY <2>2, <3>4, <4>2 DEF Working
          <5>2. sync[u].run # run
            BY <2>4, <4>2, <5>1 DEF Owned, RunsApart, run
          <5> QED
            BY <2>3, <3>4, <5>1, <5>2 DEF Owned, RunsApart
        <4> QED
          BY <4>1, <4>2
      <3>5. \A u \in Threads : Working(u)' => sync'[u].run \in 1 .. began'
        BY <2>1, <3>2 DEF Owned, RunsApart
      <3>6. \A u, v \in Threads :
              u # v /\ Working(u)' /\ Working(v)' => sync'[u].run # sync'[v].run
        BY <3>2 DEF Owned, RunsApart
      <3> QED
        BY <3>1, <3>3, <3>4, <3>5, <3>6 DEF RunsApart
    <2>6. Successful' = Successful
      BY <2>3, <2>4 DEF Successful
    <2> QED
      BY <2>1, <2>5, <2>6, TablesIfSuccessfulStay DEF Owned
  <1>3. CASE FetchPage(t)
    <2>1. /\ sync[t].pc = "fetch" /\ q.pc \in {"fetch", "finish"} /\ q.run = run
          /\ sync' = [sync EXCEPT ![t] = q]
      BY <1>0, <1>3 DEF FetchPage, Go, Owned, TypeOK, Thread
    <2>2. UNCHANGED <<runs, repos, wrote, last, began>>
      BY <1>3 DEF FetchPage
    <2> HIDE DEF q
    <2> QED
      BY <1>0, <2>1, <2>2, OwnedIfTablesStay
  <1>4. CASE FetchFails(t)
    <2>1. /\ sync[t].pc \in {"fetch", "finish"} /\ q.pc = "fail" /\ q.run = run
          /\ sync' = [sync EXCEPT ![t] = q]
      BY <1>0, <1>4 DEF FetchFails, Go, Owned, TypeOK, Thread
    <2>2. UNCHANGED <<runs, repos, wrote, last, began>>
      BY <1>4 DEF FetchFails
    <2> HIDE DEF q
    <2> QED
      BY <1>0, <2>1, <2>2, OwnedIfTablesStay
  <1>5. CASE FailRun(t)
    <2>1. /\ sync' = [sync EXCEPT ![t] = NoThread] /\ sync[t].pc = "fail"
          /\ runs' = [runs EXCEPT ![run] = "failed"]
          /\ UNCHANGED <<repos, wrote, last, began>>
      BY <1>5 DEF FailRun, Go
    <2>2. /\ sync'[t].pc = "idle"
          /\ \A u \in Threads : u # t => sync'[u] = sync[u]
      BY <2>1 DEF Owned, TypeOK, NoThread
    <2>3. Working(t) /\ run \in Kept /\ runs[run] = "open"
      BY <2>1 DEF Owned, RunsApart, Working
    <2>4. Kept' = Kept /\ runs'[run] = "failed" /\ \A n \in Kept : n # run => runs'[n] = runs[n]
      BY <2>1, <2>3 DEF Kept, Owned, TypeOK
    <2> HIDE DEF q
    <2>5. RunsApart'
      <3>1. ASSUME NEW u \in Threads, Working(u)'
            PROVE  u # t /\ Working(u) /\ sync'[u] = sync[u] /\ sync[u].run # run
        <4>1. u # t /\ Working(u) /\ sync'[u] = sync[u]
          BY <2>2, <3>1 DEF Working
        <4> QED
          BY <2>3, <4>1 DEF Owned, RunsApart
      <3> QED
        BY <2>1, <2>4, <3>1 DEF Owned, RunsApart, Working
    <2>6. Successful' = Successful
      BY <2>3, <2>4 DEF Successful
    <2> QED
      BY <2>1, <2>5, <2>6, TablesIfSuccessfulStay DEF Owned
  <1>6. CASE Crash(t)
    <2>1. NoThread \in Thread /\ NoThread.pc = "idle"
      BY EmptyTypes DEF NoThread
    <2>2. sync' = [sync EXCEPT ![t] = NoThread] /\ UNCHANGED <<runs, repos, wrote, last, began>>
      BY <1>6 DEF Crash, Go
    <2> HIDE DEF q, run
    <2> QED
      BY <2>1, <2>2, OwnedIfTablesStay
  <1> QED
    BY <1>1, <1>2, <1>3, <1>4, <1>5, <1>6

\* What the last step of a sync writes: the repositories it fetched are of its
\* run, the others as they were; of the other runs it keeps the open ones and
\* those that still own a repository.
LEMMA FinishRunWrites ==
    ASSUME Owned, NEW t \in Threads, FinishRun(t)
    PROVE  LET run == sync[t].run
               got == sync[t].got
           IN
           /\ run \in Kept /\ runs[run] = "open" /\ run \in 1 .. MaxRuns
           /\ \A r \in Repos : got[r] \in Nat
           /\ \A r \in Repos : got[r] # 0 => repos'[r] = [seen |-> run, version |-> got[r]]
           /\ \A r \in Repos : got[r] = 0 => repos'[r] = repos[r]
           /\ Kept' \subseteq Kept /\ run \in Kept' /\ runs'[run] = "ok"
           /\ \A n \in Kept' : n # run => runs'[n] = runs[n]
           /\ \A n \in Kept : runs[n] = "open" => n \in Kept'
           /\ \A r \in Repos : repos'[r].seen \in Kept => repos'[r].seen \in Kept'
           /\ \A n \in Kept' :
                n # run /\ runs[n] = "ok" => \E r \in Repos : repos'[r].seen = n
           /\ wrote'[run] = got /\ \A n \in 1 .. MaxRuns : n # run => wrote'[n] = wrote[n]
           /\ last' = run
           /\ sync'[t] = NoThread /\ \A u \in Threads : u # t => sync'[u] = sync[u]
  <1> DEFINE run == sync[t].run
             got == sync[t].got
             rows == Saved(got, run)
  <1>0. sync[t] \in Thread /\ sync[t].pc = "finish"
    BY DEF FinishRun, Owned, TypeOK
  <1>1. run \in Kept /\ runs[run] = "open" /\ run \in 1 .. MaxRuns
    <2>1. run \in 1 .. began /\ began <= MaxRuns /\ began \in Nat /\ MaxRuns \in Nat
      BY <1>0, GithubSyncAssumption DEF Owned, RunsApart, Working, TypeOK
    <2> QED
      BY <1>0, <2>1 DEF Owned, RunsApart, Working
  <1>2. \A r \in Repos : got[r] \in Nat
    BY <1>0 DEF Thread, Versions
  <1>3. /\ repos' = rows
        /\ runs' = [k \in KeptAfter(run, rows) |-> IF k = run THEN "ok" ELSE runs[k]]
        /\ wrote' = [wrote EXCEPT ![run] = got]
        /\ last' = run
        /\ sync' = [sync EXCEPT ![t] = NoThread]
    BY DEF FinishRun, Go
  <1>4. \A r \in Repos : repos'[r] = IF got[r] = 0 THEN repos[r]
                                      ELSE [seen |-> run, version |-> got[r]]
    BY <1>3 DEF Saved
  <1>5. Kept' = KeptAfter(run, repos')
    BY <1>3 DEF Kept
  <1>6. /\ wrote'[run] = got /\ \A n \in 1 .. MaxRuns : n # run => wrote'[n] = wrote[n]
        /\ sync'[t] = NoThread /\ \A u \in Threads : u # t => sync'[u] = sync[u]
    BY <1>1, <1>3 DEF Owned, TypeOK
  <1>7. \A n \in Kept' : runs'[n] = IF n = run THEN "ok" ELSE runs[n]
    BY <1>3, <1>5
  <1> HIDE DEF run, got, rows
  <1>8. /\ Kept' \subseteq Kept /\ run \in Kept'
        /\ \A n \in Kept : runs[n] = "open" => n \in Kept'
        /\ \A r \in Repos : repos'[r].seen \in Kept => repos'[r].seen \in Kept'
        /\ \A n \in Kept' : n # run /\ runs[n] = "ok" => \E r \in Repos : repos'[r].seen = n
    BY <1>1, <1>5 DEF KeptAfter
  <1>9. runs'[run] = "ok" /\ \A n \in Kept' : n # run => runs'[n] = runs[n]
    BY <1>7, <1>8
  <1> QED
    BY <1>1, <1>2, <1>3, <1>4, <1>6, <1>8, <1>9 DEF run, got

\* The last step keeps whose the repositories are.
LEMMA OwnedFinishStep ==
    ASSUME Owned, TypeOK', NEW t \in Threads, FinishRun(t)
    PROVE  Owned'
  <1> DEFINE run == sync[t].run
             got == sync[t].got
  <1>1. /\ run \in Kept /\ runs[run] = "open" /\ run \in 1 .. MaxRuns
        /\ \A r \in Repos : got[r] \in Nat
        /\ \A r \in Repos : got[r] # 0 => repos'[r] = [seen |-> run, version |-> got[r]]
        /\ \A r \in Repos : got[r] = 0 => repos'[r] = repos[r]
    BY FinishRunWrites
  <1>2. /\ Kept' \subseteq Kept /\ run \in Kept' /\ runs'[run] = "ok"
        /\ \A n \in Kept' : n # run => runs'[n] = runs[n]
        /\ \A n \in Kept : runs[n] = "open" => n \in Kept'
        /\ \A r \in Repos : repos'[r].seen \in Kept => repos'[r].seen \in Kept'
        /\ \A n \in Kept' : n # run /\ runs[n] = "ok" => \E r \in Repos : repos'[r].seen = n
    BY FinishRunWrites
  <1>3. /\ wrote'[run] = got /\ \A n \in 1 .. MaxRuns : n # run => wrote'[n] = wrote[n]
        /\ last' = run
        /\ sync'[t] = NoThread /\ \A u \in Threads : u # t => sync'[u] = sync[u]
        /\ began' = began
    BY FinishRunWrites DEF FinishRun
  <1>4. Working(t)
    BY DEF FinishRun, Working
  <1>5. /\ \A n \in Kept : n \in 1 .. MaxRuns /\ n # 0
        /\ \A r \in Repos : repos[r] # NoRow =>
             repos[r].seen \in Kept /\ runs[repos[r].seen] = "ok"
             /\ repos[r].version # 0 /\ wrote[repos[r].seen][r] = repos[r].version
    <2>1. began \in Nat /\ MaxRuns \in Nat /\ began <= MaxRuns
      BY GithubSyncAssumption DEF Owned, RunsApart, TypeOK
    <2>2. \A n \in Kept : n \in 1 .. MaxRuns /\ n # 0
      <3>1. \A n \in 1 .. began : n \in 1 .. MaxRuns /\ n # 0
        BY <2>1
      <3> QED
        BY <3>1 DEF Owned, RunsApart
    <2> QED
      BY <2>2 DEF Owned, ReposOfSuccessfulRuns, Successful
  <1>6. sync'[t].pc = "idle"
    BY <1>3 DEF NoThread
  <1> HIDE DEF got, run
  <1>7. RunsApart'
    <2>1. ASSUME NEW u \in Threads, Working(u)'
          PROVE  u # t /\ Working(u) /\ sync'[u] = sync[u] /\ sync[u].run # run
      <3>1. u # t /\ Working(u) /\ sync'[u] = sync[u]
        BY <1>3, <1>6, <2>1 DEF Working
      <3> QED
        BY <1>4, <3>1 DEF Owned, RunsApart, run
    <2>2. began' <= MaxRuns /\ Kept' \subseteq 1 .. began'
      BY <1>2, <1>3 DEF Owned, RunsApart
    <2>3. \A u \in Threads : Working(u)' => sync'[u].run \in 1 .. began'
      BY <1>3, <2>1 DEF Owned, RunsApart
    <2>4. \A u, v \in Threads :
            u # v /\ Working(u)' /\ Working(v)' => sync'[u].run # sync'[v].run
      BY <2>1 DEF Owned, RunsApart
    <2>5. ASSUME NEW u \in Threads, sync'[u].pc = "start"
          PROVE  sync'[u].run \notin Kept'
      <3>1. Working(u)'
        BY <2>5 DEF Working
      <3> QED
        BY <1>2, <2>1, <2>5, <3>1 DEF Owned, RunsApart
    <2>6. ASSUME NEW u \in Threads, Working(u)', sync'[u].pc # "start"
          PROVE  sync'[u].run \in Kept' /\ runs'[sync'[u].run] = "open"
      BY <1>2, <2>1, <2>6 DEF Owned, RunsApart
    <2> QED
      BY <2>2, <2>3, <2>4, <2>5, <2>6 DEF RunsApart
  <1>8. ReposOfSuccessfulRuns'
    <2> SUFFICES ASSUME NEW r \in Repos, repos'[r] # NoRow
                 PROVE  /\ repos'[r].seen \in Kept' /\ runs'[repos'[r].seen] = "ok"
                        /\ repos'[r].version # 0 /\ wrote'[repos'[r].seen][r] = repos'[r].version
      BY DEF ReposOfSuccessfulRuns, Successful, NoRow
    <2>1. CASE got[r] # 0
      <3>1. repos'[r] = [seen |-> run, version |-> got[r]]
        BY <1>1, <2>1
      <3>2. repos'[r].seen = run /\ repos'[r].version = got[r]
        BY <3>1
      <3> QED
        BY <1>2, <1>3, <2>1, <3>2
    <2>2. CASE got[r] = 0
      <3>1. repos'[r] = repos[r] /\ repos[r].seen \in Kept /\ runs[repos[r].seen] = "ok"
        BY <1>1, <1>5, <2>2
      <3>2. repos[r].seen # run
        BY <1>1, <3>1
      <3> QED
        BY <1>2, <1>3, <1>5, <3>1, <3>2
    <2> QED
      BY <2>1, <2>2
  <1>9. LastOwnsAll'
    <2>0. \A r \in Repos : repos'[r] \in Row
      BY DEF TypeOK
    <2>1. Seen(last)' = In(wrote[last])'
      <3>1. ASSUME NEW r \in Repos
            PROVE  (repos'[r].version # 0 /\ repos'[r].seen = run) <=> got[r] # 0
        <4>1. CASE got[r] # 0
          <5>1. repos'[r] = [seen |-> run, version |-> got[r]]
            BY <1>1, <4>1
          <5>2. repos'[r].seen = run /\ repos'[r].version = got[r]
            BY <5>1
          <5> QED
            BY <4>1, <5>2
        <4>2. CASE got[r] = 0
          <5>1. repos'[r] = repos[r]
            BY <1>1, <4>2
          <5>2. CASE repos[r] = NoRow
            BY <4>2, <5>1, <5>2 DEF NoRow
          <5>3. CASE repos[r] # NoRow
            BY <1>1, <1>5, <4>2, <5>1, <5>3
          <5> QED
            BY <5>2, <5>3
        <4> QED
          BY <4>1, <4>2
      <3> QED
        BY <1>3, <3>1 DEF Seen, In
    <2>2. ASSUME NEW n \in Kept', runs'[n] = "ok", n # run
          PROVE  Seen(n)' # {}
      <3>1. PICK r \in Repos : repos'[r].seen = n
        BY <1>2, <2>2
      <3>2. repos'[r] # NoRow
        BY <1>2, <1>5, <3>1 DEF NoRow
      <3>3. repos'[r].version # 0
        BY <1>8, <3>2 DEF ReposOfSuccessfulRuns, NoRow
      <3> QED
        BY <3>1, <3>3 DEF Seen
    <2> QED
      BY <1>3, <2>1, <2>2 DEF LastOwnsAll, Successful
  <1> QED
    BY <1>7, <1>8, <1>9 DEF Owned

\* A read and a change of the account touch nothing of this.
LEMMA OwnedElsewhere ==
    ASSUME Owned, TypeOK', UNCHANGED <<runs, repos, sync, began, wrote, last>>
    PROVE  Owned'
  <1>1. RunsApart'
    BY DEF Owned, RunsApart, Working, Kept
  <1>2. ReposOfSuccessfulRuns' /\ LastOwnsAll'
    BY DEF Owned, ReposOfSuccessfulRuns, LastOwnsAll, Successful, Kept, Seen, In
  <1> QED
    BY <1>1, <1>2 DEF Owned

\* Every step keeps whose the repositories are.
LEMMA OwnedStep == Owned /\ [Next]_vars => Owned'
  <1> SUFFICES ASSUME Owned, [Next]_vars
               PROVE  Owned'
    OBVIOUS
  <1>0. TypeOK'
    BY TypeStep DEF Owned
  <1>1. ASSUME NEW t \in Threads,
               \/ Begin(t) \/ StartRun(t) \/ FetchPage(t) \/ FetchFails(t) \/ FailRun(t)
               \/ Crash(t)
        PROVE  Owned'
    BY <1>0, <1>1, OwnedSyncStep
  <1>2. ASSUME NEW t \in Threads, FinishRun(t)
        PROVE  Owned'
    BY <1>0, <1>2, OwnedFinishStep
  <1>3. ASSUME NEW c \in Readers, ReadRun(c) \/ ReadRepos(c) \/ ReadTexts(c) \/ ReadTechnologies(c) \/ Answer(c)
        PROVE  Owned'
    <2>1. UNCHANGED <<runs, repos, sync, began, wrote, last>>
      BY <1>3 DEF ReadRun, ReadRepos, ReadTexts, ReadTechnologies, Answer
    <2> QED
      BY <1>0, <2>1, OwnedElsewhere
  <1>4. ASSUME NEW r \in Repos, Publish(r) \/ Withdraw(r)
        PROVE  Owned'
    BY <1>0, <1>4, OwnedElsewhere DEF Publish, Withdraw
  <1>5. CASE UNCHANGED vars
    BY <1>0, <1>5, OwnedElsewhere DEF vars
  <1> QED
    BY <1>1, <1>2, <1>3, <1>4, <1>5 DEF Next

\* At first nothing is stored and nothing runs.
LEMMA OwnedInit == Init => Owned
  <1> SUFFICES ASSUME Init
               PROVE  Owned
    OBVIOUS
  <1>1. TypeOK
    BY TypeInit
  <1>2. Kept = {} /\ began = 0 /\ began <= MaxRuns
    BY GithubSyncAssumption DEF Init, Kept
  <1>3. \A t \in Threads : sync[t].pc = "idle"
    BY DEF Init, NoThread
  <1>4. RunsApart
    BY <1>2, <1>3 DEF RunsApart, Working
  <1>5. ReposOfSuccessfulRuns /\ LastOwnsAll
    BY <1>2 DEF Init, ReposOfSuccessfulRuns, LastOwnsAll, Successful
  <1> QED
    BY <1>1, <1>4, <1>5 DEF Owned

\* A stored repository is what the successful run it was last seen in wrote,
\* whatever other runs did meanwhile.
THEOREM StoredIsWritten == Spec => []ReposOfSuccessfulRuns
  <1>1. Spec => []Owned
    BY OwnedInit, OwnedStep, PTL DEF Spec
  <1>2. Owned => ReposOfSuccessfulRuns
    BY DEF Owned
  <1> QED
    BY <1>1, <1>2, PTL

\* The newest successful run has repositories if the one finished last wrote
\* any.
THEOREM PortfolioStays == Spec => []OverviewNotEmptied
  <1>1. Spec => []Owned
    BY OwnedInit, OwnedStep, PTL DEF Spec
  <1>2. Owned => OverviewNotEmptied
    BY DEF Owned, LastOwnsAll, OverviewNotEmptied, IsNewest
  <1> QED
    BY <1>1, <1>2, PTL

-----------------------------------------------------------------------------
(* What a reader gets.                                                      *)

\* The step of a sync leaves the overviews in work as they are: what a reader's
\* run wrote is not written again.
LEMMA ReadSyncStep ==
    ASSUME Owned, Owned', Read, NEW t \in Threads,
           \/ Begin(t) \/ StartRun(t) \/ FetchPage(t) \/ FetchFails(t) \/ FailRun(t)
           \/ FinishRun(t) \/ Crash(t)
    PROVE  Read'
  <1>0. /\ reader' = reader
        /\ \A u \in Threads : sync[u] \in Thread /\ sync[u].run \in Nat /\ sync[u].page \in Nat
        /\ began \in Nat
    BY DEF Begin, StartRun, FetchPage, FetchFails, FailRun, FinishRun, Crash, Owned, TypeOK, Thread
  <1>1. \A u \in Threads : u # t => sync'[u] = sync[u]
    BY DEF Begin, StartRun, FetchPage, FetchFails, FailRun, FinishRun, Crash, Go, Owned, TypeOK
  <1>2. \/ sync'[t].pc = "idle" /\ began' = began
        \/ Working(t) /\ sync'[t].run = sync[t].run /\ began' = began
        \/ sync'[t].run = began + 1 /\ began' = began + 1
    <2>1. CASE Begin(t)
      BY <2>1 DEF Begin, Go, Owned, TypeOK, NoThread
    <2>2. CASE StartRun(t) \/ FetchPage(t) \/ FetchFails(t)
      <3>1. Working(t) /\ began' = began
        BY <2>2 DEF StartRun, FetchPage, FetchFails, Working
      <3>2. sync'[t].run = sync[t].run
        <4>1. CASE StartRun(t)
          BY <1>0, <4>1 DEF StartRun, Go, Owned, TypeOK, Thread
        <4>2. CASE FetchPage(t)
          BY <1>0, <4>2 DEF FetchPage, Go, Owned, TypeOK, Thread
        <4>3. CASE FetchFails(t)
          BY <1>0, <4>3 DEF FetchFails, Go, Owned, TypeOK, Thread
        <4> QED
          BY <2>2, <4>1, <4>2, <4>3
      <3> QED
        BY <3>1, <3>2
    <2>3. CASE FailRun(t) \/ FinishRun(t) \/ Crash(t)
      BY <2>3 DEF FailRun, FinishRun, Crash, Go, Owned, TypeOK, NoThread
    <2> QED
      BY <2>1, <2>2, <2>3
  <1>3. ReadersApart'
    <2> SUFFICES ASSUME NEW c \in Readers
                 PROVE  /\ reader[c].run \in 0 .. began'
                        /\ \A u \in Threads : Working(u)' => sync'[u].run # reader[c].run
      BY <1>0 DEF ReadersApart
    <2>1. reader[c].run \in 0 .. began /\ reader[c].run \in 0 .. began' /\ reader[c].run # began + 1
      BY <1>0, <1>2 DEF Read, ReadersApart
    <2>2. ASSUME NEW u \in Threads, Working(u)'
          PROVE  sync'[u].run # reader[c].run
      <3>1. CASE u # t
        BY <1>1, <2>2, <3>1 DEF Read, ReadersApart, Working
      <3>2. CASE u = t
        BY <1>2, <2>1, <2>2, <3>2 DEF Read, ReadersApart, Working
      <3> QED
        BY <3>1, <3>2
    <2> QED
      BY <2>1, <2>2
  <1>4. PartsOfRun'
    <2> SUFFICES ASSUME NEW c \in Readers, NEW rows, FromRun(rows, reader[c].run)
                 PROVE  FromRun(rows, reader[c].run)'
      BY <1>0 DEF PartsOfRun, Read
    <2>1. CASE FinishRun(t)
      <3> SUFFICES ASSUME reader[c].run # 0
                   PROVE  wrote'[reader[c].run] = wrote[reader[c].run]
        BY <1>0 DEF FromRun
      <3>1. sync[t].run # reader[c].run
        BY <2>1 DEF FinishRun, Working, Read, ReadersApart
      <3> QED
        BY <2>1, <3>1 DEF FinishRun, Owned, TypeOK
    <2>2. CASE ~ FinishRun(t)
      <3>1. wrote' = wrote
        BY <2>2 DEF Begin, StartRun, FetchPage, FetchFails, FailRun, Crash
      <3> QED
        BY <1>0, <3>1 DEF FromRun
    <2> QED
      BY <2>1, <2>2
  <1>5. DoneHasTexts'
    BY <1>0 DEF Read, DoneHasTexts, In
  <1> QED
    BY <1>3, <1>4, <1>5 DEF Read

\* The rows of a run are what it has written.
LEMMA RowsOfRun ==
    ASSUME Owned, NEW n, NEW found
    PROVE  FromRun(Of(found, TextRows(n)), n)
  <1> SUFFICES ASSUME NEW r \in Repos, Of(found, TextRows(n))[r] # 0
               PROVE  n # 0 /\ Of(found, TextRows(n))[r] = wrote[n][r]
    BY DEF FromRun
  <1>1. r \in Seen(n) /\ Of(found, TextRows(n))[r] = repos[r].version
    BY DEF Of, TextRows
  <1>2. repos[r] # NoRow /\ repos[r].seen = n
    BY <1>1 DEF Seen, NoRow
  <1>3. n \in Kept /\ wrote[n][r] = repos[r].version
    BY <1>2 DEF Owned, ReposOfSuccessfulRuns, Successful
  <1>4. n # 0
    BY <1>3 DEF Owned, TypeOK, RunsApart
  <1> QED
    BY <1>1, <1>3, <1>4

\* A step of a read takes a run nobody works on, and texts of that run.
LEMMA ReadReaderStep ==
    ASSUME Owned, Read, NEW c \in Readers,
           ReadRun(c) \/ ReadRepos(c) \/ ReadTexts(c) \/ ReadTechnologies(c) \/ Answer(c)
    PROVE  Read'
  <1> DEFINE q == reader'[c]
  <1>0. /\ UNCHANGED <<runs, repos, sync, began, wrote>>
        /\ \A d \in Readers : d # c => reader'[d] = reader[d]
        /\ reader[c] \in Reader /\ began \in Nat
    BY DEF ReadRun, ReadRepos, ReadTexts, ReadTechnologies, Answer, Owned, TypeOK
  <1>1. \/ q.run = 0
        \/ q.run \in Successful
        \/ q.run = reader[c].run
    <2>1. CASE ReadRun(c)
      BY <2>1 DEF ReadRun, NoReader, Owned, TypeOK
    <2>2. CASE ReadRepos(c)
      BY <1>0, <2>2 DEF ReadRepos, Owned, TypeOK, Reader
    <2>3. CASE ReadTexts(c)
      BY <1>0, <2>3 DEF ReadTexts, Owned, TypeOK, Reader
    <2>4. CASE ReadTechnologies(c)
      BY <1>0, <2>4 DEF ReadTechnologies, Owned, TypeOK, Reader
    <2>5. CASE Answer(c)
      BY <2>5 DEF Answer, NoReader, Owned, TypeOK
    <2> QED
      BY <2>1, <2>2, <2>3, <2>4, <2>5
  <1>2. q.run \in 0 .. began /\ \A t \in Threads : Working(t) => sync[t].run # q.run
    <2>1. CASE q.run = 0
      <3>1. 0 \in 0 .. began /\ \A n \in 1 .. began : n # 0
        BY <1>0
      <3> QED
        BY <2>1, <3>1 DEF Owned, RunsApart
    <2>2. CASE q.run \in Successful
      <3>1. 1 .. began \subseteq 0 .. began
        BY <1>0
      <3>2. q.run \in Kept /\ runs[q.run] = "ok"
        BY <2>2 DEF Successful
      <3> QED
        BY <3>1, <3>2 DEF Owned, RunsApart, Working
    <2>3. CASE q.run = reader[c].run
      BY <2>3 DEF Read, ReadersApart
    <2> QED
      BY <1>1, <2>1, <2>2, <2>3
  <1>3. /\ FromRun(q.texts, q.run) /\ FromRun(q.technologies, q.run)
        /\ q.pc = "done" => q.repos \subseteq In(q.texts)
    <2> DEFINE rows == Of(reader[c].repos, TextRows(reader[c].run))
    <2>0. FromRun(Nothing, q.run)
      BY DEF FromRun, Nothing
    <2>1. CASE ReadRun(c)
      <3>1. q.texts = Nothing /\ q.technologies = Nothing /\ q.repos = {}
        BY <2>1 DEF ReadRun, NoReader, Owned, TypeOK
      <3> QED
        BY <2>0, <3>1
    <2>2. CASE ReadRepos(c)
      <3>1. /\ q.texts = reader[c].texts /\ q.technologies = reader[c].technologies
            /\ q.run = reader[c].run /\ q.pc = "texts"
        BY <1>0, <2>2 DEF ReadRepos, Owned, TypeOK, Reader
      <3> QED
        BY <3>1 DEF Read, PartsOfRun
    <2>3. CASE ReadTexts(c)
      <3>1. reader' = [reader EXCEPT ![c] =
                         [reader[c] EXCEPT !.pc = "technologies", !.texts = rows]]
        BY <2>3 DEF ReadTexts
      <3> HIDE DEF rows
      <3>2. /\ q.texts = rows /\ q.technologies = reader[c].technologies
            /\ q.run = reader[c].run /\ q.pc = "technologies"
        BY <1>0, <3>1 DEF Owned, TypeOK, Reader
      <3>3. FromRun(rows, reader[c].run)
        BY RowsOfRun DEF rows
      <3> QED
        BY <3>2, <3>3 DEF Read, PartsOfRun
    <2>4. CASE ReadTechnologies(c)
      <3>1. reader' = [reader EXCEPT ![c] =
                         IF reader[c].repos \subseteq In(reader[c].texts)
                         THEN [reader[c] EXCEPT !.pc = "done", !.technologies = rows]
                         ELSE [reader[c] EXCEPT !.pc = "error"]]
        BY <2>4 DEF ReadTechnologies
      <3> HIDE DEF rows
      <3>2. /\ q.texts = reader[c].texts /\ q.technologies \in {rows, reader[c].technologies}
            /\ q.run = reader[c].run /\ q.repos = reader[c].repos
            /\ q.pc = "done" => reader[c].repos \subseteq In(reader[c].texts)
        BY <1>0, <3>1 DEF Owned, TypeOK, Reader
      <3>3. FromRun(rows, reader[c].run)
        BY RowsOfRun DEF rows
      <3> QED
        BY <3>2, <3>3 DEF Read, PartsOfRun
    <2>5. CASE Answer(c)
      <3>1. q.texts = Nothing /\ q.technologies = Nothing /\ q.repos = {}
        BY <2>5 DEF Answer, NoReader, Owned, TypeOK
      <3> QED
        BY <2>0, <3>1
    <2> QED
      BY <2>1, <2>2, <2>3, <2>4, <2>5
  <1> HIDE DEF q
  <1>4. ReadersApart'
    BY <1>0, <1>2 DEF Read, ReadersApart, Working, q
  <1>5. PartsOfRun' /\ DoneHasTexts'
    BY <1>0, <1>3 DEF Read, PartsOfRun, DoneHasTexts, FromRun, In, q
  <1> QED
    BY <1>4, <1>5 DEF Read

\* An overview that is given has the texts of one run, and no technologies of
\* another, for any number of readers and of syncs that commit between their
\* statements.
THEOREM OneRunRead == Spec => []OverviewOfOneRun
  <1>1. Init => Owned /\ Read
    <2> SUFFICES ASSUME Init
                 PROVE  Read
      BY OwnedInit
    <2>1. \A c \in Readers :
            /\ reader[c].pc = "idle" /\ reader[c].run = 0
            /\ \A r \in Repos : reader[c].texts[r] = 0 /\ reader[c].technologies[r] = 0
      BY DEF Init, NoReader, Nothing
    <2>2. \A t \in Threads : sync[t].pc = "idle"
      BY DEF Init, NoThread
    <2>3. 0 \in 0 .. began
      BY DEF Init
    <2> QED
      BY <2>1, <2>2, <2>3 DEF Read, ReadersApart, PartsOfRun, DoneHasTexts, FromRun, In, Working
  <1>2. Owned /\ Read /\ [Next]_vars => Owned' /\ Read'
    <2> SUFFICES ASSUME Owned, Read, [Next]_vars
                 PROVE  Owned' /\ Read'
      OBVIOUS
    <2>0. Owned'
      BY OwnedStep
    <2>1. ASSUME NEW r \in Repos, Publish(r) \/ Withdraw(r)
          PROVE  Read'
      <3>1. UNCHANGED <<sync, began, wrote, reader>>
        BY <2>1 DEF Publish, Withdraw
      <3> QED
        BY <3>1 DEF Read, ReadersApart, PartsOfRun, DoneHasTexts, FromRun, In, Working
    <2>2. CASE UNCHANGED vars
      BY <2>0, <2>2 DEF vars, Read, ReadersApart, PartsOfRun, DoneHasTexts, FromRun, In, Working
    <2> QED
      BY <2>0, <2>1, <2>2, ReadSyncStep, ReadReaderStep DEF Next
  <1>3. Owned /\ Read => OverviewOfOneRun
    <2> SUFFICES ASSUME Owned, Read, NEW c \in Readers, reader[c].pc = "done",
                        NEW r \in reader[c].repos
                 PROVE  LET written == wrote[reader[c].run][r] IN
                        /\ reader[c].texts[r] # 0 /\ reader[c].texts[r] = written
                        /\ reader[c].technologies[r] \in {0, written}
      BY DEF OverviewOfOneRun
    <2>1. r \in Repos /\ reader[c].texts[r] # 0
      BY DEF Read, DoneHasTexts, In
    <2> QED
      BY <2>1 DEF Read, PartsOfRun, FromRun
  <1> QED
    BY <1>1, <1>2, <1>3, PTL DEF Spec

=============================================================================
