# drmaa2-mock: models, checks and proofs

drmaa2-mock is the reference implementation of the DRMAAv2 C binding. It maps
job submission and monitoring to forked local processes, and keeps sessions,
templates, jobs and reservations in an SQLite file that all of them share. There
is no server and no lock but the one SQLite holds during a statement: whatever
several processes do to one job, they do in the order their statements happen to
reach the file.

This directory holds TLA+ models of that code, TLC configurations that check them
on small instances, and TLAPS proofs for instances of any size. `src/...` below
is the repository.

## 1. Inventory

| Component | Source | State it keeps | Operations | What makes it correct |
|---|---|---|---|---|
| Submission, monitoring, control | `drmaa2-specific.c:213-308`, `drmaa2.c:780-921`, `drmaa2-persistence.c:966-1007, 1083-1100` | columns `job_state`, `pid`, `exit_status`; one named semaphore per job; a monitor and a job process per job | run_job, the monitor, suspend, resume, hold, release, terminate, wait_started, wait_terminated | a returned handle can be used at once; states and exit status tell the truth; a finished job stays finished; nobody waits for ever |
| Job sessions and submission | `drmaa2.c:492-699, 939-1056`, `drmaa2-persistence.c:214-313, 1010-1019` | tables `job_sessions`, `job_templates`, `jobs`, `job_arrays`; copies of session rows in handles | create, open, destroy, run_job, run_bulk_jobs | a session has its own jobs and no others; a job has its own template; an array has a job per index |
| Reservations | `drmaa2.c:281-367, 966-1065`, `drmaa2-persistence.c:519-746` | tables `reservation_sessions`, `reservation_templates`, `reservations` | create, open, destroy, request_reservation, the queries | a reservation has its own template and name, and is listed by sessions of its name only |
| List and dictionary | `drmaa2-list.c:9-138`, `drmaa2-dict.c` | cells and pointers, a size, a callback that releases entries | create, add, del, get, free; create, set, get, has, del, list, free | a sequence and a partial function; nothing leaked, nothing used after release |
| String split and join | `drmaa2-list.c:141-185` | none | string_split, string_join | join then split is the identity on lists it can carry |
| Template and info codec | `drmaa2-persistence.c:296-313, 577-588, 686-960` | none | one conversion per column | what is stored is what is read back |
| Job filter | `drmaa2-persistence.c:352-516` | none | build_query_string, get_jobs | a filter selects the jobs that match it |
| Job arrays | `drmaa2.c:370-424`, `drmaa2-persistence.c:1021-1080` | none of their own | one control call per job of the array | as for single jobs |
| wait_any | `drmaa2.c:702-760` | none | polling over a list of jobs | returns a job that has started or ended |
| Notifications | `drmaa2-specific.c:24-31`, `drmaa2.c:1083` | one global callback per process | register, a call after each state write | every change is announced, in order |
| Storage access | `drmaa2-persistence.c:148-209` | the file | open_db, query, query_rowid, reset_db | a statement is atomic; a failure is noticed |
| Reset tool | `drmaa2-reset-db.c` | | delete all rows | only meant for an idle system |
| Introspection, constructors, free functions | rest of `drmaa2.c`, `drmaa2-specific.c` | none | | |
| SQLite | `lib/` (vendored) | | | taken as given |

How they interact. A client process calls the library. run_job stores a template
and a job row, opens the semaphore `drmaa2<row id>` with value 0, forks a *monitor*
and waits on the semaphore. The monitor forks the *job process*, writes its pid,
posts the semaphore, waits for the job process and writes the exit status and then
DONE or FAILED. The job process leaves its owner's process group, writes RUNNING
and calls execv. Control calls read the state in one transaction and write it in
another; terminate reads the pid and signals the pid's process group; the wait
calls poll. Session handles are copies of rows and are tested by name only. Row
ids are carried from one statement to the next by the program, on a new connection
for each.

What is hard: every pair of these steps may be interleaved; processes may be
killed anywhere; a call that waits may return too early; a handle outlives its session;
row ids of different tables are mixed up; a loop ends only if another process writes.
`PROJECT.json` lists the hazards one by one, at their lines, with the properties that
watch over them. A few have none, because the code simply meets the hazard and nothing
could be claimed but that; their notes say so.

## 2. Modules

### JobLifecycle (core)

One step per transaction, system call or test between two of them. The columns are
`state`, `pid` and `exit`, functions from row ids; `sem` is the semaphore, `mon`
and `proc` the program counters of the monitor and the job process, `status` the
wait status, `returned` the jobs whose handle has been returned. A client has a
program counter `pc`, the job `cur` its call is about, `arg`, what the call
still has to do, and in terminate `found`, the job whose process had the pid when
its group was looked up.

`number` is the pid of a job process. A process has its pid until it has been waited
for (`HasPid`), also as a zombie; after that the kernel may give the pid to the next
job (`GetPid`), while the column of the old one still names it. `Pid` is the set of
pids in use by jobs; pids that go to processes of other programs are left out. A zombie
is still in its group, so getpgid and killpg find it until it has been waited for.

No call fails here but execv, and clients and monitors die only of a NULL column or of a
terminate that hits their group: sem_wait returns when the semaphore has been posted and
waitpid when the job process has ended. JobFaults has what happens otherwise.

| Code | Actions |
|---|---|
| `save_job`, `submit_job_to_DRMS` | `SaveJob`, `SaveQueued`, `ForkMonitor`, `SemWait` |
| `start_and_monitor_job`, parent | `ForkJob`, `SavePid`, `PostSem`, `Reap`, `SaveExitStatus`, `SaveVerdict` |
| `start_and_monitor_job`, child | `Setsid`, `SaveRunning`, `Exec`, `ExecFails` |
| suspend, resume, hold, release | `BeginControl` (get_state and the test), `EndControl` (save_state) |
| terminate | `BeginTerminate` (pid and getpgid of whoever has it), `EndTerminate` (killpg: `SignalJob`, `SignalOwner`, `SignalNobody`) |
| wait_started, wait_terminated | `BeginWait`, `WaitPoll` |
| the job's program | `End` (external) |

A killpg of the job's group kills the job process, or is caught by its program. A
killpg of the group the job was forked in kills its owner, the owner's monitors and
those of its jobs that have not called setsid. A NULL column crashes the reader
(`atoi(NULL)`), as the code would. A job process whose execv fails is `strayed`: it
returns from run_job into a copy of its owner's program, of which only the end is
modelled. The sleep of the polling loops and the error numbers are left out.

`JobContract` is the abstract specification: a job gets one process, its handle is
handed out when it has one, it ends once, and one exit status is recorded after
the end that agrees with it. JobLifecycle refines it (`phase <- Phase`,
`launched <- Launched`, `outcome <- status`, `recorded <- exit`).

### JobSessions

The tables as sequences indexed by row id, sessions as a function from names to
rows, handles as copies of rows. run_job is `RunJob` (the checks), `CheckCategory`
(a second look at the session, which crashes if the session is gone by then),
`SaveTemplate` and `SaveJob`; run_bulk_jobs adds `RunBulk`, `LoopRunJob`,
`SaveBulkTemplate` and `SaveArray`. A template is what it says plus the index its
placeholders were replaced with. An INSERT may fail (`Fail`): query_rowid answers 0
and the call goes on with that. A client may be killed at any point of a call
(`Die`). `created`, `given` and `lost` are history: which sessions there were, what
each job was really submitted with, and which bulk jobs will get no array because
their client was gone or the array's INSERT failed.

### Reservations

Request, template, reservation and name are four steps (`Request`,
`SaveRTemplate`, `InsertReservation`, `NameReservation`); a client may die between
any two (`Die`) and start again without a handle. Each statement may fail, and
`NameReservation` always does for a name with an apostrophe (`Unquotable`), which is
put into the UPDATE as it is. `Reset` is drmaa2-reset-db: all rows go, row ids start
again, handles and requests in progress stay. History: `made` and `given` (the session
a reservation was requested in, its template, and whether that was stored, failed or
lost to a reset), `disturbed` (rows of templates and reservations may have different
ids: requests overlapped before their last INSERT, a client died there, an INSERT
failed or a reset came there) and `lost` (reservations without a name of their own:
the UPDATE failed or never came, or a request of before a reset had the same row id).

### Containers and ContainersContract

The list and the dictionary over one heap of cells: next pointers, heads, size,
and which cells are allocated, so that a cell freed by one may be taken by the
other. malloc takes the lowest free cell; when there is none, list_add returns
DRMAA2_OUT_OF_RESOURCE and changes nothing. `released` holds the values the
callback was given. `ContainersContract` is a sequence and a partial function; the
refinement mapping follows the pointers (`Items`, `Entries`). list_del calls the
callback with a wrong argument, which is undefined: after it `running` is FALSE and
nothing more is claimed. Containers are not shared between processes, so their
operations are single steps. `Value` stands for strings the caller hands over, by their
address; `Key` for texts, of which drmaa2_dict_list makes copies. The two are disjoint,
since a copy is never a string somebody handed over.

### JobFaults

run_job, the monitor and the job process once more, now with failures. Each submission
is made by a client of its own. These, and no others, are the things that can go wrong:

* A statement fails (the database is locked for more than 30 s, the disk is full):
  `query` prints it and its callers go on, `query_rowid` returns 0 and run_job goes on
  with row id 0.
* sem_open fails, because the name is there or for another reason: the client exits.
* A fork fails: client or monitor exits.
* sem_wait is interrupted by a signal handler of the application
  (`SemWaitInterrupted`). Its result is ignored: the semaphore is unlinked and the handle
  returned before there is a pid in the row, or even a job process.
* waitpid fails (`WaitPidFails`): with EINTR at any time, because the monitor is a fork of
  the application and inherits its handlers, or with ECHILD when the job has ended, if the
  application ignores SIGCHLD. Its result is ignored too, and `status` was never set: the
  monitor (now in `unwaited`) records what was on the stack as exit status, and DONE,
  FAILED or no verdict at all, perhaps of a job that is still running.
* A job process ends at any time after its fork (`End`; a failed execv is in JobLifecycle).
* A client or monitor is killed anywhere (`ClientDies`, `MonitorDies`; a database that
  cannot be opened ends the process too).
* drmaa2-reset-db runs at any time (`Reset`): rows go, semaphores, processes and handles
  stay, and the next job gets row id 1 again.

`faults` counts them up to `MaxFaults`, but for ends of jobs and resets. A column holds only the
submission whose process wrote it; `names` maps row ids to the client that owns the
semaphore of that name. `missed`, `hurried` and `disturbed` are history: submissions one
of whose statements failed, clients whose sem_wait was interrupted, and a reset while
somebody was at work.

### JobWatch

The calls that go over a list: `Look` reads one job and tests it, `SaveMove` and
`TellMove` write and announce a control call's change, `NextRound` and `GiveUp` end a
round of a polling loop. The job process and the monitor announce after they write
(`TellRunning`, `TellVerdict`) if the client had a callback when it forked them.
run_job is a single step, `Submit`; JobLifecycle has its parts. `due` holds the
changes still to be announced, `steady` the jobs that have been where a call wants
them since it last started on its list; both are history. `Calls` and `List` say
which calls a client makes and on which lists.

### BulkArrays

The loop of run_bulk_jobs alone, over words of `Word` values, for every begin, end
and step: `Check`, then `Fill`, `RunJob` and `Restore` for each index, then
`SaveArray`. index, end and step are unsigned longs, and `index += step` wraps. The
caller's template has a working directory and one of the three other paths, which
are replaced alike; a path is a sequence of placeholders and ordinary characters.
Between two jobs of the loop other clients may insert any number of jobs in
`Others`. A call that never ends goes on up to `MaxJobs`.

### StringLists, TemplateCodec and JobFilter

Small programs around operators: `Store` and `Load` a template, `Ask` for jobs. MCRecords
puts them beside the bulk loop, as a choice of one of the three. `Split` and `Join` are
string_split and string_join on sequences of characters; `NextCut` is the strchr of the
loop, and the cuts it finds one after the other are the places where items end. `Save` and `Read` take a template through a row and back,
with one member for each kind of conversion (the table is in the module's head): what
`%d` cuts off, what atoi makes of it, the dictionaries that are stored as NULL, the
times that are stored as numbers and read with strptime, and endTime, which the
reader compares under a name no column has. `Where` is the condition
build_query_string makes of a filter, evaluated with NULLs; texts in double quotes are
columns if there is one of that name (`AsColumn`). `Info` is what get_jobinfo_callback
makes of the same row. Exit and Error stand for a reader that ends the program and a
statement that is refused.

`MC*` modules add the model values and symmetry sets. Every module also holds
*faulty variants*: an action or operator with a plausible bug in it. They are not
part of any specification; putting one in the place of the correct definition
makes the property it is meant for fail.

## 3. Runs

| Run | Instance | Checks |
|---|---|---|
| JobSafety | 2 clients, 2 jobs, 2 pids, exit code 3, finite timeouts | TypeOK, HandleUsable, StartedTruthful, VerdictTruthful, SettledForGood, KillAccounted, MeetsContract |
| JobLiveness | 2 clients, 1 job, 1 pid, both timeouts | SubmitReturns, ExitRecorded, WaitReturns |
| TerminalIsFinal | as JobLiveness, safety only | violated, see 6 |
| TerminateHitsJob | as JobLiveness, safety only | violated, see 6 |
| JobSessions | 2 clients, 1 session name created twice, 2 ids, 3 template kinds, bulk range 1..2, 1 failed INSERT, any deaths | TypeOK, SessionIsolation, SubmittedTemplate, ArrayComplete |
| GetJtIsSubmitted | the same, nothing fails | violated, see 6 |
| Reservations | 2 clients, 2 names, 2 sessions, 2 templates of 2 kinds, 1 failed statement or reset, any deaths | TypeOK, TemplateKept, NamedAfterItsRow, ReadBackInStep, SharedByName |
| JobFaults | 2 submissions, 2 failures, early returns or kills, 1 reset, row ids 0 to 2 | TypeOK, OwnRowOnly, NamesAccounted, HandleHasJob, VerdictRecorded, HangsOnlyWithoutMonitor |
| JobWatch | 2 jobs; one client submits, registers, suspends and resumes, the other waits for any of none or both; 2 control changes | TypeOK, ToldOnce, ToldInOrder, NoneLeftOut, WaitAnyReturns |
| Containers | 4 cells, 3 values, 2 keys | TypeOK, CellsAccounted, SizeIsLength, NoReleasedEntry, MeetsContract, DelTakesItsPosition |
| DelReleases | the same | violated, see 6 |
| Records | words of 3 bits, 6 jobs, 2 paths; texts of up to 2 characters, 16 ints; rows and filters over 3 session names, 2 ids, 2 states, 2 times | ArrayReadBack, ReadBack, FilterAgreesWithInfo, LoopEnds |

Bounds. Two clients and two jobs let two submissions overlap, a client act on the
other's job, and a signal to one owner hit two jobs. Two pids let both jobs run at
once, and let the second take the first's or another; the liveness run has one pid for
its one job, because a job that finds no free pid is not a case of the code. Exit code 3 differs from 0
(what WEXITSTATUS yields for a signal) and from NullExit. One session name is
enough because only sessions of the same name can be confused; two creations make
a predecessor and a successor; two ids let them draw equal or different ones.
One failure is enough to put any one INSERT out of step, and deaths are unbounded.
Reservations have a second name, because they have no id: sessions of different names
must not see each other's, and a session may be created again under a name.
Eight values of a word make the loop wrap around for small ends and steps; a regular
range has at most six jobs, so that `MaxJobs = 6` cuts off irregular ones only.
Sixteen ints have values on both sides of both ends (-9, -8, 7, 8), and 13, which is
cut to -3, the unset time. `MaxTemplates = 3` is tested where a call begins, so calls in progress go beyond
it, and two bulk calls can run side by side. Four cells hold two entries of each
container, or three and one: head, middle and last position differ. In JobFaults one
reset lets the second submission take the row id and meet the semaphore of the
first, and two faults let both INSERTs fail, a statement and a process, or an interrupted
sem_wait meet a monitor that cannot fork or a waitpid that fails;
`MaxRows = 2` is one row per submission and cuts nothing off. In
JobWatch two jobs in a fixed order have a first and a last; two control changes let a
job be suspended and resumed under a waiting client; hold and release differ only in
the states and are raced with the job process in JobSafety. A finite timeout that
may never be over stands for the infinite one too. Symmetry is
used over clients, jobs and values, in safety runs only. `CHECK_DEADLOCK FALSE` is
set throughout: clients that have crashed and jobs that have all ended leave
nothing to do, and bounds end the rest.

Fairness in JobLifecycle: weak fairness of `ClientStep(c)`, `MonitorStep(j)` and
`LaunchStep(j)`. The operating system runs every runnable process, and each of
these processes does one thing after the other, so a step stays enabled until it
is taken. No fairness is assumed of new calls, of the job's program ending, or of
a finite timeout. The liveness properties name what may legitimately prevent them:
a kill of the client or the monitor, or a verdict that was overwritten. JobFaults
assumes the same of clients, monitors and job processes before execv; its faults,
like those of the real system, are never owed: `SemWaitInterrupted` and `WaitPidFails`
are outside the fair steps, so no property relies on a call returning too early. JobWatch
assumes only that a call in progress goes on, and BulkArrays that its one client does: `WF_vars(Next)` of a process
that has always at most one step to take. The other modules make no liveness claim.

## 4. Properties worth a word

* `HandleUsable`: pid and state are in the row when run_job returns. It holds only
  because the semaphore is posted after save_pid, and only if sem_wait is not
  interrupted; `HandleHasJob` says what is left of it then.
* `StartedTruthful`: no interleaving of hold, release and the job process makes
  wait_started return for a job that has not run.
* `VerdictTruthful`: a terminal state comes after the right exit status (if waitpid
  succeeds; see `VerdictRecorded`).
* `SettledForGood`: the strongest form of "terminal is final" the code has. Once
  the verdict is in *and* no control call admitted before is pending, the state never
  changes.
* `SessionIsolation`: a handle lists exactly the jobs of its own session, stale
  handles included, unless two sessions of a name drew the same random id.
* `SubmittedTemplate`, `TemplateKept`: the row id carried between two connections
  is the right one, whoever writes in between.
* `ArrayComplete`: indices, order, session and restored placeholders of an array; an
  INSERT that failed leaves its own gap and no other; a bulk job is in exactly one
  array unless its call was cut short.
* `ReadBackInStep`: template rows and reservation rows have equal ids as long as
  no two requests overlap; that is the only reason why reading a template by the
  reservation's id works in a single-threaded test. A reset of an idle database puts
  the rows back in step.
* `SharedByName`: a reservation session lists the reservations of its own and of every
  earlier or later session of its name, and no others. Destroying a session leaves its
  reservations, and unlike jobs they have no session id; a session created again under
  a name is therefore not empty. tests/test_rsession.c:83-85 takes a new session to be
  empty, in a database where its name is used once.
* `KillAccounted`: terminate looks up and signals in two steps, with a pid that
  outlives its process. It ends a process of another job in two cases only: that process
  has not called setsid, or its pid once belonged to the job being terminated and was
  freed by waitpid.
* `LoopEnds`, `ArrayReadBack`: run_bulk_jobs returns for every range whose last index
  plus step is still a word, whatever the remainder; what the array's row is taken apart
  into is one job per index, with that index in its paths, and the caller's paths.
* `ReadBack`: exactly which templates survive storing.
* `FilterAgreesWithInfo`: a filter selects a job if and only if the job's info agrees
  with it, with its exceptions spelled out: a session named like a column, a bare word,
  and the state drmaa2_jinfo_create sets.
* `OwnRowOnly`: whatever fails and whoever dies, a row is written only by the processes
  of its own job, as long as nothing is at work when the database is reset.
* `NamesAccounted`: which semaphore names stay behind (those of clients that exited
  or died in run_job) and when run_job is refused one (a row id shared after a reset
  or a failed INSERT).
* `HandleHasJob`: whoever has a handle has a job with a process and, unless a statement
  failed, its pid in the row. The one exception is a handle returned by an interrupted
  sem_wait: it has no process until its monitor has forked one and no pid until that
  has been saved, and never if the monitor could not fork or was killed before.
* `VerdictRecorded`: a monitor that has really waited and comes to its end has recorded
  the exit status and the verdict unless one of the statements failed, and nothing has
  recorded either before the job ended. A monitor in `unwaited` is the exception: of
  what it records nothing can be said.
* `HangsOnlyWithoutMonitor`: a client hangs in run_job only if its monitor could not
  fork or was killed; no failed statement does it.
* `ToldOnce`, `ToldInOrder`: announcements agree with the database, except where two
  processes owe one at the same time.
* `NoneLeftOut`: lists are read job by job while the jobs move; a wait neither passes
  over a job that was there all the time nor times out on it, and an array call
  reaches every job although others refuse.
* `CellsAccounted`, `SizeIsLength`, `NoReleasedEntry`, `DelTakesItsPosition`: the
  pointer work of the containers, where the first position has code of its own.

## 5. Proofs

Each of the eight proof modules proves its theorems for any values of the constants,
from the assumptions named in the modules it is about and nothing else. None of the
properties is inductive; each module has an inductive invariant for them (`IInv`, and
one for each of the three programs in RecordsProofs), which is checked with TLC before
it is proved; the proofs that it is preserved have one step per action. Only
StringListsProofs is about operators alone.

**JobLifecycleProofs** proves, for any sets of clients, jobs and exit codes and from
`ConstantsAssumption` only: `TypeCorrect`, `HandleSafety`, `StartedSafety`,
`VerdictSafety`, `SettledSafety`, `KillSafety` and `Refinement` (JobLifecycle
implements JobContract).

`IInv` is TypeOK together with

* `JobInv(j)`: how far the monitor is determines which columns are set (pid after
  `pidSaved`, exit status after `reaped`, the verdict at `gone`), and the job
  process exists exactly from `forked` on and has ended from `reaped` on;
* `ClientInv(c)`: the job of a submission in progress is the client's own and not
  returned yet; an admitted control call will write a non-terminal state, and
  RUNNING or SUSPENDED only for a job whose process has got that far. Without this
  clause `EndControl`, which tests nothing, would break StartedTruthful;
* `PidInv`: no two job processes have the same pid at a time. The signals of terminate
  go by number; with this, one that hits another job's process shows that its own job's
  process no longer has the pid.

`InvInit` and `InvStep` (one case per action: `ClientStepInv`, `NewCallInv`,
`JobStepInv`) give `Invariance`, from which the state properties follow. `SettledStep`
uses that a settled job has `mon = "gone"`, so that the only remaining writers are
control calls, and that `BeginControl` admits none in a terminal state; the job
process cannot write RUNNING any more because it has ended. `ContractStep` maps each
action to a step of the contract or a stutter; the interesting case is `SignalOwner`,
which ends several jobs at once (`ContractFinish`).

**JobSessionsProofs** proves `TypeCorrect`, `TemplateSafety`, `IsolationSafety` and
`ArraySafety` from `SessionsAssumption`. A call carries row ids over other clients'
INSERTs, so each id it carries has to be tied to what the call is about:

* `SessionInv`: handles, rows and the copies of them in calls agree with the history
  `created`, so that equal names and ids mean equal sessions or a collision;
* `TemplateInv`: the template id a call carries is 0 after a failed INSERT, and the row
  of what the call was given otherwise. Templates are never changed and never deleted;
* `OnceInv`: the ids that calls carry, those listed in arrays and those lost are
  disjoint. This is what makes the array of a bulk job unique;
* `BulkInv`: in the loop the index is `begin + jobs * step`, and each id collected so
  far is of the job with the index of its position. At the end of the loop that
  makes `(end - begin) \div step + 1` ids (`Quotient`).

**ReservationsProofs** proves `TypeCorrect`, `TemplateSafety`, `NameSafety`,
`ReadBackSafety` and `SharingSafety` from `ReservationsAssumption`. `TemplateInv` ties
the carried template id to the request, `NameInv` the row id that the UPDATE will name
to the request or to a reset since, `RowInv` the rows to the history. For reading
back by the reservation's id, `StepInv` says that the two tables are equally long while
nothing is disturbed, but for the one template of the one request between its two
INSERTs.

**JobFaultsProofs** proves `TypeCorrect`, `RowSafety`, `NamesSafety`, `HandleSafety` and
`VerdictSafety` from `FaultsAssumption`. `RowInv` says that the row id a submission works
with is that of its own row as long as nothing has been disturbed, `StageInv` how far
client, monitor and job process are from each other (a posted semaphore means that there
is a process, and so does a handle unless its client is `hurried`; a monitor past its
waitpid means that the process has ended, unless it is `unwaited`), `ColumnInv` which
columns a monitor that has got so far has written if none of its statements failed, and
`EndInv` that a row has no exit status and no verdict yet while its job runs.

**JobWatchProofs** proves `TypeCorrect`, `OnceSafety` (ToldOnce), `OrderSafety`
(ToldInOrder) and `NothingLeftOut` (NoneLeftOut) from `WatchAssumption`; lists may hold
a job twice. `CallInv` says what a call knows of the jobs behind its position: none of
them has been where the call wants it all the time. `OnceInv` is ToldOnce with the
finiteness that makes its numbers mean something; each step adds one process to those
about to announce, removes one, or leaves them alone, and changes what is due
alike (`NewTeller`, `TellerDone`, `SameTellers`; the lemmas on `Places` count
elements of sequences). `OrderInv` then needs to say only that no more than one
announcement of a job is due while the job is not muddled. `JobInv` excludes
REQUEUED and REQUEUED_HELD: hold of a requeued job would announce another state than it
wrote (`drmaa2.c:823`), but no code of the mock leads there.

**ContainersProofs** proves `ContainersTypeCorrect`, `NoCellLost` (CellsAccounted),
`SizeAgrees` (SizeIsLength), `NothingReleasedIsHeld` (NoReleasedEntry), `DelTakesOne`
(DelTakesItsPosition) and `PointersMeetContract` (MeetsContract, the refinement of
ContainersContract), for heaps of any size, from `ContainersAssumption` and
`NoneIsNoContainer`. The invariant is `ShapeInv` and `ContentInv`:

* `ShapeInv`: `ListCells` and `DictCells`, what is found along the pointers, have no cell
  twice and none in common, end at NULL and together are the live cells; the list's is
  as long as its size says. That every cell's pointer is the next in its sequence is
  what makes unlinking one cell, or pushing one, keep all others.
* `ContentInv`: no live cell's value has been released, no two cells hold the same
  value of a caller, and no two cells of the dictionary have the same key. Without the
  second part, the release of one entry could be of a value that another entry still
  holds.

`ChainIs` shows that following the pointers of linked cells gives just these cells (an
induction over the position, by the least counterexample: `LeastNumber`),
`LinkedAppend` and `LinkedWithout` what becomes of them when a cell is added at the end
or taken out at any position. `StepMeets` maps each operation to the contract's;
dict_set is an update in place or a new head, depending on whether the key is found
(`FindIs`).

**StringListsProofs** proves `SplitOfJoin`: a list of texts that is joined and split
again is the same list exactly if no text contains the separator, for any number of
texts of any length. The library's induction theorems take an operator as a parameter, so
`LeastNumber`, `Stepwise` and `Iteration` derive, for sets and functions, that a least
counterexample exists and that a function given step by step exists. `CutsAre` then
describes what the loop of string_split finds, `JoinIs` where string_join puts the
separators, and `CutsOfJoined` that the two are the same places when no item has a
separator of its own.

**RecordsProofs** proves one theorem for each program of Records:

* `ArraysReadBack` (ArrayReadBack), from `BulkArraysAssumption`. `BulkInv` is `BulkType`
  with `CallInv` (what the caller's template and the saved paths are at each point of
  the loop, and which ids have been collected) and `IndexInv` (for the ranges the
  property is about the index does not wrap, `NoWrap`, so that the k-th job has the paths
  for `begin + (k - 1) * step`). The ids read back are those of the jobs by
  `SplitOfJoin`.
* `TemplatesReadBack` (ReadBack), from `CodecAssumption`. An attempt without
  `Int32 % 2 = 0` failed for a good reason: with an odd number of ints, `ToInt` would not
  be the identity on the numbers that fit. A C int has an even number of values.
* `FiltersAgree` (FilterAgreesWithInfo), from `JobFilterAssumption`: `WhereIsAgreement`
  compares the WHERE clause with the job info, column by column.

Only model-checked: the liveness properties SubmitReturns, ExitRecorded, WaitReturns,
HangsOnlyWithoutMonitor, WaitAnyReturns and LoopEnds, whose proofs need ENABLED and are
beyond the prover. Every invariant and every action property of the passing runs is
proved.

## 6. Where the code does not do what it says

* **TerminalIsFinal** (`drmaa2.c:783`): suspend reads RUNNING, the monitor writes
  DONE, suspend writes SUSPENDED. The job is never terminal again and
  wait_terminated polls for ever.
* **TerminateHitsJob** (`drmaa2.c:858`): run_job may return before the job process
  has called setsid; terminate then resolves to the owner's process group and
  kills the application itself.
* **GetJtIsSubmitted** (`drmaa2.c:775`): get_jt reads the template whose row id is
  the job's id. Two overlapping submissions, or one job array, put the two
  counters out of step.
* **DelReleases** (`drmaa2-list.c:94`): drmaa2_list_del passes the value where the
  callback expects its address.

## 7. Not modelled

* A reset under the submissions of JobSessions, and statements on sessions that fail
  there. JobFaults and Reservations have resets; INSERTs fail in all three.
* Failures of malloc and asprintf, whose results the library does not test. The signal
  handlers of the application themselves; only that they make sem_wait and waitpid return.
* Early returns of sem_wait and waitpid outside JobFaults: the control calls of
  JobLifecycle and the announcements of JobWatch are on jobs whose run_job and monitor
  have waited for what they should.
* Processes of other programs that take the pid of a finished job: the pids in
  JobLifecycle go to jobs only.
* drmaa2_jarray_terminate (the loop is in JobWatch, terminate in JobLifecycle), and
  get_job_array, which looks for the array's session by name
  (`drmaa2-persistence.c:1028-1036`) and allocates the size of a pointer for the
  structure it fills in (`drmaa2.c:480`).
* What a copy of a client does after a failed execv: it is the client's program.
* Threads inside one client. The library's error variables, and the caller's template,
  which a bulk call writes to, are not protected against them.
* Introspection, constructors and free functions: fixed answers and field by field
  copies without a state to be wrong.
* SQLite: a statement is one atomic step, or fails as a whole.

## 8. Plan

1. *Proofs*: a submission that overlaps no other and the template it finds (what
   GetJtIsSubmitted claims and the code keeps only then), as a property and a theorem.
2. *Arrays*: terminate over an array, with the signals of JobLifecycle; get_job_array
   beside sessions that are destroyed and created again.
3. *Resets* under the tables of JobSessions, with handles of before.
