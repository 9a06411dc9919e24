----------------------------- MODULE JobFaults -----------------------------
(***************************************************************************)
(* run_job, its monitor and its job process when things fail: a statement  *)
(* (the database stays locked, the disk is full), sem_open, a fork, a       *)
(* sem_wait or waitpid that returns too early, a process that is killed,    *)
(* and drmaa2-reset-db run at any time, after which SQLite gives row ids    *)
(* out again.  Every submission is made by a client of its own.  What a     *)
(* column holds is reduced to the submission whose process wrote it.        *)
(*                                                                          *)
(* The client is an application with signal handlers of its own, which its  *)
(* monitors inherit: sem_wait and waitpid may return with EINTR, and        *)
(* waitpid with ECHILD if the application ignores SIGCHLD.  The results of  *)
(* both are ignored.                                                        *)
(*                                                                          *)
(* JobLifecycle has the same steps without failures, and the control calls. *)
(***************************************************************************)
EXTENDS Naturals, Sequences

CONSTANTS Run,       \* submissions
          None,      \* NULL, or no semaphore of that name
          MaxRows,   \* bound on rows in the table at a time
          MaxFaults, \* bound on failures, calls that return too early and kills
          MaxResets  \* bound on resets

ASSUME FaultsAssumption == /\ None \notin Run
                           /\ MaxRows \in Nat /\ MaxFaults \in Nat /\ MaxResets \in Nat

VARIABLES
    rows,      \* jobs, by row id: whose it is, state, and who wrote each column
    names,     \* the named semaphores drmaa2<id>: whose it is, or None
    posted,    \* submissions whose semaphore has been posted
    row,       \* the row id each submission carries
    cl,        \* where the client is in run_job
    mon,       \* where the monitor is
    proc,      \* where the job process is
    unwaited,  \* monitors that go on with a status that waitpid has not set
    faults,    \* failures, early returns and kills so far
    resets,    \* resets so far
    missed,    \* history: submissions one of whose statements failed
    hurried,   \* history: clients whose sem_wait was interrupted
    disturbed  \* history: a reset while a submission was at work

procs == <<cl, mon, proc>>
early == <<unwaited, hurried>>
vars  == <<rows, names, posted, row, procs, early, faults, resets, missed, disturbed>>

RowId == 0 .. MaxRows \* 0 stands for "the INSERT failed"

Init ==
    /\ rows = <<>>
    /\ names = [i \in RowId |-> None]
    /\ posted = {}
    /\ row = [r \in Run |-> 0]
    /\ cl = [r \in Run |-> "idle"]
    /\ mon = [r \in Run |-> "none"]
    /\ proc = [r \in Run |-> "none"]
    /\ faults = 0 /\ resets = 0
    /\ missed = {} /\ disturbed = FALSE
    /\ unwaited = {} /\ hurried = {}

Fault == faults < MaxFaults /\ faults' = faults + 1

\* An UPDATE by submission r makes w of the row with the id: without such a row it
\* changes nothing, and its failure is printed and otherwise ignored.
Update(r, id, w) ==
    \/ /\ rows' = [i \in DOMAIN rows |-> IF i = id THEN w ELSE rows[i]]
       /\ UNCHANGED <<faults, missed>>
    \/ /\ Fault
       /\ missed' = missed \union {r}
       /\ UNCHANGED rows

SaveState(r, s) == Update(r, row[r], [rows[row[r]] EXCEPT !.state = s, !.stateBy = r])

ClientAt(r, from, to) == cl[r] = from /\ cl' = [cl EXCEPT ![r] = to]
MonAt(r, from, to) == mon[r] = from /\ mon' = [mon EXCEPT ![r] = to]
ProcAt(r, from, to) == proc[r] = from /\ proc' = [proc EXCEPT ![r] = to]

---------------------------------------------------------------------------
(* The client.                                                              *)

\* Faulty variant: the row starts with the state of a job that never had one.
NewRowUndetermined(r) ==
    [owner |-> r, state |-> "UNDETERMINED", stateBy |-> None, pid |-> None, exit |-> None]

NewRow(r) == [owner |-> r, state |-> "NULL", stateBy |-> None, pid |-> None, exit |-> None]

\* query_rowid returns 0 if the INSERT failed, and run_job goes on with it.
SaveJob(r) ==
    /\ Len(rows) < MaxRows
    /\ ClientAt(r, "idle", "inserted")
    /\ \/ /\ rows' = Append(rows, NewRow(r))
          /\ row' = [row EXCEPT ![r] = Len(rows) + 1]
          /\ UNCHANGED <<faults, missed>>
       \/ /\ Fault
          /\ missed' = missed \union {r}
          /\ UNCHANGED <<rows, row>>
    /\ UNCHANGED <<names, posted, mon, proc, resets, early, disturbed>>

\* sem_open with O_EXCL: if the name is there, or there is nothing to make a semaphore
\* of, the whole program exits.
OpenSem(r) ==
    /\ \/ /\ names[row[r]] = None
          /\ ClientAt(r, "inserted", "opened")
          /\ names' = [names EXCEPT ![row[r]] = r]
          /\ UNCHANGED faults
       \/ /\ names[row[r]] # None
          /\ ClientAt(r, "inserted", "refused")
          /\ UNCHANGED <<names, faults>>
       \/ /\ ClientAt(r, "inserted", "exited")
          /\ Fault
          /\ UNCHANGED names
    /\ UNCHANGED <<rows, posted, row, mon, proc, resets, early, missed, disturbed>>

SaveQueued(r) ==
    /\ ClientAt(r, "opened", "queued")
    /\ SaveState(r, "QUEUED")
    /\ UNCHANGED <<names, posted, row, mon, proc, resets, early, disturbed>>

\* If fork fails the program exits, and the name of the semaphore stays.
ForkMonitor(r) ==
    /\ \/ /\ ClientAt(r, "queued", "semWait")
          /\ MonAt(r, "none", "started")
          /\ UNCHANGED faults
       \/ /\ ClientAt(r, "queued", "exited")
          /\ Fault
          /\ UNCHANGED mon
    /\ UNCHANGED <<rows, names, posted, row, proc, resets, early, missed, disturbed>>

\* Faulty variant: the semaphore is closed but its name is kept.
ReturnHandleNotUnlinked(r) ==
    /\ ClientAt(r, "semWait", "returned")
    /\ UNCHANGED <<rows, names, posted, row, mon, proc, resets, unwaited, missed, disturbed>>

\* sem_close and sem_unlink, whatever sem_wait has returned; run_job returns the handle.
ReturnHandle(r) ==
    /\ ClientAt(r, "semWait", "returned")
    /\ names' = [names EXCEPT ![row[r]] = None]
    /\ UNCHANGED <<rows, posted, row, mon, proc, resets, unwaited, missed, disturbed>>

SemWait(r) ==
    /\ r \in posted
    /\ ReturnHandle(r)
    /\ UNCHANGED <<faults, hurried>>

\* A signal handler of the application has run: sem_wait returns EINTR.
SemWaitInterrupted(r) ==
    /\ Fault
    /\ ReturnHandle(r)
    /\ hurried' = hurried \union {r}

---------------------------------------------------------------------------
(* The monitor and the job process.                                         *)

\* Faulty variant: a monitor that cannot fork posts the semaphore before it exits.
ForkJobPosting(r) ==
    /\ \/ /\ MonAt(r, "started", "forked")
          /\ ProcAt(r, "none", "forked")
          /\ UNCHANGED <<faults, posted>>
       \/ /\ MonAt(r, "started", "failed")
          /\ posted' = posted \union {r}
          /\ Fault
          /\ UNCHANGED proc
    /\ UNCHANGED <<rows, names, row, cl, resets, early, missed, disturbed>>

\* If fork fails the monitor exits without a word to its client.
ForkJob(r) ==
    /\ \/ MonAt(r, "started", "forked") /\ ProcAt(r, "none", "forked") /\ UNCHANGED faults
       \/ MonAt(r, "started", "failed") /\ Fault /\ UNCHANGED proc
    /\ UNCHANGED <<rows, names, posted, row, cl, resets, early, missed, disturbed>>

WritePid(r, id) == Update(r, id, [rows[id] EXCEPT !.pid = r])

\* Faulty variants: the row id is asked for again on the monitor's connection; a
\* monitor that gives up if the statement fails.
SavePidAskingAgain(r) ==
    /\ MonAt(r, "forked", "pidSaved")
    /\ WritePid(r, Len(rows))
    /\ UNCHANGED <<names, posted, row, cl, proc, resets, early, disturbed>>

SavePidGivingUp(r) ==
    /\ WritePid(r, row[r])
    /\ IF missed' = missed THEN MonAt(r, "forked", "pidSaved") ELSE MonAt(r, "forked", "gone")
    /\ UNCHANGED <<names, posted, row, cl, proc, resets, early, disturbed>>

SavePid(r) ==
    /\ MonAt(r, "forked", "pidSaved")
    /\ WritePid(r, row[r])
    /\ UNCHANGED <<names, posted, row, cl, proc, resets, early, disturbed>>

PostSem(r) ==
    /\ MonAt(r, "pidSaved", "posted")
    /\ posted' = posted \union {r}
    /\ UNCHANGED <<rows, names, row, cl, proc, faults, resets, early, missed, disturbed>>

WaitPid(r) ==
    /\ proc[r] = "ended"
    /\ MonAt(r, "posted", "waited")
    /\ UNCHANGED <<rows, names, posted, row, cl, proc, faults, resets, early, missed, disturbed>>

\* waitpid fails, at once (EINTR) or at the end of the job (ECHILD), and status keeps
\* what was on the stack.
WaitPidFails(r) ==
    /\ MonAt(r, "posted", "waited")
    /\ Fault
    /\ unwaited' = unwaited \union {r}
    /\ UNCHANGED <<rows, names, posted, row, cl, proc, resets, hurried, missed, disturbed>>

SaveExitStatus(r) ==
    /\ MonAt(r, "waited", "exitSaved")
    /\ Update(r, row[r], [rows[row[r]] EXCEPT !.exit = r])
    /\ UNCHANGED <<names, posted, row, cl, proc, resets, early, disturbed>>

\* Faulty variant: jobs that were killed are not recorded.
SaveVerdictForgotten(r) ==
    /\ MonAt(r, "exitSaved", "gone")
    /\ SaveState(r, "ENDED") \/ UNCHANGED <<rows, faults, missed>>
    /\ UNCHANGED <<names, posted, row, cl, proc, resets, early, disturbed>>

\* "ENDED" is DONE or FAILED.  What was on the stack may be the status of neither, and
\* then nothing is saved.
SaveVerdict(r) ==
    /\ MonAt(r, "exitSaved", "gone")
    /\ \/ SaveState(r, "ENDED")
       \/ r \in unwaited /\ UNCHANGED <<rows, faults, missed>>
    /\ UNCHANGED <<names, posted, row, cl, proc, resets, early, disturbed>>

SaveRunning(r) ==
    /\ ProcAt(r, "forked", "executing")
    /\ SaveState(r, "RUNNING")
    /\ UNCHANGED <<names, posted, row, cl, mon, resets, early, disturbed>>

End(r) ==
    /\ ProcAt(r, "forked", "ended") \/ ProcAt(r, "executing", "ended")
    /\ UNCHANGED <<rows, names, posted, row, cl, mon, faults, resets, early, missed, disturbed>>

---------------------------------------------------------------------------
(* Kills and resets.                                                        *)

InRunJob == {"inserted", "opened", "queued", "semWait"}
Monitoring == {"started", "forked", "pidSaved", "posted", "waited", "exitSaved"}

ClientDies(r) ==
    /\ cl[r] \in InRunJob
    /\ Fault
    /\ cl' = [cl EXCEPT ![r] = "dead"]
    /\ UNCHANGED <<rows, names, posted, row, mon, proc, resets, early, missed, disturbed>>

\* The job process goes on without its monitor.
MonitorDies(r) ==
    /\ mon[r] \in Monitoring
    /\ Fault
    /\ mon' = [mon EXCEPT ![r] = "dead"]
    /\ UNCHANGED <<rows, names, posted, row, cl, proc, resets, early, missed, disturbed>>

AtWork(r) == cl[r] \in InRunJob \/ mon[r] \in Monitoring \/ proc[r] \in {"forked", "executing"}

\* reset_db deletes the rows of every table; semaphores, processes and handles stay.
Reset ==
    /\ resets < MaxResets
    /\ resets' = resets + 1
    /\ rows' = <<>>
    /\ disturbed' = (disturbed \/ \E r \in Run : AtWork(r))
    /\ UNCHANGED <<names, posted, row, procs, early, faults, missed>>

ClientStep(r) == OpenSem(r) \/ SaveQueued(r) \/ ForkMonitor(r) \/ SemWait(r)
MonitorStep(r) ==
    ForkJob(r) \/ SavePid(r) \/ PostSem(r) \/ WaitPid(r) \/ SaveExitStatus(r) \/ SaveVerdict(r)

Next ==
    \/ \E r \in Run : \/ SaveJob(r) \/ ClientStep(r) \/ MonitorStep(r)
                      \/ SaveRunning(r) \/ End(r)
                      \/ SemWaitInterrupted(r) \/ WaitPidFails(r)
                      \/ ClientDies(r) \/ MonitorDies(r)
    \/ Reset

\* Live processes are scheduled; nothing makes a client submit, a job end, a process die,
\* a call return too early or anyone reset the database.
Fairness ==
    \A r \in Run : WF_vars(ClientStep(r)) /\ WF_vars(MonitorStep(r)) /\ WF_vars(SaveRunning(r))

Spec == Init /\ [][Next]_vars /\ Fairness

---------------------------------------------------------------------------
(* Properties.                                                              *)

State == {"NULL", "QUEUED", "RUNNING", "ENDED"}
Row == [owner : Run, state : State, stateBy : Run \union {None},
        pid : Run \union {None}, exit : Run \union {None}]

\* Every variable has its range: a row has an owner and a state that was written.
TypeOK ==
    /\ rows \in Seq(Row) /\ Len(rows) <= MaxRows
    /\ names \in [RowId -> Run \union {None}]
    /\ posted \subseteq Run /\ missed \subseteq Run
    /\ unwaited \subseteq Run /\ hurried \subseteq Run
    /\ row \in [Run -> RowId]
    /\ cl \in [Run -> InRunJob \union {"idle", "returned", "refused", "exited", "dead"}]
    /\ mon \in [Run -> Monitoring \union {"none", "failed", "gone", "dead"}]
    /\ proc \in [Run -> {"none", "forked", "executing", "ended"}]
    /\ faults \in 0 .. MaxFaults /\ resets \in 0 .. MaxResets /\ disturbed \in BOOLEAN

\* As long as the database is reset only while nothing runs, a row has only been
\* written by the processes of its own job, whatever fails and whoever dies.
OwnRowOnly ==
    ~disturbed => \A i \in DOMAIN rows :
        {rows[i].stateBy, rows[i].pid, rows[i].exit} \subseteq {rows[i].owner, None}

\* A semaphore's name belongs to a client that is in run_job or was lost there, and
\* run_job is refused a name only after a reset or a failed INSERT has made two
\* submissions share a row id.
NamesAccounted ==
    /\ \A i \in RowId : names[i] # None =>
          /\ row[names[i]] = i
          /\ cl[names[i]] \in {"opened", "queued", "semWait", "exited", "dead"}
    /\ \A r \in Run : cl[r] = "refused" =>
          /\ resets > 0 \/ r \in missed
          /\ \E q \in Run \ {r} : row[q] = row[r] /\ cl[q] # "idle"

\* A handle is returned only for a job that has got a process, and with the pid in its
\* row, if that is still there and no statement failed: run_job waits so that the "pid is
\* written before drmaa lib return".  Only one whose sem_wait was interrupted has neither
\* until its monitor has come so far, or for good if that could not fork or was killed.
HandleHasJob ==
    \A r \in Run : cl[r] = "returned" =>
        /\ \/ proc[r] # "none"
           \/ r \in hurried /\ mon[r] \in {"started", "failed", "dead"}
        /\ r \notin missed /\ ~disturbed =>
              \A i \in DOMAIN rows : rows[i].owner = r =>
                 \/ rows[i].pid = r
                 \/ r \in hurried /\ mon[r] \in {"started", "forked", "failed", "dead"}

\* A monitor that has waited for its job and gets to its end has recorded exit status and
\* verdict, unless a statement of the submission failed; and neither is in the row before
\* the job has ended, whatever fails.  Dead clients make no difference.
VerdictRecorded ==
    ~disturbed => \A r \in Run \ unwaited, i \in DOMAIN rows : rows[i].owner = r =>
        /\ mon[r] = "gone" /\ r \notin missed =>
              rows[i].state = "ENDED" /\ rows[i].stateBy = r /\ rows[i].exit = r
        /\ rows[i].state = "ENDED" \/ rows[i].exit # None => proc[r] = "ended"

\* run_job waits for ever only for a monitor that could not fork or was killed.
HangsOnlyWithoutMonitor ==
    \A r \in Run : cl[r] \in InRunJob ~>
        cl[r] \notin InRunJob \/ mon[r] \in {"failed", "dead"}
=============================================================================
