---------------------------- MODULE JobLifecycle ----------------------------
(***************************************************************************)
(* The life of a job of the mock DRMS, from drmaa2_jsession_run_job to the  *)
(* last write of its monitor, and the control and wait calls that race      *)
(* with it.  There is no server: three kinds of processes share the SQLite  *)
(* file and one semaphore per job.                                          *)
(*                                                                          *)
(*   client   an application process that calls the library; it runs one   *)
(*            library call at a time;                                       *)
(*   monitor  forked by run_job (submit_job_to_DRMS), the parent branch of  *)
(*            start_and_monitor_job;                                        *)
(*   job      forked by the monitor, the child branch.                      *)
(*                                                                          *)
(* Each SQL statement is a transaction of its own, so every read and every  *)
(* write of the jobs table is one step, and any other process may run       *)
(* between two of them.  The three columns of the jobs table that these     *)
(* steps use are the variables state, pid and exit.                         *)
(*                                                                          *)
(* Processes are killed here, but nothing else fails: sem_wait and waitpid  *)
(* return when what they wait for has happened.  JobFaults has the rest.    *)
(***************************************************************************)
EXTENDS Integers

CONSTANTS Client,    \* application processes
          Job,       \* row ids of the jobs table
          NoClient,  \* the owner of a row that does not exist yet
          NoJob,     \* what cur and found hold between two calls
          Pid,       \* numbers of job processes
          NoPid,
          ExitCode,  \* the codes a job may pass to exit()
          Timeout    \* the timeouts of the wait calls

ASSUME ConstantsAssumption ==
    /\ NoClient \notin Client
    /\ NoJob \notin Job
    /\ NoPid \notin Pid
    /\ ExitCode \subseteq 0..255
    /\ Timeout \subseteq {"FINITE", "INFINITE"}

VARIABLES
    state,     \* jobs.job_state: "NoRow" before the INSERT, then "NULL"
    pid,       \* jobs.pid: whether the pid has been recorded
    exit,      \* jobs.exit_status: NullExit or a code
    sem,       \* the named semaphore drmaa2<id>: "none", "zero" or "one"
    owner,     \* the client whose run_job inserted the row
    number,    \* the pid that fork returned to the monitor
    mon,       \* where the monitor is
    proc,      \* where the job process is
    status,    \* the wait status of the job process
    returned,  \* the jobs whose handle run_job has returned
    pc,        \* where each client is
    cur,       \* the job a client's call is about
    arg,       \* what the call still has to do: the state an admitted
               \* control call will write, the process group an admitted
               \* terminate will signal, or the timeout of a wait
    found      \* the job whose process had the pid that a terminate looked up

rowVars    == <<state, pid, exit>>
jobVars    == <<sem, owner, number, mon, proc, status, returned>>
clientVars == <<pc, cur, arg, found>>
vars       == <<rowVars, jobVars, clientVars>>

JState == {"QUEUED", "QUEUED_HELD", "RUNNING", "SUSPENDED", "REQUEUED",
           "REQUEUED_HELD", "DONE", "FAILED"}
Terminal == {"DONE", "FAILED"}
NullExit == -1

\* The started and terminated tests of the wait functions.
Started(s)    == s \notin {"QUEUED", "QUEUED_HELD"}
Terminated(s) == s \in Terminal

\* The transitions drmaa2_j_suspend, resume, hold and release accept: the state
\* each may read and the state it then writes.
ControlMoves ==
    [suspend |-> {<<"RUNNING", "SUSPENDED">>},
     resume  |-> {<<"SUSPENDED", "RUNNING">>},
     hold    |-> {<<"QUEUED", "QUEUED_HELD">>, <<"REQUEUED", "REQUEUED_HELD">>},
     release |-> {<<"QUEUED_HELD", "QUEUED">>, <<"REQUEUED_HELD", "REQUEUED">>}]
ControlOp == DOMAIN ControlMoves

\* A row another process may already find with get_jobs, or a returned handle.
Visible(j) == state[j] # "NoRow"

\* A job process has its pid until it is waited for: by its monitor or, if that was
\* killed, by init.
HasPid(j) ==
    proc[j] # "none" /\ (proc[j] = "ended" =>
                            mon[j] \notin {"reaped", "exitSaved", "gone", "killed"})

\* The status word waitpid reports, and what WEXITSTATUS makes of it: the
\* exit code, which is 0 when the process was killed by a signal.
Alive == [kind |-> "alive", code |-> 0]
Killed == [kind |-> "signaled", code |-> 0]
Exited(k) == [kind |-> "exited", code |-> k]

---------------------------------------------------------------------------
Init ==
    /\ state = [j \in Job |-> "NoRow"]
    /\ pid = [j \in Job |-> FALSE]
    /\ exit = [j \in Job |-> NullExit]
    /\ sem = [j \in Job |-> "none"]
    /\ owner = [j \in Job |-> NoClient]
    /\ number = [j \in Job |-> NoPid]
    /\ mon = [j \in Job |-> "none"]
    /\ proc = [j \in Job |-> "none"]
    /\ status = [j \in Job |-> Alive]
    /\ returned = {}
    /\ pc = [c \in Client |-> "idle"]
    /\ cur = [c \in Client |-> NoJob]
    /\ arg = [c \in Client |-> "none"]
    /\ found = [c \in Client |-> NoJob]

\* A client starts a call about job j and stops at point p of it.
Enter(c, j, p, a) ==
    /\ pc' = [pc EXCEPT ![c] = p]
    /\ cur' = [cur EXCEPT ![c] = j]
    /\ arg' = [arg EXCEPT ![c] = a]
    /\ found' = [found EXCEPT ![c] = NoJob]

\* A client's call returns; the error number it returns is left out.
Return(c) ==
    /\ pc' = [pc EXCEPT ![c] = "idle"]
    /\ cur' = [cur EXCEPT ![c] = NoJob]
    /\ arg' = [arg EXCEPT ![c] = "none"]
    /\ found' = [found EXCEPT ![c] = NoJob]

---------------------------------------------------------------------------
(* drmaa2_jsession_run_job and submit_job_to_DRMS, in the client.           *)

\* save_job: the INSERT leaves job_state, pid and exit_status NULL.
SaveJob(c, j) ==
    /\ pc[c] = "idle"
    /\ state[j] = "NoRow"
    /\ state' = [state EXCEPT ![j] = "NULL"]
    /\ owner' = [owner EXCEPT ![j] = c]
    /\ Enter(c, j, "inserted", "none")
    /\ UNCHANGED <<pid, exit, sem, number, mon, proc, status, returned>>

\* sem_open with value 0, then save_state.
SaveQueued(c) ==
    /\ pc[c] = "inserted"
    /\ sem' = [sem EXCEPT ![cur[c]] = "zero"]
    /\ state' = [state EXCEPT ![cur[c]] = "QUEUED"]
    /\ pc' = [pc EXCEPT ![c] = "queued"]
    /\ UNCHANGED <<pid, exit, owner, number, mon, proc, status, returned, cur, arg, found>>

ForkMonitor(c) ==
    /\ pc[c] = "queued"
    /\ mon' = [mon EXCEPT ![cur[c]] = "started"]
    /\ pc' = [pc EXCEPT ![c] = "semWait"]
    /\ UNCHANGED <<rowVars, sem, owner, number, proc, status, returned, cur, arg, found>>

\* Faulty variant: the handle is returned without waiting for the semaphore.
SemWaitSkipped(c) ==
    /\ pc[c] = "semWait"
    /\ sem' = [sem EXCEPT ![cur[c]] = "none"]
    /\ returned' = returned \cup {cur[c]}
    /\ Return(c)
    /\ UNCHANGED <<rowVars, owner, number, mon, proc, status>>

\* sem_wait, sem_close and sem_unlink; run_job returns the handle.
SemWait(c) ==
    /\ pc[c] = "semWait"
    /\ sem[cur[c]] = "one"
    /\ sem' = [sem EXCEPT ![cur[c]] = "none"]
    /\ returned' = returned \cup {cur[c]}
    /\ Return(c)
    /\ UNCHANGED <<rowVars, owner, number, mon, proc, status>>

---------------------------------------------------------------------------
(* start_and_monitor_job, parent branch: the monitor.                       *)

\* The kernel gives a job process a pid that no job process has, perhaps the pid of
\* one that has been reaped.
GetPid(j) ==
    \E p \in Pid \ {number[k] : k \in {i \in Job : HasPid(i)}} :
        number' = [number EXCEPT ![j] = p]

\* Faulty variant: the monitor announces RUNNING as soon as it has forked.
ForkJobAnnounced(j) ==
    /\ mon[j] = "started"
    /\ mon' = [mon EXCEPT ![j] = "forked"]
    /\ GetPid(j)
    /\ proc' = [proc EXCEPT ![j] = "forked"]
    /\ state' = [state EXCEPT ![j] = "RUNNING"]
    /\ UNCHANGED <<pid, exit, sem, owner, status, returned, clientVars>>

ForkJob(j) ==
    /\ mon[j] = "started"
    /\ mon' = [mon EXCEPT ![j] = "forked"]
    /\ GetPid(j)
    /\ proc' = [proc EXCEPT ![j] = "forked"]
    /\ UNCHANGED <<rowVars, sem, owner, status, returned, clientVars>>

SavePid(j) ==
    /\ mon[j] = "forked"
    /\ mon' = [mon EXCEPT ![j] = "pidSaved"]
    /\ pid' = [pid EXCEPT ![j] = TRUE]
    /\ UNCHANGED <<state, exit, sem, owner, number, proc, status, returned, clientVars>>

\* Faulty variants: the semaphore posted before the pid is saved, or never.
PostSemBeforePid(j) ==
    /\ mon[j] = "forked"
    /\ mon' = [mon EXCEPT ![j] = "posted"]
    /\ sem' = [sem EXCEPT ![j] = "one"]
    /\ UNCHANGED <<rowVars, owner, number, proc, status, returned, clientVars>>

PostSemForgotten(j) ==
    /\ mon[j] = "pidSaved"
    /\ mon' = [mon EXCEPT ![j] = "posted"]
    /\ UNCHANGED <<rowVars, sem, owner, number, proc, status, returned, clientVars>>

PostSem(j) ==
    /\ mon[j] = "pidSaved"
    /\ mon' = [mon EXCEPT ![j] = "posted"]
    /\ sem' = [sem EXCEPT ![j] = "one"]
    /\ UNCHANGED <<rowVars, owner, number, proc, status, returned, clientVars>>

\* Faulty variant: a monitor that handles only jobs that exit by themselves.
ReapExitedOnly(j) ==
    /\ mon[j] = "posted"
    /\ proc[j] = "ended" /\ status[j].kind = "exited"
    /\ mon' = [mon EXCEPT ![j] = "reaped"]
    /\ UNCHANGED <<rowVars, sem, owner, number, proc, status, returned, clientVars>>

\* waitpid returns: from here on the kernel has forgotten the pid.
Reap(j) ==
    /\ mon[j] = "posted"
    /\ proc[j] = "ended"
    /\ mon' = [mon EXCEPT ![j] = "reaped"]
    /\ UNCHANGED <<rowVars, sem, owner, number, proc, status, returned, clientVars>>

\* Faulty variant: the raw wait status is stored, the code in its second byte.
SaveRawStatus(j) ==
    /\ mon[j] = "reaped"
    /\ mon' = [mon EXCEPT ![j] = "exitSaved"]
    /\ exit' = [exit EXCEPT ![j] = status[j].code * 256]
    /\ UNCHANGED <<state, pid, sem, owner, number, proc, status, returned, clientVars>>

\* WEXITSTATUS is applied whatever ended the job.
SaveExitStatus(j) ==
    /\ mon[j] = "reaped"
    /\ mon' = [mon EXCEPT ![j] = "exitSaved"]
    /\ exit' = [exit EXCEPT ![j] = status[j].code]
    /\ UNCHANGED <<state, pid, sem, owner, number, proc, status, returned, clientVars>>

\* Faulty variant: the verdict is written without waiting for the exit status.
SaveVerdictFirst(j) ==
    /\ mon[j] = "reaped"
    /\ mon' = [mon EXCEPT ![j] = "gone"]
    /\ state' = [state EXCEPT ![j] =
                   IF status[j].kind = "exited" THEN "DONE" ELSE "FAILED"]
    /\ UNCHANGED <<pid, exit, sem, owner, number, proc, status, returned, clientVars>>

\* save_state after WIFEXITED or WIFSIGNALED; then the monitor exits.
SaveVerdict(j) ==
    /\ mon[j] = "exitSaved"
    /\ mon' = [mon EXCEPT ![j] = "gone"]
    /\ state' = [state EXCEPT ![j] =
                   IF status[j].kind = "exited" THEN "DONE" ELSE "FAILED"]
    /\ UNCHANGED <<pid, exit, sem, owner, number, proc, status, returned, clientVars>>

---------------------------------------------------------------------------
(* start_and_monitor_job, child branch: the job process.                    *)

JobStep(j, from, dest) ==
    /\ proc[j] = from
    /\ proc' = [proc EXCEPT ![j] = dest]
    /\ UNCHANGED <<pid, exit, sem, owner, number, mon, returned, clientVars>>

Setsid(j) == JobStep(j, "forked", "leader") /\ UNCHANGED <<state, status>>

SaveRunning(j) ==
    /\ JobStep(j, "leader", "running")
    /\ state' = [state EXCEPT ![j] = "RUNNING"]
    /\ UNCHANGED status

Exec(j) == JobStep(j, "running", "executing") /\ UNCHANGED <<state, status>>

\* execv fails, and the job process returns NULL from run_job into a copy of
\* its owner's program.
ExecFails(j) == JobStep(j, "running", "strayed") /\ UNCHANGED <<state, status>>

\* The program (or the copy of the owner's) exits or is killed from outside.
End(j) ==
    /\ \E from \in {"executing", "strayed"} : JobStep(j, from, "ended")
    /\ \E s \in {Exited(k) : k \in ExitCode} \cup {Killed} :
           status' = [status EXCEPT ![j] = s]
    /\ UNCHANGED state

---------------------------------------------------------------------------
(* The calls a client makes with a job handle.                              *)

\* A NULL column reaches atoi(NULL) in get_pid_callback: the client dies.
Crash(c) ==
    /\ Enter(c, NoJob, "crashed", "none")
    /\ UNCHANGED <<rowVars, jobVars>>

\* Faulty variant: the state is read but not compared with what the call accepts.
BeginControlUnchecked(c, j, op) ==
    /\ pc[c] = "idle"
    /\ Visible(j)
    /\ \E m \in ControlMoves[op] : Enter(c, j, "admitted", m[2])
    /\ UNCHANGED <<rowVars, jobVars>>

\* get_state and the test of suspend, resume, hold or release.
BeginControl(c, j, op) ==
    /\ pc[c] = "idle"
    /\ Visible(j)
    /\ \/ state[j] = "NULL" /\ Crash(c)
       \/ /\ \E m \in ControlMoves[op] :
                 m[1] = state[j] /\ Enter(c, j, "admitted", m[2])
          /\ UNCHANGED <<rowVars, jobVars>>
       \/ /\ state[j] # "NULL"
          /\ \A m \in ControlMoves[op] : m[1] # state[j]
          /\ Return(c)   \* DRMAA2_INVALID_STATE
          /\ UNCHANGED <<rowVars, jobVars>>

\* The save_state of an admitted control call tests nothing.
EndControl(c) ==
    /\ pc[c] = "admitted"
    /\ state' = [state EXCEPT ![cur[c]] = arg[c]]
    /\ Return(c)
    /\ UNCHANGED <<pid, exit, jobVars>>

\* The group of job j's process: the one it was forked in until it calls setsid, and its
\* own after that, also when it has ended, until it is waited for.  (One that ends before
\* setsid goes down with its monitor, and init has waited for it.)
GroupOf(j) == IF proc[j] = "forked" THEN "owner" ELSE "job"

\* The processes a signal to such a group of a job's own can end.
Leads(j) == proc[j] \in {"leader", "running", "executing", "strayed"}

\* get_job_pid, and getpgid of whichever process has that pid now.
BeginTerminate(c, j) ==
    /\ pc[c] = "idle"
    /\ Visible(j)
    /\ \/ ~pid[j] /\ Crash(c)
       \/ /\ pid[j]
          /\ \E k \in Job :
                /\ HasPid(k) /\ number[k] = number[j]
                /\ found' = [found EXCEPT ![c] = k]
                /\ arg' = [arg EXCEPT ![c] = GroupOf(k)]
          /\ pc' = [pc EXCEPT ![c] = "killing"]
          /\ cur' = [cur EXCEPT ![c] = j]
          /\ UNCHANGED <<rowVars, jobVars>>
       \/ /\ pid[j]
          /\ \A k \in Job : HasPid(k) => number[k] # number[j]
          /\ Enter(c, j, "killing", "nobody")
          /\ UNCHANGED <<rowVars, jobVars>>

\* killpg of a job's own group, which has its pid for a number and may by now be the
\* group of another job: SIGTERM kills a job before execv; the program it executes
\* may also catch or ignore it.
SignalJob(c) ==
    /\ arg[c] = "job"
    /\ Return(c)
    /\ \/ \E k \in Job :
             /\ Leads(k) /\ number[k] = number[cur[c]]
             /\ proc' = [proc EXCEPT ![k] = "ended"]
             /\ status' = [status EXCEPT ![k] = Killed]
       \/ /\ \A k \in Job : Leads(k) /\ number[k] = number[cur[c]]
                                => proc[k] \in {"executing", "strayed"}
          /\ UNCHANGED <<proc, status>>
    /\ UNCHANGED <<rowVars, sem, owner, number, mon, returned>>

\* Faulty variant: without setsid, a job stays in the group it was forked in.
SignalOwnerWithoutSetsid(c) ==
    LET o == owner[found[c]]
        mine == {k \in Job : owner[k] = o}
        hit == {k \in mine : proc[k] \notin {"none", "ended"}}
    IN  /\ arg[c] = "owner"
        /\ mon' = [k \in Job |-> IF k \in mine /\ mon[k] \notin {"none", "gone"}
                                THEN "killed" ELSE mon[k]]
        /\ proc' = [k \in Job |-> IF k \in hit THEN "ended" ELSE proc[k]]
        /\ status' = [k \in Job |-> IF k \in hit THEN Killed ELSE status[k]]
        /\ pc' = [d \in Client |-> CASE d = o /\ pc[d] # "crashed" -> "killed"
                                    [] d = c /\ d # o -> "idle"
                                    [] OTHER -> pc[d]]
        /\ cur' = [d \in Client |-> IF d \in {c, o} THEN NoJob ELSE cur[d]]
        /\ arg' = [d \in Client |-> IF d \in {c, o} THEN "none" ELSE arg[d]]
        /\ found' = [d \in Client |-> IF d \in {c, o} THEN NoJob ELSE found[d]]
        /\ UNCHANGED <<rowVars, sem, owner, number, returned>>

\* killpg of the group the job that was found was forked in: it holds the client
\* that submitted that job, the monitors of all its jobs, and those of its jobs that
\* are still before setsid.
SignalOwner(c) ==
    LET o == owner[found[c]]
        mine == {k \in Job : owner[k] = o}
    IN  /\ arg[c] = "owner"
        /\ mon' = [k \in Job |-> IF k \in mine /\ mon[k] \notin {"none", "gone"}
                                THEN "killed" ELSE mon[k]]
        /\ proc' = [k \in Job |-> IF k \in mine /\ proc[k] = "forked"
                                 THEN "ended" ELSE proc[k]]
        /\ status' = [k \in Job |-> IF k \in mine /\ proc[k] = "forked"
                                   THEN Killed ELSE status[k]]
        /\ pc' = [d \in Client |-> CASE d = o /\ pc[d] # "crashed" -> "killed"
                                    [] d = c /\ d # o -> "idle"
                                    [] OTHER -> pc[d]]
        /\ cur' = [d \in Client |-> IF d \in {c, o} THEN NoJob ELSE cur[d]]
        /\ arg' = [d \in Client |-> IF d \in {c, o} THEN "none" ELSE arg[d]]
        /\ found' = [d \in Client |-> IF d \in {c, o} THEN NoJob ELSE found[d]]
        /\ UNCHANGED <<rowVars, sem, owner, number, returned>>

\* getpgid of a pid that nobody has is -1, and killpg(-1) fails; terminate ignores it.
SignalNobody(c) ==
    /\ arg[c] = "nobody"
    /\ Return(c)
    /\ UNCHANGED <<rowVars, jobVars>>

EndTerminate(c) ==
    /\ pc[c] = "killing"
    /\ SignalJob(c) \/ SignalOwner(c) \/ SignalNobody(c)

BeginWait(c, j, what, timeout) ==
    /\ pc[c] = "idle"
    /\ Visible(j)
    /\ Enter(c, j, what, timeout)
    /\ UNCHANGED <<rowVars, jobVars>>

\* Faulty variant: wait_terminated takes DONE for the only terminal state.
WaitOverDone(c) ==
    IF pc[c] = "waitStarted" THEN Started(state[cur[c]]) ELSE state[cur[c]] = "DONE"

WaitOver(c) ==
    IF pc[c] = "waitStarted" THEN Started(state[cur[c]]) ELSE Terminated(state[cur[c]])

\* One round of the polling loop; a round that neither ends the wait nor runs
\* out of time sleeps and changes nothing.  A finite timeout may be over at any
\* round, DRMAA2_ZERO_TIME always at the first.
WaitPoll(c) ==
    /\ pc[c] \in {"waitStarted", "waitTerminated"}
    /\ \/ state[cur[c]] = "NULL" /\ Enter(c, NoJob, "crashed", "none")
       \/ state[cur[c]] # "NULL" /\ WaitOver(c) /\ Return(c)
       \/ /\ state[cur[c]] # "NULL" /\ ~WaitOver(c)
          /\ arg[c] = "FINITE"
          /\ Return(c)   \* DRMAA2_TIMEOUT
    /\ UNCHANGED <<rowVars, jobVars>>

---------------------------------------------------------------------------
ClientStep(c) ==
    \/ SaveQueued(c) \/ ForkMonitor(c) \/ SemWait(c)
    \/ EndControl(c) \/ EndTerminate(c) \/ WaitPoll(c)

NewCall(c, j) ==
    \/ SaveJob(c, j)
    \/ \E op \in ControlOp : BeginControl(c, j, op)
    \/ BeginTerminate(c, j)
    \/ \E what \in {"waitStarted", "waitTerminated"},
          timeout \in Timeout : BeginWait(c, j, what, timeout)

MonitorStep(j) ==
    \/ ForkJob(j) \/ SavePid(j) \/ PostSem(j)
    \/ Reap(j) \/ SaveExitStatus(j) \/ SaveVerdict(j)

LaunchStep(j) == Setsid(j) \/ SaveRunning(j) \/ Exec(j) \/ ExecFails(j)

Next ==
    \/ \E c \in Client : ClientStep(c)
    \/ \E c \in Client, j \in Job : NewCall(c, j)
    \/ \E j \in Job : MonitorStep(j) \/ LaunchStep(j) \/ End(j)

\* The operating system runs every process that can run.  No fairness is assumed
\* of new calls, nor of End: nothing makes a job's program stop.
Fairness ==
    /\ \A c \in Client : WF_vars(ClientStep(c))
    /\ \A j \in Job : WF_vars(MonitorStep(j)) /\ WF_vars(LaunchStep(j))

Spec == Init /\ [][Next]_vars /\ Fairness

---------------------------------------------------------------------------
(* Properties.                                                              *)

ClientPoint == {"idle", "inserted", "queued", "semWait", "admitted", "killing",
                "waitStarted", "waitTerminated", "crashed", "killed"}
MonPoint  == {"none", "started", "forked", "pidSaved", "posted", "reaped",
              "exitSaved", "gone", "killed"}
ProcPoint == {"none", "forked", "leader", "running", "executing", "strayed", "ended"}
Group     == {"owner", "job", "nobody"}
Status    == {Alive, Killed} \cup {Exited(k) : k \in ExitCode}

\* Every variable stays in the set of values its C counterpart has.
TypeOK ==
    /\ state \in [Job -> JState \cup {"NoRow", "NULL"}]
    /\ pid \in [Job -> BOOLEAN]
    /\ exit \in [Job -> ExitCode \cup {NullExit, 0}]
    /\ sem \in [Job -> {"none", "zero", "one"}]
    /\ owner \in [Job -> Client \cup {NoClient}]
    /\ number \in [Job -> Pid \cup {NoPid}]
    /\ mon \in [Job -> MonPoint]
    /\ proc \in [Job -> ProcPoint]
    /\ status \in [Job -> Status]
    /\ returned \in SUBSET Job
    /\ pc \in [Client -> ClientPoint]
    /\ cur \in [Client -> Job \cup {NoJob}]
    /\ found \in [Client -> Job \cup {NoJob}]
    /\ arg \in [Client -> JState \cup Group \cup {"none", "FINITE", "INFINITE"}]

\* Once run_job has returned a handle, its columns can be read: job_state and
\* pid are set, so no call on the handle runs into a NULL column, and terminate
\* finds a pid ("ensure that pid is written before drmaa lib return").
HandleUsable ==
    \A j \in returned : pid[j] /\ state[j] \in JState

\* A job reported as started has been: whatever control calls do to a queued
\* job, no interleaving of theirs makes a wait_started return before the job
\* process has written RUNNING or died.
StartedTruthful ==
    \A j \in Job : state[j] \in JState /\ Started(state[j])
        => proc[j] \in {"running", "executing", "strayed", "ended"}

\* A terminal state is the truth about the job process, and whoever sees it
\* (drmaa2_j_get_info after drmaa2_j_wait_terminated) finds the exit status
\* already recorded.
VerdictTruthful ==
    \A j \in Job : Terminated(state[j]) =>
        /\ proc[j] = "ended"
        /\ exit[j] = status[j].code
        /\ status[j].kind = IF state[j] = "DONE" THEN "exited" ELSE "signaled"

\* The verdict is in, and no control call admitted before it is still to write.
Settled(j) ==
    /\ Terminated(state[j])
    /\ \A c \in Client : ~(pc[c] = "admitted" /\ cur[c] = j)

\* A settled job stays settled: neither the job process's own RUNNING nor any
\* sequence of suspend, resume, hold and release changes its state again.
SettledForGood ==
    [][\A j \in Job : Settled(j) => Settled(j)' /\ state'[j] = state[j]]_vars

\* terminate looks a pid up and signals the group it finds in two steps, and the pid
\* in the row outlives the process.  Still it ends the process of another job only
\* before that has called setsid, together with its owner, or after its own job's
\* process has been waited for and the other has got its pid.
KillAccounted ==
    [][\A k \in Job :
          LET Done == {c \in Client : pc[c] = "killing" /\ pc'[c] # "killing"}
          IN  proc[k] # "ended" /\ proc'[k] = "ended" /\ Done # {} =>
                 \E c \in Done :
                    \/ k = cur[c]
                    \/ arg[c] = "owner" /\ proc[k] = "forked"
                    \/ arg[c] = "job" /\ ~HasPid(cur[c]) /\ number[k] = number[cur[c]]]_vars

\* run_job returns, unless its process is killed under it: the monitor posts the
\* semaphore whatever becomes of the job.
SubmitReturns ==
    \A c \in Client : pc[c] \in {"inserted", "queued", "semWait"} ~> pc[c] \in {"idle", "killed"}

\* The end of a job is recorded, unless its monitor went down with its owner.
ExitRecorded ==
    \A j \in Job : proc[j] = "ended" ~> exit[j] # NullExit \/ mon[j] = "killed"

\* The monitor is done with a job whose last recorded state is not terminal: a
\* control call admitted earlier wrote after it.
VerdictLost(j) == mon[j] = "gone" /\ ~Terminated(state[j])

\* A wait for a job that has ended returns even without a timeout, unless its
\* monitor was killed or its verdict was overwritten.
WaitReturns ==
    \A c \in Client, j \in Job :
        pc[c] = "waitTerminated" /\ cur[c] = j /\ proc[j] = "ended"
            ~> pc[c] # "waitTerminated" \/ mon[j] = "killed" \/ VerdictLost(j)

\* How far run_job is with a job, and which jobs have a process.
Phase == [j \in Job |-> IF state[j] = "NoRow" THEN "absent"
                        ELSE IF j \in returned THEN "handed" ELSE "accepted"]
Launched == {j \in Job : proc[j] # "none"}

Contract == INSTANCE JobContract WITH
    phase <- Phase, launched <- Launched, outcome <- status, recorded <- exit

\* The processes of JobLifecycle implement that contract under every interleaving,
\* with jobs killed while their monitor or their owner is anywhere.
MeetsContract == Contract!Spec

---------------------------------------------------------------------------
(* What the source says and the code does not do.                           *)

\* suspend, resume, hold and release answer "Current job state does not allow
\* to ..." for a job in a terminal state: such a job keeps its state.
TerminalIsFinal ==
    [][\A j \in Job : Terminated(state[j]) => state'[j] = state[j]]_vars

\* run_job waits until the pid is recorded because that is "important for kill
\* (job termination)": a terminate of a job whose handle has been returned signals
\* the job's own group, which it "can be killed" by, or nobody.
TerminateHitsJob ==
    \A c \in Client : pc[c] = "killing" /\ cur[c] \in returned => arg[c] # "owner"
=============================================================================
