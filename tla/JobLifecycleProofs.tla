------------------------- MODULE JobLifecycleProofs -------------------------
(* The safety properties of JobLifecycle hold for any number of clients and *)
(* jobs.  The inductive invariant IInv says, job by job, how the row, the    *)
(* monitor and the job process relate, and, client by client, what the row   *)
(* of the call in progress looks like.                                      *)
EXTENDS JobLifecycle, TLAPS

ProcStarted == {"running", "executing", "strayed", "ended"}
Submitting  == {"inserted", "queued", "semWait"}

\* The monitor starts when the row is complete, records the pid before it posts
\* the semaphore, and writes the verdict last, after the job process has ended.
JobInv(j) ==
    /\ state[j] \notin JState => mon[j] = "none"
    /\ mon[j] \in {"none", "started"} => proc[j] = "none"
    /\ mon[j] \in {"pidSaved", "posted", "reaped", "exitSaved", "gone"} \/ sem[j] = "one"
          => pid[j] = TRUE
    /\ mon[j] \in {"none", "started", "forked"} => pid[j] = FALSE
    /\ mon[j] = "forked" \/ pid[j] = TRUE => proc[j] # "none"
    /\ mon[j] \in {"none", "started", "forked", "pidSaved", "posted", "reaped"}
          => exit[j] = NullExit
    /\ mon[j] \in {"reaped", "exitSaved", "gone"} => proc[j] = "ended"
    /\ proc[j] = "ended" <=> status[j] # Alive
    /\ mon[j] \in {"exitSaved", "gone"} => exit[j] = status[j].code
    /\ state[j] \notin {"REQUEUED", "REQUEUED_HELD"}
    /\ state[j] \in {"RUNNING", "SUSPENDED"} => proc[j] \in ProcStarted
    /\ state[j] \in Terminal =>
          /\ mon[j] = "gone"
          /\ status[j].kind = IF state[j] = "DONE" THEN "exited" ELSE "signaled"
    /\ j \in returned => pid[j] = TRUE /\ state[j] \in JState

\* The row a client is submitting is its own; an admitted control call is about
\* an existing row and will not write a terminal state.
ClientInv(c) ==
    /\ pc[c] \in Submitting => cur[c] \in Job \ returned /\ owner[cur[c]] = c
    /\ pc[c] = "inserted" => state[cur[c]] = "NULL"
    /\ pc[c] = "queued" => state[cur[c]] \in JState /\ mon[cur[c]] = "none"
    /\ pc[c] = "semWait" => state[cur[c]] \in JState
    /\ pc[c] \in {"admitted", "killing", "waitStarted", "waitTerminated"} => cur[c] \in Job
    /\ pc[c] = "admitted" =>
          /\ state[cur[c]] \in JState
          /\ arg[c] \in {"QUEUED", "QUEUED_HELD", "RUNNING", "SUSPENDED"}
          /\ arg[c] \in {"RUNNING", "SUSPENDED"} => proc[cur[c]] \in ProcStarted

\* No two job processes have the same pid at the same time.
PidInv ==
    \A j, k \in Job : HasPid(j) /\ HasPid(k) /\ number[j] = number[k] => j = k

IInv ==
    /\ TypeOK
    /\ PidInv
    /\ \A j \in Job : JobInv(j)
    /\ \A c \in Client : ClientInv(c)

\* The three kinds of wait status differ, and each is a Status.
LEMMA StatusFacts ==
    /\ Alive \in Status /\ Killed \in Status
    /\ \A k \in ExitCode : Exited(k) \in Status /\ Exited(k) # Alive
    /\ Killed # Alive
    /\ Killed.kind = "signaled" /\ Alive.kind = "alive"
    /\ \A s \in Status : s.code \in ExitCode \cup {0}
    /\ \A s \in Status : s # Alive => s.kind \in {"exited", "signaled"}
<1>1. \A k \in ExitCode : Exited(k) \in Status
  BY DEF Status
<1>2. \A k : Exited(k).kind = "exited" /\ Exited(k).code = k
  BY DEF Exited
<1>3. /\ Killed.kind = "signaled" /\ Killed.code = 0
      /\ Alive.kind = "alive" /\ Alive.code = 0
  BY DEF Killed, Alive
<1>4. Alive \in Status /\ Killed \in Status
  BY DEF Status
<1>5. \A s \in Status : s = Alive \/ s = Killed \/ \E k \in ExitCode : s = Exited(k)
  BY DEF Status
<1> QED
  BY <1>1, <1>2, <1>3, <1>4, <1>5

\* TypeOK alone is not inductive: SemWait adds cur[c] to returned and EndControl
\* stores arg[c] in state, which ClientInv bounds.
LEMMA TypeInit == Init => TypeOK
BY StatusFacts DEF Init, TypeOK, MonPoint, ProcPoint, ClientPoint

LEMMA TypeStep == IInv /\ [Next]_vars => TypeOK'
<1> SUFFICES ASSUME TypeOK, \A c \in Client : ClientInv(c), [Next]_vars PROVE TypeOK'
  BY DEF IInv
<1> USE DEF TypeOK
<1>1. CASE UNCHANGED vars
  BY <1>1 DEF vars, rowVars, jobVars, clientVars
<1>2. ASSUME NEW c \in Client, ClientStep(c) PROVE TypeOK'
  <2>1. CASE SaveQueued(c)
    BY <2>1 DEF SaveQueued, JState, ClientPoint
  <2>2. CASE ForkMonitor(c)
    BY <2>2 DEF ForkMonitor, rowVars, MonPoint, ClientPoint
  <2>3. CASE SemWait(c)
    BY <2>3 DEF SemWait, Return, rowVars, ClientPoint, ClientInv, Submitting
  <2>4. CASE EndControl(c)
    BY <2>4 DEF EndControl, Return, jobVars, ClientPoint, ClientInv, JState
  <2>5. CASE EndTerminate(c)
    <3>1. CASE SignalJob(c)
      <4>1. proc' \in [Job -> ProcPoint] /\ status' \in [Job -> Status]
        BY <3>1, StatusFacts DEF SignalJob, ProcPoint
      <4>2. UNCHANGED <<rowVars, sem, owner, number, mon, returned>> /\ Return(c)
        BY <3>1 DEF SignalJob
      <4> QED
        BY <4>1, <4>2 DEF Return, rowVars, ClientPoint
    <3>2. CASE SignalOwner(c)
      <4>1. mon' \in [Job -> MonPoint]
        BY <3>2 DEF SignalOwner, MonPoint
      <4>2. proc' \in [Job -> ProcPoint] /\ status' \in [Job -> Status]
        BY <3>2, StatusFacts DEF SignalOwner, ProcPoint
      <4>3. pc' \in [Client -> ClientPoint]
        BY <3>2 DEF SignalOwner, ClientPoint
      <4>4. /\ cur' \in [Client -> Job \cup {NoJob}] /\ found' \in [Client -> Job \cup {NoJob}]
            /\ arg' \in [Client -> JState \cup Group \cup {"none", "FINITE", "INFINITE"}]
        BY <3>2 DEF SignalOwner
      <4> QED
        BY <3>2, <4>1, <4>2, <4>3, <4>4 DEF SignalOwner, rowVars
    <3>3. CASE SignalNobody(c)
      BY <3>3 DEF SignalNobody, Return, rowVars, jobVars, ClientPoint
    <3> QED
      BY <2>5, <3>1, <3>2, <3>3 DEF EndTerminate
  <2>6. CASE WaitPoll(c)
    BY <2>6 DEF WaitPoll, Enter, Return, rowVars, jobVars, ClientPoint
  <2> QED
    BY <1>2, <2>1, <2>2, <2>3, <2>4, <2>5, <2>6 DEF ClientStep
<1>3. ASSUME NEW c \in Client, NEW j \in Job, NewCall(c, j) PROVE TypeOK'
  <2>1. CASE SaveJob(c, j)
    BY <2>1 DEF SaveJob, Enter, ClientPoint
  <2>2. ASSUME NEW op \in ControlOp, BeginControl(c, j, op) PROVE TypeOK'
    BY <2>2 DEF BeginControl, Crash, Enter, Return, ControlOp, ControlMoves, rowVars,
                jobVars, ClientPoint, JState
  <2>3. CASE BeginTerminate(c, j)
    BY <2>3 DEF BeginTerminate, Crash, Enter, GroupOf, Group, rowVars, jobVars, ClientPoint
  <2>4. ASSUME NEW what \in {"waitStarted", "waitTerminated"},
               NEW timeout \in Timeout, BeginWait(c, j, what, timeout)
        PROVE TypeOK'
    BY <2>4, ConstantsAssumption DEF BeginWait, Enter, rowVars, jobVars, ClientPoint
  <2> QED
    BY <1>3, <2>1, <2>2, <2>3, <2>4 DEF NewCall
<1>4. ASSUME NEW j \in Job, MonitorStep(j) PROVE TypeOK'
  <2>1. CASE SaveExitStatus(j)
    BY <2>1, StatusFacts DEF SaveExitStatus, clientVars, MonPoint
  <2>2. CASE SaveVerdict(j)
    BY <2>2 DEF SaveVerdict, clientVars, MonPoint, JState
  <2>3. CASE ForkJob(j)
    <3>1. number' \in [Job -> Pid \cup {NoPid}]
      BY <2>3 DEF ForkJob, GetPid
    <3> QED
      BY <2>3, <3>1 DEF ForkJob, rowVars, clientVars, MonPoint, ProcPoint
  <2>4. CASE SavePid(j) \/ PostSem(j) \/ Reap(j)
    BY <2>4 DEF SavePid, PostSem, Reap, rowVars, clientVars, MonPoint
  <2> QED
    BY <1>4, <2>1, <2>2, <2>3, <2>4 DEF MonitorStep
<1>5. ASSUME NEW j \in Job, LaunchStep(j) \/ End(j) PROVE TypeOK'
  <2>1. CASE LaunchStep(j)
    BY <2>1 DEF LaunchStep, Setsid, SaveRunning, Exec, ExecFails, JobStep, clientVars,
                ProcPoint, JState
  <2>2. CASE End(j)
    BY <2>2, StatusFacts DEF End, JobStep, clientVars, ProcPoint
  <2> QED
    BY <1>5, <2>1, <2>2
<1> QED
  BY <1>1, <1>2, <1>3, <1>4, <1>5 DEF Next

LEMMA InvInit == Init => IInv
<1> SUFFICES ASSUME Init PROVE IInv
  OBVIOUS
<1>1. TypeOK
  BY TypeInit
<1>2. \A j \in Job : JobInv(j)
  BY DEF Init, JobInv, JState, Terminal
<1>3. \A c \in Client : ClientInv(c)
  BY DEF Init, ClientInv, Submitting
<1>4. PidInv
  BY DEF Init, PidInv, HasPid
<1> QED
  BY <1>1, <1>2, <1>3, <1>4 DEF IInv

\* The steps of the client: submission, then the writes and signals of admitted
\* calls.
LEMMA ClientStepInv ==
    ASSUME IInv, TypeOK', NEW c \in Client, ClientStep(c)
    PROVE  (\A j \in Job : JobInv(j)') /\ (\A d \in Client : ClientInv(d)')
<1> USE DEF IInv, TypeOK
<1>1. CASE SaveQueued(c)
  <2>1. \A j \in Job : JobInv(j)'
    BY <1>1 DEF SaveQueued, JobInv, ClientInv, Submitting, JState, Terminal
  <2>2. \A d \in Client : ClientInv(d)'
    BY <1>1 DEF SaveQueued, JobInv, ClientInv, Submitting, JState
  <2> QED
    BY <2>1, <2>2
<1>2. CASE ForkMonitor(c)
  <2>1. \A j \in Job : JobInv(j)'
    BY <1>2 DEF ForkMonitor, rowVars, JobInv, ClientInv, Submitting, JState, Terminal
  <2>2. \A d \in Client : ClientInv(d)'
    BY <1>2 DEF ForkMonitor, rowVars, JobInv, ClientInv, Submitting
  <2> QED
    BY <2>1, <2>2
<1>3. CASE SemWait(c)
  <2>1. \A j \in Job : JobInv(j)'
    BY <1>3 DEF SemWait, Return, rowVars, JobInv, ClientInv, Submitting
  <2>2. \A d \in Client : ClientInv(d)'
    BY <1>3 DEF SemWait, Return, rowVars, ClientInv, Submitting
  <2> QED
    BY <2>1, <2>2
<1>4. CASE EndControl(c)
  <2>1. \A j \in Job : JobInv(j)'
    BY <1>4 DEF EndControl, Return, jobVars, JobInv, ClientInv, JState, Terminal
  <2>2. \A d \in Client : ClientInv(d)'
    BY <1>4 DEF EndControl, Return, jobVars, ClientInv, Submitting, JState
  <2> QED
    BY <2>1, <2>2
<1>5. CASE EndTerminate(c)
  <2>1. CASE SignalJob(c)
    <3>1. CASE UNCHANGED <<proc, status>>
      BY <2>1, <3>1 DEF SignalJob, Return, rowVars, JobInv, ClientInv, Submitting
    <3>2. ASSUME NEW k \in Job, Leads(k),
                 proc' = [proc EXCEPT ![k] = "ended"], status' = [status EXCEPT ![k] = Killed]
          PROVE  (\A j \in Job : JobInv(j)') /\ (\A d \in Client : ClientInv(d)')
      <4>1. proc[k] \in {"leader", "running", "executing", "strayed"}
        BY <3>2 DEF Leads
      <4>2. UNCHANGED <<rowVars, sem, owner, mon, returned>>
        BY <2>1 DEF SignalJob
      <4>3. \A j \in Job : j # k => JobInv(j)'
        BY <3>2, <4>2 DEF rowVars, JobInv
      <4>4. JobInv(k)'
        BY <3>2, <4>1, <4>2, StatusFacts DEF rowVars, JobInv, Terminal, ProcStarted
      <4>5. \A d \in Client : ClientInv(d)'
        BY <2>1, <3>2, <4>2 DEF SignalJob, Return, rowVars, ClientInv, Submitting, ProcStarted
      <4> QED
        BY <4>3, <4>4, <4>5
    <3> QED
      BY <2>1, <3>1, <3>2 DEF SignalJob
  <2>2. CASE SignalOwner(c)
    <3>1. \A j \in Job : JobInv(j)'
      BY <2>2, StatusFacts DEF SignalOwner, rowVars, JobInv, Terminal, ProcStarted, MonPoint
    <3>2. \A d \in Client : ClientInv(d)'
      BY <2>2 DEF SignalOwner, rowVars, ClientInv, Submitting, ProcStarted
    <3> QED
      BY <3>1, <3>2
  <2>3. CASE SignalNobody(c)
    BY <2>3 DEF SignalNobody, Return, rowVars, jobVars, JobInv, ClientInv, Submitting
  <2> QED
    BY <1>5, <2>1, <2>2, <2>3 DEF EndTerminate
<1>6. CASE WaitPoll(c)
  BY <1>6 DEF WaitPoll, Enter, Return, rowVars, jobVars, JobInv, ClientInv, Submitting
<1> QED
  BY <1>1, <1>2, <1>3, <1>4, <1>5, <1>6 DEF ClientStep

\* A new call inserts a row nobody refers to yet, or reads one.
LEMMA NewCallInv ==
    ASSUME IInv, TypeOK', NEW c \in Client, NEW i \in Job, NewCall(c, i)
    PROVE  (\A j \in Job : JobInv(j)') /\ (\A d \in Client : ClientInv(d)')
<1> USE DEF IInv, TypeOK
<1>1. CASE SaveJob(c, i)
  <2>1. \A j \in Job : JobInv(j)'
    BY <1>1 DEF SaveJob, Enter, JobInv, JState, Terminal
  <2>2. \A d \in Client : ClientInv(d)'
    BY <1>1 DEF SaveJob, Enter, JobInv, ClientInv, Submitting, JState
  <2> QED
    BY <2>1, <2>2
<1>2. ASSUME NEW op \in ControlOp, BeginControl(c, i, op)
      PROVE  (\A j \in Job : JobInv(j)') /\ (\A d \in Client : ClientInv(d)')
  <2>1. UNCHANGED <<rowVars, jobVars>>
    BY <1>2 DEF BeginControl, Crash
  <2>2. \A j \in Job : JobInv(j)'
    BY <2>1 DEF rowVars, jobVars, JobInv
  <2>3. \A d \in Client : d # c => ClientInv(d)'
    BY <1>2, <2>1 DEF BeginControl, Crash, Enter, Return, rowVars, jobVars, ClientInv
  <2>4. ClientInv(c)'
    <3>1. CASE \E m \in ControlMoves[op] : m[1] = state[i] /\ Enter(c, i, "admitted", m[2])
      <4>1. PICK m \in ControlMoves[op] : m[1] = state[i] /\ Enter(c, i, "admitted", m[2])
        BY <3>1
      <4>2. \/ m[1] = "RUNNING" /\ m[2] = "SUSPENDED"
            \/ m[1] = "SUSPENDED" /\ m[2] = "RUNNING"
            \/ m[1] = "QUEUED" /\ m[2] = "QUEUED_HELD"
            \/ m[1] = "REQUEUED" /\ m[2] = "REQUEUED_HELD"
            \/ m[1] = "QUEUED_HELD" /\ m[2] = "QUEUED"
            \/ m[1] = "REQUEUED_HELD" /\ m[2] = "REQUEUED"
        BY <4>1 DEF ControlMoves, ControlOp
      <4>3. JobInv(i)
        OBVIOUS
      <4> QED
        BY <2>1, <4>1, <4>2, <4>3 DEF Enter, rowVars, jobVars, ClientInv, JobInv, Submitting, JState
    <3>2. CASE Crash(c)
      BY <3>2 DEF Crash, Enter, ClientInv, Submitting
    <3>3. CASE Return(c)
      BY <3>3 DEF Return, ClientInv, Submitting
    <3> QED
      BY <1>2, <3>1, <3>2, <3>3 DEF BeginControl
  <2> QED
    BY <2>2, <2>3, <2>4
<1>3. CASE BeginTerminate(c, i)
  BY <1>3 DEF BeginTerminate, Crash, Enter, GroupOf, rowVars, jobVars, JobInv, ClientInv, Submitting
<1>4. ASSUME NEW what \in {"waitStarted", "waitTerminated"},
             NEW timeout \in Timeout, BeginWait(c, i, what, timeout)
      PROVE  (\A j \in Job : JobInv(j)') /\ (\A d \in Client : ClientInv(d)')
  BY <1>4 DEF BeginWait, Enter, rowVars, jobVars, JobInv, ClientInv, Submitting
<1> QED
  BY <1>1, <1>2, <1>3, <1>4 DEF NewCall

\* The monitor and the job process touch one job, and no client's call.
LEMMA JobStepInv ==
    ASSUME IInv, TypeOK', NEW i \in Job, MonitorStep(i) \/ LaunchStep(i) \/ End(i)
    PROVE  (\A j \in Job : JobInv(j)') /\ (\A d \in Client : ClientInv(d)')
<1> USE DEF IInv, TypeOK
<1>1. CASE ForkJob(i)
  BY <1>1 DEF ForkJob, rowVars, clientVars, JobInv, ClientInv, Submitting, ProcStarted, Terminal
<1>2. CASE SavePid(i)
  BY <1>2 DEF SavePid, clientVars, JobInv, ClientInv, Submitting, Terminal
<1>3. CASE PostSem(i)
  BY <1>3 DEF PostSem, rowVars, clientVars, JobInv, ClientInv, Submitting, Terminal
<1>4. CASE Reap(i)
  BY <1>4 DEF Reap, rowVars, clientVars, JobInv, ClientInv, Submitting, Terminal
<1>5. CASE SaveExitStatus(i)
  BY <1>5 DEF SaveExitStatus, clientVars, JobInv, ClientInv, Submitting, Terminal
<1>6. CASE SaveVerdict(i)
  BY <1>6, StatusFacts DEF SaveVerdict, clientVars, JobInv, ClientInv, Submitting, Terminal,
     JState, ProcStarted
<1>7. CASE SaveRunning(i)
  BY <1>7 DEF SaveRunning, JobStep, clientVars, JobInv, ClientInv, Submitting, Terminal,
     JState, ProcStarted
<1>8. CASE Setsid(i) \/ Exec(i) \/ ExecFails(i)
  BY <1>8 DEF Setsid, Exec, ExecFails, JobStep, clientVars, JobInv, ClientInv, Submitting,
     Terminal, ProcStarted
<1>9. CASE End(i)
  BY <1>9, StatusFacts DEF End, JobStep, clientVars, JobInv, ClientInv, Submitting, Terminal,
     ProcStarted
<1> QED
  BY <1>1, <1>2, <1>3, <1>4, <1>5, <1>6, <1>7, <1>8, <1>9 DEF MonitorStep, LaunchStep

\* A pid is given out only when no job process has it, and kept by its process.
LEMMA PidStep ==
    ASSUME IInv, [Next]_vars
    PROVE  PidInv'
<1> USE DEF IInv, TypeOK
<1> DEFINE Kept(j) == number'[j] = number[j] /\ (HasPid(j)' => HasPid(j))
<1>1. CASE \A j \in Job : Kept(j)
  BY <1>1 DEF PidInv
<1>2. CASE UNCHANGED vars
  BY <1>1, <1>2 DEF vars, jobVars, HasPid
<1>3. ASSUME NEW c \in Client, ClientStep(c) PROVE PidInv'
  <2>1. CASE UNCHANGED <<number, mon, proc>>
    BY <1>1, <2>1 DEF HasPid
  <2>2. CASE ForkMonitor(c)
    <3>1. \A j \in Job : proc[j] = "ended" => mon[j] \notin {"none", "started"}
      BY DEF JobInv
    <3> QED
      BY <1>1, <2>2, <3>1 DEF ForkMonitor, HasPid, ClientInv
  <2>3. CASE EndTerminate(c)
    <3>1. CASE SignalJob(c)
      BY <1>1, <3>1 DEF SignalJob, HasPid, Leads
    <3>2. CASE SignalOwner(c)
      BY <1>1, <3>2 DEF SignalOwner, HasPid, MonPoint
    <3>3. CASE SignalNobody(c)
      BY <2>1, <3>3 DEF SignalNobody, jobVars
    <3> QED
      BY <2>3, <3>1, <3>2, <3>3 DEF EndTerminate
  <2> QED
    BY <1>3, <2>1, <2>2, <2>3 DEF ClientStep, SaveQueued, SemWait, EndControl, WaitPoll, jobVars
<1>4. ASSUME NEW c \in Client, NEW j \in Job, NewCall(c, j) PROVE PidInv'
  <2>1. UNCHANGED <<number, mon, proc>>
    BY <1>4 DEF NewCall, SaveJob, BeginControl, BeginTerminate, BeginWait, Crash, jobVars
  <2> QED
    BY <1>1, <2>1 DEF HasPid
<1>5. ASSUME NEW i \in Job, MonitorStep(i) PROVE PidInv'
  <2>1. CASE ForkJob(i)
    <3>1. PICK p \in Pid \ {number[k] : k \in {j \in Job : HasPid(j)}} :
                 number' = [number EXCEPT ![i] = p]
      BY <2>1 DEF ForkJob, GetPid
    <3>2. number'[i] = p /\ \A j \in Job : HasPid(j) => number[j] # p
      BY <3>1
    <3>3. \A j \in Job \ {i} : Kept(j)
      BY <2>1, <3>1 DEF ForkJob, HasPid
    <3> QED
      BY <3>2, <3>3 DEF PidInv
  <2>2. CASE ~ForkJob(i)
    <3>1. UNCHANGED <<number, proc>>
      BY <1>5, <2>2 DEF MonitorStep, SavePid, PostSem, Reap, SaveExitStatus, SaveVerdict
    <3>2. \A j \in Job : j # i => mon'[j] = mon[j]
      BY <1>5, <2>2 DEF MonitorStep, SavePid, PostSem, Reap, SaveExitStatus, SaveVerdict
    <3>3. mon'[i] \notin {"reaped", "exitSaved", "gone", "killed"}
             => mon[i] \notin {"reaped", "exitSaved", "gone", "killed"}
      BY <1>5, <2>2 DEF MonitorStep, SavePid, PostSem, Reap, SaveExitStatus, SaveVerdict
    <3> QED
      BY <1>1, <3>1, <3>2, <3>3 DEF HasPid
  <2> QED
    BY <2>1, <2>2
<1>6. ASSUME NEW i \in Job, LaunchStep(i) \/ End(i) PROVE PidInv'
  BY <1>1, <1>6 DEF LaunchStep, Setsid, SaveRunning, Exec, ExecFails, End, JobStep, HasPid
<1> QED
  BY <1>2, <1>3, <1>4, <1>5, <1>6 DEF Next

LEMMA InvStep == IInv /\ [Next]_vars => IInv'
<1> SUFFICES ASSUME IInv, [Next]_vars PROVE IInv'
  OBVIOUS
<1>1. TypeOK'
  BY TypeStep
<1>2. (\A j \in Job : JobInv(j)') /\ (\A d \in Client : ClientInv(d)')
  <2>1. CASE UNCHANGED vars
    BY <2>1 DEF IInv, vars, rowVars, jobVars, clientVars, JobInv, ClientInv
  <2>2. CASE Next
    BY <1>1, <2>2, ClientStepInv, NewCallInv, JobStepInv DEF Next
  <2> QED
    BY <2>1, <2>2
<1> QED
  BY <1>1, <1>2, PidStep DEF IInv

LEMMA Invariance == Spec => []IInv
BY InvInit, InvStep, PTL DEF Spec

\* Every variable stays in its range, for any number of clients and jobs.
THEOREM TypeCorrect == Spec => []TypeOK
<1>1. IInv => TypeOK
  BY DEF IInv
<1> QED
  BY <1>1, Invariance, PTL

\* A returned handle has a pid and a state (run_job's semaphore does its work).
THEOREM HandleSafety == Spec => []HandleUsable
<1>1. IInv => HandleUsable
  BY DEF IInv, TypeOK, JobInv, HandleUsable
<1> QED
  BY <1>1, Invariance, PTL

\* No interleaving of control calls reports a job as started before it is.
THEOREM StartedSafety == Spec => []StartedTruthful
<1>1. IInv => StartedTruthful
  <2> SUFFICES ASSUME IInv, NEW j \in Job, state[j] \in JState, Started(state[j])
               PROVE  proc[j] \in {"running", "executing", "strayed", "ended"}
    BY DEF StartedTruthful
  <2>1. JobInv(j)
    BY DEF IInv
  <2>2. state[j] \in {"RUNNING", "SUSPENDED"} \cup Terminal
    BY <2>1 DEF JobInv, JState, Started, Terminal
  <2> QED
    BY <2>1, <2>2 DEF JobInv, ProcStarted, Terminal
<1> QED
  BY <1>1, Invariance, PTL

\* DONE and FAILED say how the job process ended, and its exit status is there.
THEOREM VerdictSafety == Spec => []VerdictTruthful
<1>1. IInv => VerdictTruthful
  BY DEF IInv, JobInv, VerdictTruthful, Terminated, Terminal
<1> QED
  BY <1>1, Invariance, PTL

\* After the verdict, only a control call admitted before it can change the state.
LEMMA SettledStep ==
    ASSUME IInv, [Next]_vars, NEW j \in Job, Settled(j)
    PROVE  Settled(j)' /\ state'[j] = state[j]
<1> USE DEF Settled, Terminated
<1>1. state[j] \in Terminal /\ mon[j] = "gone" /\ proc[j] = "ended"
  BY DEF IInv, JobInv
<1>2. CASE UNCHANGED vars
  BY <1>2 DEF vars, rowVars, clientVars
<1>3. ASSUME NEW c \in Client, ClientStep(c) PROVE Settled(j)' /\ state'[j] = state[j]
  <2>1. CASE SaveQueued(c)
    BY <1>1, <2>1 DEF SaveQueued, IInv, TypeOK, ClientInv, Submitting, Terminal
  <2>2. CASE ForkMonitor(c) \/ SemWait(c) \/ WaitPoll(c)
    BY <2>2 DEF ForkMonitor, SemWait, WaitPoll, Enter, Return, rowVars, IInv, TypeOK
  <2>3. CASE EndControl(c)
    BY <2>3 DEF EndControl, Return, IInv, TypeOK
  <2>4. CASE EndTerminate(c)
    BY <2>4 DEF EndTerminate, SignalJob, SignalOwner, SignalNobody, Return, rowVars, IInv, TypeOK
  <2> QED
    BY <1>3, <2>1, <2>2, <2>3, <2>4 DEF ClientStep
<1>4. ASSUME NEW c \in Client, NEW i \in Job, NewCall(c, i)
      PROVE  Settled(j)' /\ state'[j] = state[j]
  <2>1. CASE SaveJob(c, i)
    BY <1>1, <2>1 DEF SaveJob, Enter, IInv, TypeOK, Terminal
  <2>2. ASSUME NEW op \in ControlOp, BeginControl(c, i, op)
        PROVE  Settled(j)' /\ state'[j] = state[j]
    <3>1. UNCHANGED rowVars
      BY <2>2 DEF BeginControl, Crash
    <3>2. \A m \in ControlMoves[op] : m[1] \notin Terminal
      BY DEF ControlOp, ControlMoves, Terminal
    <3>3. ~(pc'[c] = "admitted" /\ cur'[c] = j)
      BY <1>1, <2>2, <3>2 DEF BeginControl, Crash, Enter, Return, IInv, TypeOK
    <3>4. \A d \in Client \ {c} : pc'[d] = pc[d] /\ cur'[d] = cur[d]
      BY <2>2 DEF BeginControl, Crash, Enter, Return, IInv, TypeOK
    <3> QED
      BY <3>1, <3>3, <3>4 DEF rowVars
  <2>3. CASE BeginTerminate(c, i)
    BY <2>3 DEF BeginTerminate, Crash, Enter, rowVars, IInv, TypeOK
  <2>4. ASSUME NEW what \in {"waitStarted", "waitTerminated"},
               NEW timeout \in Timeout, BeginWait(c, i, what, timeout)
        PROVE  Settled(j)' /\ state'[j] = state[j]
    BY <2>4 DEF BeginWait, Enter, rowVars, IInv, TypeOK
  <2> QED
    BY <1>4, <2>1, <2>2, <2>3, <2>4 DEF NewCall
<1>5. ASSUME NEW i \in Job, MonitorStep(i) \/ LaunchStep(i) \/ End(i)
      PROVE  Settled(j)' /\ state'[j] = state[j]
  BY <1>1, <1>5 DEF MonitorStep, LaunchStep, End, JobStep, ForkJob, SavePid, PostSem, Reap,
     SaveExitStatus, SaveVerdict, Setsid, SaveRunning, Exec, ExecFails, rowVars, clientVars,
     IInv, TypeOK
<1> QED
  BY <1>2, <1>3, <1>4, <1>5 DEF Next

\* A settled job stays settled, for any number of clients and control calls.
THEOREM SettledSafety == Spec => SettledForGood
<1>1. IInv /\ [Next]_vars
        => [\A j \in Job : Settled(j) => Settled(j)' /\ state'[j] = state[j]]_vars
  BY SettledStep
<1> QED
  BY <1>1, Invariance, PTL DEF Spec, SettledForGood

\* Only EndTerminate moves a client on from "killing"; the process it ends has the pid
\* of the call's own job, and PidInv tells whose pid that is now.
LEMMA KillStep ==
    ASSUME IInv, [Next]_vars, NEW k \in Job, proc[k] # "ended", proc'[k] = "ended",
           NEW d \in Client, pc[d] = "killing", pc'[d] # "killing"
    PROVE  \E c \in Client :
             /\ pc[c] = "killing" /\ pc'[c] # "killing"
             /\ \/ k = cur[c]
                \/ arg[c] = "owner" /\ proc[k] = "forked"
                \/ arg[c] = "job" /\ ~HasPid(cur[c]) /\ number[k] = number[cur[c]]
<1> USE DEF IInv, TypeOK
<1>1. PICK c \in Client : EndTerminate(c)
  <2>1. ~ UNCHANGED pc
    OBVIOUS
  <2>2. \A c \in Client, j \in Job : ~NewCall(c, j)
    BY DEF NewCall, SaveJob, BeginControl, BeginTerminate, BeginWait, Crash, Enter, Return,
       jobVars
  <2>3. \A j \in Job : ~(MonitorStep(j) \/ LaunchStep(j) \/ End(j))
    BY <2>1 DEF MonitorStep, LaunchStep, End, JobStep, ForkJob, SavePid, PostSem, Reap,
       SaveExitStatus, SaveVerdict, Setsid, SaveRunning, Exec, ExecFails, clientVars
  <2>4. \A c \in Client : ClientStep(c) => EndTerminate(c)
    BY DEF ClientStep, SaveQueued, ForkMonitor, SemWait, EndControl, WaitPoll, jobVars
  <2> QED
    BY <2>1, <2>2, <2>3, <2>4 DEF Next, vars, clientVars
<1>2. pc[c] = "killing" /\ cur[c] \in Job
  BY <1>1 DEF EndTerminate, ClientInv
<1>3. CASE SignalJob(c)
  <2>1. number[k] = number[cur[c]] /\ HasPid(k)
    BY <1>3 DEF SignalJob, Leads, HasPid
  <2>2. k # cur[c] => ~HasPid(cur[c])
    BY <1>2, <2>1 DEF PidInv
  <2> QED
    BY <1>2, <1>3, <2>1, <2>2 DEF SignalJob, Return
<1>4. CASE SignalOwner(c)
  <2>1. proc[k] = "forked" /\ arg[c] = "owner"
    BY <1>4 DEF SignalOwner
  <2>2. pc'[c] # "killing"
    BY <1>2, <1>4 DEF SignalOwner
  <2> QED
    BY <1>2, <2>1, <2>2
<1>5. CASE SignalNobody(c)
  BY <1>5 DEF SignalNobody, jobVars
<1> QED
  BY <1>1, <1>3, <1>4, <1>5 DEF EndTerminate

\* Whose process a terminate may end, for any number of clients, jobs and pids.
THEOREM KillSafety == Spec => KillAccounted
<1>1. IInv /\ [Next]_vars
        => [\A k \in Job :
              LET Done == {c \in Client : pc[c] = "killing" /\ pc'[c] # "killing"}
              IN  proc[k] # "ended" /\ proc'[k] = "ended" /\ Done # {} =>
                     \E c \in Done :
                        \/ k = cur[c]
                        \/ arg[c] = "owner" /\ proc[k] = "forked"
                        \/ arg[c] = "job" /\ ~HasPid(cur[c]) /\ number[k] = number[cur[c]]]_vars
  BY KillStep
<1> QED
  BY <1>1, Invariance, PTL DEF Spec, KillAccounted

---------------------------------------------------------------------------
(* JobLifecycle implements JobContract.                                     *)

\* Steps that leave the rows' existence, the returned handles, the processes,
\* their wait statuses and the exit statuses alone are stutters of the contract.
LEMMA ContractStutter ==
    ASSUME IInv, UNCHANGED <<returned, status, exit>>,
           \A j \in Job : state'[j] = "NoRow" <=> state[j] = "NoRow",
           \A j \in Job : proc'[j] = "none" <=> proc[j] = "none"
    PROVE  UNCHANGED Contract!vars
<1>1. Phase' = Phase /\ Launched' = Launched
  BY DEF Phase, Launched
<1> QED
  BY <1>1 DEF Contract!vars

\* A new Phase given job by job is an update of the old one.
LEMMA PhaseExcept ==
    ASSUME NEW k \in Job, NEW v, \A i \in Job : Phase'[i] = IF i = k THEN v ELSE Phase[i]
    PROVE  Phase' = [Phase EXCEPT ![k] = v]
<1> DEFINE f == [i \in Job |-> Phase'[i]]
           g == [i \in Job |-> IF i = k THEN v ELSE Phase[i]]
<1>1. Phase' = f
  BY DEF Phase
<1>2. f = g
  OBVIOUS
<1>3. g = [Phase EXCEPT ![k] = v]
  BY DEF Phase
<1> QED
  BY <1>1, <1>2, <1>3

\* A contract step that ends the jobs in S.
LEMMA ContractFinish ==
    ASSUME NEW S \in SUBSET Job, S # {}, \A i \in S : status[i] = Alive /\ proc[i] # "none",
           NEW s \in Status, s # Alive,
           status' = [i \in Job |-> IF i \in S THEN s ELSE status[i]],
           UNCHANGED <<state, returned, exit>>,
           \A i \in Job : proc'[i] = "none" <=> proc[i] = "none"
    PROVE  Contract!Next
<1>1. Phase' = Phase /\ Launched' = Launched
  BY DEF Phase, Launched
<1>2. S \subseteq {i \in Launched : status[i] = Alive}
  BY DEF Launched
<1>3. Contract!Finish(S)
  BY <1>1, <1>2 DEF Contract!Finish
<1> QED
  BY <1>3 DEF Contract!Next

LEMMA ContractStep ==
    ASSUME IInv, IInv', [Next]_vars
    PROVE  Contract!Next \/ UNCHANGED Contract!vars
<1> USE DEF IInv, TypeOK
<1>1. CASE UNCHANGED vars
  BY <1>1, ContractStutter DEF vars, rowVars, jobVars
<1>2. ASSUME NEW c \in Client, ClientStep(c)
      PROVE  Contract!Next \/ UNCHANGED Contract!vars
  <2>1. CASE SaveQueued(c)
    <3>1. cur[c] \in Job /\ state[cur[c]] = "NULL"
      BY <2>1 DEF SaveQueued, ClientInv, Submitting
    <3> QED
      BY <2>1, <3>1, ContractStutter DEF SaveQueued
  <2>2. CASE ForkMonitor(c)
    BY <2>2, ContractStutter DEF ForkMonitor, rowVars
  <2>3. CASE SemWait(c)
    <3>1. PICK k \in Job : k = cur[c]
      BY <2>3 DEF SemWait, ClientInv, Submitting
    <3>2. k \notin returned /\ state[k] \in JState /\ proc[k] # "none"
      BY <2>3, <3>1 DEF SemWait, ClientInv, JobInv, Submitting
    <3>3. Phase[k] = "accepted" /\ k \in Launched
      BY <3>2 DEF Phase, Launched, JState
    <3>4. \A i \in Job : Phase'[i] = IF i = k THEN "handed" ELSE Phase[i]
      BY <2>3, <3>1, <3>2 DEF SemWait, Phase, rowVars, JState
    <3>5. Phase' = [Phase EXCEPT ![k] = "handed"] /\ Launched' = Launched
      BY <2>3, <3>4, PhaseExcept DEF SemWait, Launched
    <3>6. Contract!Hand(k)
      BY <2>3, <3>3, <3>5 DEF SemWait, Contract!Hand, rowVars
    <3> QED
      BY <3>6 DEF Contract!Next
  <2>4. CASE EndControl(c)
    <3>1. cur[c] \in Job /\ state[cur[c]] # "NoRow" /\ arg[c] # "NoRow"
      BY <2>4 DEF EndControl, ClientInv, JState
    <3> QED
      BY <2>4, <3>1, ContractStutter DEF EndControl, jobVars
  <2>5. CASE EndTerminate(c)
    <3>2. CASE SignalJob(c)
      <4>1. UNCHANGED <<rowVars, returned>>
        BY <3>2 DEF SignalJob
      <4>2. CASE UNCHANGED <<proc, status>>
        BY <4>1, <4>2, ContractStutter DEF rowVars
      <4>3. ASSUME NEW k \in Job, Leads(k),
                   proc' = [proc EXCEPT ![k] = "ended"], status' = [status EXCEPT ![k] = Killed]
            PROVE  Contract!Next
        <5>0. proc[k] \notin {"none", "forked", "ended"}
          BY <4>3 DEF Leads
        <5>1. status[k] = Alive
          BY <5>0 DEF JobInv
        <5>2. status' = [i \in Job |-> IF i \in {k} THEN Killed ELSE status[i]]
          BY <4>3
        <5>3. \A i \in Job : proc'[i] = "none" <=> proc[i] = "none"
          BY <4>3, <5>0
        <5>4. Killed \in Status /\ Killed # Alive /\ {k} \in SUBSET Job /\ {k} # {}
          BY StatusFacts
        <5>5. \A i \in {k} : status[i] = Alive /\ proc[i] # "none"
          BY <5>0, <5>1
        <5>6. UNCHANGED <<state, returned, exit>>
          BY <4>1 DEF rowVars
        <5> HIDE DEF IInv, TypeOK
        <5> QED
          BY <5>2, <5>3, <5>4, <5>5, <5>6, ContractFinish
      <4> QED
        BY <3>2, <4>2, <4>3 DEF SignalJob
    <3>3. CASE SignalOwner(c)
      <4> DEFINE S == {i \in Job : owner[i] = owner[found[c]] /\ proc[i] = "forked"}
      <4>1. /\ UNCHANGED <<rowVars, returned>>
            /\ proc' = [i \in Job |-> IF i \in S THEN "ended" ELSE proc[i]]
            /\ status' = [i \in Job |-> IF i \in S THEN Killed ELSE status[i]]
        BY <3>3 DEF SignalOwner
      <4>2. \A i \in S : status[i] = Alive /\ proc[i] # "none"
        BY DEF JobInv
      <4>3. CASE S = {}
        BY <4>1, <4>3, ContractStutter DEF rowVars
      <4>4. CASE S # {}
        BY <4>1, <4>2, <4>4, StatusFacts, ContractFinish DEF rowVars
      <4> QED
        BY <4>3, <4>4
    <3>4. CASE SignalNobody(c)
      BY <3>4, ContractStutter DEF SignalNobody, rowVars, jobVars
    <3> QED
      BY <2>5, <3>2, <3>3, <3>4 DEF EndTerminate
  <2>6. CASE WaitPoll(c)
    BY <2>6, ContractStutter DEF WaitPoll, rowVars, jobVars
  <2> QED
    BY <1>2, <2>1, <2>2, <2>3, <2>4, <2>5, <2>6 DEF ClientStep
<1>3. ASSUME NEW c \in Client, NEW j \in Job, NewCall(c, j)
      PROVE  Contract!Next \/ UNCHANGED Contract!vars
  <2>1. CASE SaveJob(c, j)
    <3>1. j \notin returned
      BY <2>1 DEF SaveJob, JobInv, JState
    <3>2. Phase[j] = "absent"
      BY <2>1 DEF SaveJob, Phase
    <3>3. \A i \in Job : Phase'[i] = IF i = j THEN "accepted" ELSE Phase[i]
      BY <2>1, <3>1 DEF SaveJob, Phase
    <3>4. Phase' = [Phase EXCEPT ![j] = "accepted"] /\ Launched' = Launched
      BY <2>1, <3>3, PhaseExcept DEF SaveJob, Launched
    <3>5. Contract!Accept(j)
      BY <2>1, <3>2, <3>4 DEF SaveJob, Contract!Accept
    <3> QED
      BY <3>5 DEF Contract!Next
  <2>2. CASE UNCHANGED <<rowVars, jobVars>>
    BY <2>2, ContractStutter DEF rowVars, jobVars
  <2> QED
    BY <1>3, <2>1, <2>2 DEF NewCall, BeginControl, BeginTerminate, BeginWait, Crash
<1>4. ASSUME NEW j \in Job, MonitorStep(j)
      PROVE  Contract!Next \/ UNCHANGED Contract!vars
  <2>1. CASE ForkJob(j)
    <3>1. j \notin returned /\ state[j] # "NoRow" /\ proc[j] = "none"
      BY <2>1 DEF ForkJob, JobInv, JState
    <3>2. Phase[j] = "accepted" /\ j \notin Launched
      BY <3>1 DEF Phase, Launched
    <3>3. Phase' = Phase /\ Launched' = Launched \cup {j}
      BY <2>1 DEF ForkJob, rowVars, Phase, Launched
    <3>4. Contract!Launch(j)
      BY <2>1, <3>2, <3>3 DEF ForkJob, rowVars, Contract!Launch
    <3> QED
      BY <3>4 DEF Contract!Next
  <2>2. CASE SaveExitStatus(j)
    <3>1. status[j] # Alive /\ exit[j] = NullExit
      BY <2>2 DEF SaveExitStatus, JobInv
    <3>2. Phase' = Phase /\ Launched' = Launched
      BY <2>2 DEF SaveExitStatus, Phase, Launched
    <3>3. Contract!Record(j)
      BY <2>2, <3>1, <3>2 DEF SaveExitStatus, Contract!Record
    <3> QED
      BY <3>3 DEF Contract!Next
  <2>3. CASE SaveVerdict(j)
    <3>1. state[j] # "NoRow"
      BY <2>3 DEF SaveVerdict, JobInv, JState
    <3> QED
      BY <2>3, <3>1, ContractStutter DEF SaveVerdict
  <2>4. CASE SavePid(j) \/ PostSem(j) \/ Reap(j)
    BY <2>4, ContractStutter DEF SavePid, PostSem, Reap, rowVars
  <2> QED
    BY <1>4, <2>1, <2>2, <2>3, <2>4 DEF MonitorStep
<1>5. ASSUME NEW j \in Job, LaunchStep(j)
      PROVE  Contract!Next \/ UNCHANGED Contract!vars
  <2>1. CASE SaveRunning(j)
    <3>1. state[j] # "NoRow"
      BY <2>1 DEF SaveRunning, JobStep, JobInv, JState
    <3> QED
      BY <2>1, <3>1, ContractStutter DEF SaveRunning, JobStep
  <2>2. CASE Setsid(j) \/ Exec(j) \/ ExecFails(j)
    BY <2>2, ContractStutter DEF Setsid, Exec, ExecFails, JobStep
  <2> QED
    BY <1>5, <2>1, <2>2 DEF LaunchStep
<1>6. ASSUME NEW j \in Job, End(j)
      PROVE  Contract!Next \/ UNCHANGED Contract!vars
  <2>1. status[j] = Alive /\ proc[j] # "none"
    BY <1>6 DEF End, JobStep, JobInv
  <2>2. PICK s \in {Exited(k) : k \in ExitCode} \cup {Killed} :
             status' = [status EXCEPT ![j] = s]
    BY <1>6 DEF End
  <2>3. s \in Status /\ s # Alive /\ {j} \in SUBSET Job /\ {j} # {}
    BY StatusFacts
  <2>4. status' = [i \in Job |-> IF i \in {j} THEN s ELSE status[i]]
    BY <2>2
  <2>5. UNCHANGED <<state, returned, exit>> /\ proc' = [proc EXCEPT ![j] = "ended"]
    BY <1>6 DEF End, JobStep
  <2>6. \A i \in Job : proc'[i] = "none" <=> proc[i] = "none"
    BY <2>1, <2>5
  <2>7. \A i \in {j} : status[i] = Alive /\ proc[i] # "none"
    BY <2>1
  <2> HIDE DEF IInv, TypeOK
  <2> QED
    BY <2>3, <2>4, <2>5, <2>6, <2>7, ContractFinish
<1> QED
  BY <1>1, <1>2, <1>3, <1>4, <1>5, <1>6 DEF Next

\* Every behaviour of the processes is one of the contract: one process, one end,
\* one truthful exit status per job, and a handle only for a job with a process.
THEOREM Refinement == Spec => MeetsContract
<1>1. Init => Contract!Init
  BY DEF Init, Contract!Init, Phase, Launched
<1>2. IInv /\ IInv' /\ [Next]_vars => [Contract!Next]_Contract!vars
  BY ContractStep
<1> QED
  BY <1>1, <1>2, Invariance, PTL DEF Spec, MeetsContract, Contract!Spec
=============================================================================
