------------------------------ MODULE JobWatch ------------------------------
(***************************************************************************)
(* The calls that go over a list of jobs, one job after the other, while the *)
(* jobs move on: wait_any_started and wait_any_terminated, which poll, and  *)
(* the control calls of a job array (for a single job, the list has one      *)
(* member); and the announcement of state changes.  A change is announced by *)
(* the process that has written it, after the write, if a callback was       *)
(* registered there; monitor and job process have the callback their client  *)
(* had when it forked them.                                                  *)
(*                                                                          *)
(* run_job is one step here, and pid, exit status and terminate are left     *)
(* out: JobLifecycle has them.                                               *)
(***************************************************************************)
EXTENDS Naturals, FiniteSets, SequencesExt

CONSTANTS Client,   \* application processes
          Job,      \* row ids of the jobs table
          Calls,    \* the calls each client may make
          List,     \* the lists of jobs, and arrays, that calls are about
          Timeout,  \* the timeouts of the wait calls
          MaxMoves  \* bound on the state changes made by control calls

ASSUME WatchAssumption == /\ List \subseteq Seq(Job)
                          /\ Timeout \subseteq {"ZERO", "FINITE", "INFINITE"}
                          /\ MaxMoves \in Nat
                          /\ Client \intersect {"job", "monitor"} = {}

VARIABLES
    state,     \* jobs.job_state
    proc,      \* where the job process is
    mon,       \* where the monitor is
    callback,  \* the clients that have registered a callback
    inherits,  \* the jobs whose monitor and job process have one
    call,      \* what each client is doing
    moves,     \* state changes by control calls so far
    due,       \* history: the states written to a job and still to be announced, in order
    muddled,   \* history: jobs that got a new state while another was to be announced
    mistold,   \* history: jobs announced in a state not due, or before one due earlier
    steady     \* history: the jobs of a call's list that have had a state the call
               \* looks for ever since it last started on the list

jobVars == <<state, proc, mon, inherits>>
heard   == <<due, muddled, mistold>>
vars    == <<jobVars, callback, call, moves, heard, steady>>

WaitOp == {"waitStarted", "waitTerminated"}

\* Per control call: the state read, the state written, the state announced.
\* Faulty variant: a line copied from suspend to resume.
ControlMovesPasted ==
    [suspend |-> {<<"RUNNING", "SUSPENDED", "SUSPENDED">>},
     resume  |-> {<<"SUSPENDED", "RUNNING", "SUSPENDED">>},
     hold    |-> {<<"QUEUED", "QUEUED_HELD", "QUEUED_HELD">>,
                  <<"REQUEUED", "REQUEUED_HELD", "REQUEUED">>},
     release |-> {<<"QUEUED_HELD", "QUEUED", "QUEUED">>,
                  <<"REQUEUED_HELD", "REQUEUED", "REQUEUED">>}]

ControlMoves ==
    [suspend |-> {<<"RUNNING", "SUSPENDED", "SUSPENDED">>},
     resume  |-> {<<"SUSPENDED", "RUNNING", "RUNNING">>},
     hold    |-> {<<"QUEUED", "QUEUED_HELD", "QUEUED_HELD">>,
                  <<"REQUEUED", "REQUEUED_HELD", "REQUEUED">>},
     release |-> {<<"QUEUED_HELD", "QUEUED", "QUEUED">>,
                  <<"REQUEUED_HELD", "REQUEUED", "REQUEUED">>}]
ControlOp == DOMAIN ControlMoves

\* The states a call looks for.
LooksFor(op, s) ==
    CASE op = "waitStarted"    -> s \notin {"QUEUED", "QUEUED_HELD"}
      [] op = "waitTerminated" -> s \in {"DONE", "FAILED"}
      [] OTHER                 -> \E m \in ControlMoves[op] : m[1] = s

NoMove == <<"none", "none", "none">>
Idle == [at |-> "idle", op |-> "none", jobs |-> <<>>, pos |-> 0,
         timeout |-> "none", move |-> NoMove]

Free(c) == call[c].at = "idle"
Current(c) == call[c].jobs[call[c].pos]

Init ==
    /\ state = [j \in Job |-> "NoRow"]
    /\ proc = [j \in Job |-> "none"]
    /\ mon = [j \in Job |-> "none"]
    /\ callback = {} /\ inherits = {}
    /\ call = [c \in Client |-> Idle]
    /\ moves = 0
    /\ due = [j \in Job |-> <<>>]
    /\ muddled = {} /\ mistold = {}
    /\ steady = [c \in Client |-> {}]

\* save_state; announcing says whether the writer has a callback.
Write(j, s, announcing) ==
    /\ state' = [state EXCEPT ![j] = s]
    /\ due' = IF announcing THEN [due EXCEPT ![j] = Append(@, s)] ELSE due
    /\ muddled' = IF announcing /\ due[j] # <<>> THEN muddled \union {j} ELSE muddled
    /\ steady' = [c \in Client |-> {k \in steady[c] : k # j \/ LooksFor(call[c].op, s)}]
    /\ UNCHANGED mistold

\* call_state_change_notification.
Tell(j, s) ==
    /\ due' = [due EXCEPT ![j] = RemoveFirst(@, s)]
    /\ mistold' = IF due[j] # <<>> /\ Head(due[j]) = s THEN mistold ELSE mistold \union {j}
    /\ UNCHANGED <<state, muddled, steady>>

---------------------------------------------------------------------------
(* The job process and the monitor.                                         *)

\* run_job; fork copies the callback pointer.
Submit(c, j) ==
    /\ Free(c) /\ "submit" \in Calls[c]
    /\ state[j] = "NoRow"
    /\ state' = [state EXCEPT ![j] = "QUEUED"]
    /\ proc' = [proc EXCEPT ![j] = "forked"]
    /\ mon' = [mon EXCEPT ![j] = "waiting"]
    /\ inherits' = IF c \in callback THEN inherits \union {j} ELSE inherits
    /\ UNCHANGED <<callback, call, moves, heard, steady>>

SaveRunning(j) ==
    /\ proc[j] = "forked"
    /\ proc' = [proc EXCEPT ![j] = IF j \in inherits THEN "written" ELSE "executing"]
    /\ Write(j, "RUNNING", j \in inherits)
    /\ UNCHANGED <<mon, inherits, callback, call, moves>>

TellRunning(j) ==
    /\ proc[j] = "written"
    /\ proc' = [proc EXCEPT ![j] = "executing"]
    /\ Tell(j, "RUNNING")
    /\ UNCHANGED <<mon, inherits, callback, call, moves>>

\* The program exits, or the process is killed wherever it is, and announces no more.
End(j) ==
    /\ \/ proc[j] = "executing" /\ proc' = [proc EXCEPT ![j] = "exited"]
       \/ /\ proc[j] \in {"forked", "written", "executing"}
          /\ proc' = [proc EXCEPT ![j] = "killed"]
    /\ due' = IF proc[j] = "written" THEN [due EXCEPT ![j] = RemoveFirst(@, "RUNNING")] ELSE due
    /\ UNCHANGED <<state, mon, inherits, callback, call, moves, muddled, mistold, steady>>

\* Faulty variant: jobs that were killed have no verdict of their own.
VerdictOfExitOnly(j) == IF proc[j] = "exited" THEN "DONE" ELSE "UNDETERMINED"

Verdict(j) == IF proc[j] = "exited" THEN "DONE" ELSE "FAILED"

\* Faulty variant: the callback is called before the state is saved.
SaveVerdictLast(j) ==
    /\ mon[j] = "waiting"
    /\ proc[j] \in {"exited", "killed"}
    /\ \/ j \notin inherits /\ mon' = [mon EXCEPT ![j] = "gone"] /\ Write(j, Verdict(j), FALSE)
       \/ j \in inherits /\ mon' = [mon EXCEPT ![j] = "written"] /\ Tell(j, Verdict(j))
    /\ UNCHANGED <<proc, inherits, callback, call, moves>>

\* The end of waitpid and the save_state of the verdict.
SaveVerdict(j) ==
    /\ mon[j] = "waiting"
    /\ proc[j] \in {"exited", "killed"}
    /\ mon' = [mon EXCEPT ![j] = IF j \in inherits THEN "written" ELSE "gone"]
    /\ Write(j, Verdict(j), j \in inherits)
    /\ UNCHANGED <<proc, inherits, callback, call, moves>>

TellVerdict(j) ==
    /\ mon[j] = "written"
    /\ mon' = [mon EXCEPT ![j] = "gone"]
    /\ Tell(j, Verdict(j))
    /\ UNCHANGED <<proc, inherits, callback, call, moves>>

---------------------------------------------------------------------------
(* The calls of a client.                                                   *)

\* drmaa2_register_event_notification.
Register(c) ==
    /\ Free(c) /\ "register" \in Calls[c]
    /\ callback' = callback \union {c}
    /\ UNCHANGED <<jobVars, call, moves, heard, steady>>

\* Handles exist for jobs that run_job or get_jobs has returned.
Lists == {l \in List : \A j \in ToSet(l) : state[j] # "NoRow"}

Step(c, at, pos) == call' = [call EXCEPT ![c].at = at, ![c].pos = pos]
Return(c) ==
    /\ call' = [call EXCEPT ![c] = Idle]
    /\ steady' = [steady EXCEPT ![c] = {}]
StartOver(c, op, l) ==
    steady' = [steady EXCEPT ![c] = {j \in ToSet(l) : LooksFor(op, state[j])}]

Begin(c, op, l, t) ==
    /\ Free(c)
    /\ call' = [call EXCEPT ![c] = [Idle EXCEPT !.at = "scan", !.op = op, !.jobs = l,
                                                !.pos = 1, !.timeout = t]]
    /\ StartOver(c, op, l)
    /\ UNCHANGED <<jobVars, callback, moves, heard>>

BeginWait(c) == \E op \in WaitOp \intersect Calls[c], l \in Lists, t \in Timeout : Begin(c, op, l, t)
BeginControl(c) == \E op \in ControlOp \intersect Calls[c], l \in Lists \ {<<>>} : Begin(c, op, l, "none")

\* Faulty variant: the calls for the rest of the array are dropped once one fails.
LookOnce(c) ==
    /\ call[c].at = "scan" /\ call[c].pos <= Len(call[c].jobs)
    /\ LET s == state[Current(c)] IN
       \/ call[c].op \in WaitOp /\ LooksFor(call[c].op, s) /\ Return(c)
       \/ /\ ~LooksFor(call[c].op, s)
          /\ IF call[c].op \in WaitOp THEN Step(c, "scan", call[c].pos + 1) /\ UNCHANGED steady
                                       ELSE Return(c)
       \/ /\ call[c].op \in ControlOp /\ moves < MaxMoves
          /\ \E m \in ControlMoves[call[c].op] :
                m[1] = s /\ call' = [call EXCEPT ![c].at = "admitted", ![c].move = m]
          /\ UNCHANGED steady
    /\ UNCHANGED <<jobVars, callback, moves, heard>>

\* get_state of the next job of the list, and the test of its state.
Look(c) ==
    /\ call[c].at = "scan" /\ call[c].pos <= Len(call[c].jobs)
    /\ LET s == state[Current(c)] IN
       \/ call[c].op \in WaitOp /\ LooksFor(call[c].op, s) /\ Return(c)
       \/ ~LooksFor(call[c].op, s) /\ Step(c, "scan", call[c].pos + 1) /\ UNCHANGED steady
       \/ /\ call[c].op \in ControlOp /\ moves < MaxMoves
          /\ \E m \in ControlMoves[call[c].op] :
                m[1] = s /\ call' = [call EXCEPT ![c].at = "admitted", ![c].move = m]
          /\ UNCHANGED steady
    /\ UNCHANGED <<jobVars, callback, moves, heard>>

\* The save_state of an admitted control call.
SaveMove(c) ==
    /\ call[c].at = "admitted"
    /\ moves' = moves + 1
    /\ IF c \in callback THEN Step(c, "announce", call[c].pos) ELSE Step(c, "scan", call[c].pos + 1)
    /\ Write(Current(c), call[c].move[2], c \in callback)
    /\ UNCHANGED <<proc, mon, inherits, callback>>

TellMove(c) ==
    /\ call[c].at = "announce"
    /\ Step(c, "scan", call[c].pos + 1)
    /\ Tell(Current(c), call[c].move[3])
    /\ UNCHANGED <<proc, mon, inherits, callback, moves>>

AtEnd(c) == call[c].at = "scan" /\ call[c].pos > Len(call[c].jobs)

\* Faulty variant: later rounds begin with the second job.
NextRoundSkippingHead(c) ==
    /\ AtEnd(c)
    /\ call[c].timeout \in {"FINITE", "INFINITE"}
    /\ Step(c, "scan", 2)
    /\ StartOver(c, call[c].op, call[c].jobs)
    /\ UNCHANGED <<jobVars, callback, moves, heard>>

\* No job of the list is where the call wants it, and time is left: after a sleep
\* the polling loop starts at the head of the list again.
NextRound(c) ==
    /\ AtEnd(c)
    /\ call[c].timeout \in {"FINITE", "INFINITE"}
    /\ Step(c, "scan", 1)
    /\ StartOver(c, call[c].op, call[c].jobs)
    /\ UNCHANGED <<jobVars, callback, moves, heard>>

\* A control call is through with its array, or a wait is out of time.
GiveUp(c) ==
    /\ AtEnd(c)
    /\ call[c].op \in ControlOp \/ call[c].timeout \in {"ZERO", "FINITE"}
    /\ Return(c)
    /\ UNCHANGED <<jobVars, callback, moves, heard>>

---------------------------------------------------------------------------
CallStep(c) == Look(c) \/ SaveMove(c) \/ TellMove(c) \/ NextRound(c) \/ GiveUp(c)
JobStep(j) == SaveRunning(j) \/ TellRunning(j) \/ SaveVerdict(j) \/ TellVerdict(j)

Next ==
    \/ \E c \in Client : \/ \E j \in Job : Submit(c, j)
                         \/ Register(c) \/ BeginWait(c) \/ BeginControl(c) \/ CallStep(c)
    \/ \E j \in Job : JobStep(j) \/ End(j)

\* A client in a call is run; a finite timeout may be arbitrarily long.  The property
\* below needs nothing of the jobs, not even that their processes are run.
Fairness == \A c \in Client : WF_vars(CallStep(c))

Spec == Init /\ [][Next]_vars /\ Fairness

---------------------------------------------------------------------------
(* Properties.                                                              *)

JState == {"QUEUED", "QUEUED_HELD", "RUNNING", "SUSPENDED", "REQUEUED",
           "REQUEUED_HELD", "DONE", "FAILED"}
Moves == {NoMove} \union UNION {ControlMoves[op] : op \in ControlOp}

Doing == [at : {"idle", "scan", "admitted", "announce"},
          op : WaitOp \union ControlOp \union {"none"},
          jobs : Seq(Job), pos : Nat,
          timeout : Timeout \union {"none"}, move : Moves]

TypeOK ==
    /\ state \in [Job -> JState \union {"NoRow"}]
    /\ proc \in [Job -> {"none", "forked", "written", "executing", "exited", "killed"}]
    /\ mon \in [Job -> {"none", "waiting", "written", "gone"}]
    /\ callback \subseteq Client /\ inherits \subseteq Job /\ muddled \union mistold \subseteq Job
    /\ call \in [Client -> Doing] /\ steady \in [Client -> SUBSET Job]
    /\ \A c \in Client : /\ call[c].pos <= Len(call[c].jobs) + 1
                        /\ steady[c] \subseteq ToSet(call[c].jobs)
    /\ moves \in Nat
    /\ due \in [Job -> Seq(JState)]

\* The processes about to announce state s of job j: clients, job process, monitor.
Tellers(j, s) ==
    {c \in Client : call[c].at = "announce" /\ Current(c) = j /\ call[c].move[2] = s}
    \union {p \in {"job"} : proc[j] = "written" /\ s = "RUNNING"}
    \union {p \in {"monitor"} : mon[j] = "written" /\ s = Verdict(j)}

\* Each change made where a callback is registered is announced once, under the name
\* of the state that was written: what is due is what some process is still to tell.
\* (A job process killed between the two tells nothing more.)
ToldOnce ==
    \A j \in Job, s \in JState :
        Cardinality({i \in DOMAIN due[j] : due[j][i] = s}) = Cardinality(Tellers(j, s))

\* Unless two announcements of a job were due at once, they come in the order in
\* which the database changed, each after its change.
ToldInOrder == mistold \subseteq muddled

\* A call that is over has left no job out.  A wait returns with a job when it sees it
\* where it wants it, and has then passed over no job that was there all through its
\* last round; it gives up only if there was no such job at all.  A control call leaves
\* no job of its array where it was all the time.
NoneLeftOut ==
    [][\A c \in Client : ~Free(c) /\ Free(c)' =>
          LET passed == {call[c].jobs[i] : i \in 1 .. call[c].pos - 1}
          IN  /\ steady[c] \intersect passed = {}
              /\ AtEnd(c) \/ (call[c].op \in WaitOp /\ LooksFor(call[c].op, state[Current(c)]))
      ]_vars

\* wait_any does not miss a job for ever that stays where the call wants it.
WaitAnyReturns ==
    \A c \in Client, j \in Job :
        ~<>[](/\ call[c].at = "scan" /\ call[c].op \in WaitOp
              /\ j \in ToSet(call[c].jobs)
              /\ LooksFor(call[c].op, state[j]))
=============================================================================
