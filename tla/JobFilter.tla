----------------------------- MODULE JobFilter -----------------------------
(***************************************************************************)
(* drmaa2_jsession_get_jobs and drmaa2_msession_get_all_jobs with a filter: *)
(* get_jobs turns the filter into a dictionary from columns to texts,       *)
(* build_query_string the dictionary into a WHERE clause, and SQLite        *)
(* evaluates that with NULLs.  get_jobinfo_callback, which fills a job info *)
(* from the same row, is what a filter has to agree with.                   *)
(*                                                                          *)
(* A filter's members of one kind are treated alike, and one stands for     *)
(* each: exitStatus (a number), jobState (a number whose default is not     *)
(* the unset one), finishTime (a time, compared with >=), queueName (a text *)
(* that is put into the statement without quotes, for a column the mock     *)
(* never writes).                                                           *)
(***************************************************************************)
EXTENDS Integers

CONSTANTS NULL,      \* a column without a value, a member that is not set
          Error,     \* the outcome of a statement that SQLite refuses
          Column,    \* names that are also names of columns of the table
          Session,   \* session names
          SessionId,
          State,     \* values of drmaa2_jstate from QUEUED on
          Code,      \* exit statuses
          When,      \* times, in seconds
          Offset,    \* by how much the local time may be ahead of UTC
          Queue      \* queue names a filter may ask for

Undetermined == 0    \* DRMAA2_UNDETERMINED, which drmaa2_jinfo_create sets

ASSUME JobFilterAssumption ==
    /\ Undetermined \notin State
    /\ When \subseteq Int /\ Offset \subseteq Int
    /\ NULL \notin Int /\ NULL \notin State \cup Code
    /\ NULL \notin SessionId /\ NULL \notin Session \cup Queue
    /\ Column \subseteq {"session_name", "queue_name"}

VARIABLES
    job,    \* a row of the table
    query,  \* what get_jobs is asked for, when it is: session handle and filter
    found   \* and what it answers

filterVars == <<job, query, found>>

\* A row of jobs, as far as the mock writes it.
Row == [session_name : Session, session_id : SessionId, job_state : State \cup {NULL},
        exit_status : Code \cup {NULL}, finish_time : When \cup {NULL}, queue_name : {NULL}]

Filter == [exitStatus : Code \cup {NULL}, jobState : State \cup {Undetermined, NULL},
           finishTime : When \cup {NULL}, queueName : Queue \cup {NULL}]

Handle == [name : Session, id : SessionId]

---------------------------------------------------------------------------
\* A comparison with NULL is not true.
Equal(x, y) == x # NULL /\ y # NULL /\ x = y
NotBefore(x, y) == x # NULL /\ x >= y

\* SQLite takes a text in double quotes for a column if there is one of that name,
\* and a bare word for a column in any case.
AsColumn(r, word) == IF word \in Column THEN r[word] ELSE word
Refused(f) == f.queueName # NULL /\ f.queueName \notin Column

\* Faulty variant: times are compared with =, like everything else.
WhereTimesEqual(r, h, f) ==
    /\ h # NULL => Equal(r.session_name, AsColumn(r, h.name)) /\ Equal(r.session_id, h.id)
    /\ f.exitStatus # NULL => Equal(r.exit_status, f.exitStatus)
    /\ f.jobState # NULL => Equal(r.job_state, f.jobState)
    /\ f.finishTime # NULL => Equal(r.finish_time, f.finishTime)
    /\ f.queueName # NULL => Equal(r.queue_name, AsColumn(r, f.queueName))

\* The WHERE clause; without a session (a monitoring session asks) and without a
\* filter there is none.
Where(r, h, f) ==
    /\ h # NULL => Equal(r.session_name, AsColumn(r, h.name)) /\ Equal(r.session_id, h.id)
    /\ f.exitStatus # NULL => Equal(r.exit_status, f.exitStatus)
    /\ f.jobState # NULL => Equal(r.job_state, f.jobState)
    /\ f.finishTime # NULL => NotBefore(r.finish_time, f.finishTime)
    /\ f.queueName # NULL => Equal(r.queue_name, AsColumn(r, f.queueName))

\* get_jobs: the row ids it returns.
GetJobs(table, h, f) ==
    IF Refused(f) THEN Error ELSE {i \in DOMAIN table : Where(table[i], h, f)}

FilterInit ==
    /\ job \in Row
    /\ query = NULL /\ found = NULL

\* drmaa2_jsession_get_jobs, and drmaa2_msession_get_all_jobs, which has no handle.
Ask(h, f) ==
    /\ job # NULL /\ query = NULL
    /\ query' = [handle |-> h, filter |-> f]
    /\ found' = GetJobs(<<job>>, h, f)
    /\ UNCHANGED job

FilterNext == \E h \in Handle \cup {NULL}, f \in Filter : Ask(h, f)

FilterSpec == FilterInit /\ [][FilterNext]_filterVars

\* get_jobinfo_callback, applied to a job info as drmaa2_jinfo_create made it.  The
\* columns hold UTC, and mktime takes what it is given for local time, with or
\* without summer time: the structure's tm_isdst is not initialised.
Info(r, offset) ==
    [exitStatus |-> r.exit_status,
     jobState |-> IF r.job_state = NULL THEN Undetermined ELSE r.job_state,
     finishTime |-> IF r.finish_time = NULL THEN NULL ELSE r.finish_time - offset,
     queueName |-> r.queue_name]

---------------------------------------------------------------------------
(* Properties.                                                              *)

\* What a filter asks of a job info: members that are set are equal, or not before.
Agrees(f, info) ==
    /\ f.exitStatus \in {NULL, info.exitStatus}
    /\ f.jobState \in {NULL, info.jobState}
    /\ f.finishTime # NULL => NotBefore(info.finishTime, f.finishTime)
    /\ f.queueName \in {NULL, info.queueName}

Shifted(f, offset) ==
    [f EXCEPT !.finishTime = IF @ = NULL THEN NULL ELSE @ - offset]

Mine(r, h) == h # NULL => r.session_name = h.name /\ r.session_id = h.id

\* get_jobs selects a job if and only if it is one of the session and its job info
\* agrees with the filter, whose times count as displaced as those of the info.
\* That excepts sessions with the name of a column, filters for a bare word, which
\* select nothing or are refused, and filters whose state was left as
\* drmaa2_jinfo_create sets it, which select nothing, not even a job whose info
\* says the same.
FilterAgreesWithInfo ==
    query # NULL =>
        LET h == query.handle
            f == query.filter
        IN  IF f.jobState = Undetermined \/ f.queueName # NULL
            THEN found \in {{}, Error}
            ELSE h = NULL \/ h.name \notin Column =>
                    \A offset \in Offset :
                        1 \in found <=>
                            Mine(job, h) /\ Agrees(Shifted(f, offset), Info(job, offset))
=============================================================================
