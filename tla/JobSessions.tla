---------------------------- MODULE JobSessions ----------------------------
(***************************************************************************)
(* Job sessions, and what run_job and run_bulk_jobs store in them: the      *)
(* tables job_sessions, job_templates, jobs and job_arrays.  Nothing ties   *)
(* these tables together but row ids and session names that the library     *)
(* carries from one statement to the next, and several clients submit at    *)
(* once.  A session handle is a copy of its row; the only test of a handle  *)
(* is that some session of its name exists.  An INSERT may fail, which the  *)
(* library prints and otherwise ignores, and a client may be killed at any  *)
(* point of a submission.                                                   *)
(*                                                                          *)
(* What follows the INSERT of a job (its processes and its state) is in     *)
(* JobLifecycle; it touches none of these tables' columns.                  *)
(***************************************************************************)
EXTENDS Naturals, Sequences, SequencesExt

CONSTANTS Client,       \* application processes
          Name,         \* session names
          SessionId,    \* values drmaa2_random_int may draw
          Content,      \* what a job template may say
          Unsupported,  \* the contents that ask for an unsupported attribute
          Categorised,  \* the contents that name a job category
          None,         \* no handle, no row
          MaxSessions,  \* bound on sessions ever created
          MaxTemplates, \* bound on stored templates, tested where a call begins
          MaxFaults,    \* bound on INSERTs that fail
          Bulks         \* the <<begin, end, step>> of the bulk calls

ASSUME SessionsAssumption ==
    /\ Unsupported \subseteq Content /\ Categorised \subseteq Content
    /\ MaxSessions \in Nat /\ MaxTemplates \in Nat /\ MaxFaults \in Nat
    /\ Bulks \subseteq Nat \X Nat \X (Nat \ {0})
    /\ None \notin [content : Content, index : Nat]

VARIABLES
    sessions,   \* job_sessions: for each name its row, or None
    templates,  \* job_templates, by row id
    jobs,       \* jobs, by row id: session_id, session_name, template_id
    arrays,     \* job_arrays, by row id: template_id, jobs
    handle,     \* the session handle each client holds
    pc,         \* where each client is in run_job or run_bulk_jobs
    call,       \* the arguments and locals of that call
    created,    \* history: every session ever created
    given,      \* history: for each job, the template and handle it came with
    lost,       \* history: jobs of bulk calls that will not get an array
    faults      \* INSERTs that have failed

tables  == <<sessions, templates, jobs, arrays>>
history == <<created, given, lost, faults>>
vars    == <<tables, handle, pc, call, history>>

\* A template as it is stored: what it says, and the index its placeholders were
\* replaced with (0: they were not).
Filled(t, i) == [content |-> t, index |-> i]

\* session_is_valid: a session of that name exists, whatever its id.
Valid(h) == sessions[h.name] # None

\* Faulty variant: the jobs of every session that has ever had the name.
JobsByName(h) == {j \in DOMAIN jobs : jobs[j].session_name = h.name}

\* get_jobs for a session: name and id of the handle are compared.
JobsOf(h) == {j \in DOMAIN jobs : /\ jobs[j].session_name = h.name
                                  /\ jobs[j].session_id = h.id}

\* drmaa2_j_get_jt passes the id of the job for the row id of a template.
GetJt(j) == IF j \in DOMAIN templates THEN templates[j] ELSE None

\* A client is in the middle of a call.
Calling(c) == pc[c] \notin {"idle", "crashed"}

Init ==
    /\ sessions = [n \in Name |-> None]
    /\ templates = <<>> /\ jobs = <<>> /\ arrays = <<>>
    /\ handle = [c \in Client |-> None]
    /\ pc = [c \in Client |-> "idle"]
    /\ call = [c \in Client |-> None]
    /\ created = <<>>
    /\ given = <<>>
    /\ lost = {}
    /\ faults = 0

\* An INSERT fails (the database stays locked, the disk is full): query_rowid prints
\* that and answers 0, and its callers take that for a row id.
Fail == faults < MaxFaults /\ faults' = faults + 1

---------------------------------------------------------------------------
(* Sessions.  made is the history's number of a session; the code has only  *)
(* name and id.                                                             *)

\* The UNIQUE name makes the INSERT fail if the name is in use.
CreateSession(c, n) ==
    /\ pc[c] = "idle"
    /\ Len(created) < MaxSessions
    /\ \/ /\ sessions[n] = None
          /\ \E i \in SessionId :
                LET row == [name |-> n, id |-> i, made |-> Len(created) + 1]
                IN  /\ sessions' = [sessions EXCEPT ![n] = row]
                    /\ handle' = [handle EXCEPT ![c] = row]
                    /\ created' = Append(created, [name |-> n, id |-> i])
       \/ /\ sessions[n] # None
          /\ handle' = [handle EXCEPT ![c] = None]
          /\ UNCHANGED <<sessions, created>>
    /\ UNCHANGED <<templates, jobs, arrays, pc, call, given, lost, faults>>

\* Faulty variant: a handle is made from the name, whether or not a row was found.
OpenSessionAnyway(c, n) ==
    /\ pc[c] = "idle"
    /\ handle' = [handle EXCEPT ![c] = IF sessions[n] # None THEN sessions[n]
                                       ELSE [name |-> n, id |-> 0, made |-> 0]]
    /\ UNCHANGED <<tables, pc, call, history>>

OpenSession(c, n) ==
    /\ pc[c] = "idle"
    /\ handle' = [handle EXCEPT ![c] = sessions[n]]
    /\ UNCHANGED <<tables, pc, call, history>>

\* The DELETE succeeds whether or not there is a row, and leaves jobs, templates
\* and arrays behind, and every handle with its client.
DestroySession(c, n) ==
    /\ pc[c] = "idle"
    /\ sessions' = [sessions EXCEPT ![n] = None]
    /\ UNCHANGED <<templates, jobs, arrays, handle, pc, call, history>>

---------------------------------------------------------------------------
(* run_job, up to the INSERT of the job.                                    *)

\* A call begins: t is the template, b the index range of a bulk call.
Begin(c, t, b, bulk, p) ==
    /\ call' = [call EXCEPT ![c] = [bulk |-> bulk, content |-> t, range |-> b,
                                    index |-> b[1], row |-> 0, ids |-> <<>>,
                                    failed |-> FALSE]]
    /\ pc' = [pc EXCEPT ![c] = p]
    /\ UNCHANGED <<handle, lost>>

\* A call goes on to point p, with locals l.
Continue(c, p, l) ==
    /\ call' = [call EXCEPT ![c] = l]
    /\ pc' = [pc EXCEPT ![c] = p]
    /\ UNCHANGED <<handle, lost>>

\* A call is over, and so is its client if p is "crashed".
End(c, p) ==
    /\ call' = [call EXCEPT ![c] = None]
    /\ pc' = [pc EXCEPT ![c] = p]
    /\ IF p = "crashed" THEN /\ handle' = [handle EXCEPT ![c] = None]
                             /\ lost' = lost \union (ToSet(call[c].ids) \ {0})
                        ELSE UNCHANGED <<handle, lost>>

\* run_job returns NULL: a single call is over, and the loop of a bulk call, which
\* does not test the job, dies of it.
Refuse(c, bulk) == IF bulk THEN End(c, "crashed") ELSE End(c, "idle")

\* The checks of run_job up to a session query of its own, that of the category.
RunJob(c, t) ==
    /\ pc[c] = "idle" /\ handle[c] # None
    /\ Len(templates) < MaxTemplates
    /\ \/ /\ Valid(handle[c]) /\ t \in Categorised
          /\ Begin(c, t, <<0, 0, 1>>, FALSE, "categorising")
       \/ /\ Valid(handle[c]) /\ t \notin Categorised \union Unsupported
          /\ Begin(c, t, <<0, 0, 1>>, FALSE, "checked")
       \/ /\ ~Valid(handle[c]) \/ t \in Unsupported \ Categorised
          /\ UNCHANGED <<pc, call, handle, lost>>
    /\ UNCHANGED <<tables, created, given, faults>>

\* get_job_categories tests the session again and returns NULL if it is gone: the
\* size of a NULL list, -1, is compared as unsigned, and strcmp meets NULL.
CheckCategory(c) ==
    /\ pc[c] = "categorising"
    /\ \/ ~Valid(handle[c]) /\ End(c, "crashed")
       \/ /\ Valid(handle[c]) /\ call[c].content \in Unsupported
          /\ Refuse(c, call[c].bulk)
       \/ /\ Valid(handle[c]) /\ call[c].content \notin Unsupported
          /\ Continue(c, "checked", call[c])
    /\ UNCHANGED <<tables, created, given, faults>>

\* An INSERT into job_templates of what the caller's template says now, and its row
\* id, or 0.
Store(c, index, p) ==
    /\ \/ /\ templates' = Append(templates, Filled(call[c].content, index))
          /\ Continue(c, p, [call[c] EXCEPT !.row = Len(templates')])
          /\ UNCHANGED faults
       \/ /\ Fail
          /\ Continue(c, p, [call[c] EXCEPT !.row = 0, !.failed = TRUE])
          /\ UNCHANGED templates
    /\ UNCHANGED <<sessions, jobs, arrays, created, given>>

\* save_jtemplate.
SaveTemplate(c) == pc[c] = "checked" /\ Store(c, call[c].index, "templateSaved")

\* The INSERT of save_job: run_job goes on with its row id, or 0, and a bulk call
\* with the next index.
InsertJob(c, templateId) ==
    LET h == handle[c]
        Done(id, failed) ==
            IF call[c].bulk
            THEN Continue(c, "loop", [call[c] EXCEPT !.index = @ + call[c].range[3],
                                                     !.ids = Append(@, id), !.failed = failed])
            ELSE End(c, "idle")
    IN  /\ pc[c] = "templateSaved"
        /\ \/ /\ jobs' = Append(jobs, [session_id |-> h.id, session_name |-> h.name,
                                       template_id |-> templateId])
              /\ given' = Append(given,
                    [template |-> IF call[c].row = 0 THEN None
                                  ELSE Filled(call[c].content, call[c].index),
                     made |-> h.made, bulk |-> call[c].bulk])
              /\ Done(Len(jobs'), call[c].failed)
              /\ UNCHANGED faults
           \/ /\ Fail
              /\ Done(0, TRUE)
              /\ UNCHANGED <<jobs, given>>
        /\ UNCHANGED <<sessions, templates, arrays, created>>

\* Faulty variant: the row id is asked for again, on another connection.
SaveJobAskingAgain(c) == InsertJob(c, Len(templates))

\* save_job, with the locals it was given.
SaveJob(c) == InsertJob(c, call[c].row)

---------------------------------------------------------------------------
(* run_bulk_jobs.                                                           *)

RunBulk(c, t, b) ==
    /\ pc[c] = "idle" /\ handle[c] # None
    /\ Len(templates) + (b[2] - b[1]) \div b[3] + 2 <= MaxTemplates
    /\ b[2] >= b[1] /\ b[1] >= 1
    /\ Begin(c, t, b, TRUE, "loop")
    /\ UNCHANGED <<tables, created, given, faults>>

\* The first checks of the run_job for the next index.
LoopRunJob(c) ==
    LET t == call[c].content
    IN  /\ pc[c] = "loop" /\ call[c].index <= call[c].range[2]
        /\ \/ /\ Valid(handle[c]) /\ t \in Categorised
              /\ Continue(c, "categorising", call[c])
           \/ /\ Valid(handle[c]) /\ t \notin Categorised \union Unsupported
              /\ Continue(c, "checked", call[c])
           \/ /\ ~Valid(handle[c]) \/ t \in Unsupported \ Categorised
              /\ Refuse(c, TRUE)
        /\ UNCHANGED <<tables, created, given, faults>>

\* Faulty variant: the last job's paths are left in the caller's template.
SaveBulkTemplateUnrestored(c) ==
    /\ pc[c] = "loop" /\ call[c].index > call[c].range[2]
    /\ Store(c, call[c].index - call[c].range[3], "arraySaving")

\* After the loop the caller's template is stored once more, placeholders intact.
SaveBulkTemplate(c) ==
    /\ pc[c] = "loop" /\ call[c].index > call[c].range[2]
    /\ Store(c, 0, "arraySaving")

\* save_jarray: the ids of the jobs in the order they were added to the list.
SaveArray(c) ==
    /\ pc[c] = "arraySaving"
    /\ \/ /\ arrays' = Append(arrays, [template_id |-> call[c].row, jobs |-> call[c].ids,
                                       call |-> call[c], made |-> handle[c].made])
          /\ End(c, "idle")
          /\ UNCHANGED faults
       \/ /\ Fail
          /\ call' = [call EXCEPT ![c] = None]
          /\ pc' = [pc EXCEPT ![c] = "idle"]
          /\ lost' = lost \union (ToSet(call[c].ids) \ {0})
          /\ UNCHANGED <<arrays, handle>>
    /\ UNCHANGED <<sessions, templates, jobs, created, given>>

\* A client is killed in the middle of a call.
Die(c) ==
    /\ Calling(c)
    /\ End(c, "crashed")
    /\ UNCHANGED <<tables, created, given, faults>>

Next ==
    \/ \E c \in Client, n \in Name :
          CreateSession(c, n) \/ OpenSession(c, n) \/ DestroySession(c, n)
    \/ \E c \in Client, t \in Content : RunJob(c, t) \/ \E b \in Bulks : RunBulk(c, t, b)
    \/ \E c \in Client : \/ CheckCategory(c) \/ SaveTemplate(c) \/ SaveJob(c) \/ LoopRunJob(c)
                         \/ SaveBulkTemplate(c) \/ SaveArray(c) \/ Die(c)

Spec == Init /\ [][Next]_vars

---------------------------------------------------------------------------
(* Properties.                                                              *)

Handle == [name : Name, id : SessionId, made : Nat]
Stored == [content : Content, index : Nat]
Job    == [session_id : SessionId, session_name : Name, template_id : Nat]
Origin == [template : Stored \union {None}, made : Nat, bulk : BOOLEAN]
Ids    == Seq(Nat)
Call   == [bulk : BOOLEAN, content : Content, range : Nat \X Nat \X (Nat \ {0}),
           index : Nat, row : Nat, ids : Ids, failed : BOOLEAN]
Array  == [template_id : Nat, jobs : Ids, call : Call, made : Nat]
Stage  == {"idle", "categorising", "checked", "templateSaved", "loop", "arraySaving", "crashed"}

\* Every variable has its range, handles and rows come from sessions that were created,
\* and a client in the middle of a call has a session handle.
TypeOK ==
    /\ sessions \in [Name -> Handle \union {None}]
    /\ handle \in [Client -> Handle \union {None}]
    /\ \A row \in {sessions[n] : n \in Name} \union {handle[c] : c \in Client} :
          row # None => /\ row.made \in DOMAIN created
                        /\ created[row.made] = [name |-> row.name, id |-> row.id]
    /\ templates \in Seq(Stored) /\ jobs \in Seq(Job) /\ arrays \in Seq(Array)
    /\ pc \in [Client -> Stage]
    /\ call \in [Client -> Call \union {None}]
    /\ \A c \in Client : IF Calling(c) THEN call[c] \in Call /\ handle[c] # None
                         ELSE call[c] = None
    /\ created \in Seq([name : Name, id : SessionId]) /\ Len(created) <= MaxSessions
    /\ given \in Seq(Origin) /\ Len(given) = Len(jobs)
    /\ lost \subseteq DOMAIN jobs
    /\ faults \in 0 .. MaxFaults

\* Two sessions of one name that drew the same id.
Collision(a, b) ==
    /\ a # b
    /\ created[a].name = created[b].name /\ created[a].id = created[b].id

\* A handle lists the jobs submitted through handles of the same session, all of
\* them and no others: "jobs of destroyed sessions with the same name should not
\* count", and a stale handle adds nothing to the session that took its name.  The
\* exception is a session that drew the id of a predecessor.
SessionIsolation ==
    \A c \in Client : handle[c] # None =>
        \A j \in DOMAIN jobs :
            LET same == given[j].made = handle[c].made
            IN  \/ (j \in JobsOf(handle[c])) <=> same
                \/ ~same /\ Collision(given[j].made, handle[c].made)

\* jobs.template_id refers to the template the job was submitted with, however
\* many clients store templates between its INSERT and the job's, and to none if that
\* INSERT failed.
SubmittedTemplate ==
    \A j \in DOMAIN jobs :
        LET id == jobs[j].template_id
        IN  IF given[j].template = None THEN id \notin DOMAIN templates
            ELSE id \in DOMAIN templates /\ templates[id] = given[j].template

\* A job array lists one job per index of its range, in order, each submitted with
\* the placeholders of its own index through the session of the array, and its
\* template is the caller's, with the placeholders still in it; what an INSERT that
\* failed should have stored is missing, and nothing else.  A job of a bulk call is
\* in one array once the call has returned, unless the client has crashed or been
\* killed, or the INSERT of the array failed.
ArrayComplete ==
    /\ \A a \in DOMAIN arrays :
        LET r == arrays[a].call.range
            content == arrays[a].call.content
            ids == arrays[a].jobs
            id == arrays[a].template_id
        IN  /\ id # 0 => templates[id] = Filled(content, 0)
            /\ Len(ids) = (r[2] - r[1]) \div r[3] + 1
            /\ \A k \in DOMAIN ids : ids[k] # 0 =>
                  /\ given[ids[k]].template \in {None, Filled(content, r[1] + (k - 1) * r[3])}
                  /\ given[ids[k]].made = arrays[a].made
            /\ ~arrays[a].call.failed =>
                  /\ 0 \notin {id} \union ToSet(ids)
                  /\ \A k \in DOMAIN ids : given[ids[k]].template # None
    /\ \A j \in DOMAIN jobs : given[j].bulk =>
          LET in == {a \in DOMAIN arrays : j \in ToSet(arrays[a].jobs)}
          IN  \/ in = {} /\ (j \in lost \/ \E c \in Client : Calling(c) /\ j \in ToSet(call[c].ids))
              \/ j \notin lost /\ \E a \in in : in = {a}

\* drmaa2_j_get_jt returns the template the job was submitted with
\* (tests/test_job.c:64).
GetJtIsSubmitted ==
    \A j \in DOMAIN jobs : GetJt(j) = given[j].template
=============================================================================
