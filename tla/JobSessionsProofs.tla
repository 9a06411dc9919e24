------------------------- MODULE JobSessionsProofs -------------------------
(* The properties of JobSessions hold for any number of clients, sessions,  *)
(* jobs, ranges and faults.  What has to be known beside them is what a     *)
(* client in the middle of a call carries from one statement to the next:   *)
(* the row id of its own template, and the ids of jobs that are in no       *)
(* other call, no array and not lost.                                       *)
EXTENDS JobSessions, SequenceTheorems, TLAPS

\* A job's row has the name and id of the session its client's handle was made for.
SessionInv ==
    \A j \in DOMAIN jobs :
        /\ given[j].made \in DOMAIN created
        /\ created[given[j].made] = [name |-> jobs[j].session_name, id |-> jobs[j].session_id]

\* The row id of a template is carried to the INSERT of the job; it is 0, and the job
\* has no template, if that failed.
TemplateInv ==
    /\ \A j \in DOMAIN jobs : given[j].template = None => jobs[j].template_id = 0
    /\ \A c \in Client : pc[c] = "templateSaved" =>
          \/ call[c].row = 0
          \/ /\ call[c].row \in DOMAIN templates
             /\ templates[call[c].row] = Filled(call[c].content, call[c].index)

\* The jobs whose ids a client carries to its array, and those an array lists.
Carried(c) == IF Calling(c) THEN ToSet(call[c].ids) \ {0} ELSE {}
Listed(a)  == ToSet(arrays[a].jobs) \ {0}

\* A job of a bulk call is in one place.
OnceInv ==
    /\ \A c \in Client : Carried(c) \subseteq DOMAIN jobs /\ Carried(c) \intersect lost = {}
    /\ \A a \in DOMAIN arrays : Listed(a) \subseteq DOMAIN jobs /\ Listed(a) \intersect lost = {}
    /\ \A c, d \in Client : c # d => Carried(c) \intersect Carried(d) = {}
    /\ \A a, b \in DOMAIN arrays : a # b => Listed(a) \intersect Listed(b) = {}
    /\ \A c \in Client, a \in DOMAIN arrays : Carried(c) \intersect Listed(a) = {}
    /\ \A j \in DOMAIN jobs : given[j].bulk =>
          \/ j \in lost
          \/ \E c \in Client : j \in Carried(c)
          \/ \E a \in DOMAIN arrays : j \in Listed(a)

\* What a call k, or the array it has led to, knows of the jobs it has submitted (g is
\* given): one for each index so far, through the call's own session.
Submitted(k, session, g) ==
    /\ \A i \in DOMAIN k.ids : k.ids[i] # 0 =>
          /\ k.ids[i] \in DOMAIN g
          /\ g[k.ids[i]].template \in {None, Filled(k.content, k.range[1] + (i - 1) * k.range[3])}
          /\ g[k.ids[i]].made = session
    /\ ~k.failed => \A i \in DOMAIN k.ids : k.ids[i] # 0 /\ g[k.ids[i]].template # None

\* The template of an array is the caller's (t is templates).
ArrayTemplate(k, t) ==
    /\ k.row # 0 => k.row \in DOMAIN t /\ t[k.row] = Filled(k.content, 0)
    /\ ~k.failed => k.row # 0

\* A bulk call k at point p.
InLoop(p, k, session, g, t) ==
    LET m == Len(k.ids)
    IN  /\ k.range[1] <= k.range[2]
        /\ k.index = k.range[1] + m * k.range[3]
        /\ m > 0 => k.range[1] + (m - 1) * k.range[3] <= k.range[2]
        /\ p \in {"categorising", "checked", "templateSaved"} => k.index <= k.range[2]
        /\ p = "templateSaved" /\ k.row = 0 => k.failed
        /\ p = "arraySaving" => k.index > k.range[2] /\ ArrayTemplate(k, t)
        /\ Submitted(k, session, g)

InCall(p, k, session, g, t) ==
    IF k.bulk THEN InLoop(p, k, session, g, t)
    ELSE k.ids = <<>> /\ p \in {"categorising", "checked", "templateSaved"}

\* An array is what its call has carried to it.
Kept(row, g, t) ==
    LET k == row.call
    IN  /\ row.jobs = k.ids /\ row.template_id = k.row
        /\ Len(k.ids) = (k.range[2] - k.range[1]) \div k.range[3] + 1
        /\ ArrayTemplate(k, t)
        /\ Submitted(k, row.made, g)

BulkInv ==
    /\ \A c \in Client : Calling(c) =>
          InCall(pc[c], call[c], handle[c].made, given, templates)
    /\ \A a \in DOMAIN arrays : Kept(arrays[a], given, templates)

IInv == TypeOK /\ SessionInv /\ TemplateInv /\ SubmittedTemplate /\ OnceInv /\ BulkInv

---------------------------------------------------------------------------
(* Sequences and calls.                                                     *)

\* A sequence and what it is when something has been appended to it.
LEMMA Appended ==
    ASSUME NEW S, NEW s \in Seq(S), NEW e \in S
    PROVE  LET t == Append(s, e)
           IN  /\ t \in Seq(S) /\ Len(s) \in Nat /\ DOMAIN s = 1 .. Len(s)
               /\ Len(t) = Len(s) + 1 /\ DOMAIN t = 1 .. Len(s) + 1
               /\ DOMAIN t = DOMAIN s \union {Len(s) + 1}
               /\ Len(s) + 1 \notin DOMAIN s /\ 0 \notin DOMAIN t
               /\ \A i \in DOMAIN s : t[i] = s[i]
               /\ t[Len(s) + 1] = e
BY AppendProperties, LenProperties

LEMMA AppendedSet ==
    ASSUME NEW s \in Ids, NEW e \in Nat
    PROVE  ToSet(Append(s, e)) = ToSet(s) \union {e}
<1> DEFINE t == Append(s, e)
<1>1. /\ DOMAIN t = DOMAIN s \union {Len(s) + 1}
      /\ \A i \in DOMAIN s : t[i] = s[i]
      /\ t[Len(s) + 1] = e
  BY Appended DEF Ids
<1> HIDE DEF t
<1>2. ToSet(t) = ToSet(s) \union {e}
  BY <1>1 DEF ToSet
<1> QED
  BY <1>2 DEF t

LEMMA EmptyIds == <<>> \in Ids /\ Len(<<>>) = 0 /\ ToSet(<<>>) = {} /\ DOMAIN <<>> = {}
BY EmptySeq, LenProperties DEF Ids, ToSet

\* The locals of a call are a record of type Call, whichever are changed.
LEMMA StoredCall ==
    ASSUME NEW k \in Call, NEW id \in Nat
    PROVE  LET t == [k EXCEPT !.row = id]
               f == [k EXCEPT !.row = id, !.failed = TRUE]
           IN  /\ t \in Call /\ f \in Call
               /\ t.row = id /\ f.row = id /\ f.failed /\ t.failed = k.failed
               /\ t.bulk = k.bulk /\ t.content = k.content /\ t.range = k.range
               /\ t.index = k.index /\ t.ids = k.ids
               /\ f.bulk = k.bulk /\ f.content = k.content /\ f.range = k.range
               /\ f.index = k.index /\ f.ids = k.ids
BY DEF Call

NextCall(k, id, failed) ==
    [k EXCEPT !.index = @ + k.range[3], !.ids = Append(@, id), !.failed = failed]

LEMMA NextCallType ==
    ASSUME NEW k \in Call, NEW id \in Nat, NEW failed \in BOOLEAN
    PROVE  LET t == NextCall(k, id, failed)
           IN  /\ t \in Call
               /\ t.index = k.index + k.range[3] /\ t.ids = Append(k.ids, id)
               /\ t.failed = failed /\ t.bulk = k.bulk /\ t.content = k.content
               /\ t.range = k.range /\ t.row = k.row
<1>1. k.range[1] \in Nat /\ k.range[2] \in Nat /\ k.range[3] \in Nat /\ k.index \in Nat
  BY DEF Call
<1>2. k.index + k.range[3] \in Nat
  BY <1>1
<1>3. Append(k.ids, id) \in Ids
  BY AppendProperties DEF Call, Ids
<1> QED
  BY <1>2, <1>3 DEF Call, NextCall

---------------------------------------------------------------------------
(* Steps that move one client on in its call and leave the tables alone.    *)

\* Client c is at point p of a call with locals k, or of none; the others stay.
At(c, p, k) ==
    /\ pc' = [pc EXCEPT ![c] = p]
    /\ call' = [call EXCEPT ![c] = k]

\* The part of TypeOK that is about clients.
ClientType ==
    /\ handle \in [Client -> Handle \union {None}]
    /\ pc \in [Client -> Stage]
    /\ call \in [Client -> Call \union {None}]
    /\ \A c \in Client : IF Calling(c) THEN call[c] \in Call /\ handle[c] # None
                         ELSE call[c] = None

LEMMA ClientsTyped == TypeOK => ClientType
BY DEF TypeOK, ClientType

LEMMA MovesType ==
    ASSUME ClientType, NEW c \in Client, handle[c] # None, UNCHANGED handle,
           NEW p \in Stage \ {"idle", "crashed"}, NEW k \in Call, At(c, p, k)
    PROVE  ClientType'
BY DEF ClientType, At, Calling

LEMMA EndsType ==
    ASSUME ClientType, NEW c \in Client, NEW p \in {"idle", "crashed"}, At(c, p, None),
           handle' = [handle EXCEPT ![c] = None] \/ UNCHANGED handle
    PROVE  ClientType'
BY DEF ClientType, At, Calling, Stage

\* The end of a call: its client goes on, or dies and the jobs it carried are lost.
Ends(c, p) ==
    /\ At(c, p, None)
    /\ p = "idle" => UNCHANGED <<handle, lost>>
    /\ p = "crashed" => /\ handle' = [handle EXCEPT ![c] = None]
                        /\ lost' = lost \union Carried(c)

LEMMA EndCases ==
    ASSUME NEW c \in Client, Calling(c), NEW p \in {"idle", "crashed"}, End(c, p)
    PROVE  Ends(c, p)
BY DEF End, Ends, At, Carried

\* What the steps of a call that touch no table do.
Began(c) ==
    \E t \in Content, b \in Nat \X Nat \X (Nat \ {0}), bulk \in BOOLEAN :
    \E p \in {"categorising", "checked", "loop"} :
       /\ pc[c] = "idle" /\ handle[c] # None
       /\ IF bulk THEN p = "loop" /\ b[1] <= b[2] ELSE p # "loop"
       /\ At(c, p, [bulk |-> bulk, content |-> t, range |-> b, index |-> b[1],
                    row |-> 0, ids |-> <<>>, failed |-> FALSE])
       /\ UNCHANGED <<handle, lost>>

Checks(c) ==
    \/ /\ pc[c] = "loop" /\ call[c].index <= call[c].range[2]
       /\ \E p \in {"categorising", "checked"} : At(c, p, call[c])
       /\ UNCHANGED <<handle, lost>>
    \/ /\ pc[c] = "categorising"
       /\ At(c, "checked", call[c])
       /\ UNCHANGED <<handle, lost>>

Stops(c) ==
    /\ Calling(c)
    /\ \/ Ends(c, "crashed")
       \/ ~call[c].bulk /\ Ends(c, "idle")

ControlStep(c) ==
    /\ UNCHANGED <<sessions, templates, jobs, arrays, created, given, faults>>
    /\ \/ Began(c) \/ Checks(c) \/ Stops(c)
       \/ UNCHANGED <<pc, call, handle, lost>>

LEMMA RunJobControls ==
    ASSUME TypeOK, NEW c \in Client, NEW t \in Content, RunJob(c, t) PROVE ControlStep(c)
<1> DEFINE b == <<0, 0, 1>>
<1>1. b \in Nat \X Nat \X (Nat \ {0})
  OBVIOUS
<1>2. UNCHANGED <<sessions, templates, jobs, arrays, created, given, faults>>
      /\ pc[c] = "idle" /\ handle[c] # None
  BY DEF RunJob, tables
<1>3. ASSUME NEW p \in {"categorising", "checked"}, Begin(c, t, b, FALSE, p) PROVE Began(c)
  <2>1. At(c, p, [bulk |-> FALSE, content |-> t, range |-> b, index |-> b[1],
                  row |-> 0, ids |-> <<>>, failed |-> FALSE]) /\ UNCHANGED <<handle, lost>>
    BY <1>3 DEF Begin, At
  <2> QED
    BY <1>1, <1>2, <2>1 DEF Began
<1>4. \/ \E p \in {"categorising", "checked"} : Begin(c, t, b, FALSE, p)
      \/ UNCHANGED <<pc, call, handle, lost>>
  BY DEF RunJob
<1> QED
  BY <1>2, <1>3, <1>4 DEF ControlStep

LEMMA RunBulkControls ==
    ASSUME TypeOK, NEW c \in Client, NEW t \in Content, NEW b \in Bulks, RunBulk(c, t, b)
    PROVE  ControlStep(c)
<1>1. b \in Nat \X Nat \X (Nat \ {0}) /\ b[1] <= b[2]
  BY SessionsAssumption DEF RunBulk
<1>2. pc[c] = "idle" /\ handle[c] # None /\ Begin(c, t, b, TRUE, "loop")
      /\ UNCHANGED <<sessions, templates, jobs, arrays, created, given, faults>>
  BY DEF RunBulk, tables
<1>3. Began(c)
  BY <1>1, <1>2 DEF Begin, Began, At
<1> QED
  BY <1>2, <1>3 DEF ControlStep

LEMMA CheckCategoryControls ==
    ASSUME TypeOK, NEW c \in Client, CheckCategory(c) PROVE ControlStep(c)
<1>1. pc[c] = "categorising" /\ Calling(c)
      /\ UNCHANGED <<sessions, templates, jobs, arrays, created, given, faults>>
  BY DEF CheckCategory, Calling, tables
<1>2. \/ End(c, "crashed")
      \/ ~call[c].bulk /\ End(c, "idle")
      \/ Continue(c, "checked", call[c])
  BY DEF CheckCategory, Refuse
<1>3. ASSUME Continue(c, "checked", call[c]) PROVE Checks(c)
  BY <1>1, <1>3 DEF Continue, Checks, At
<1> QED
  BY <1>1, <1>2, <1>3, EndCases DEF ControlStep, Stops

LEMMA LoopControls ==
    ASSUME TypeOK, NEW c \in Client, LoopRunJob(c) PROVE ControlStep(c)
<1>1. pc[c] = "loop" /\ Calling(c) /\ call[c].index <= call[c].range[2]
      /\ UNCHANGED <<sessions, templates, jobs, arrays, created, given, faults>>
  BY DEF LoopRunJob, Calling, tables
<1>2. \/ End(c, "crashed")
      \/ \E p \in {"categorising", "checked"} : Continue(c, p, call[c])
  BY DEF LoopRunJob, Refuse
<1>3. ASSUME NEW p \in {"categorising", "checked"}, Continue(c, p, call[c]) PROVE Checks(c)
  BY <1>1, <1>3 DEF Continue, Checks, At
<1> QED
  BY <1>1, <1>2, <1>3, EndCases DEF ControlStep, Stops

LEMMA DieControls ==
    ASSUME TypeOK, NEW c \in Client, Die(c) PROVE ControlStep(c)
BY EndCases DEF Die, ControlStep, Stops, tables

---------------------------------------------------------------------------
(* Steps that are statements.                                               *)

\* A template has been stored, or not, and the call goes on to p with its row id or 0.
Stores(c, index, p) ==
    /\ UNCHANGED <<sessions, jobs, arrays, created, given, handle, lost>>
    /\ \/ /\ templates' = Append(templates, Filled(call[c].content, index))
          /\ At(c, p, [call[c] EXCEPT !.row = Len(templates')])
          /\ UNCHANGED faults
       \/ /\ UNCHANGED templates /\ Fail
          /\ At(c, p, [call[c] EXCEPT !.row = 0, !.failed = TRUE])

LEMMA StoreCases ==
    ASSUME NEW c \in Client, NEW index, NEW p, Store(c, index, p) PROVE Stores(c, index, p)
BY DEF Store, Stores, Continue, At

\* What the INSERT of a job appends, and how the call goes on.
NewJob(c) == [session_id |-> handle[c].id, session_name |-> handle[c].name,
              template_id |-> call[c].row]
NewOrigin(c) == [template |-> IF call[c].row = 0 THEN None
                              ELSE Filled(call[c].content, call[c].index),
                 made |-> handle[c].made, bulk |-> call[c].bulk]

Goes(c, id, failed) ==
    IF call[c].bulk THEN At(c, "loop", NextCall(call[c], id, failed)) ELSE At(c, "idle", None)

Inserts(c) ==
    /\ pc[c] = "templateSaved"
    /\ UNCHANGED <<sessions, templates, arrays, created, handle, lost>>
    /\ \/ /\ jobs' = Append(jobs, NewJob(c)) /\ given' = Append(given, NewOrigin(c))
          /\ Goes(c, Len(jobs'), call[c].failed)
          /\ UNCHANGED faults
       \/ UNCHANGED <<jobs, given>> /\ Fail /\ Goes(c, 0, TRUE)

LEMMA InsertCases == ASSUME NEW c \in Client, SaveJob(c) PROVE Inserts(c)
<1> DEFINE Done(id, failed) ==
        IF call[c].bulk THEN Continue(c, "loop", NextCall(call[c], id, failed))
                        ELSE End(c, "idle")
<1>1. /\ pc[c] = "templateSaved"
      /\ UNCHANGED <<sessions, templates, arrays, created>>
      /\ \/ /\ jobs' = Append(jobs, NewJob(c)) /\ given' = Append(given, NewOrigin(c))
            /\ Done(Len(jobs'), call[c].failed)
            /\ UNCHANGED faults
         \/ UNCHANGED <<jobs, given>> /\ Fail /\ Done(0, TRUE)
  BY DEF SaveJob, InsertJob, NewJob, NewOrigin, NextCall
<1>2. ASSUME NEW id, NEW failed, Done(id, failed)
      PROVE  Goes(c, id, failed) /\ UNCHANGED <<handle, lost>>
  BY <1>2 DEF Continue, End, Goes, At
<1> HIDE DEF Done
<1> QED
  BY <1>1, <1>2 DEF Inserts

\* The row of a job that has been stored, and of its origin.
LEMMA InsertedRow ==
    ASSUME TypeOK, NEW c \in Client, pc[c] = "templateSaved",
           jobs' = Append(jobs, NewJob(c)), given' = Append(given, NewOrigin(c))
    PROVE  /\ jobs' \in Seq(Job) /\ given' \in Seq(Origin) /\ Len(given') = Len(jobs')
           /\ Len(jobs) \in Nat /\ Len(jobs') = Len(jobs) + 1
           /\ DOMAIN jobs' = DOMAIN jobs \union {Len(jobs')}
           /\ Len(jobs') \notin DOMAIN jobs /\ Len(jobs') # 0
           /\ \A j \in DOMAIN jobs : jobs'[j] = jobs[j] /\ given'[j] = given[j]
           /\ jobs'[Len(jobs')] = NewJob(c) /\ given'[Len(jobs')] = NewOrigin(c)
<1>1. call[c] \in Call /\ handle[c] \in Handle
  BY DEF TypeOK, Calling
<1>2. /\ handle[c].id \in SessionId /\ handle[c].name \in Name /\ handle[c].made \in Nat
      /\ call[c].row \in Nat /\ call[c].bulk \in BOOLEAN
      /\ call[c].content \in Content /\ call[c].index \in Nat
  BY <1>1 DEF Handle, Call
<1>3. NewJob(c) \in Job
  BY <1>2 DEF NewJob, Job
<1>4. Filled(call[c].content, call[c].index) \in Stored
  BY <1>2 DEF Filled, Stored
<1>5. NewOrigin(c) \in Origin
  BY <1>2, <1>4 DEF NewOrigin, Origin
<1>6. jobs \in Seq(Job) /\ given \in Seq(Origin) /\ Len(given) = Len(jobs)
  BY DEF TypeOK
<1> QED
  BY <1>3, <1>5, <1>6, Appended

\* An array has been stored, or its jobs are lost.
NewArray(c) == [template_id |-> call[c].row, jobs |-> call[c].ids, call |-> call[c],
                made |-> handle[c].made]

Saves(c) ==
    /\ pc[c] = "arraySaving"
    /\ UNCHANGED <<sessions, templates, jobs, created, given, handle>>
    /\ At(c, "idle", None)
    /\ \/ arrays' = Append(arrays, NewArray(c)) /\ UNCHANGED <<lost, faults>>
       \/ UNCHANGED arrays /\ Fail /\ lost' = lost \union Carried(c)

LEMMA SaveCases == ASSUME NEW c \in Client, SaveArray(c) PROVE Saves(c)
BY DEF SaveArray, End, Saves, At, NewArray, Carried, Calling

LEMMA SavedRow ==
    ASSUME TypeOK, NEW c \in Client, pc[c] = "arraySaving",
           arrays' = Append(arrays, NewArray(c))
    PROVE  /\ arrays' \in Seq(Array)
           /\ DOMAIN arrays' = DOMAIN arrays \union {Len(arrays) + 1}
           /\ Len(arrays) + 1 \notin DOMAIN arrays
           /\ \A a \in DOMAIN arrays : arrays'[a] = arrays[a]
           /\ arrays'[Len(arrays) + 1] = NewArray(c)
<1>1. call[c] \in Call /\ handle[c] \in Handle
  BY DEF TypeOK, Calling
<1>2. NewArray(c) \in Array
  BY <1>1 DEF NewArray, Array, Call, Handle
<1> QED
  BY <1>2, Appended DEF TypeOK

\* Sessions are created, opened and destroyed without regard to calls in progress.
SessionCall(c) ==
    \E n \in Name : CreateSession(c, n) \/ OpenSession(c, n) \/ DestroySession(c, n)

LEMMA SessionCallKeeps ==
    ASSUME NEW c \in Client, SessionCall(c)
    PROVE  /\ UNCHANGED <<templates, jobs, arrays, pc, call, given, lost, faults>>
           /\ pc[c] = "idle"
BY DEF SessionCall, CreateSession, OpenSession, DestroySession, tables, history

LEMMA NextCases ==
    ASSUME TypeOK, [Next]_vars
    PROVE  \/ \E c \in Client :
                \/ SessionCall(c) \/ ControlStep(c)
                \/ pc[c] = "checked" /\ Stores(c, call[c].index, "templateSaved")
                \/ /\ pc[c] = "loop" /\ call[c].index > call[c].range[2]
                   /\ Stores(c, 0, "arraySaving")
                \/ Inserts(c) \/ Saves(c)
           \/ UNCHANGED vars
<1>1. ASSUME NEW c \in Client, SaveTemplate(c)
      PROVE  pc[c] = "checked" /\ Stores(c, call[c].index, "templateSaved")
  BY <1>1, StoreCases DEF SaveTemplate
<1>2. ASSUME NEW c \in Client, SaveBulkTemplate(c)
      PROVE  pc[c] = "loop" /\ call[c].index > call[c].range[2] /\ Stores(c, 0, "arraySaving")
  BY <1>2, StoreCases DEF SaveBulkTemplate
<1> QED
  BY <1>1, <1>2, RunJobControls, RunBulkControls, CheckCategoryControls, LoopControls,
     DieControls, InsertCases, SaveCases DEF Next, SessionCall

---------------------------------------------------------------------------
(* Types.                                                                   *)

Made(row) == /\ row.made \in DOMAIN created
             /\ created[row.made] = [name |-> row.name, id |-> row.id]

LEMMA MadeRows ==
    TypeOK => /\ \A n \in Name : sessions[n] # None => Made(sessions[n])
              /\ \A c \in Client : handle[c] # None => Made(handle[c])
BY DEF TypeOK, Made

LEMMA FailType == TypeOK /\ Fail => faults' \in 0 .. MaxFaults
BY SessionsAssumption DEF TypeOK, Fail

LEMMA TypeInit == Init => TypeOK
<1> SUFFICES ASSUME Init PROVE TypeOK
  OBVIOUS
<1>1. \A S : <<>> \in Seq(S) /\ Len(<<>>) = 0
  BY EmptySeq
<1>2. /\ templates = <<>> /\ jobs = <<>> /\ arrays = <<>> /\ created = <<>> /\ given = <<>>
      /\ lost = {} /\ faults = 0
  BY DEF Init
<1>3. sessions = [n \in Name |-> None] /\ handle = [c \in Client |-> None]
      /\ pc = [c \in Client |-> "idle"] /\ call = [c \in Client |-> None]
  BY DEF Init
<1> QED
  BY <1>1, <1>2, <1>3, SessionsAssumption DEF TypeOK, Stage, Calling

\* A session call keeps what goes by a session that was made.
LEMMA SessionCallType ==
    ASSUME TypeOK, NEW c \in Client, SessionCall(c)
    PROVE  /\ TypeOK'
           /\ \A i \in DOMAIN created : i \in DOMAIN created' /\ created'[i] = created[i]
           /\ \A d \in Client \ {c} : handle'[d] = handle[d]
<1>1. /\ UNCHANGED <<templates, jobs, arrays, pc, call, given, lost, faults>>
      /\ pc[c] = "idle"
  BY SessionCallKeeps
<1>2. PICK n \in Name : CreateSession(c, n) \/ OpenSession(c, n) \/ DestroySession(c, n)
  BY DEF SessionCall
<1>3. CASE CreateSession(c, n) /\ sessions[n] = None
  <2>1. PICK i \in SessionId :
           /\ sessions' = [sessions EXCEPT ![n] = [name |-> n, id |-> i, made |-> Len(created) + 1]]
           /\ handle' = [handle EXCEPT ![c] = [name |-> n, id |-> i, made |-> Len(created) + 1]]
           /\ created' = Append(created, [name |-> n, id |-> i])
    BY <1>3 DEF CreateSession
  <2> DEFINE row == [name |-> n, id |-> i, made |-> Len(created) + 1]
  <2>2. /\ created' \in Seq([name : Name, id : SessionId])
        /\ Len(created) \in Nat /\ Len(created') = Len(created) + 1
        /\ DOMAIN created' = DOMAIN created \union {Len(created) + 1}
        /\ \A k \in DOMAIN created : created'[k] = created[k]
        /\ created'[Len(created) + 1] = [name |-> n, id |-> i]
    BY <2>1, Appended DEF TypeOK
  <2>3. Len(created') <= MaxSessions
    BY <1>3, <2>2, SessionsAssumption DEF CreateSession
  <2>4. row \in Handle /\ row.made \in DOMAIN created'
        /\ created'[row.made] = [name |-> row.name, id |-> row.id]
    BY <2>2 DEF Handle
  <2>5. sessions' = [sessions EXCEPT ![n] = row] /\ handle' = [handle EXCEPT ![c] = row]
    BY <2>1
  <2> HIDE DEF row
  <2>6. /\ sessions' \in [Name -> Handle \union {None}]
        /\ handle' \in [Client -> Handle \union {None}]
        /\ \A m \in Name : sessions'[m] \in {sessions[m], row}
        /\ \A d \in Client : handle'[d] = IF d = c THEN row ELSE handle[d]
    <3>1. /\ sessions \in [Name -> Handle \union {None}]
          /\ handle \in [Client -> Handle \union {None}] /\ row \in Handle
      BY <2>4 DEF TypeOK
    <3>2. /\ sessions' \in [Name -> Handle \union {None}]
          /\ \A m \in Name : sessions'[m] \in {sessions[m], row}
      BY <2>5, <3>1
    <3>3. /\ handle' \in [Client -> Handle \union {None}]
          /\ \A d \in Client : handle'[d] = IF d = c THEN row ELSE handle[d]
      BY <2>5, <3>1
    <3> QED
      BY <3>2, <3>3
  <2>7. \A r \in {sessions'[m] : m \in Name} \union {handle'[d] : d \in Client} :
           r # None => /\ r.made \in DOMAIN created'
                       /\ created'[r.made] = [name |-> r.name, id |-> r.id]
    <3>1. \A r : Made(r) => /\ r.made \in DOMAIN created'
                            /\ created'[r.made] = [name |-> r.name, id |-> r.id]
      BY <2>2 DEF Made
    <3> QED
      BY <2>4, <2>6, <3>1, MadeRows
  <2>8. \A d \in Client : IF Calling(d)' THEN call'[d] \in Call /\ handle'[d] # None
                          ELSE call'[d] = None
    BY <1>1, <2>6 DEF TypeOK, Calling
  <2> QED
    BY <1>1, <2>2, <2>3, <2>6, <2>7, <2>8 DEF TypeOK
<1>4. CASE CreateSession(c, n) /\ sessions[n] # None
  <2>1. handle' = [handle EXCEPT ![c] = None] /\ UNCHANGED <<sessions, created>>
    BY <1>4 DEF CreateSession
  <2>2. /\ handle' \in [Client -> Handle \union {None}]
        /\ \A d \in Client : handle'[d] = IF d = c THEN None ELSE handle[d]
    BY <2>1 DEF TypeOK
  <2> QED
    BY <1>1, <2>1, <2>2 DEF TypeOK, Calling
<1>5. CASE OpenSession(c, n)
  BY <1>1, <1>5 DEF OpenSession, TypeOK, Calling, tables, history
<1>6. CASE DestroySession(c, n)
  BY <1>1, <1>6 DEF DestroySession, TypeOK, Calling, history
<1> QED
  BY <1>2, <1>3, <1>4, <1>5, <1>6

LEMMA ControlType ==
    ASSUME TypeOK, OnceInv, NEW c \in Client, ControlStep(c)
    PROVE  ClientType' /\ lost' \subseteq DOMAIN jobs
                       /\ \A d \in Client : handle'[d] \in {None, handle[d]}
<1>1. ClientType /\ lost \subseteq DOMAIN jobs /\ Carried(c) \subseteq DOMAIN jobs
  BY ClientsTyped DEF TypeOK, OnceInv
<1>2. CASE Began(c)
  <2>1. PICK t \in Content, b \in Nat \X Nat \X (Nat \ {0}), bulk \in BOOLEAN,
             p \in {"categorising", "checked", "loop"} :
           /\ handle[c] # None
           /\ At(c, p, [bulk |-> bulk, content |-> t, range |-> b, index |-> b[1],
                        row |-> 0, ids |-> <<>>, failed |-> FALSE])
           /\ UNCHANGED <<handle, lost>>
    BY <1>2 DEF Began
  <2>2. [bulk |-> bulk, content |-> t, range |-> b, index |-> b[1],
         row |-> 0, ids |-> <<>>, failed |-> FALSE] \in Call
    BY EmptyIds DEF Call
  <2> QED
    BY <1>1, <2>1, <2>2, MovesType DEF Stage
<1>3. CASE Checks(c)
  <2>1. call[c] \in Call /\ handle[c] # None
    BY <1>3 DEF Checks, TypeOK, Calling
  <2>2. PICK p \in {"categorising", "checked"} : At(c, p, call[c]) /\ UNCHANGED <<handle, lost>>
    BY <1>3 DEF Checks
  <2> QED
    BY <1>1, <2>1, <2>2, MovesType DEF Stage
<1>4. CASE Stops(c)
  <2>1. PICK p \in {"idle", "crashed"} : Ends(c, p)
    BY <1>4 DEF Stops
  <2>2. /\ At(c, p, None)
        /\ handle' = [handle EXCEPT ![c] = None] \/ UNCHANGED handle
        /\ lost' = lost \union Carried(c) \/ UNCHANGED lost
    BY <2>1 DEF Ends
  <2>3. ClientType'
    BY <1>1, <2>2, EndsType
  <2> QED
    BY <1>1, <2>2, <2>3 DEF TypeOK
<1>5. CASE UNCHANGED <<pc, call, handle, lost>>
  BY <1>1, <1>5 DEF ClientType, Calling
<1> QED
  BY <1>2, <1>3, <1>4, <1>5 DEF ControlStep

LEMMA TypeStep == TypeOK /\ OnceInv /\ [Next]_vars => TypeOK'
<1> SUFFICES ASSUME TypeOK, OnceInv, [Next]_vars PROVE TypeOK'
  OBVIOUS
<1>0. ClientType
  BY ClientsTyped
<1>1. ASSUME NEW c \in Client, SessionCall(c) PROVE TypeOK'
  BY <1>1, SessionCallType
<1>2. ASSUME NEW c \in Client, ControlStep(c) PROVE TypeOK'
  <2>1. /\ ClientType' /\ lost' \subseteq DOMAIN jobs
        /\ \A d \in Client : handle'[d] \in {None, handle[d]}
    BY <1>2, ControlType
  <2>2. UNCHANGED <<sessions, templates, jobs, arrays, created, given, faults>>
    BY <1>2 DEF ControlStep
  <2> QED
    BY <2>1, <2>2 DEF TypeOK, ClientType
<1>3. ASSUME NEW c \in Client, NEW index \in Nat, NEW p \in {"templateSaved", "arraySaving"},
             Calling(c), Stores(c, index, p)
      PROVE  TypeOK'
  <2>1. call[c] \in Call /\ handle[c] # None
        /\ UNCHANGED <<sessions, jobs, arrays, created, given, handle, lost>>
    BY <1>3 DEF TypeOK, Stores
  <2>2. Filled(call[c].content, index) \in Stored
    BY <2>1 DEF Filled, Stored, Call
  <2>3. /\ templates' \in Seq(Stored) /\ faults' \in 0 .. MaxFaults
        /\ \E k \in Call : At(c, p, k)
    <3>1. CASE /\ templates' = Append(templates, Filled(call[c].content, index))
               /\ At(c, p, [call[c] EXCEPT !.row = Len(templates')])
               /\ UNCHANGED faults
      <4>1. templates' \in Seq(Stored) /\ Len(templates') \in Nat
        BY <2>2, <3>1, Appended DEF TypeOK
      <4> QED
        BY <2>1, <3>1, <4>1, StoredCall DEF TypeOK
    <3>2. CASE /\ UNCHANGED templates /\ Fail
               /\ At(c, p, [call[c] EXCEPT !.row = 0, !.failed = TRUE])
      BY <2>1, <3>2, StoredCall, FailType DEF TypeOK
    <3> QED
      BY <1>3, <3>1, <3>2 DEF Stores
  <2>4. ClientType'
    BY <1>0, <2>1, <2>3, MovesType DEF Stage
  <2> QED
    BY <2>1, <2>3, <2>4 DEF TypeOK, ClientType
<1>4. ASSUME NEW c \in Client, Inserts(c) PROVE TypeOK'
  <2>1. /\ call[c] \in Call /\ handle[c] # None /\ pc[c] = "templateSaved"
        /\ UNCHANGED <<sessions, templates, arrays, created, handle, lost>>
    BY <1>4 DEF TypeOK, Inserts, Calling
  <2>2. \A id \in Nat, failed \in BOOLEAN : Goes(c, id, failed) => ClientType'
    <3>1. ASSUME NEW id \in Nat, NEW failed \in BOOLEAN, Goes(c, id, failed) PROVE ClientType'
      <4>1. NextCall(call[c], id, failed) \in Call
        BY <2>1, NextCallType
      <4> QED
        BY <1>0, <2>1, <3>1, <4>1, MovesType, EndsType DEF Goes, Stage
    <3> QED
      BY <3>1
  <2>3. /\ jobs' \in Seq(Job) /\ given' \in Seq(Origin) /\ Len(given') = Len(jobs')
        /\ DOMAIN jobs \subseteq DOMAIN jobs' /\ faults' \in 0 .. MaxFaults /\ ClientType'
    <3>1. CASE /\ jobs' = Append(jobs, NewJob(c)) /\ given' = Append(given, NewOrigin(c))
               /\ Goes(c, Len(jobs'), call[c].failed)
               /\ UNCHANGED faults
      <4>1. call[c].failed \in BOOLEAN
        BY <2>1 DEF Call
      <4>2. /\ jobs' \in Seq(Job) /\ given' \in Seq(Origin) /\ Len(given') = Len(jobs')
            /\ DOMAIN jobs \subseteq DOMAIN jobs' /\ Len(jobs') \in Nat
        BY <2>1, <3>1, InsertedRow
      <4>3. ClientType'
        BY <2>2, <3>1, <4>1, <4>2
      <4> QED
        BY <3>1, <4>2, <4>3 DEF TypeOK
    <3>2. CASE UNCHANGED <<jobs, given>> /\ Fail /\ Goes(c, 0, TRUE)
      BY <2>2, <3>2, FailType DEF TypeOK
    <3> QED
      BY <1>4, <3>1, <3>2 DEF Inserts
  <2> QED
    BY <2>1, <2>3 DEF TypeOK, ClientType
<1>5. ASSUME NEW c \in Client, Saves(c) PROVE TypeOK'
  <2>1. UNCHANGED <<sessions, templates, jobs, created, given, handle>> /\ pc[c] = "arraySaving"
        /\ At(c, "idle", None)
    BY <1>5 DEF Saves
  <2>2. ClientType'
    BY <1>0, <2>1, EndsType
  <2>3. arrays' \in Seq(Array) /\ lost' \subseteq DOMAIN jobs /\ faults' \in 0 .. MaxFaults
    BY <1>5, <2>1, SavedRow, FailType DEF Saves, TypeOK, OnceInv
  <2> QED
    BY <2>1, <2>2, <2>3 DEF TypeOK, ClientType
<1>6. CASE UNCHANGED vars
  BY <1>6 DEF vars, tables, history, TypeOK, Calling
<1>7. ASSUME NEW c \in Client, Calling(c) PROVE call[c].index \in Nat
  BY <1>7 DEF TypeOK, Call
<1> QED
  BY <1>1, <1>2, <1>3, <1>4, <1>5, <1>6, <1>7, NextCases DEF Calling

---------------------------------------------------------------------------
(* Sessions and templates.                                                  *)

LEMMA SessionStep == TypeOK /\ SessionInv /\ [Next]_vars => SessionInv'
<1> SUFFICES ASSUME TypeOK, SessionInv, [Next]_vars PROVE SessionInv'
  OBVIOUS
<1> USE DEF SessionInv
<1>1. ASSUME NEW c \in Client, SessionCall(c) PROVE SessionInv'
  BY <1>1, SessionCallKeeps, SessionCallType
<1>2. ASSUME NEW c \in Client, Inserts(c) PROVE SessionInv'
  <2>1. UNCHANGED created /\ pc[c] = "templateSaved" /\ Made(handle[c])
    BY <1>2, MadeRows DEF Inserts, TypeOK, Calling
  <2>2. CASE jobs' = Append(jobs, NewJob(c)) /\ given' = Append(given, NewOrigin(c))
    <3>1. /\ DOMAIN jobs' = DOMAIN jobs \union {Len(jobs')}
          /\ \A j \in DOMAIN jobs : jobs'[j] = jobs[j] /\ given'[j] = given[j]
          /\ jobs'[Len(jobs')] = NewJob(c) /\ given'[Len(jobs')] = NewOrigin(c)
      BY <2>1, <2>2, InsertedRow
    <3>2. /\ given'[Len(jobs')].made = handle[c].made
          /\ jobs'[Len(jobs')].session_name = handle[c].name
          /\ jobs'[Len(jobs')].session_id = handle[c].id
      BY <3>1 DEF NewJob, NewOrigin
    <3> HIDE DEF SessionInv
    <3>3. \A j \in DOMAIN jobs' :
             /\ given'[j].made \in DOMAIN created
             /\ created[given'[j].made] = [name |-> jobs'[j].session_name, id |-> jobs'[j].session_id]
      BY <2>1, <3>1, <3>2 DEF Made, SessionInv
    <3> QED
      BY <2>1, <3>3 DEF SessionInv
  <2> QED
    BY <1>2, <2>1, <2>2 DEF Inserts
<1>3. CASE UNCHANGED <<jobs, given, created>>
  BY <1>3
<1> QED
  BY <1>1, <1>2, <1>3, NextCases DEF ControlStep, Stores, Saves, vars, tables, history

\* A control step brings no client to a statement's point but "checked".
LEMMA ControlKeeps ==
    ASSUME TypeOK, NEW c \in Client, ControlStep(c), NEW d \in Client,
           pc'[d] \in {"templateSaved", "arraySaving"}
    PROVE  pc'[d] = pc[d] /\ call'[d] = call[d]
BY DEF ControlStep, Began, Checks, Stops, Ends, At, TypeOK

LEMMA TemplateStep ==
    TypeOK /\ TemplateInv /\ SubmittedTemplate /\ [Next]_vars => TemplateInv' /\ SubmittedTemplate'
<1> SUFFICES ASSUME TypeOK, TemplateInv, SubmittedTemplate, [Next]_vars
             PROVE  TemplateInv' /\ SubmittedTemplate'
  OBVIOUS
<1> USE DEF TemplateInv, SubmittedTemplate
<1>1. ASSUME NEW c \in Client, SessionCall(c) PROVE TemplateInv' /\ SubmittedTemplate'
  BY <1>1, SessionCallKeeps
<1>2. ASSUME NEW c \in Client, ControlStep(c) PROVE TemplateInv' /\ SubmittedTemplate'
  <2>1. UNCHANGED <<templates, jobs, given>>
    BY <1>2 DEF ControlStep
  <2> QED
    BY <1>2, <2>1, ControlKeeps
<1>3. ASSUME NEW c \in Client, NEW p, NEW index \in Nat, Calling(c), Stores(c, index, p),
             p = "templateSaved" => index = call[c].index
      PROVE  TemplateInv' /\ SubmittedTemplate'
  <2>1. UNCHANGED <<jobs, given>> /\ call[c] \in Call
    BY <1>3 DEF Stores, TypeOK
  <2>2. Filled(call[c].content, index) \in Stored
    BY <2>1 DEF Call, Filled, Stored
  <2>3. CASE /\ templates' = Append(templates, Filled(call[c].content, index))
             /\ At(c, p, [call[c] EXCEPT !.row = Len(templates')])
    <3>1. /\ DOMAIN templates' = DOMAIN templates \union {Len(templates')} /\ Len(templates') \in Nat
          /\ 0 \notin DOMAIN templates' /\ 0 \notin DOMAIN templates
          /\ \A i \in DOMAIN templates : templates'[i] = templates[i]
          /\ templates'[Len(templates')] = Filled(call[c].content, index)
      BY <2>2, <2>3, Appended DEF TypeOK
    <3>2. LET t == [call[c] EXCEPT !.row = Len(templates')]
          IN  t.row = Len(templates') /\ t.content = call[c].content /\ t.index = call[c].index
      BY <2>1, <3>1, StoredCall
    <3>3. /\ pc' = [pc EXCEPT ![c] = p]
          /\ call' = [call EXCEPT ![c] = [call[c] EXCEPT !.row = Len(templates')]]
      BY <2>3 DEF At
    <3>4. TemplateInv'
      <4>1. ASSUME pc'[c] = "templateSaved"
            PROVE  /\ call'[c].row \in DOMAIN templates'
                   /\ templates'[call'[c].row] = Filled(call'[c].content, call'[c].index)
        BY <1>3, <3>1, <3>2, <3>3, <4>1 DEF TypeOK
      <4>2. \A d \in Client \ {c} : pc'[d] = pc[d] /\ call'[d] = call[d]
        BY <3>3 DEF TypeOK
      <4>3. ASSUME NEW d \in Client \ {c}, pc[d] = "templateSaved"
            PROVE  \/ call[d].row = 0
                   \/ /\ call[d].row \in DOMAIN templates'
                      /\ templates'[call[d].row] = Filled(call[d].content, call[d].index)
        BY <3>1, <4>3
      <4>4. \A d \in Client : pc'[d] = "templateSaved" =>
               \/ call'[d].row = 0
               \/ /\ call'[d].row \in DOMAIN templates'
                  /\ templates'[call'[d].row] = Filled(call'[d].content, call'[d].index)
        BY <4>1, <4>2, <4>3
      <4> QED
        BY <2>1, <4>4
    <3>5. SubmittedTemplate'
      <4>1. ASSUME NEW j \in DOMAIN jobs
            PROVE  IF given[j].template = None THEN jobs[j].template_id \notin DOMAIN templates'
                   ELSE /\ jobs[j].template_id \in DOMAIN templates'
                        /\ templates'[jobs[j].template_id] = given[j].template
        BY <3>1, <4>1
      <4> QED
        BY <2>1, <4>1
    <3> QED
      BY <3>4, <3>5
  <2>4. CASE UNCHANGED templates /\ At(c, p, [call[c] EXCEPT !.row = 0, !.failed = TRUE])
    <3>1. /\ pc' = [pc EXCEPT ![c] = p]
          /\ call' = [call EXCEPT ![c] = [call[c] EXCEPT !.row = 0, !.failed = TRUE]]
      BY <2>4 DEF At
    <3>2. [call[c] EXCEPT !.row = 0, !.failed = TRUE].row = 0
      BY <2>1, StoredCall
    <3>3. call'[c].row = 0 /\ \A d \in Client \ {c} : pc'[d] = pc[d] /\ call'[d] = call[d]
      BY <3>1, <3>2 DEF TypeOK
    <3> QED
      BY <2>1, <2>4, <3>3
  <2> QED
    BY <1>3, <2>3, <2>4 DEF Stores
<1>4. ASSUME NEW c \in Client, Inserts(c) PROVE TemplateInv' /\ SubmittedTemplate'
  <2>1. UNCHANGED templates /\ pc[c] = "templateSaved" /\ call[c] \in Call
    BY <1>4 DEF Inserts, TypeOK, Calling
  <2>2. \A id, failed : Goes(c, id, failed) =>
           \A d \in Client : pc'[d] = "templateSaved" => pc[d] = pc'[d] /\ call'[d] = call[d]
    BY DEF Goes, At, TypeOK
  <2>3. CASE /\ jobs' = Append(jobs, NewJob(c)) /\ given' = Append(given, NewOrigin(c))
             /\ Goes(c, Len(jobs'), call[c].failed)
    <3>1. /\ DOMAIN jobs' = DOMAIN jobs \union {Len(jobs')}
          /\ \A j \in DOMAIN jobs : jobs'[j] = jobs[j] /\ given'[j] = given[j]
          /\ jobs'[Len(jobs')] = NewJob(c) /\ given'[Len(jobs')] = NewOrigin(c)
      BY <2>1, <2>3, InsertedRow
    <3>2. /\ jobs'[Len(jobs')].template_id = call[c].row
          /\ given'[Len(jobs')].template = IF call[c].row = 0 THEN None
                                           ELSE Filled(call[c].content, call[c].index)
      BY <3>1 DEF NewJob, NewOrigin
    <3>3. 0 \notin DOMAIN templates
      BY LenProperties DEF TypeOK
    <3>4. Filled(call[c].content, call[c].index) # None
      BY <2>1, SessionsAssumption DEF Filled, Call
    <3>5. TemplateInv'
      <4>1. \A j \in DOMAIN jobs' : given'[j].template = None => jobs'[j].template_id = 0
        BY <3>1, <3>2, <3>4
      <4> QED
        BY <2>1, <2>2, <2>3, <4>1
    <3>6. SubmittedTemplate'
      <4>1. ASSUME NEW j \in DOMAIN jobs'
            PROVE  IF given'[j].template = None THEN jobs'[j].template_id \notin DOMAIN templates
                   ELSE /\ jobs'[j].template_id \in DOMAIN templates
                        /\ templates[jobs'[j].template_id] = given'[j].template
        BY <2>1, <3>1, <3>2, <3>3, <3>4, <4>1
      <4> QED
        BY <2>1, <4>1
    <3> QED
      BY <3>5, <3>6
  <2>4. CASE UNCHANGED <<jobs, given>> /\ Goes(c, 0, TRUE)
    BY <2>1, <2>2, <2>4
  <2> QED
    BY <1>4, <2>3, <2>4 DEF Inserts
<1>5. ASSUME NEW c \in Client, Saves(c) PROVE TemplateInv' /\ SubmittedTemplate'
  BY <1>5 DEF Saves, At, TypeOK
<1>6. CASE UNCHANGED vars
  BY <1>6 DEF vars, tables, history
<1>7. ASSUME NEW c \in Client, Calling(c) PROVE call[c].index \in Nat
  BY <1>7 DEF TypeOK, Call
<1> QED
  BY <1>1, <1>2, <1>3, <1>4, <1>5, <1>6, <1>7, NextCases DEF Calling

---------------------------------------------------------------------------
(* A job is in one place.                                                   *)

\* Where the ids of one call go: nowhere, or they are lost with it.
LEMMA OnceKept ==
    ASSUME OnceInv, NEW c \in Client, UNCHANGED <<jobs, arrays, given>>,
           \A d \in Client \ {c} : Carried(d)' = Carried(d),
           \/ Carried(c)' = Carried(c) /\ UNCHANGED lost
           \/ Carried(c)' = {} /\ lost' = lost \union Carried(c)
    PROVE  OnceInv'
<1>1. \A a \in DOMAIN arrays : Listed(a)' = Listed(a)
  BY DEF Listed
<1> QED
  BY <1>1 DEF OnceInv

\* What a client at p with locals k carries.
LEMMA CarriedAt ==
    ASSUME TypeOK, NEW c \in Client, NEW p, NEW k, At(c, p, k)
    PROVE  /\ Carried(c)' = IF p \in {"idle", "crashed"} THEN {} ELSE ToSet(k.ids) \ {0}
           /\ \A d \in Client \ {c} : Carried(d)' = Carried(d)
<1>1. pc'[c] = p /\ call'[c] = k
  BY DEF At, TypeOK
<1>2. \A d \in Client \ {c} : pc'[d] = pc[d] /\ call'[d] = call[d]
  BY DEF At, TypeOK
<1> QED
  BY <1>1, <1>2 DEF Carried, Calling, ToSet

LEMMA SingleCarriesNothing ==
    ASSUME BulkInv, NEW c \in Client, Calling(c), ~call[c].bulk
    PROVE  Carried(c) = {}
BY EmptyIds DEF BulkInv, InCall, Carried

LEMMA OnceStep == TypeOK /\ BulkInv /\ OnceInv /\ [Next]_vars => OnceInv'
<1> SUFFICES ASSUME TypeOK, BulkInv, OnceInv, [Next]_vars PROVE OnceInv'
  OBVIOUS
<1>1. ASSUME NEW c \in Client, UNCHANGED <<jobs, arrays, given, pc, call, lost>> PROVE OnceInv'
  BY <1>1, OnceKept DEF Carried, Calling
<1>2. ASSUME NEW c \in Client, ControlStep(c) PROVE OnceInv'
  <2>1. UNCHANGED <<jobs, arrays, given>>
    BY <1>2 DEF ControlStep
  <2>2. CASE Began(c)
    <3>1. PICK p \in {"categorising", "checked", "loop"} : \E k :
             At(c, p, k) /\ k.ids = <<>> /\ pc[c] = "idle" /\ UNCHANGED lost
      BY <2>2 DEF Began
    <3>2. PICK k : At(c, p, k) /\ k.ids = <<>> /\ pc[c] = "idle" /\ UNCHANGED lost
      BY <3>1
    <3>3. Carried(c)' = {} /\ Carried(c) = {}
      <4>1. Carried(c)' = ToSet(k.ids) \ {0}
        BY <3>2, CarriedAt
      <4>2. ToSet(k.ids) = {}
        BY <3>2, EmptyIds
      <4>3. Carried(c) = {}
        BY <3>2 DEF Carried, Calling
      <4> QED
        BY <4>1, <4>2, <4>3
    <3> QED
      BY <2>1, <3>2, <3>3, CarriedAt, OnceKept
  <2>3. CASE Checks(c)
    <3>1. PICK p \in {"categorising", "checked"} :
             At(c, p, call[c]) /\ Calling(c) /\ UNCHANGED lost
      BY <2>3 DEF Checks, Calling
    <3>2. Carried(c)' = Carried(c)
      BY <3>1, CarriedAt DEF Carried
    <3> QED
      BY <2>1, <3>1, <3>2, CarriedAt, OnceKept
  <2>4. CASE Stops(c)
    <3>1. CASE Ends(c, "crashed")
      BY <2>1, <3>1, CarriedAt, OnceKept DEF Ends
    <3>2. CASE ~call[c].bulk /\ Calling(c) /\ Ends(c, "idle")
      BY <2>1, <3>2, CarriedAt, SingleCarriesNothing, OnceKept DEF Ends
    <3> QED
      BY <2>4, <3>1, <3>2 DEF Stops
  <2> QED
    BY <1>1, <1>2, <2>1, <2>2, <2>3, <2>4 DEF ControlStep
<1>3. ASSUME NEW c \in Client, NEW index, NEW p \in {"templateSaved", "arraySaving"},
             Calling(c), Stores(c, index, p)
      PROVE  OnceInv'
  <2>1. UNCHANGED <<jobs, arrays, given, lost>> /\ call[c] \in Call
    BY <1>3 DEF Stores, TypeOK
  <2>2. PICK k : At(c, p, k) /\ k.ids = call[c].ids
    <3>1. CASE /\ templates' = Append(templates, Filled(call[c].content, index))
               /\ At(c, p, [call[c] EXCEPT !.row = Len(templates')])
      BY <2>1, <3>1 DEF Call
    <3>2. CASE At(c, p, [call[c] EXCEPT !.row = 0, !.failed = TRUE])
      <4>1. [call[c] EXCEPT !.row = 0, !.failed = TRUE].ids = call[c].ids
        BY <2>1, StoredCall
      <4> QED
        BY <3>2, <4>1
    <3> QED
      BY <1>3, <3>1, <3>2 DEF Stores
  <2>3. Carried(c)' = Carried(c)
    BY <1>3, <2>2, CarriedAt DEF Carried
  <2> QED
    BY <2>1, <2>2, <2>3, CarriedAt, OnceKept
<1>4. ASSUME NEW c \in Client, Inserts(c) PROVE OnceInv'
  <2>1. UNCHANGED <<arrays, lost>> /\ pc[c] = "templateSaved" /\ call[c] \in Call /\ Calling(c)
    BY <1>4 DEF Inserts, TypeOK, Calling
  <2>2. ASSUME NEW id \in Nat, NEW failed \in BOOLEAN, Goes(c, id, failed)
        PROVE  /\ Carried(c)' = IF call[c].bulk THEN Carried(c) \union ({id} \ {0}) ELSE Carried(c)
               /\ \A d \in Client \ {c} : Carried(d)' = Carried(d)
    <3>1. CASE call[c].bulk
      <4>1. At(c, "loop", NextCall(call[c], id, failed))
        BY <2>2, <3>1 DEF Goes
      <4>2. ToSet(NextCall(call[c], id, failed).ids) = ToSet(call[c].ids) \union {id}
        <5>1. NextCall(call[c], id, failed).ids = Append(call[c].ids, id)
          BY <2>1, NextCallType
        <5>2. call[c].ids \in Ids
          BY <2>1 DEF Call
        <5> QED
          BY <5>1, <5>2, AppendedSet
      <4> QED
        BY <2>1, <3>1, <4>1, <4>2, CarriedAt DEF Carried
    <3>2. CASE ~call[c].bulk
      BY <2>1, <2>2, <3>2, CarriedAt, SingleCarriesNothing DEF Goes
    <3> QED
      BY <3>1, <3>2
  <2>3. CASE /\ jobs' = Append(jobs, NewJob(c)) /\ given' = Append(given, NewOrigin(c))
             /\ Goes(c, Len(jobs'), call[c].failed)
    <3> DEFINE new == Len(jobs')
    <3>1. /\ DOMAIN jobs' = DOMAIN jobs \union {new} /\ new \notin DOMAIN jobs
          /\ new \in Nat /\ new # 0
          /\ \A j \in DOMAIN jobs : given'[j] = given[j]
          /\ given'[new] = NewOrigin(c)
      BY <2>1, <2>3, InsertedRow
    <3>2. given'[new].bulk = call[c].bulk
      BY <3>1 DEF NewOrigin
    <3>3. /\ Carried(c)' = IF call[c].bulk THEN Carried(c) \union {new} ELSE Carried(c)
          /\ \A d \in Client \ {c} : Carried(d)' = Carried(d)
      <4>1. call[c].failed \in BOOLEAN
        BY <2>1 DEF Call
      <4> QED
        BY <2>2, <2>3, <3>1, <4>1
    <3>4. \A a \in DOMAIN arrays : Listed(a)' = Listed(a)
      BY <2>1 DEF Listed
    <3>5. lost \subseteq DOMAIN jobs
      BY DEF TypeOK
    <3> HIDE DEF new
    <3> QED
      BY <2>1, <3>1, <3>2, <3>3, <3>4, <3>5 DEF OnceInv
  <2>4. CASE UNCHANGED <<jobs, given>> /\ Goes(c, 0, TRUE)
    BY <2>1, <2>2, <2>4, OnceKept
  <2> QED
    BY <1>4, <2>3, <2>4 DEF Inserts
<1>5. ASSUME NEW c \in Client, Saves(c) PROVE OnceInv'
  <2>1. /\ UNCHANGED <<jobs, given>> /\ pc[c] = "arraySaving" /\ Calling(c)
        /\ Carried(c)' = {} /\ \A d \in Client \ {c} : Carried(d)' = Carried(d)
    BY <1>5, CarriedAt DEF Saves, Calling
  <2>2. CASE arrays' = Append(arrays, NewArray(c)) /\ UNCHANGED lost
    <3>0. PICK new : new = Len(arrays) + 1
      OBVIOUS
    <3>1. /\ DOMAIN arrays' = DOMAIN arrays \union {new} /\ new \notin DOMAIN arrays
          /\ \A a \in DOMAIN arrays : arrays'[a] = arrays[a]
          /\ arrays'[new] = NewArray(c)
      BY <2>1, <2>2, <3>0, SavedRow
    <3>2. /\ \A a \in DOMAIN arrays : Listed(a)' = Listed(a)
          /\ Listed(new)' = Carried(c)
      <4>1. NewArray(c).jobs = call[c].ids
        BY DEF NewArray
      <4>2. arrays'[new].jobs = call[c].ids
        BY <3>1, <4>1
      <4>3. Listed(new)' = ToSet(call[c].ids) \ {0}
        BY <4>2 DEF Listed, ToSet
      <4>4. \A a \in DOMAIN arrays : Listed(a)' = Listed(a)
        BY <3>1 DEF Listed, ToSet
      <4> QED
        BY <2>1, <4>3, <4>4 DEF Carried
    <3>3. \A a \in DOMAIN arrays' : /\ Listed(a)' \subseteq DOMAIN jobs
                                   /\ Listed(a)' \intersect lost = {}
      BY <3>1, <3>2 DEF OnceInv
    <3>4. \A a, b \in DOMAIN arrays' : a # b => Listed(a)' \intersect Listed(b)' = {}
      BY <3>1, <3>2 DEF OnceInv
    <3>5. \A d \in Client : /\ Carried(d)' \subseteq DOMAIN jobs
                            /\ Carried(d)' \intersect lost = {}
      BY <2>1 DEF OnceInv
    <3>6. \A d, e \in Client : d # e => Carried(d)' \intersect Carried(e)' = {}
      BY <2>1 DEF OnceInv
    <3>7. \A d \in Client, a \in DOMAIN arrays' : Carried(d)' \intersect Listed(a)' = {}
      BY <2>1, <3>1, <3>2 DEF OnceInv
    <3>8. \A j \in DOMAIN jobs : given[j].bulk =>
             \/ j \in lost
             \/ \E d \in Client : j \in Carried(d)'
             \/ \E a \in DOMAIN arrays' : j \in Listed(a)'
      BY <2>1, <3>1, <3>2 DEF OnceInv
    <3> QED
      BY <2>1, <2>2, <3>3, <3>4, <3>5, <3>6, <3>7, <3>8 DEF OnceInv
  <2>3. CASE UNCHANGED arrays /\ lost' = lost \union Carried(c)
    BY <2>1, <2>3, OnceKept
  <2> QED
    BY <1>5, <2>2, <2>3 DEF Saves
<1>6. CASE UNCHANGED vars
  BY <1>6 DEF vars, tables, history, OnceInv, Carried, Calling, Listed
<1> QED
  BY <1>1, <1>2, <1>3, <1>4, <1>5, <1>6, SessionCallKeeps, NextCases DEF Calling

---------------------------------------------------------------------------
(* The loop of a bulk call, as facts about its locals.                      *)

Extends(s, t) == \A i \in DOMAIN s : i \in DOMAIN t /\ t[i] = s[i]

LEMMA SubmittedExtends ==
    ASSUME NEW k, NEW m, NEW g, NEW g2, Submitted(k, m, g), Extends(g, g2)
    PROVE  Submitted(k, m, g2)
BY DEF Submitted, Extends

LEMMA InCallExtends ==
    ASSUME NEW p, NEW k, NEW m, NEW g, NEW g2, NEW t, NEW t2,
           InCall(p, k, m, g, t), Extends(g, g2), Extends(t, t2)
    PROVE  InCall(p, k, m, g2, t2)
<1>1. ArrayTemplate(k, t) => ArrayTemplate(k, t2)
  BY DEF ArrayTemplate, Extends
<1>2. Submitted(k, m, g) => Submitted(k, m, g2)
  BY SubmittedExtends
<1> QED
  BY <1>1, <1>2 DEF InCall, InLoop

LEMMA KeptExtends ==
    ASSUME NEW row, NEW g, NEW g2, NEW t, NEW t2,
           Kept(row, g, t), Extends(g, g2), Extends(t, t2)
    PROVE  Kept(row, g2, t2)
<1>1. ArrayTemplate(row.call, t) => ArrayTemplate(row.call, t2)
  BY DEF ArrayTemplate, Extends
<1>2. Submitted(row.call, row.made, g) => Submitted(row.call, row.made, g2)
  BY SubmittedExtends
<1> QED
  BY <1>1, <1>2 DEF Kept

LEMMA CallNumbers ==
    ASSUME NEW k \in Call
    PROVE  /\ k.range[1] \in Nat /\ k.range[2] \in Nat /\ k.range[3] \in Nat /\ k.range[3] > 0
           /\ k.index \in Nat /\ Len(k.ids) \in Nat /\ DOMAIN k.ids = 1 .. Len(k.ids)
           /\ k.row \in Nat
<1>1. k.ids \in Seq(Nat) /\ k.range \in Nat \X Nat \X (Nat \ {0}) /\ k.index \in Nat /\ k.row \in Nat
  BY DEF Call, Ids
<1> QED
  BY <1>1, LenProperties

\* A call begins with no jobs.
LEMMA LoopBegins ==
    ASSUME NEW t, NEW b \in Nat \X Nat \X (Nat \ {0}), NEW bulk \in BOOLEAN,
           NEW p \in {"categorising", "checked", "loop"},
           IF bulk THEN p = "loop" /\ b[1] <= b[2] ELSE p # "loop",
           NEW m, NEW g, NEW ts
    PROVE  InCall(p, [bulk |-> bulk, content |-> t, range |-> b, index |-> b[1],
                      row |-> 0, ids |-> <<>>, failed |-> FALSE], m, g, ts)
<1> DEFINE k == [bulk |-> bulk, content |-> t, range |-> b, index |-> b[1],
                 row |-> 0, ids |-> <<>>, failed |-> FALSE]
<1>1. b[1] \in Nat /\ b[2] \in Nat /\ b[3] \in Nat
  OBVIOUS
<1>2. k.index = b[1] + Len(k.ids) * b[3] /\ DOMAIN k.ids = {}
  BY <1>1, EmptyIds
<1>3. Submitted(k, m, g)
  BY <1>2 DEF Submitted
<1>4. k.range = b /\ k.bulk = bulk /\ k.ids = <<>> /\ Len(k.ids) = 0
  BY EmptyIds
<1> HIDE DEF k
<1>5. ASSUME bulk PROVE InCall(p, k, m, g, ts)
  <2>1. k.index = k.range[1] + Len(k.ids) * k.range[3] /\ ~(Len(k.ids) > 0)
        /\ k.range[1] <= k.range[2] /\ p = "loop"
    BY <1>2, <1>4, <1>5
  <2>2. InLoop(p, k, m, g, ts)
    BY <1>3, <2>1 DEF InLoop
  <2> QED
    BY <1>4, <1>5, <2>2 DEF InCall
<1>6. ASSUME ~bulk PROVE InCall(p, k, m, g, ts)
  BY <1>4, <1>6 DEF InCall
<1> QED
  BY <1>5, <1>6 DEF k

\* The checks are made for an index of the range.
LEMMA LoopChecks ==
    ASSUME NEW p, NEW q, NEW k, NEW m, NEW g, NEW t, InCall(p, k, m, g, t),
           \/ p = "loop" /\ k.index <= k.range[2] /\ q \in {"categorising", "checked"}
           \/ p = "categorising" /\ q = "checked"
    PROVE  InCall(q, k, m, g, t)
BY DEF InCall, InLoop

\* The locals after the INSERT of a template.
LEMMA LoopStoresJob ==
    ASSUME NEW k \in Call, NEW l \in Call, NEW m, NEW g, NEW t,
           InCall("checked", k, m, g, t),
           l.bulk = k.bulk, l.content = k.content, l.range = k.range, l.index = k.index,
           l.ids = k.ids, l.row = 0 => l.failed, k.failed => l.failed
    PROVE  InCall("templateSaved", l, m, g, t)
<1>1. Submitted(k, m, g) => Submitted(l, m, g)
  BY DEF Submitted
<1> QED
  BY <1>1 DEF InCall, InLoop

LEMMA LoopStoresArray ==
    ASSUME NEW k \in Call, NEW l \in Call, NEW m, NEW g, NEW t,
           InCall("loop", k, m, g, t), k.index > k.range[2], ArrayTemplate(l, t),
           l.bulk = k.bulk, l.content = k.content, l.range = k.range, l.index = k.index,
           l.ids = k.ids, k.failed => l.failed
    PROVE  InCall("arraySaving", l, m, g, t)
<1>1. Submitted(k, m, g) => Submitted(l, m, g)
  BY DEF Submitted
<1> QED
  BY <1>1 DEF InCall, InLoop

LEMMA NextIndex ==
    ASSUME NEW a \in Nat, NEW s \in Nat, NEW n \in Nat, NEW i, i = a + n * s
    PROVE  i + s = a + (n + 1) * s
<1>1. (n + 1) * s = n * s + s /\ n * s \in Nat
  OBVIOUS
<1> QED
  BY <1>1

\* The locals after the INSERT of a job.
LEMMA LoopGoesOn ==
    ASSUME NEW k \in Call, k.bulk, NEW m, NEW g, NEW t, NEW id \in Nat, NEW failed \in BOOLEAN,
           InCall("templateSaved", k, m, g, t), k.failed => failed,
           id = 0 => failed,
           id # 0 => /\ id \in DOMAIN g
                     /\ g[id].template = IF k.row = 0 THEN None ELSE Filled(k.content, k.index)
                     /\ g[id].made = m,
           ~failed => g[id].template # None
    PROVE  InCall("loop", NextCall(k, id, failed), m, g, t)
<1> DEFINE l == NextCall(k, id, failed)
           n == Len(k.ids)
<1>1. /\ l \in Call /\ l.bulk /\ l.content = k.content /\ l.range = k.range
      /\ l.index = k.index + k.range[3] /\ l.ids = Append(k.ids, id) /\ l.failed = failed
  BY NextCallType
<1>2. InLoop("templateSaved", k, m, g, t)
  BY DEF InCall
<1>3. /\ k.range[1] \in Nat /\ k.range[2] \in Nat /\ k.range[3] \in Nat /\ k.range[3] > 0
      /\ k.index \in Nat /\ n \in Nat /\ DOMAIN k.ids = 1 .. n
  BY CallNumbers
<1>4. /\ Len(l.ids) = n + 1 /\ DOMAIN l.ids = 1 .. n + 1
      /\ \A i \in 1 .. n : l.ids[i] = k.ids[i]
      /\ l.ids[n + 1] = id
  <2>1. k.ids \in Seq(Nat)
    BY DEF Call, Ids
  <2> QED
    BY <1>1, <2>1, Appended
<1>5. /\ k.range[1] <= k.range[2] /\ k.index <= k.range[2]
      /\ k.index = k.range[1] + n * k.range[3] /\ Submitted(k, m, g)
  BY <1>2 DEF InLoop
<1> HIDE DEF l, n
<1>6. k.index + k.range[3] = k.range[1] + (n + 1) * k.range[3]
  <2> DEFINE a == k.range[1]
             s == k.range[3]
             i == k.index
  <2>1. a \in Nat /\ s \in Nat /\ n \in Nat /\ i = a + n * s
    BY <1>3, <1>5
  <2> HIDE DEF a, s, i
  <2>2. i + s = a + (n + 1) * s
    BY ONLY <2>1, NextIndex
  <2> QED
    BY <2>2 DEF a, s, i
<1>7. Submitted(l, m, g)
  <2>1. ASSUME NEW i \in DOMAIN l.ids, l.ids[i] # 0
        PROVE  /\ l.ids[i] \in DOMAIN g
               /\ g[l.ids[i]].template \in {None, Filled(k.content, k.range[1] + (i - 1) * k.range[3])}
               /\ g[l.ids[i]].made = m
    <3>1. CASE i \in 1 .. n
      BY <1>3, <1>4, <1>5, <2>1, <3>1 DEF Submitted
    <3>2. CASE i = n + 1
      <4>1. k.range[1] + (i - 1) * k.range[3] = k.index
        BY <1>3, <1>5, <3>2
      <4> QED
        BY <1>4, <2>1, <3>2, <4>1
    <3> QED
      BY <1>3, <1>4, <3>1, <3>2
  <2>2. ASSUME ~l.failed, NEW i \in DOMAIN l.ids
        PROVE  l.ids[i] # 0 /\ g[l.ids[i]].template # None
    <3>1. CASE i \in 1 .. n
      BY <1>1, <1>3, <1>4, <1>5, <2>2, <3>1 DEF Submitted
    <3>2. CASE i = n + 1
      BY <1>1, <1>4, <2>2, <3>2
    <3> QED
      BY <1>3, <1>4, <3>1, <3>2
  <2> QED
    BY <1>1, <2>1, <2>2 DEF Submitted
<1>8. InLoop("loop", l, m, g, t)
  <2>1. Len(l.ids) - 1 = n
    BY <1>3, <1>4
  <2> QED
    BY <1>1, <1>3, <1>4, <1>5, <1>6, <1>7, <2>1 DEF InLoop
<1> QED
  BY <1>1, <1>8 DEF InCall, l

\* When the index has left the range, there is one job for each of its indices.
LEMMA Quotient ==
    ASSUME NEW d \in Nat, NEW s \in Nat, s > 0, NEW n \in Nat, n > 0,
           (n - 1) * s <= d, d < n * s
    PROVE  n = d \div s + 1
<1>1. d \div s \in Int /\ s * (d \div s) <= d /\ d < s * (d \div s) + s
  OBVIOUS
<1> DEFINE q == d \div s
<1> HIDE DEF q
<1>2. q \in Int /\ s * q <= d /\ d < s * q + s
  BY <1>1 DEF q
<1>3. ~(q < n - 1)
  <2>1. ASSUME q < n - 1 PROVE FALSE
    <3>1. s * (q + 1) <= s * (n - 1)
      BY <1>2, <2>1
    <3> QED
      BY <1>2, <3>1
  <2> QED
    BY <2>1
<1>4. ~(q > n - 1)
  <2>1. ASSUME q > n - 1 PROVE FALSE
    <3>1. s * n <= s * q
      BY <1>2, <2>1
    <3> QED
      BY <1>2, <3>1
  <2> QED
    BY <2>1
<1> QED
  BY <1>2, <1>3, <1>4 DEF q

LEMMA LoopIsOver ==
    ASSUME NEW k \in Call, k.bulk, NEW m, NEW g, NEW t, InCall("arraySaving", k, m, g, t)
    PROVE  Kept([template_id |-> k.row, jobs |-> k.ids, call |-> k, made |-> m], g, t)
<1> DEFINE n == Len(k.ids)
<1>1. /\ k.range[1] \in Nat /\ k.range[2] \in Nat /\ k.range[3] \in Nat /\ k.range[3] > 0
      /\ k.index \in Nat /\ n \in Nat
  BY CallNumbers
<1>2. /\ k.range[1] <= k.range[2] /\ k.index = k.range[1] + n * k.range[3]
      /\ n > 0 => k.range[1] + (n - 1) * k.range[3] <= k.range[2]
      /\ k.index > k.range[2] /\ ArrayTemplate(k, t) /\ Submitted(k, m, g)
  BY DEF InCall, InLoop
<1> HIDE DEF n
<1>3. n > 0
  <2>1. n = 0 => n * k.range[3] = 0
    BY <1>1
  <2> QED
    BY <1>1, <1>2, <2>1
<1>4. n = (k.range[2] - k.range[1]) \div k.range[3] + 1
  <2> DEFINE d == k.range[2] - k.range[1]
  <2>1. d \in Nat /\ (n - 1) * k.range[3] <= d /\ d < n * k.range[3]
    <3>1. (n - 1) * k.range[3] \in Int /\ n * k.range[3] \in Int
      BY <1>1
    <3> QED
      BY <1>1, <1>2, <1>3, <3>1
  <2> QED
    BY <1>1, <1>3, <2>1, Quotient
<1> QED
  BY <1>2, <1>4 DEF Kept, n

---------------------------------------------------------------------------
(* Bulk calls and arrays.                                                   *)

LEMMA BulkKept ==
    ASSUME BulkInv, NEW c \in Client,
           Extends(given, given'), Extends(templates, templates'),
           \A d \in Client \ {c} :
               pc'[d] = pc[d] /\ call'[d] = call[d] /\ handle'[d] = handle[d],
           Calling(c)' => InCall(pc'[c], call'[c], handle'[c].made, given', templates'),
           \/ UNCHANGED arrays
           \/ \A a \in DOMAIN arrays' :
                 \/ a \in DOMAIN arrays /\ arrays'[a] = arrays[a]
                 \/ Kept(arrays'[a], given', templates')
    PROVE  BulkInv'
<1>1. ASSUME NEW d \in Client \ {c}, Calling(d)'
      PROVE  InCall(pc'[d], call'[d], handle'[d].made, given', templates')
  <2>1. InCall(pc[d], call[d], handle[d].made, given, templates)
    BY <1>1 DEF BulkInv, Calling
  <2>2. InCall(pc[d], call[d], handle[d].made, given', templates')
    BY <2>1, InCallExtends
  <2> QED
    BY <2>2
<1>2. ASSUME NEW a \in DOMAIN arrays' PROVE Kept(arrays'[a], given', templates')
  <2>1. CASE a \in DOMAIN arrays /\ arrays'[a] = arrays[a]
    <3>1. Kept(arrays[a], given, templates)
      BY <2>1 DEF BulkInv
    <3>2. Kept(arrays[a], given', templates')
      BY <3>1, KeptExtends
    <3> QED
      BY <2>1, <3>2
  <2> QED
    BY <2>1
<1>3. \A d \in Client : Calling(d)' =>
         InCall(pc'[d], call'[d], handle'[d].made, given', templates')
  BY <1>1
<1> QED
  BY <1>2, <1>3 DEF BulkInv

LEMMA Unextended == \A s, t : s = t => Extends(s, t)
BY DEF Extends

LEMMA BulkStep == TypeOK /\ BulkInv /\ [Next]_vars => BulkInv'
<1> SUFFICES ASSUME TypeOK, BulkInv, [Next]_vars PROVE BulkInv'
  OBVIOUS
<1>1. ASSUME NEW c \in Client, SessionCall(c) PROVE BulkInv'
  <2>1. /\ UNCHANGED <<templates, arrays, pc, call, given>> /\ pc[c] = "idle"
        /\ \A d \in Client \ {c} : handle'[d] = handle[d]
    BY <1>1, SessionCallKeeps, SessionCallType
  <2>2. ~Calling(c)'
    BY <2>1 DEF Calling
  <2> QED
    BY <2>1, <2>2, Unextended, BulkKept
<1>2. ASSUME NEW c \in Client, ControlStep(c) PROVE BulkInv'
  <2>1. /\ UNCHANGED <<templates, arrays, given>>
        /\ Extends(given, given') /\ Extends(templates, templates')
    BY <1>2, Unextended DEF ControlStep
  <2>2. CASE Began(c)
    <3>1. PICK t \in Content, b \in Nat \X Nat \X (Nat \ {0}), bulk \in BOOLEAN,
               p \in {"categorising", "checked", "loop"} :
             /\ IF bulk THEN p = "loop" /\ b[1] <= b[2] ELSE p # "loop"
             /\ At(c, p, [bulk |-> bulk, content |-> t, range |-> b, index |-> b[1],
                          row |-> 0, ids |-> <<>>, failed |-> FALSE])
             /\ UNCHANGED handle
      BY <2>2 DEF Began
    <3>2. PICK k : k = [bulk |-> bulk, content |-> t, range |-> b, index |-> b[1],
                        row |-> 0, ids |-> <<>>, failed |-> FALSE]
      OBVIOUS
    <3>3. InCall(p, k, handle[c].made, given, templates)
      BY <3>1, <3>2, LoopBegins
    <3>4. /\ pc'[c] = p /\ call'[c] = k
          /\ \A d \in Client \ {c} : pc'[d] = pc[d] /\ call'[d] = call[d]
      BY <3>1, <3>2 DEF At, TypeOK
    <3> QED
      BY <2>1, <3>1, <3>3, <3>4, BulkKept
  <2>3. CASE Checks(c)
    <3>1. PICK p \in {"categorising", "checked"} :
             /\ At(c, p, call[c]) /\ Calling(c) /\ UNCHANGED handle
             /\ \/ pc[c] = "loop" /\ call[c].index <= call[c].range[2]
                \/ pc[c] = "categorising" /\ p = "checked"
      BY <2>3 DEF Checks, Calling
    <3>2. InCall(p, call[c], handle[c].made, given, templates)
      <4>1. InCall(pc[c], call[c], handle[c].made, given, templates)
        BY <3>1 DEF BulkInv
      <4> QED
        BY <3>1, <4>1, LoopChecks
    <3>3. /\ pc'[c] = p /\ call'[c] = call[c]
          /\ \A d \in Client \ {c} : pc'[d] = pc[d] /\ call'[d] = call[d]
      BY <3>1 DEF At, TypeOK
    <3> QED
      BY <2>1, <3>1, <3>2, <3>3, BulkKept
  <2>4. CASE Stops(c)
    <3>1. PICK p \in {"idle", "crashed"} : Ends(c, p)
      BY <2>4 DEF Stops
    <3>2. /\ ~Calling(c)'
          /\ \A d \in Client \ {c} :
                pc'[d] = pc[d] /\ call'[d] = call[d] /\ handle'[d] = handle[d]
      BY <3>1 DEF Ends, At, TypeOK, Calling
    <3> QED
      BY <2>1, <3>2, BulkKept
  <2>5. CASE UNCHANGED <<pc, call, handle, lost>>
    BY <2>1, <2>5 DEF BulkInv, Calling
  <2> QED
    BY <1>2, <2>2, <2>3, <2>4, <2>5 DEF ControlStep
<1>3. ASSUME NEW c \in Client, NEW index \in Nat, NEW p, Stores(c, index, p),
             \/ pc[c] = "checked" /\ p = "templateSaved" /\ index = call[c].index
             \/ /\ pc[c] = "loop" /\ p = "arraySaving" /\ index = 0
                /\ call[c].index > call[c].range[2]
      PROVE  BulkInv'
  <2>1. /\ UNCHANGED <<arrays, given, handle>> /\ call[c] \in Call /\ Calling(c)
        /\ Extends(given, given')
        /\ InCall(pc[c], call[c], handle[c].made, given, templates)
    BY <1>3, Unextended DEF Stores, TypeOK, Calling, BulkInv
  <2>2. PICK l \in Call :
           /\ At(c, p, l) /\ Extends(templates, templates')
           /\ l.bulk = call[c].bulk /\ l.content = call[c].content /\ l.range = call[c].range
           /\ l.index = call[c].index /\ l.ids = call[c].ids
           /\ call[c].failed => l.failed
           /\ \/ l.row = 0 /\ l.failed
              \/ l.row \in DOMAIN templates' /\ l.row # 0 /\ templates'[l.row] = Filled(l.content, index)
    <3>1. CASE /\ templates' = Append(templates, Filled(call[c].content, index))
               /\ At(c, p, [call[c] EXCEPT !.row = Len(templates')])
      <4>1. Filled(call[c].content, index) \in Stored
        BY <2>1 DEF Call, Filled, Stored
      <4>2. /\ Len(templates') \in Nat /\ Len(templates') \in DOMAIN templates'
            /\ Len(templates') # 0 /\ Extends(templates, templates')
            /\ templates'[Len(templates')] = Filled(call[c].content, index)
        BY <3>1, <4>1, Appended DEF TypeOK, Extends
      <4>3. PICK l : l = [call[c] EXCEPT !.row = Len(templates')]
        OBVIOUS
      <4>4. /\ l \in Call /\ l.row = Len(templates') /\ l.failed = call[c].failed
            /\ l.bulk = call[c].bulk /\ l.content = call[c].content /\ l.range = call[c].range
            /\ l.index = call[c].index /\ l.ids = call[c].ids
        BY <2>1, <4>2, <4>3, StoredCall
      <4> QED
        BY <3>1, <4>2, <4>3, <4>4
    <3>2. CASE UNCHANGED templates /\ At(c, p, [call[c] EXCEPT !.row = 0, !.failed = TRUE])
      <4>1. PICK l : l = [call[c] EXCEPT !.row = 0, !.failed = TRUE]
        OBVIOUS
      <4>2. /\ l \in Call /\ l.row = 0 /\ l.failed
            /\ l.bulk = call[c].bulk /\ l.content = call[c].content /\ l.range = call[c].range
            /\ l.index = call[c].index /\ l.ids = call[c].ids
        BY <2>1, <4>1, StoredCall
      <4> QED
        BY <3>2, <4>1, <4>2, Unextended
    <3> QED
      BY <1>3, <3>1, <3>2 DEF Stores
  <2>3. InCall(pc[c], call[c], handle[c].made, given, templates')
    BY <2>1, <2>2, InCallExtends, Unextended
  <2>4. InCall(p, l, handle[c].made, given, templates')
    <3>1. CASE pc[c] = "checked" /\ p = "templateSaved"
      BY <2>1, <2>2, <2>3, <3>1, LoopStoresJob
    <3>2. CASE /\ pc[c] = "loop" /\ p = "arraySaving" /\ index = 0
               /\ call[c].index > call[c].range[2]
      <4>1. ArrayTemplate(l, templates')
        BY <2>2, <3>2 DEF ArrayTemplate
      <4> QED
        BY <2>1, <2>2, <2>3, <3>2, <4>1, LoopStoresArray
    <3> QED
      BY <1>3, <3>1, <3>2
  <2>5. /\ pc'[c] = p /\ call'[c] = l
        /\ \A d \in Client \ {c} : pc'[d] = pc[d] /\ call'[d] = call[d]
    BY <2>2 DEF At, TypeOK
  <2> QED
    BY <2>1, <2>2, <2>4, <2>5, BulkKept
<1>4. ASSUME NEW c \in Client, Inserts(c) PROVE BulkInv'
  <2>1. /\ UNCHANGED <<templates, arrays, handle>> /\ pc[c] = "templateSaved"
        /\ call[c] \in Call /\ Calling(c) /\ Extends(templates, templates')
        /\ InCall("templateSaved", call[c], handle[c].made, given, templates)
    BY <1>4, Unextended DEF Inserts, TypeOK, Calling, BulkInv
  <2>2. PICK id \in Nat, failed \in BOOLEAN :
           /\ Goes(c, id, failed) /\ Extends(given, given')
           /\ call[c].failed => failed
           /\ \/ id = 0 /\ failed
              \/ /\ id # 0 /\ id \in DOMAIN given' /\ failed = call[c].failed
                 /\ given'[id].made = handle[c].made
                 /\ given'[id].template = IF call[c].row = 0 THEN None
                                          ELSE Filled(call[c].content, call[c].index)
    <3>1. CASE /\ jobs' = Append(jobs, NewJob(c)) /\ given' = Append(given, NewOrigin(c))
               /\ Goes(c, Len(jobs'), call[c].failed)
      <4>1. /\ Len(jobs') \in Nat /\ Len(jobs') # 0 /\ Len(given') = Len(jobs')
            /\ given'[Len(jobs')] = NewOrigin(c) /\ given' \in Seq(Origin)
            /\ DOMAIN jobs' = DOMAIN jobs \union {Len(jobs')}
            /\ jobs' \in Seq(Job) /\ \A j \in DOMAIN jobs : given'[j] = given[j]
        BY <2>1, <3>1, InsertedRow
      <4>2. DOMAIN given' = DOMAIN jobs' /\ DOMAIN given = DOMAIN jobs
        BY <4>1, LenProperties DEF TypeOK
      <4>3. Extends(given, given')
        BY <4>1, <4>2 DEF Extends
      <4>4. /\ NewOrigin(c).made = handle[c].made
            /\ NewOrigin(c).template = IF call[c].row = 0 THEN None
                                       ELSE Filled(call[c].content, call[c].index)
        BY DEF NewOrigin
      <4>5. call[c].failed \in BOOLEAN
        BY <2>1 DEF Call
      <4> QED
        BY <3>1, <4>1, <4>2, <4>3, <4>4, <4>5
    <3>2. CASE UNCHANGED <<jobs, given>> /\ Goes(c, 0, TRUE)
      BY <3>2, Unextended
    <3> QED
      BY <1>4, <3>1, <3>2 DEF Inserts
  <2>3. CASE call[c].bulk
    <3>1. /\ pc'[c] = "loop" /\ call'[c] = NextCall(call[c], id, failed)
          /\ \A d \in Client \ {c} : pc'[d] = pc[d] /\ call'[d] = call[d]
      BY <2>2, <2>3 DEF Goes, At, TypeOK
    <3>2. InCall("templateSaved", call[c], handle[c].made, given', templates)
      BY <2>1, <2>2, Unextended, InCallExtends
    <3>3. ~failed => given'[id].template # None
      <4>1. Filled(call[c].content, call[c].index) # None
        BY <2>1, SessionsAssumption DEF Filled, Call
      <4>2. ~failed => call[c].row # 0
        BY <2>1, <2>2, <2>3 DEF InCall, InLoop
      <4> QED
        BY <2>2, <4>1, <4>2
    <3>4. InCall("loop", NextCall(call[c], id, failed), handle[c].made, given', templates)
      BY <2>1, <2>2, <2>3, <3>2, <3>3, LoopGoesOn
    <3> QED
      BY <2>1, <2>2, <3>1, <3>4, BulkKept
  <2>4. CASE ~call[c].bulk
    <3>1. /\ ~Calling(c)'
          /\ \A d \in Client \ {c} : pc'[d] = pc[d] /\ call'[d] = call[d]
      BY <2>2, <2>4 DEF Goes, At, TypeOK, Calling
    <3> QED
      BY <2>1, <2>2, <3>1, BulkKept
  <2> QED
    BY <2>3, <2>4
<1>5. ASSUME NEW c \in Client, Saves(c) PROVE BulkInv'
  <2>1. /\ UNCHANGED <<templates, given, handle>> /\ pc[c] = "arraySaving" /\ Calling(c)
        /\ Extends(given, given') /\ Extends(templates, templates') /\ At(c, "idle", None)
    BY <1>5, Unextended DEF Saves, Calling
  <2>2. /\ ~Calling(c)'
        /\ \A d \in Client \ {c} : pc'[d] = pc[d] /\ call'[d] = call[d]
    BY <2>1 DEF At, TypeOK, Calling
  <2>3. CASE arrays' = Append(arrays, NewArray(c))
    <3>1. call[c] \in Call /\ call[c].bulk
          /\ InCall("arraySaving", call[c], handle[c].made, given, templates)
      BY <2>1 DEF TypeOK, BulkInv, InCall
    <3>2. Kept(NewArray(c), given, templates)
      BY <3>1, LoopIsOver DEF NewArray
    <3>3. \A a \in DOMAIN arrays' :
             \/ a \in DOMAIN arrays /\ arrays'[a] = arrays[a]
             \/ Kept(arrays'[a], given', templates')
      BY <2>1, <2>3, <3>2, SavedRow
    <3> QED
      BY <2>1, <2>2, <3>3, BulkKept
  <2>4. CASE UNCHANGED arrays
    BY <2>1, <2>2, <2>4, BulkKept
  <2> QED
    BY <1>5, <2>3, <2>4 DEF Saves
<1>6. CASE UNCHANGED vars
  BY <1>6 DEF vars, tables, history, BulkInv, Calling
<1>7. ASSUME NEW c \in Client, Calling(c) PROVE call[c].index \in Nat
  BY <1>7 DEF TypeOK, Call
<1> QED
  BY <1>1, <1>2, <1>3, <1>4, <1>5, <1>6, <1>7, NextCases DEF Calling

---------------------------------------------------------------------------
(* The invariant, and what follows from it.                                 *)

LEMMA InvInit == Init => IInv
<1> SUFFICES ASSUME Init PROVE IInv
  OBVIOUS
<1>1. TypeOK
  BY TypeInit
<1>2. /\ DOMAIN jobs = {} /\ DOMAIN arrays = {}
      /\ \A c \in Client : pc[c] = "idle"
  BY EmptyIds DEF Init
<1>3. \A c \in Client : ~Calling(c)
  BY <1>2 DEF Calling
<1>4. lost = {} /\ \A c \in Client : Carried(c) = {}
  BY <1>3 DEF Carried, Init
<1> QED
  BY <1>1, <1>2, <1>3, <1>4
  DEF IInv, SessionInv, TemplateInv, SubmittedTemplate, OnceInv, BulkInv

LEMMA Invariance == Spec => []IInv
<1>1. IInv /\ [Next]_vars => IInv'
  BY TypeStep, SessionStep, TemplateStep, OnceStep, BulkStep DEF IInv
<1> QED
  BY InvInit, <1>1, PTL DEF Spec

\* Rows and handles are those of sessions that were created, row ids are those of rows,
\* and no call goes on without a session handle.
THEOREM TypeCorrect == Spec => []TypeOK
<1>1. IInv => TypeOK
  BY DEF IInv
<1> QED
  BY Invariance, <1>1, PTL

\* However many clients store templates between the two INSERTs of a job, its row refers
\* to the template it was submitted with.
THEOREM TemplateSafety == Spec => []SubmittedTemplate
<1>1. IInv => SubmittedTemplate
  BY DEF IInv
<1> QED
  BY Invariance, <1>1, PTL

\* A session handle lists the jobs of its own session, and those of a session of the
\* same name and id only.
THEOREM IsolationSafety == Spec => []SessionIsolation
<1>1. IInv => SessionIsolation
  <2> SUFFICES ASSUME TypeOK, SessionInv,
                      NEW c \in Client, handle[c] # None, NEW j \in DOMAIN jobs
               PROVE  LET same == given[j].made = handle[c].made
                      IN  \/ (j \in JobsOf(handle[c])) <=> same
                          \/ ~same /\ Collision(given[j].made, handle[c].made)
    BY DEF IInv, SessionIsolation
  <2>1. created[handle[c].made] = [name |-> handle[c].name, id |-> handle[c].id]
    BY MadeRows DEF Made
  <2>2. created[given[j].made] = [name |-> jobs[j].session_name, id |-> jobs[j].session_id]
    BY DEF SessionInv
  <2>3. j \in JobsOf(handle[c]) <=> /\ jobs[j].session_name = handle[c].name
                                    /\ jobs[j].session_id = handle[c].id
    BY DEF JobsOf
  <2> QED
    BY <2>1, <2>2, <2>3 DEF Collision
<1> QED
  BY Invariance, <1>1, PTL

\* An array lists one job for each index of its range, in order, through its own session
\* and with its own placeholders, and no job of a bulk call is forgotten or in two arrays.
THEOREM ArraySafety == Spec => []ArrayComplete
<1>1. IInv => ArrayComplete
  <2> SUFFICES ASSUME TypeOK, OnceInv, BulkInv PROVE ArrayComplete
    BY DEF IInv
  <2>1. ASSUME NEW a \in DOMAIN arrays
        PROVE  LET r == arrays[a].call.range
                   content == arrays[a].call.content
                   ids == arrays[a].jobs
                   id == arrays[a].template_id
               IN  /\ id # 0 => templates[id] = Filled(content, 0)
                   /\ Len(ids) = (r[2] - r[1]) \div r[3] + 1
                   /\ \A k \in DOMAIN ids : ids[k] # 0 =>
                         /\ given[ids[k]].template \in {None, Filled(content, r[1] + (k - 1) * r[3])}
                         /\ given[ids[k]].made = arrays[a].made
                   /\ ~arrays[a].call.failed =>
                         /\ 0 \notin {id} \union ToSet(ids)
                         /\ \A k \in DOMAIN ids : given[ids[k]].template # None
    <3>1. Kept(arrays[a], given, templates)
      BY DEF BulkInv
    <3> QED
      BY <3>1 DEF Kept, ArrayTemplate, Submitted, ToSet
  <2>2. ASSUME NEW j \in DOMAIN jobs, given[j].bulk
        PROVE  LET in == {a \in DOMAIN arrays : j \in ToSet(arrays[a].jobs)}
               IN  \/ in = {} /\ (j \in lost \/ \E c \in Client : Calling(c) /\ j \in ToSet(call[c].ids))
                   \/ j \notin lost /\ \E a \in in : in = {a}
    <3> DEFINE in == {a \in DOMAIN arrays : j \in ToSet(arrays[a].jobs)}
    <3>1. j # 0
      BY LenProperties DEF TypeOK
    <3>2. /\ in = {a \in DOMAIN arrays : j \in Listed(a)}
          /\ \A c \in Client : j \in Carried(c) <=> Calling(c) /\ j \in ToSet(call[c].ids)
      BY <3>1 DEF Listed, Carried
    <3>3. CASE \E a \in DOMAIN arrays : j \in Listed(a)
      <4>1. PICK a \in DOMAIN arrays : j \in Listed(a)
        BY <3>3
      <4>2. j \notin lost /\ \A b \in DOMAIN arrays : j \in Listed(b) => b = a
        BY <4>1 DEF OnceInv
      <4>3. in = {a}
        BY <3>2, <4>1, <4>2
      <4> QED
        BY <4>2, <4>3
    <3>4. CASE ~\E a \in DOMAIN arrays : j \in Listed(a)
      <4>1. in = {}
        BY <3>2, <3>4
      <4>2. j \in lost \/ \E c \in Client : j \in Carried(c)
        BY <2>2, <3>4 DEF OnceInv
      <4> QED
        BY <3>2, <4>1, <4>2
    <3> QED
      BY <3>3, <3>4
  <2> QED
    BY <2>1, <2>2 DEF ArrayComplete
<1> QED
  BY Invariance, <1>1, PTL

============================================================================
