---------------------------- MODULE Reservations ----------------------------
(***************************************************************************)
(* Reservation sessions and advance reservations: the tables                *)
(* reservation_sessions, reservation_templates and reservations.  A request *)
(* is three statements (the template, the reservation, the reservation's    *)
(* name); clients make requests at the same time, a client may die between  *)
(* two statements of one, a statement may fail, and drmaa2-reset-db may be  *)
(* run in the middle of it all.  Nothing is reserved: drmaa2_r_terminate    *)
(* does nothing, and but for a reset no row is deleted except a session's.  *)
(***************************************************************************)
EXTENDS Naturals, Sequences

CONSTANTS Client,      \* application processes
          Name,        \* names of reservation sessions
          Content,     \* what a reservation template may say, its name included
          Unquotable,  \* those whose name ends the quoted text it is put into
          None,        \* no handle, no row, no name
          MaxSessions, \* bound on sessions ever created
          MaxRequests, \* bound on requests
          MaxFaults    \* bound on statements that fail, and resets

ASSUME ReservationsAssumption ==
    /\ MaxSessions \in Nat /\ MaxRequests \in Nat /\ MaxFaults \in Nat
    /\ Unquotable \subseteq Content

VARIABLES
    sessions,      \* reservation_sessions: for each name its row, or None
    rtemplates,    \* reservation_templates, by row id
    reservations,  \* reservations, by row id: session, template_id, name
    handle,        \* the session handle each client holds
    pc,            \* where each client is in a request
    call,          \* the arguments and locals of the request
    made,          \* history: the names of the sessions created so far
    given,         \* history: for each reservation, its session, its template and
                   \* what became of the template until the reservation was stored
    disturbed,     \* history: rows of templates and reservations may be out of step
    lost,          \* history: reservations with an UPDATE that failed, never came,
                   \* or came from a request of before a reset
    faults         \* failed statements and resets so far

tables  == <<sessions, rtemplates, reservations>>
history == <<made, given, disturbed, lost, faults>>
vars    == <<tables, handle, pc, call, history>>

Valid(h) == sessions[h.name] # None

\* Faulty variant: without the WHERE clause.
ReservationsOfAll(h) == DOMAIN reservations

\* get_session_reservations compares the name; there is no id as jobs have one.
ReservationsOf(h) == {r \in DOMAIN reservations : reservations[r].session_name = h.name}

\* drmaa2_r_get_reservation_template passes the id of the reservation for the row
\* id of a template.
GetRTemplate(r) == IF r \in DOMAIN rtemplates THEN rtemplates[r] ELSE None

Init ==
    /\ sessions = [n \in Name |-> None]
    /\ rtemplates = <<>> /\ reservations = <<>>
    /\ handle = [c \in Client |-> None]
    /\ pc = [c \in Client |-> "idle"]
    /\ call = [c \in Client |-> None]
    /\ made = <<>> /\ given = <<>>
    /\ disturbed = FALSE
    /\ lost = {}
    /\ faults = 0

\* A statement fails (the database stays locked, the disk is full): query and
\* query_rowid print it, and their callers go on.
Fail == faults < MaxFaults /\ faults' = faults + 1

CreateSession(c, n) ==
    /\ pc[c] = "idle" /\ Len(made) < MaxSessions
    /\ \/ /\ sessions[n] = None
          /\ made' = Append(made, n)
          /\ sessions' = [sessions EXCEPT ![n] = [name |-> n, made |-> Len(made')]]
          /\ handle' = [handle EXCEPT ![c] = sessions'[n]]
       \/ /\ sessions[n] # None
          /\ handle' = [handle EXCEPT ![c] = None]
          /\ UNCHANGED <<made, sessions>>
    /\ UNCHANGED <<rtemplates, reservations, pc, call, given, disturbed, lost, faults>>

\* Faulty variant: a handle is made from the name, whether or not a row was found.
OpenSessionAnyway(c, n) ==
    /\ pc[c] = "idle"
    /\ handle' = [handle EXCEPT ![c] = IF sessions[n] # None THEN sessions[n]
                                       ELSE [name |-> n, made |-> 0]]
    /\ UNCHANGED <<tables, pc, call, history>>

OpenSession(c, n) ==
    /\ pc[c] = "idle"
    /\ handle' = [handle EXCEPT ![c] = sessions[n]]
    /\ UNCHANGED <<tables, pc, call, history>>

DestroySession(c, n) ==
    /\ pc[c] = "idle"
    /\ sessions' = [sessions EXCEPT ![n] = None]
    /\ UNCHANGED <<rtemplates, reservations, handle, pc, call, history>>

\* Some request is short of its last INSERT.
Busy == \E c \in Client : pc[c] \in {"checked", "templateSaved"}

\* Faulty variant: the template is stored before the session is looked at.
RequestSavingFirst(c, t) ==
    /\ pc[c] = "idle" /\ handle[c] # None
    /\ Len(rtemplates) < MaxRequests
    /\ rtemplates' = Append(rtemplates, t)
    /\ \/ /\ Valid(handle[c])
          /\ pc' = [pc EXCEPT ![c] = "templateSaved"]
          /\ call' = [call EXCEPT ![c] = [content |-> t, row |-> Len(rtemplates'),
                                          template |-> "stored"]]
          /\ disturbed' = (disturbed \/ Busy)
       \/ ~Valid(handle[c]) /\ UNCHANGED <<pc, call, disturbed>>
    /\ UNCHANGED <<sessions, reservations, handle, made, given, lost, faults>>

\* request_reservation on an invalid session returns NULL.
Request(c, t) ==
    /\ pc[c] = "idle" /\ handle[c] # None
    /\ \/ /\ Valid(handle[c])
          /\ pc' = [pc EXCEPT ![c] = "checked"]
          /\ call' = [call EXCEPT ![c] = [content |-> t, row |-> 0, template |-> "failed"]]
          /\ disturbed' = (disturbed \/ Busy)
       \/ ~Valid(handle[c]) /\ UNCHANGED <<pc, call, disturbed>>
    /\ UNCHANGED <<tables, handle, made, given, lost, faults>>

\* save_rtemplate, and the row id its connection reports, or 0.
SaveRTemplate(c) ==
    /\ pc[c] = "checked" /\ Len(rtemplates) < MaxRequests
    /\ pc' = [pc EXCEPT ![c] = "templateSaved"]
    /\ \/ /\ rtemplates' = Append(rtemplates, call[c].content)
          /\ call' = [call EXCEPT ![c] = [content |-> @.content, row |-> Len(rtemplates'),
                                          template |-> "stored"]]
          /\ UNCHANGED <<disturbed, faults>>
       \/ /\ Fail
          /\ disturbed' = TRUE
          /\ UNCHANGED <<rtemplates, call>>
    /\ UNCHANGED <<sessions, reservations, handle, made, given, lost>>

\* The INSERT of save_reservation: the name is NULL for now.  row is what the call
\* keeps of the statement's row id, which is 0 if it fails.
Insert(c, templateId, row) ==
    LET Keep(id) ==
            call' = [call EXCEPT ![c] = [content |-> @.content, row |-> id,
                                         template |-> @.template]]
    IN
    /\ pc[c] = "templateSaved"
    /\ pc' = [pc EXCEPT ![c] = "inserted"]
    /\ \/ /\ reservations' = Append(reservations,
                [session_name |-> handle[c].name, template_id |-> templateId, name |-> None])
          /\ given' = Append(given, [content |-> call[c].content, made |-> handle[c].made,
                                     template |-> call[c].template])
          /\ Keep(row)
          /\ UNCHANGED <<disturbed, faults>>
       \/ /\ Fail
          /\ Keep(0)
          /\ disturbed' = TRUE
          /\ UNCHANGED <<reservations, given>>
    /\ UNCHANGED <<sessions, rtemplates, handle, made, lost>>

\* Faulty variant: the row id is asked for again, over another connection.
InsertAskingAgain(c) == Insert(c, Len(rtemplates), Len(reservations) + 1)

\* Faulty variant: the template's row id is kept for the UPDATE.
InsertKeepingRow(c) == Insert(c, call[c].row, call[c].row)

InsertReservation(c) == Insert(c, call[c].row, Len(reservations) + 1)

\* The UPDATE of save_reservation makes a name of the template's and the row id.  It
\* also fails if the template's has an apostrophe, which is put into it as it is.
NameReservation(c) ==
    /\ pc[c] = "inserted"
    /\ \/ /\ call[c].content \notin Unquotable
          /\ IF call[c].row \in DOMAIN reservations
             THEN /\ reservations' = [reservations EXCEPT ![call[c].row].name =
                                        <<call[c].content, call[c].row>>]
                  /\ lost' = IF call[c].template = "reset" THEN lost \union {call[c].row}
                                                           ELSE lost
             ELSE UNCHANGED <<reservations, lost>>
          /\ UNCHANGED faults
       \/ /\ IF call[c].content \in Unquotable THEN UNCHANGED faults ELSE Fail
          /\ lost' = lost \union ({call[c].row} \intersect DOMAIN reservations)
          /\ UNCHANGED reservations
    /\ pc' = [pc EXCEPT ![c] = "idle"]
    /\ call' = [call EXCEPT ![c] = None]
    /\ UNCHANGED <<sessions, rtemplates, handle, made, given, disturbed>>

\* A client is killed in the middle of a request, and started again.
Die(c) ==
    /\ pc[c] # "idle"
    /\ disturbed' = (disturbed \/ pc[c] = "templateSaved")
    /\ lost' = IF pc[c] = "inserted" THEN lost \union ({call[c].row} \intersect DOMAIN reservations)
                                     ELSE lost
    /\ pc' = [pc EXCEPT ![c] = "idle"]
    /\ call' = [call EXCEPT ![c] = None]
    /\ handle' = [handle EXCEPT ![c] = None]
    /\ UNCHANGED <<tables, made, given, faults>>

\* drmaa2-reset-db: every row goes, row ids start again, handles and calls stay.
Reset ==
    /\ Fail
    /\ sessions' = [n \in Name |-> None]
    /\ rtemplates' = <<>> /\ reservations' = <<>>
    /\ given' = <<>> /\ lost' = {}
    /\ disturbed' = (Busy /\ (disturbed \/ \E c \in Client : pc[c] = "templateSaved"))
    /\ call' = [c \in Client |-> IF pc[c] \in {"templateSaved", "inserted"}
                                 THEN [call[c] EXCEPT !.template = "reset"] ELSE call[c]]
    /\ UNCHANGED <<handle, pc, made>>

Next ==
    \/ \E c \in Client :
          \/ \E n \in Name : CreateSession(c, n) \/ OpenSession(c, n) \/ DestroySession(c, n)
          \/ \E t \in Content : Request(c, t)
          \/ SaveRTemplate(c)
          \/ InsertReservation(c)
          \/ NameReservation(c)
          \/ Die(c)
    \/ Reset

Spec == Init /\ [][Next]_vars

---------------------------------------------------------------------------
(* Properties.                                                              *)

Handle == [name : Name, made : 1 .. MaxSessions]
Stage  == {"idle", "checked", "templateSaved", "inserted"}
Fate   == {"failed", "stored", "reset"}     \* what became of a request's template
Call   == [content : Content, row : Nat, template : Fate]
Row    == [session_name : Name, template_id : Nat, name : {None} \union (Content \X Nat)]
Origin == [content : Content, made : 1 .. MaxSessions, template : Fate]

\* Every variable has its range: in particular a client in the middle of a request
\* has a handle, and the histories go along with the rows they are about.
TypeOK ==
    /\ sessions \in [Name -> Handle \union {None}]
    /\ \A n \in Name : sessions[n] # None => sessions[n].name = n
    /\ rtemplates \in Seq(Content) /\ Len(rtemplates) <= MaxRequests
    /\ reservations \in Seq(Row)
    /\ handle \in [Client -> Handle \union {None}]
    /\ pc \in [Client -> Stage]
    /\ call \in [Client -> Call \union {None}]
    /\ \A c \in Client : pc[c] # "idle" => handle[c] \in Handle /\ call[c] \in Call
    /\ made \in Seq(Name) /\ Len(made) <= MaxSessions
    /\ given \in Seq(Origin) /\ Len(given) = Len(reservations)
    /\ disturbed \in BOOLEAN
    /\ lost \subseteq DOMAIN reservations
    /\ faults \in 0 .. MaxFaults

\* template_id: whatever other clients stored between the two INSERTs of a request,
\* and whoever died, a reservation's row refers to the template it was made with, to
\* none if that could not be stored, and only after a reset between the two INSERTs
\* perhaps to another's.
TemplateKept ==
    \A r \in DOMAIN reservations :
        LET id == reservations[r].template_id
        IN  /\ given[r].template = "stored" =>
                  id \in DOMAIN rtemplates /\ rtemplates[id] = given[r].content
            /\ given[r].template = "failed" => id \notin DOMAIN rtemplates

\* The UPDATE of save_reservation: a reservation has the name of its own template
\* and row as soon as its request returns.  It has none if the client died before or
\* the UPDATE failed, and if a request of before a reset had the same row id, it may
\* have that one's.
NamedAfterItsRow ==
    \A r \in DOMAIN reservations :
        LET name == reservations[r].name
        IN  \/ name = <<given[r].content, r>>
            \/ r \in lost /\ name \in {None} \union {<<t, r>> : t \in Content}
            \/ name = None /\ \E c \in Client : pc[c] = "inserted" /\ call[c].row = r

\* drmaa2_r_get_reservation_template: as long as no two requests overlapped between
\* their INSERTs, no client died and no reset came there, and no INSERT failed, rows
\* of templates and of reservations are in step, and the template read back is the
\* one requested.  A reset of an idle database puts them back in step.
ReadBackInStep ==
    ~disturbed => \A r \in DOMAIN reservations : GetRTemplate(r) = given[r].content

\* drmaa2_rsession_get_reservations: a handle lists the reservations made in its own
\* session and in every earlier or later session of the same name, and no others.
SharedByName ==
    \A c \in Client : handle[c] # None =>
        ReservationsOf(handle[c]) =
            {r \in DOMAIN reservations : made[given[r].made] = handle[c].name}
=============================================================================
