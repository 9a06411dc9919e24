------------------------ MODULE ReservationsProofs ------------------------
(* The properties of Reservations hold for any number of clients, sessions, *)
(* requests and faults.  Each is strengthened by what the clients in the    *)
(* middle of a request carry: the row id a client has in its call is that   *)
(* of its own template or its own reservation, unless it was reset away.    *)
EXTENDS Reservations, SequenceTheorems, TLAPS

\* Handles, rows of sessions and reservations go by names that were created.
Named(h) == h.made \in DOMAIN made /\ made[h.made] = h.name

NameInv ==
    /\ \A n \in Name : sessions[n] # None => Named(sessions[n])
    /\ \A c \in Client : handle[c] # None => Named(handle[c])
    /\ \A c \in Client : pc[c] # "idle" => handle[c] # None
    /\ \A r \in DOMAIN reservations :
          /\ given[r].made \in DOMAIN made
          /\ made[given[r].made] = reservations[r].session_name

\* The row id of a stored template is carried to the INSERT of the reservation; one
\* of a template that failed is 0.
TemplateInv ==
    /\ \A r \in DOMAIN reservations :
          given[r].template = "failed" => reservations[r].template_id = 0
    /\ \A c \in Client :
          /\ pc[c] = "checked" => call[c].row = 0 /\ call[c].template = "failed"
          /\ pc[c] = "templateSaved" /\ call[c].template = "failed" => call[c].row = 0
          /\ pc[c] = "templateSaved" /\ call[c].template = "stored" =>
                /\ call[c].row \in DOMAIN rtemplates
                /\ rtemplates[call[c].row] = call[c].content

\* The row id of a reservation is carried to its UPDATE; names are made with it.
NamesOf(r) == {None} \union {<<t, r>> : t \in Content}

RowInv ==
    /\ \A r \in DOMAIN reservations : reservations[r].name \in NamesOf(r)
    /\ \A c \in Client :
          pc[c] = "inserted" /\ call[c].template # "reset" /\ call[c].row # 0 =>
             /\ call[c].row \in DOMAIN reservations
             /\ given[call[c].row].content = call[c].content

\* While nothing has disturbed them, the two tables grow in turn.
BusyAt == {"checked", "templateSaved"}

InStep ==
    /\ \A c, d \in Client : pc[c] \in BusyAt /\ pc[d] \in BusyAt => c = d
    /\ \A c \in Client : pc[c] = "templateSaved" =>
          /\ call[c].row = Len(rtemplates)
          /\ rtemplates[Len(rtemplates)] = call[c].content
          /\ Len(rtemplates) = Len(reservations) + 1
    /\ (\A c \in Client : pc[c] # "templateSaved") => Len(rtemplates) = Len(reservations)
    /\ \A r \in DOMAIN reservations :
          r \in DOMAIN rtemplates /\ rtemplates[r] = given[r].content

StepInv == ~disturbed => InStep

IInv == TypeOK /\ NameInv /\ TemplateInv /\ TemplateKept /\ RowInv /\ NamedAfterItsRow /\ StepInv

---------------------------------------------------------------------------
(* Types.                                                                   *)

LEMMA TypeInit == Init => TypeOK
<1> SUFFICES ASSUME Init PROVE TypeOK
  OBVIOUS
<1>1. \A S : <<>> \in Seq(S) /\ Len(<<>>) = 0
  BY EmptySeq
<1>2. made = <<>> /\ given = <<>> /\ rtemplates = <<>> /\ reservations = <<>>
  BY DEF Init
<1>3. lost \subseteq DOMAIN reservations
  BY DEF Init
<1>4. disturbed \in BOOLEAN
  BY DEF Init
<1>5. sessions = [n \in Name |-> None] /\ handle = [c \in Client |-> None]
      /\ pc = [c \in Client |-> "idle"] /\ call = [c \in Client |-> None] /\ faults = 0
  BY DEF Init
<1> QED
  BY <1>1, <1>2, <1>3, <1>4, <1>5, ReservationsAssumption DEF TypeOK, Stage

\* A sequence and what it is when something has been appended to it.
LEMMA Appended ==
    ASSUME NEW S, NEW s \in Seq(S), NEW e \in S
    PROVE  LET t == Append(s, e)
           IN  /\ Len(s) \in Nat /\ DOMAIN s = 1 .. Len(s)
               /\ Len(t) = Len(s) + 1 /\ DOMAIN t = 1 .. Len(s) + 1
               /\ \A i \in DOMAIN s : t[i] = s[i]
               /\ t[Len(s) + 1] = e
BY AppendProperties, LenProperties

\* What an INSERT of a reservation appends, and its two outcomes.
NewRow(c) == [session_name |-> handle[c].name, template_id |-> call[c].row, name |-> None]
NewOrigin(c) == [content |-> call[c].content, made |-> handle[c].made,
                 template |-> call[c].template]

Stored(c) ==
    /\ reservations' = Append(reservations, NewRow(c))
    /\ given' = Append(given, NewOrigin(c))
    /\ call' = [call EXCEPT ![c] = [content |-> @.content, row |-> Len(reservations) + 1,
                                    template |-> @.template]]
    /\ UNCHANGED <<disturbed, faults>>

NotStored(c) ==
    /\ Fail
    /\ call' = [call EXCEPT ![c] = [content |-> @.content, row |-> 0, template |-> @.template]]
    /\ disturbed' = TRUE
    /\ UNCHANGED <<reservations, given>>

LEMMA InsertCases ==
    ASSUME NEW c \in Client, InsertReservation(c) PROVE Stored(c) \/ NotStored(c)
BY DEF InsertReservation, Insert, Stored, NotStored, NewRow, NewOrigin

LEMMA StoredRow ==
    ASSUME TypeOK, NEW c \in Client, InsertReservation(c), Stored(c)
    PROVE  /\ reservations' \in Seq(Row) /\ Len(reservations') = Len(reservations) + 1
           /\ given' \in Seq(Origin) /\ Len(given') = Len(given) + 1
           /\ Len(reservations) \in Nat /\ Len(reservations) + 1 \notin DOMAIN reservations
           /\ DOMAIN reservations' = DOMAIN reservations \union {Len(reservations) + 1}
           /\ \A r \in DOMAIN reservations :
                 reservations'[r] = reservations[r] /\ given'[r] = given[r]
           /\ reservations'[Len(reservations) + 1] = NewRow(c)
           /\ given'[Len(reservations) + 1] = NewOrigin(c)
<1>1. call[c] \in Call /\ handle[c] \in Handle
  BY DEF InsertReservation, Insert, TypeOK, Stage
<1>2. NewRow(c) \in Row /\ NewOrigin(c) \in Origin
  BY <1>1 DEF Row, Origin, Handle, Call, NewRow, NewOrigin
<1>3. reservations \in Seq(Row) /\ given \in Seq(Origin) /\ Len(given) = Len(reservations)
  BY DEF TypeOK
<1>4. reservations' = Append(reservations, NewRow(c)) /\ given' = Append(given, NewOrigin(c))
  BY DEF Stored
<1>5. reservations' \in Seq(Row) /\ given' \in Seq(Origin)
  BY <1>2, <1>3, <1>4, AppendProperties
<1>6. DOMAIN given = DOMAIN reservations
  BY <1>3, LenProperties
<1> QED
  BY <1>2, <1>3, <1>4, <1>5, <1>6, Appended

\* What an UPDATE changes when it finds the row.
Renamed(c) ==
    /\ call[c].row \in DOMAIN reservations
    /\ reservations' = [reservations EXCEPT ![call[c].row].name = <<call[c].content, call[c].row>>]

LEMMA NameCases ==
    ASSUME NEW c \in Client, NameReservation(c) PROVE UNCHANGED reservations \/ Renamed(c)
BY DEF NameReservation, Renamed

\* One row gets another name, everything else stays.
LEMMA RenamedRow ==
    ASSUME reservations \in Seq(Row), NEW c \in Client, call[c] \in Call, Renamed(c)
    PROVE  /\ reservations' \in Seq(Row) /\ Len(reservations') = Len(reservations)
           /\ DOMAIN reservations' = DOMAIN reservations
           /\ \A r \in DOMAIN reservations :
                 /\ reservations'[r].template_id = reservations[r].template_id
                 /\ reservations'[r].session_name = reservations[r].session_name
                 /\ r # call[c].row => reservations'[r].name = reservations[r].name
                 /\ r = call[c].row => reservations'[r].name = <<call[c].content, r>>
<1> DEFINE i == call[c].row
           e == [reservations[i] EXCEPT !.name = <<call[c].content, i>>]
<1>1. i \in DOMAIN reservations /\ reservations' = [reservations EXCEPT ![i] = e]
  BY DEF Renamed
<1>2. reservations[i] \in Row
  BY <1>1, ElementOfSeq, LenProperties
<1>3. e \in Row /\ e.template_id = reservations[i].template_id
      /\ e.session_name = reservations[i].session_name /\ e.name = <<call[c].content, i>>
  BY <1>2 DEF Row, Call
<1>4. reservations' \in Seq(Row) /\ Len(reservations') = Len(reservations)
  BY <1>1, <1>3, ExceptSeq, LenProperties
<1> QED
  BY <1>1, <1>3, <1>4, LenProperties

\* A reset keeps the calls, and what they are about.
LEMMA ResetCall ==
    ASSUME TypeOK, Reset
    PROVE  /\ call' \in [Client -> Call \union {None}]
           /\ \A c \in Client : pc[c] # "idle" =>
                 /\ call'[c] \in Call
                 /\ call'[c].row = call[c].row
                 /\ call'[c].template = IF pc[c] = "checked" THEN call[c].template ELSE "reset"
<1>1. call' = [c \in Client |-> IF pc[c] \in {"templateSaved", "inserted"}
                               THEN [call[c] EXCEPT !.template = "reset"] ELSE call[c]]
  BY DEF Reset
<1>2. \A k \in Call : /\ [k EXCEPT !.template = "reset"] \in Call
                     /\ [k EXCEPT !.template = "reset"].row = k.row
                     /\ [k EXCEPT !.template = "reset"].template = "reset"
  BY DEF Call, Fate
<1> QED
  BY <1>1, <1>2 DEF TypeOK, Stage

\* Sessions and statements, one action after the other.
LEMMA TypeStep == TypeOK /\ [Next]_vars => TypeOK'
<1> SUFFICES ASSUME TypeOK, [Next]_vars PROVE TypeOK'
  OBVIOUS
<1> USE ReservationsAssumption DEF TypeOK, Stage
<1>1. ASSUME NEW c \in Client, NEW n \in Name, CreateSession(c, n) PROVE TypeOK'
  <2>1. CASE sessions[n] = None
    <3>1. /\ made' = Append(made, n) /\ Len(made') = Len(made) + 1
          /\ made' \in Seq(Name) /\ Len(made') <= MaxSessions
      <4>1. made' = Append(made, n) /\ Len(made) < MaxSessions
        BY <1>1, <2>1 DEF CreateSession
      <4>2. Len(made) \in Nat
        BY LenProperties
      <4> QED
        BY <4>1, <4>2, AppendProperties
    <3>2. [name |-> n, made |-> Len(made')] \in Handle
      BY <3>1, LenProperties DEF Handle
    <3>3. /\ sessions' = [sessions EXCEPT ![n] = [name |-> n, made |-> Len(made')]]
          /\ handle' = [handle EXCEPT ![c] = [name |-> n, made |-> Len(made')]]
      BY <1>1, <2>1 DEF CreateSession
    <3>4. UNCHANGED <<rtemplates, reservations, pc, call, given, disturbed, lost, faults>>
      BY <1>1 DEF CreateSession
    <3> QED
      BY <3>1, <3>2, <3>3, <3>4
  <2>2. CASE sessions[n] # None
    BY <1>1, <2>2 DEF CreateSession
  <2> QED
    BY <2>1, <2>2
<1>2. ASSUME NEW c \in Client, NEW n \in Name, OpenSession(c, n) PROVE TypeOK'
  BY <1>2 DEF OpenSession, tables, history
<1>3. ASSUME NEW c \in Client, NEW n \in Name, DestroySession(c, n) PROVE TypeOK'
  BY <1>3 DEF DestroySession, history
<1>4. ASSUME NEW c \in Client, NEW t \in Content, Request(c, t) PROVE TypeOK'
  <2>1. [content |-> t, row |-> 0, template |-> "failed"] \in Call
    BY DEF Call, Fate
  <2> QED
    BY <1>4, <2>1 DEF Request, tables, Busy
<1>5. ASSUME NEW c \in Client, SaveRTemplate(c) PROVE TypeOK'
  <2>1. call[c] \in Call /\ handle[c] \in Handle
    BY <1>5 DEF SaveRTemplate
  <2>2. Len(rtemplates) \in Nat /\ call[c].content \in Content
    BY <2>1, LenProperties DEF Call
  <2>3. UNCHANGED <<sessions, reservations, handle, made, given, lost>>
        /\ pc' = [pc EXCEPT ![c] = "templateSaved"]
    BY <1>5 DEF SaveRTemplate
  <2>4. CASE /\ rtemplates' = Append(rtemplates, call[c].content)
             /\ call' = [call EXCEPT ![c] = [content |-> @.content, row |-> Len(rtemplates'),
                                             template |-> "stored"]]
             /\ UNCHANGED <<disturbed, faults>>
    <3>1. rtemplates' \in Seq(Content) /\ Len(rtemplates') = Len(rtemplates) + 1
      BY <2>2, <2>4, AppendProperties
    <3>2. [content |-> call[c].content, row |-> Len(rtemplates'), template |-> "stored"] \in Call
      BY <2>2, <3>1 DEF Call, Fate
    <3>3. Len(rtemplates') <= MaxRequests
      BY <1>5, <2>2, <3>1 DEF SaveRTemplate
    <3> QED
      BY <2>1, <2>3, <2>4, <3>1, <3>2, <3>3
  <2>5. CASE Fail /\ disturbed' = TRUE /\ UNCHANGED <<rtemplates, call>>
    BY <2>1, <2>3, <2>5 DEF Fail
  <2> QED
    BY <1>5, <2>4, <2>5 DEF SaveRTemplate
<1>6. ASSUME NEW c \in Client, InsertReservation(c) PROVE TypeOK'
  <2>1. call[c] \in Call /\ handle[c] \in Handle
    BY <1>6 DEF InsertReservation, Insert
  <2>2. /\ UNCHANGED <<sessions, rtemplates, handle, made, lost>>
        /\ pc' = [pc EXCEPT ![c] = "inserted"]
    BY <1>6 DEF InsertReservation, Insert
  <2>3. \A id \in Nat : [content |-> call[c].content, row |-> id,
                       template |-> call[c].template] \in Call
    BY <2>1 DEF Call
  <2>4. CASE Stored(c)
    <3>1. /\ reservations' \in Seq(Row) /\ given' \in Seq(Origin)
          /\ Len(given') = Len(reservations')
          /\ DOMAIN reservations \subseteq DOMAIN reservations'
      BY <1>6, <2>4, StoredRow
    <3>2. call' \in [Client -> Call \union {None}] /\ call'[c] \in Call
          /\ \A d \in Client \ {c} : call'[d] = call[d]
      BY <2>3, <2>4, <1>6, StoredRow DEF Stored
    <3>3. UNCHANGED <<disturbed, faults>>
      BY <2>4 DEF Stored
    <3> QED
      BY <2>1, <2>2, <3>1, <3>2, <3>3
  <2>5. CASE NotStored(c)
    BY <2>1, <2>2, <2>3, <2>5 DEF NotStored, Fail
  <2> QED
    BY <1>6, <2>4, <2>5, InsertCases
<1>7. ASSUME NEW c \in Client, NameReservation(c) PROVE TypeOK'
  <2>1. call[c] \in Call /\ handle[c] \in Handle
    BY <1>7 DEF NameReservation
  <2>2. /\ UNCHANGED <<sessions, rtemplates, handle, made, given, disturbed>>
        /\ pc' = [pc EXCEPT ![c] = "idle"] /\ call' = [call EXCEPT ![c] = None]
    BY <1>7 DEF NameReservation
  <2>3. faults' \in 0 .. MaxFaults
    BY <1>7 DEF NameReservation, Fail
  <2>4. reservations' \in Seq(Row) /\ Len(reservations') = Len(reservations)
        /\ DOMAIN reservations' = DOMAIN reservations
    <3>1. CASE UNCHANGED reservations
      BY <3>1
    <3>2. CASE Renamed(c)
      BY <2>1, <3>2, RenamedRow DEF Call
    <3> QED
      BY <1>7, <3>1, <3>2, NameCases
  <2>5. lost' \subseteq DOMAIN reservations
    BY <1>7 DEF NameReservation
  <2> QED
    BY <2>2, <2>3, <2>4, <2>5
<1>8. ASSUME NEW c \in Client, Die(c) PROVE TypeOK'
  BY <1>8 DEF Die, tables
<1>9. CASE Reset
  <2>1. \A S : <<>> \in Seq(S) /\ Len(<<>>) = 0
    BY EmptySeq
  <2>2. rtemplates' = <<>> /\ reservations' = <<>> /\ given' = <<>> /\ lost' = {}
        /\ sessions' = [n \in Name |-> None] /\ UNCHANGED <<handle, pc, made>>
    BY <1>9 DEF Reset
  <2>3. disturbed' \in BOOLEAN
    BY <1>9 DEF Reset
  <2>4. faults' \in 0 .. MaxFaults
    BY <1>9 DEF Reset, Fail
  <2>5. /\ call' \in [Client -> Call \union {None}]
        /\ \A c \in Client : pc[c] # "idle" => call'[c] \in Call
    BY <1>9, ResetCall
  <2> QED
    BY <2>1, <2>2, <2>3, <2>4, <2>5
<1>10. CASE UNCHANGED vars
  BY <1>10 DEF vars, tables, history
<1> QED
  BY <1>1, <1>2, <1>3, <1>4, <1>5, <1>6, <1>7, <1>8, <1>9, <1>10 DEF Next

---------------------------------------------------------------------------
(* Names.                                                                   *)

LEMMA NameStep == TypeOK /\ NameInv /\ [Next]_vars => NameInv'
<1> SUFFICES ASSUME TypeOK, NameInv, [Next]_vars PROVE NameInv'
  OBVIOUS
<1> USE DEF NameInv, Named
<1>1. ASSUME NEW c \in Client, NEW n \in Name, CreateSession(c, n) PROVE NameInv'
  <2>1. CASE /\ sessions[n] = None /\ made' = Append(made, n)
             /\ sessions' = [sessions EXCEPT ![n] = [name |-> n, made |-> Len(made')]]
             /\ handle' = [handle EXCEPT ![c] = sessions'[n]]
    <3>1. /\ DOMAIN made \subseteq DOMAIN made' /\ \A i \in DOMAIN made : made'[i] = made[i]
          /\ Len(made') \in DOMAIN made' /\ made'[Len(made')] = n
      BY <2>1, Appended DEF TypeOK
    <3>2. UNCHANGED <<reservations, given, pc>> /\ pc[c] = "idle"
      BY <1>1 DEF CreateSession
    <3>3. sessions'[n] = [name |-> n, made |-> Len(made')] /\ handle'[c] = sessions'[n]
      BY <2>1 DEF TypeOK
    <3>4. LET h == sessions'[n] IN h.made \in DOMAIN made' /\ made'[h.made] = h.name
      BY <3>1, <3>3
    <3>5. \A h : h.made \in DOMAIN made => made'[h.made] = made[h.made]
      BY <3>1
    <3>6. /\ \A m \in Name \ {n} : sessions'[m] = sessions[m]
          /\ \A e \in Client \ {c} : handle'[e] = handle[e]
      BY <2>1 DEF TypeOK
    <3>7. \A r \in DOMAIN reservations : made'[given[r].made] = made[given[r].made]
      BY <3>1
    <3> QED
      BY <3>1, <3>2, <3>3, <3>4, <3>5, <3>6, <3>7
  <2>2. CASE handle' = [handle EXCEPT ![c] = None] /\ UNCHANGED <<made, sessions>>
    BY <1>1, <2>2 DEF CreateSession, TypeOK
  <2> QED
    BY <1>1, <2>1, <2>2 DEF CreateSession
<1>2. ASSUME NEW c \in Client, NEW n \in Name, OpenSession(c, n) PROVE NameInv'
  BY <1>2 DEF OpenSession, tables, history, TypeOK
<1>3. ASSUME NEW c \in Client, NEW n \in Name, DestroySession(c, n) PROVE NameInv'
  BY <1>3 DEF DestroySession, history, TypeOK
<1>4. ASSUME NEW c \in Client, NEW t \in Content, Request(c, t) PROVE NameInv'
  BY <1>4 DEF Request, tables, TypeOK
<1>5. ASSUME NEW c \in Client, SaveRTemplate(c) PROVE NameInv'
  BY <1>5 DEF SaveRTemplate, TypeOK
<1>6. ASSUME NEW c \in Client, InsertReservation(c) PROVE NameInv'
  <2>1. /\ UNCHANGED <<sessions, handle, made>> /\ pc[c] = "templateSaved"
        /\ pc' = [pc EXCEPT ![c] = "inserted"]
    BY <1>6 DEF InsertReservation, Insert
  <2>2. CASE Stored(c)
    <3>1. /\ DOMAIN reservations' = DOMAIN reservations \union {Len(reservations) + 1}
          /\ \A r \in DOMAIN reservations :
                reservations'[r] = reservations[r] /\ given'[r] = given[r]
          /\ reservations'[Len(reservations) + 1] = NewRow(c)
          /\ given'[Len(reservations) + 1] = NewOrigin(c)
      BY <1>6, <2>2, StoredRow
    <3>2. Named(handle[c])
      BY <2>1
    <3>3. /\ given'[Len(reservations) + 1].made = handle[c].made
          /\ reservations'[Len(reservations) + 1].session_name = handle[c].name
      BY <3>1 DEF NewRow, NewOrigin
    <3>4. \A r \in DOMAIN reservations' :
             /\ given'[r].made \in DOMAIN made
             /\ made[given'[r].made] = reservations'[r].session_name
      BY <3>1, <3>2, <3>3
    <3>5. \A d \in Client : pc'[d] # "idle" => handle[d] # None
      BY <2>1 DEF TypeOK
    <3> QED
      BY <2>1, <3>4, <3>5
  <2>3. CASE NotStored(c)
    BY <2>1, <2>3 DEF NotStored, TypeOK
  <2> QED
    BY <1>6, <2>2, <2>3, InsertCases
<1>7. ASSUME NEW c \in Client, NameReservation(c) PROVE NameInv'
  <2>1. /\ UNCHANGED <<sessions, handle, made, given>> /\ pc[c] = "inserted"
        /\ pc' = [pc EXCEPT ![c] = "idle"] /\ call[c] \in Call
    BY <1>7 DEF NameReservation, TypeOK
  <2>2. CASE Renamed(c)
    BY <2>1, <2>2, RenamedRow DEF TypeOK
  <2> QED
    BY <1>7, <2>1, <2>2, NameCases DEF TypeOK
<1>8. ASSUME NEW c \in Client, Die(c) PROVE NameInv'
  BY <1>8 DEF Die, tables, TypeOK
<1>9. CASE Reset
  <2>1. DOMAIN <<>> = {}
    OBVIOUS
  <2>2. reservations' = <<>> /\ sessions' = [n \in Name |-> None] /\ UNCHANGED <<handle, pc, made>>
    BY <1>9 DEF Reset
  <2> QED
    BY <2>1, <2>2
<1>10. CASE UNCHANGED vars
  BY <1>10 DEF vars, tables, history
<1> QED
  BY <1>1, <1>2, <1>3, <1>4, <1>5, <1>6, <1>7, <1>8, <1>9, <1>10 DEF Next

---------------------------------------------------------------------------
(* Templates.                                                               *)

\* Sessions are created, opened and destroyed without regard to requests.
SessionCall(c) ==
    \E n \in Name : CreateSession(c, n) \/ OpenSession(c, n) \/ DestroySession(c, n)

LEMMA SessionCallKeeps ==
    ASSUME NEW c \in Client, SessionCall(c)
    PROVE  UNCHANGED <<rtemplates, reservations, pc, call, given, disturbed, lost, faults>>
BY DEF SessionCall, CreateSession, OpenSession, DestroySession, tables, history

LEMMA NextCases ==
    ASSUME [Next]_vars
    PROVE  \/ \E c \in Client :
                \/ SessionCall(c) \/ \E t \in Content : Request(c, t)
                \/ SaveRTemplate(c) \/ InsertReservation(c) \/ NameReservation(c) \/ Die(c)
           \/ Reset
           \/ UNCHANGED vars
BY DEF Next, SessionCall

\* The template of a call has been stored.
LEMMA SaveCases ==
    ASSUME NEW c \in Client, SaveRTemplate(c)
    PROVE  \/ /\ rtemplates' = Append(rtemplates, call[c].content)
              /\ call' = [call EXCEPT ![c] = [content |-> @.content, row |-> Len(rtemplates'),
                                              template |-> "stored"]]
              /\ UNCHANGED <<disturbed, faults>>
           \/ Fail /\ disturbed' = TRUE /\ UNCHANGED <<rtemplates, call>>
BY DEF SaveRTemplate

LEMMA DomainEmpty == DOMAIN <<>> = {}
OBVIOUS

LEMMA TemplateStep ==
    TypeOK /\ TemplateInv /\ TemplateKept /\ [Next]_vars => TemplateInv' /\ TemplateKept'
<1> SUFFICES ASSUME TypeOK, TemplateInv, TemplateKept, [Next]_vars
             PROVE  TemplateInv' /\ TemplateKept'
  OBVIOUS
<1> USE DEF TemplateInv, TemplateKept
<1>1. ASSUME NEW c \in Client, SessionCall(c) PROVE TemplateInv' /\ TemplateKept'
  BY <1>1, SessionCallKeeps
<1>2. ASSUME NEW c \in Client, NEW t \in Content, Request(c, t)
      PROVE  TemplateInv' /\ TemplateKept'
  <2>1. CASE /\ pc' = [pc EXCEPT ![c] = "checked"]
             /\ call' = [call EXCEPT ![c] = [content |-> t, row |-> 0, template |-> "failed"]]
    BY <1>2, <2>1 DEF Request, tables, TypeOK
  <2>2. CASE UNCHANGED <<pc, call>>
    BY <1>2, <2>2 DEF Request, tables
  <2> QED
    BY <1>2, <2>1, <2>2 DEF Request
<1>3. ASSUME NEW c \in Client, SaveRTemplate(c) PROVE TemplateInv' /\ TemplateKept'
  <2>1. UNCHANGED <<reservations, given>> /\ pc[c] = "checked"
        /\ pc' = [pc EXCEPT ![c] = "templateSaved"] /\ call[c] \in Call
    BY <1>3 DEF SaveRTemplate, TypeOK
  <2>2. CASE /\ rtemplates' = Append(rtemplates, call[c].content)
             /\ call' = [call EXCEPT ![c] = [content |-> @.content, row |-> Len(rtemplates'),
                                             template |-> "stored"]]
    <3>1. call[c].content \in Content
      BY <2>1 DEF Call
    <3>2. /\ DOMAIN rtemplates \subseteq DOMAIN rtemplates' /\ 0 \notin DOMAIN rtemplates'
          /\ \A i \in DOMAIN rtemplates : rtemplates'[i] = rtemplates[i]
          /\ Len(rtemplates') \in DOMAIN rtemplates'
          /\ rtemplates'[Len(rtemplates')] = call[c].content
      BY <2>2, <3>1, Appended DEF TypeOK
    <3> QED
      BY <2>1, <2>2, <3>2 DEF TypeOK
  <2>3. CASE UNCHANGED <<rtemplates, call>>
    BY <2>1, <2>3 DEF TypeOK
  <2> QED
    BY <1>3, <2>2, <2>3, SaveCases
<1>4. ASSUME NEW c \in Client, InsertReservation(c) PROVE TemplateInv' /\ TemplateKept'
  <2>1. UNCHANGED rtemplates /\ pc[c] = "templateSaved"
        /\ pc' = [pc EXCEPT ![c] = "inserted"]
    BY <1>4 DEF InsertReservation, Insert
  <2>2. \A d \in Client \ {c} : pc'[d] = pc[d] /\ call'[d] = call[d]
    BY <1>4, <2>1, InsertCases DEF Stored, NotStored, TypeOK
  <2>3. CASE Stored(c)
    <3>1. 0 \notin DOMAIN rtemplates
      BY LenProperties DEF TypeOK
    <3>2. /\ reservations'[Len(reservations) + 1].template_id = call[c].row
          /\ given'[Len(reservations) + 1].template = call[c].template
          /\ given'[Len(reservations) + 1].content = call[c].content
      <4>1. /\ reservations'[Len(reservations) + 1] = NewRow(c)
            /\ given'[Len(reservations) + 1] = NewOrigin(c)
        BY <1>4, <2>3, StoredRow
      <4> QED
        BY <4>1 DEF NewRow, NewOrigin
    <3>3. /\ DOMAIN reservations' = DOMAIN reservations \union {Len(reservations) + 1}
          /\ \A r \in DOMAIN reservations :
                reservations'[r] = reservations[r] /\ given'[r] = given[r]
      BY <1>4, <2>3, StoredRow
    <3>4. TemplateInv'
      <4>1. \A r \in DOMAIN reservations' :
               given'[r].template = "failed" => reservations'[r].template_id = 0
        BY <2>1, <3>2, <3>3
      <4>2. pc'[c] = "inserted"
        BY <2>1 DEF TypeOK
      <4> QED
        BY <2>1, <2>2, <4>1, <4>2
    <3>5. TemplateKept'
      BY <2>1, <3>1, <3>2, <3>3
    <3> QED
      BY <3>4, <3>5
  <2>4. CASE NotStored(c)
    BY <2>1, <2>2, <2>4 DEF NotStored, TypeOK
  <2> QED
    BY <1>4, <2>3, <2>4, InsertCases
<1>5. ASSUME NEW c \in Client, NameReservation(c) PROVE TemplateInv' /\ TemplateKept'
  <2>1. /\ UNCHANGED <<rtemplates, given>> /\ call[c] \in Call
        /\ pc' = [pc EXCEPT ![c] = "idle"] /\ call' = [call EXCEPT ![c] = None]
    BY <1>5 DEF NameReservation, TypeOK
  <2>2. /\ DOMAIN reservations' = DOMAIN reservations
        /\ \A r \in DOMAIN reservations :
              reservations'[r].template_id = reservations[r].template_id
    BY <1>5, <2>1, NameCases, RenamedRow DEF TypeOK
  <2> QED
    BY <2>1, <2>2 DEF TypeOK
<1>6. ASSUME NEW c \in Client, Die(c) PROVE TemplateInv' /\ TemplateKept'
  BY <1>6 DEF Die, tables, TypeOK
<1>7. CASE Reset
  <2>1. reservations' = <<>> /\ UNCHANGED pc
    BY <1>7 DEF Reset
  <2> QED
    BY <1>7, <2>1, DomainEmpty, ResetCall
<1>8. CASE UNCHANGED vars
  BY <1>8 DEF vars, tables, history
<1> QED
  BY <1>1, <1>2, <1>3, <1>4, <1>5, <1>6, <1>7, <1>8, NextCases

---------------------------------------------------------------------------
(* Rows and their names.                                                    *)

LEMMA RowStep ==
    TypeOK /\ RowInv /\ NamedAfterItsRow /\ [Next]_vars => RowInv' /\ NamedAfterItsRow'
<1> SUFFICES ASSUME TypeOK, RowInv, NamedAfterItsRow, [Next]_vars
             PROVE  RowInv' /\ NamedAfterItsRow'
  OBVIOUS
<1>0. \A r : NamesOf(r) = {None} \union {<<t, r>> : t \in Content}
  BY DEF NamesOf
<1> USE DEF RowInv
<1> DEFINE Right(r) ==
      LET name == reservations[r].name
      IN  \/ name = <<given[r].content, r>>
          \/ r \in lost /\ name \in NamesOf(r)
          \/ name = None /\ \E c \in Client : pc[c] = "inserted" /\ call[c].row = r
<1>a. NamedAfterItsRow <=> \A r \in DOMAIN reservations : Right(r)
  BY <1>0 DEF NamedAfterItsRow
<1>b. NamedAfterItsRow' <=> \A r \in DOMAIN reservations' : Right(r)'
  BY <1>0 DEF NamedAfterItsRow
<1>1. ASSUME NEW c \in Client, SessionCall(c) PROVE RowInv' /\ NamedAfterItsRow'
  BY <1>1, SessionCallKeeps DEF NamedAfterItsRow
<1>2. ASSUME NEW c \in Client, NEW t \in Content, Request(c, t)
      PROVE  RowInv' /\ NamedAfterItsRow'
  <2>1. /\ UNCHANGED <<reservations, given, lost>> /\ pc[c] = "idle" /\ pc'[c] # "inserted"
        /\ \A d \in Client \ {c} : pc'[d] = pc[d] /\ call'[d] = call[d]
    BY <1>2 DEF Request, tables, TypeOK
  <2> QED
    BY <2>1, <1>a, <1>b
<1>3. ASSUME NEW c \in Client, SaveRTemplate(c) PROVE RowInv' /\ NamedAfterItsRow'
  <2>1. /\ UNCHANGED <<reservations, given, lost>> /\ pc[c] = "checked" /\ pc'[c] # "inserted"
        /\ \A d \in Client \ {c} : pc'[d] = pc[d] /\ call'[d] = call[d]
    BY <1>3 DEF SaveRTemplate, TypeOK
  <2> QED
    BY <2>1, <1>a, <1>b
<1>4. ASSUME NEW c \in Client, InsertReservation(c) PROVE RowInv' /\ NamedAfterItsRow'
  <2>1. /\ UNCHANGED lost /\ pc[c] = "templateSaved" /\ pc'[c] = "inserted"
        /\ \A d \in Client \ {c} : pc'[d] = pc[d] /\ call'[d] = call[d]
    BY <1>4, InsertCases DEF InsertReservation, Insert, Stored, NotStored, TypeOK
  <2>2. CASE Stored(c)
    <3> DEFINE new == Len(reservations) + 1
    <3>1. /\ reservations'[new] = NewRow(c) /\ given'[new] = NewOrigin(c)
          /\ new \notin DOMAIN reservations
          /\ DOMAIN reservations' = DOMAIN reservations \union {new}
          /\ \A r \in DOMAIN reservations :
                reservations'[r] = reservations[r] /\ given'[r] = given[r]
      BY <1>4, <2>2, StoredRow
    <3>2. reservations'[new].name = None /\ given'[new].content = call[c].content
      BY <3>1 DEF NewRow, NewOrigin
    <3>3. call'[c].row = new /\ call'[c].content = call[c].content
      BY <2>2 DEF Stored, TypeOK
    <3> HIDE DEF new
    <3>4. RowInv'
      BY <2>1, <3>1, <3>2, <3>3 DEF NamesOf
    <3>5. NamedAfterItsRow'
      BY <2>1, <3>1, <3>2, <3>3, <1>a, <1>b
    <3> QED
      BY <3>4, <3>5
  <2>3. CASE NotStored(c)
    <3>1. call'[c].row = 0 /\ UNCHANGED <<reservations, given>>
      BY <2>3 DEF NotStored, TypeOK
    <3> QED
      BY <2>1, <3>1, <1>a, <1>b
  <2> QED
    BY <1>4, <2>2, <2>3, InsertCases
<1>5. ASSUME NEW c \in Client, NameReservation(c) PROVE RowInv' /\ NamedAfterItsRow'
  <2>1. /\ UNCHANGED given /\ call[c] \in Call /\ pc[c] = "inserted" /\ pc'[c] = "idle"
        /\ \A d \in Client \ {c} : pc'[d] = pc[d] /\ call'[d] = call[d]
    BY <1>5 DEF NameReservation, TypeOK
  <2>2. lost \subseteq lost'
    BY <1>5 DEF NameReservation
  <2>3. DOMAIN reservations' = DOMAIN reservations /\ 0 \notin DOMAIN reservations
    BY <1>5, <2>1, NameCases, RenamedRow, LenProperties DEF TypeOK
  <2>4. CASE Renamed(c) /\ (call[c].template = "reset" => call[c].row \in lost')
    <3>1. \A r \in DOMAIN reservations :
             reservations'[r].name = IF r = call[c].row THEN <<call[c].content, r>>
                                     ELSE reservations[r].name
      BY <2>1, <2>4, RenamedRow DEF TypeOK
    <3>2. <<call[c].content, call[c].row>> \in NamesOf(call[c].row)
      BY <2>1 DEF Call, NamesOf
    <3>3. RowInv'
      BY <2>1, <2>3, <3>1, <3>2
    <3>4. NamedAfterItsRow'
      <4> SUFFICES ASSUME NEW r \in DOMAIN reservations PROVE Right(r)'
        BY <2>3, <1>b
      <4>1. CASE r = call[c].row
        BY <2>1, <2>3, <2>4, <3>1, <3>2, <4>1
      <4>2. CASE r # call[c].row
        <5>1. Right(r)
          BY <1>a
        <5>2. reservations'[r].name = reservations[r].name
          BY <3>1, <4>2
        <5>3. ASSUME NEW d \in Client, pc[d] = "inserted", call[d].row = r
              PROVE  pc'[d] = "inserted" /\ call'[d].row = r
          BY <2>1, <4>2, <5>3
        <5> QED
          BY <2>1, <2>2, <5>1, <5>2, <5>3
      <4> QED
        BY <4>1, <4>2
    <3> QED
      BY <3>3, <3>4
  <2>5. CASE UNCHANGED reservations /\ (call[c].row \in DOMAIN reservations => call[c].row \in lost')
    BY <2>1, <2>2, <2>5, <1>a, <1>b
  <2> QED
    BY <1>5, <2>4, <2>5 DEF NameReservation, Renamed
<1>6. ASSUME NEW c \in Client, Die(c) PROVE RowInv' /\ NamedAfterItsRow'
  <2>1. /\ UNCHANGED <<reservations, given>> /\ pc'[c] = "idle" /\ lost \subseteq lost'
        /\ pc[c] = "inserted" /\ call[c].row \in DOMAIN reservations => call[c].row \in lost'
        /\ \A d \in Client \ {c} : pc'[d] = pc[d] /\ call'[d] = call[d]
    BY <1>6 DEF Die, tables, TypeOK
  <2> QED
    BY <2>1, <1>a, <1>b
<1>7. CASE Reset
  <2>1. reservations' = <<>> /\ UNCHANGED pc
    BY <1>7 DEF Reset
  <2> QED
    BY <1>7, <2>1, DomainEmpty, ResetCall DEF NamedAfterItsRow
<1>8. CASE UNCHANGED vars
  BY <1>8 DEF vars, tables, history, NamedAfterItsRow
<1> QED
  BY <1>1, <1>2, <1>3, <1>4, <1>5, <1>6, <1>7, <1>8, NextCases

---------------------------------------------------------------------------
(* The two tables in step.                                                  *)

LEMMA InStepStep == TypeOK /\ StepInv /\ [Next]_vars => StepInv'
<1> SUFFICES ASSUME TypeOK, StepInv, [Next]_vars, ~disturbed' PROVE InStep'
  BY DEF StepInv
<1> USE DEF InStep, BusyAt
<1>1. ASSUME NEW c \in Client, SessionCall(c) PROVE InStep'
  BY <1>1, SessionCallKeeps DEF StepInv
<1>2. ASSUME NEW c \in Client, NEW t \in Content, Request(c, t) PROVE InStep'
  <2>1. /\ UNCHANGED <<rtemplates, reservations, given>> /\ pc[c] = "idle"
        /\ \A d \in Client \ {c} : pc'[d] = pc[d] /\ call'[d] = call[d]
    BY <1>2 DEF Request, tables, TypeOK
  <2>2. CASE pc'[c] = "checked" /\ ~Busy /\ ~disturbed
    BY <2>1, <2>2 DEF StepInv, Busy
  <2>3. CASE UNCHANGED <<pc, call, disturbed>>
    BY <2>1, <2>3 DEF StepInv
  <2> QED
    BY <1>2, <2>2, <2>3 DEF Request, TypeOK
<1>3. ASSUME NEW c \in Client, SaveRTemplate(c) PROVE InStep'
  <2>1. /\ UNCHANGED <<reservations, given>> /\ pc[c] = "checked" /\ pc'[c] = "templateSaved"
        /\ \A d \in Client \ {c} : pc'[d] = pc[d]
        /\ call[c] \in Call
    BY <1>3 DEF SaveRTemplate, TypeOK
  <2>2. /\ rtemplates' = Append(rtemplates, call[c].content) /\ ~disturbed
        /\ call' = [call EXCEPT ![c] = [content |-> @.content, row |-> Len(rtemplates'),
                                        template |-> "stored"]]
    BY <1>3, SaveCases
  <2>3. InStep /\ \A d \in Client : pc[d] # "templateSaved"
    BY <2>1, <2>2 DEF StepInv
  <2>4. call[c].content \in Content
    BY <2>1 DEF Call
  <2>5. /\ Len(rtemplates') = Len(rtemplates) + 1
        /\ DOMAIN rtemplates \subseteq DOMAIN rtemplates'
        /\ \A i \in DOMAIN rtemplates : rtemplates'[i] = rtemplates[i]
        /\ rtemplates'[Len(rtemplates')] = call[c].content
    BY <2>2, <2>4, Appended DEF TypeOK
  <2>6. call'[c].row = Len(rtemplates') /\ call'[c].content = call[c].content
    BY <2>2 DEF TypeOK
  <2>7. \A d \in Client : pc'[d] \in BusyAt => d = c
    BY <2>1, <2>3
  <2>8. Len(rtemplates') = Len(reservations) + 1
    BY <2>3, <2>5
  <2> QED
    BY <2>1, <2>3, <2>5, <2>6, <2>7, <2>8
<1>4. ASSUME NEW c \in Client, InsertReservation(c) PROVE InStep'
  <2>1. /\ UNCHANGED rtemplates /\ pc[c] = "templateSaved" /\ pc'[c] = "inserted"
        /\ \A d \in Client \ {c} : pc'[d] = pc[d]
    BY <1>4 DEF InsertReservation, Insert, TypeOK
  <2>2. Stored(c) /\ ~disturbed
    BY <1>4, InsertCases DEF Stored, NotStored
  <2>3. InStep
    BY <2>2 DEF StepInv
  <2>4. \A d \in Client : pc'[d] \notin BusyAt
    BY <2>1, <2>3
  <2>5. Len(reservations) + 1 = Len(rtemplates) /\ Len(rtemplates) \in DOMAIN rtemplates
        /\ rtemplates[Len(rtemplates)] = call[c].content
    BY <2>1, <2>3, LenProperties DEF TypeOK
  <2>6. /\ Len(reservations') = Len(reservations) + 1
        /\ DOMAIN reservations' = DOMAIN reservations \union {Len(reservations) + 1}
        /\ \A r \in DOMAIN reservations : given'[r] = given[r]
        /\ given'[Len(reservations) + 1] = NewOrigin(c)
    BY <1>4, <2>2, StoredRow
  <2>7. given'[Len(reservations) + 1].content = call[c].content
    BY <2>6 DEF NewOrigin
  <2> QED
    BY <2>1, <2>3, <2>4, <2>5, <2>6, <2>7
<1>5. ASSUME NEW c \in Client, NameReservation(c) PROVE InStep'
  <2>1. /\ UNCHANGED <<rtemplates, given, disturbed>> /\ call[c] \in Call
        /\ pc[c] = "inserted" /\ pc'[c] = "idle"
        /\ \A d \in Client \ {c} : pc'[d] = pc[d] /\ call'[d] = call[d]
    BY <1>5 DEF NameReservation, TypeOK
  <2>2. DOMAIN reservations' = DOMAIN reservations /\ Len(reservations') = Len(reservations)
    BY <1>5, <2>1, NameCases, RenamedRow DEF TypeOK
  <2> QED
    BY <2>1, <2>2 DEF StepInv
<1>6. ASSUME NEW c \in Client, Die(c) PROVE InStep'
  <2>1. /\ UNCHANGED <<rtemplates, reservations, given>> /\ pc'[c] = "idle"
        /\ ~disturbed /\ pc[c] # "templateSaved"
        /\ \A d \in Client \ {c} : pc'[d] = pc[d] /\ call'[d] = call[d]
    BY <1>6 DEF Die, tables, TypeOK
  <2> QED
    BY <2>1 DEF StepInv
<1>7. CASE Reset
  <2>1. /\ rtemplates' = <<>> /\ reservations' = <<>> /\ UNCHANGED pc
        /\ ~Busy \/ (~disturbed /\ \A c \in Client : pc[c] # "templateSaved")
    BY <1>7 DEF Reset
  <2>2. \A c, d \in Client : pc[c] \in BusyAt /\ pc[d] \in BusyAt => c = d
    BY <2>1 DEF StepInv, Busy
  <2>3. \A c \in Client : pc[c] # "templateSaved"
    BY <2>1 DEF Busy
  <2> QED
    BY <2>1, <2>2, <2>3, DomainEmpty
<1>8. CASE UNCHANGED vars
  BY <1>8 DEF vars, tables, history, StepInv
<1> QED
  BY <1>1, <1>2, <1>3, <1>4, <1>5, <1>6, <1>7, <1>8, NextCases

---------------------------------------------------------------------------
(* The theorems.                                                            *)

LEMMA InvInit == Init => IInv
<1> SUFFICES ASSUME Init PROVE IInv
  OBVIOUS
<1>1. TypeOK
  BY TypeInit
<1>2. /\ reservations = <<>> /\ rtemplates = <<>> /\ \A c \in Client : pc[c] = "idle"
      /\ \A c \in Client : handle[c] = None
      /\ \A n \in Name : sessions[n] = None
  BY DEF Init
<1> QED
  BY <1>1, <1>2, DomainEmpty DEF IInv, NameInv, TemplateInv, TemplateKept, RowInv,
     NamedAfterItsRow, StepInv, InStep, BusyAt

LEMMA Invariance == Spec => []IInv
<1>1. IInv /\ [Next]_vars => IInv'
  BY TypeStep, NameStep, TemplateStep, RowStep, InStepStep DEF IInv
<1> QED
  BY <1>1, InvInit, PTL DEF Spec

\* Every variable stays in its range, for any sets of clients, names and contents.
THEOREM TypeCorrect == Spec => []TypeOK
<1>1. IInv => TypeOK
  BY DEF IInv
<1> QED
  BY <1>1, Invariance, PTL

\* A reservation's row refers to the template it was requested with, whichever
\* statements of other clients come between and whichever fail.
THEOREM TemplateSafety == Spec => []TemplateKept
<1>1. IInv => TemplateKept
  BY DEF IInv
<1> QED
  BY <1>1, Invariance, PTL

\* A reservation is named after its own template and row, unless its UPDATE was lost.
THEOREM NameSafety == Spec => []NamedAfterItsRow
<1>1. IInv => NamedAfterItsRow
  BY DEF IInv
<1> QED
  BY <1>1, Invariance, PTL

\* Undisturbed, a reservation and its template have the same row id, which is what
\* get_reservation_template relies on.
THEOREM ReadBackSafety == Spec => []ReadBackInStep
<1>1. IInv => ReadBackInStep
  BY DEF IInv, StepInv, InStep, ReadBackInStep, GetRTemplate
<1> QED
  BY <1>1, Invariance, PTL

\* A handle lists the reservations of all sessions of its name.
THEOREM SharingSafety == Spec => []SharedByName
<1>1. IInv => SharedByName
  BY DEF IInv, NameInv, SharedByName, ReservationsOf
<1> QED
  BY <1>1, Invariance, PTL
=============================================================================
