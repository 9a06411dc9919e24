-------------------------- MODULE JobFaultsProofs --------------------------
(* The safety properties of JobFaults hold for any number of submissions,   *)
(* failures, kills and resets.  The row ids that clients, monitors and job  *)
(* processes carry are strengthened to what they are about: while somebody  *)
(* is at work and no reset has come in between, the row is there and is its *)
(* own.                                                                     *)
EXTENDS JobFaults, SequenceTheorems, TLAPS

Own(r) == row[r] \in DOMAIN rows /\ rows[row[r]].owner = r

RowInv ==
    /\ \A i \in DOMAIN rows : row[rows[i].owner] = i /\ cl[rows[i].owner] # "idle"
    /\ \A r \in Run : AtWork(r) /\ ~disturbed /\ row[r] # 0 => Own(r)
    /\ \A r \in Run : resets = 0 /\ row[r] # 0 => Own(r)
    /\ \A r \in Run : row[r] = 0 => cl[r] = "idle" \/ r \in missed

\* How far client, monitor and job process are from each other.
StageInv ==
    \A r \in Run :
        /\ cl[r] = "idle" => row[r] = 0
        /\ mon[r] # "none" => cl[r] \in {"semWait", "returned", "dead"}
        /\ cl[r] \in {"semWait", "returned"} => mon[r] # "none"
        /\ mon[r] \in {"none", "started", "failed"} => proc[r] = "none"
        /\ mon[r] \in {"forked", "pidSaved", "posted", "waited", "exitSaved", "gone"}
              => proc[r] # "none"
        /\ mon[r] \in {"waited", "exitSaved", "gone"} => proc[r] = "ended" \/ r \in unwaited
        /\ r \in posted => /\ mon[r] \in {"posted", "waited", "exitSaved", "gone", "dead"}
                           /\ proc[r] # "none"
        /\ cl[r] = "returned" => r \in posted \union hurried

\* What a monitor that has got so far has written, if nothing has failed.
Written(r) ==
    \A i \in DOMAIN rows : rows[i].owner = r =>
        /\ r \in posted \/ mon[r] \in {"pidSaved", "posted", "waited", "exitSaved", "gone"}
              => rows[i].pid = r
        /\ mon[r] \in {"exitSaved", "gone"} => rows[i].exit = r
        /\ mon[r] = "gone" /\ r \notin unwaited => rows[i].state = "ENDED" /\ rows[i].stateBy = r

ColumnInv == ~disturbed => \A r \in Run : r \notin missed => Written(r)

\* What a monitor that waits for its job does not write before the end.
EndedRow(v) == v.state = "ENDED" \/ v.exit # None

EndInv ==
    ~disturbed => \A i \in DOMAIN rows :
        EndedRow(rows[i]) => proc[rows[i].owner] = "ended" \/ rows[i].owner \in unwaited

IInv == TypeOK /\ RowInv /\ StageInv /\ OwnRowOnly /\ NamesAccounted /\ ColumnInv /\ EndInv

---------------------------------------------------------------------------
(* Statements.                                                              *)

\* An UPDATE of the row a submission carries the id of: it has been made, or it has not
\* and the submission has missed it.
Wrote(r, w) ==
    /\ rows' = [i \in DOMAIN rows |-> IF i = row[r] THEN w ELSE rows[i]]
    /\ UNCHANGED <<faults, missed>>

Missed(r) == Fault /\ missed' = missed \union {r} /\ UNCHANGED rows

LEMMA UpdateCases ==
    ASSUME NEW r \in Run, NEW w, Update(r, row[r], w) PROVE Wrote(r, w) \/ Missed(r)
BY DEF Update, Wrote, Missed

LEMMA FaultType == TypeOK /\ Fault => faults' \in 0 .. MaxFaults
BY FaultsAssumption DEF TypeOK, Fault

\* The rows after an UPDATE that was made.
LEMMA WroteRows ==
    ASSUME TypeOK, NEW r \in Run, NEW w, row[r] \in DOMAIN rows => w \in Row, Wrote(r, w)
    PROVE  /\ rows' \in Seq(Row) /\ Len(rows') = Len(rows)
           /\ DOMAIN rows' = DOMAIN rows
           /\ \A i \in DOMAIN rows : rows'[i] = IF i = row[r] THEN w ELSE rows[i]
<1>1. rows \in Seq(Row) /\ DOMAIN rows = 1 .. Len(rows) /\ Len(rows) \in Nat
  BY LenProperties DEF TypeOK
<1>2. rows' = [i \in 1 .. Len(rows) |-> IF i = row[r] THEN w ELSE rows[i]]
  BY <1>1 DEF Wrote
<1>3. CASE row[r] \in DOMAIN rows
  <2>1. rows' = [rows EXCEPT ![row[r]] = w]
    BY <1>1, <1>2, <1>3, LenProperties
  <2> QED
    BY <1>1, <1>2, <1>3, <2>1, ExceptSeq
<1>4. CASE row[r] \notin DOMAIN rows
  <2>1. rows' = rows
    BY <1>1, <1>2, <1>4, LenProperties
  <2> QED
    BY <1>1, <1>4, <2>1
<1> QED
  BY <1>3, <1>4

LEMMA RowType == ASSUME TypeOK, NEW i \in DOMAIN rows PROVE rows[i] \in Row
BY ElementOfSeq, LenProperties DEF TypeOK

\* The columns an UPDATE sets, and those it does not.
LEMMA Columns ==
    ASSUME NEW w \in Row, NEW r \in Run, NEW s \in State
    PROVE  LET a == [w EXCEPT !.state = s, !.stateBy = r]
               p == [w EXCEPT !.pid = r]
               e == [w EXCEPT !.exit = r]
           IN  /\ a \in Row /\ a.owner = w.owner /\ a.pid = w.pid /\ a.exit = w.exit
               /\ a.state = s /\ a.stateBy = r
               /\ p \in Row /\ p.owner = w.owner /\ p.state = w.state /\ p.stateBy = w.stateBy
               /\ p.exit = w.exit /\ p.pid = r
               /\ e \in Row /\ e.owner = w.owner /\ e.state = w.state /\ e.stateBy = w.stateBy
               /\ e.pid = w.pid /\ e.exit = r
BY DEF Row

\* What the five statements after the INSERT have in common: a submission at work
\* writes its own name into columns of the row it carries the id of.
Kept(r, v, w) ==
    /\ w \in Row /\ w.owner = v.owner
    /\ w.stateBy \in {v.stateBy, r} /\ w.pid \in {v.pid, r} /\ w.exit \in {v.exit, r}
    /\ v.pid = r => w.pid = r
    /\ v.exit = r => w.exit = r

Writes(r) ==
    /\ AtWork(r)
    /\ UNCHANGED <<row, names, posted, resets, early, disturbed>>
    /\ \/ \E w : Wrote(r, w) /\ (row[r] \in DOMAIN rows => Kept(r, rows[row[r]], w))
       \/ Missed(r)
       \/ UNCHANGED <<rows, faults, missed>>

WriteStep(r) ==
    SaveQueued(r) \/ SavePid(r) \/ SaveExitStatus(r) \/ SaveVerdict(r) \/ SaveRunning(r)

LEMMA WriteCases == ASSUME TypeOK, NEW r \in Run, WriteStep(r) PROVE Writes(r)
<1> DEFINE v == rows[row[r]]
<1>0. row[r] \in DOMAIN rows => v \in Row
  BY RowType
<1>1. ASSUME NEW w, Update(r, row[r], w), row[r] \in DOMAIN rows => Kept(r, v, w)
      PROVE  \/ \E u : Wrote(r, u) /\ (row[r] \in DOMAIN rows => Kept(r, v, u))
             \/ Missed(r)
  BY <1>1, UpdateCases
<1> HIDE DEF v
<1>2. \A s \in State : row[r] \in DOMAIN rows => Kept(r, v, [v EXCEPT !.state = s, !.stateBy = r])
  <2>1. ASSUME NEW s \in State, v \in Row
        PROVE  Kept(r, v, [v EXCEPT !.state = s, !.stateBy = r])
    <3>1. PICK w : w = [v EXCEPT !.state = s, !.stateBy = r]
      OBVIOUS
    <3>2. /\ w \in Row /\ w.owner = v.owner /\ w.pid = v.pid /\ w.exit = v.exit
          /\ w.stateBy = r
      BY <2>1, <3>1 DEF Row
    <3> QED
      BY <3>1, <3>2 DEF Kept
  <2> QED
    BY <1>0, <2>1
<1>3. row[r] \in DOMAIN rows => Kept(r, v, [v EXCEPT !.pid = r])
  <2>1. "NULL" \in State
    BY DEF State
  <2> QED
    BY <1>0, <2>1, Columns DEF Kept
<1>4. row[r] \in DOMAIN rows => Kept(r, v, [v EXCEPT !.exit = r])
  <2>1. "NULL" \in State
    BY DEF State
  <2> QED
    BY <1>0, <2>1, Columns DEF Kept
<1>5. /\ AtWork(r) /\ UNCHANGED <<row, names, posted, resets, early, disturbed>>
  BY DEF WriteStep, SaveQueued, SavePid, SaveExitStatus, SaveVerdict, SaveRunning, AtWork,
         InRunJob, Monitoring, ClientAt, MonAt, ProcAt
<1>6. CASE SaveQueued(r) \/ SaveVerdict(r) \/ SaveRunning(r)
  <2>1. CASE \E s \in State : Update(r, row[r], [v EXCEPT !.state = s, !.stateBy = r])
    BY <1>1, <1>2, <1>5, <2>1 DEF Writes, v
  <2>2. CASE UNCHANGED <<rows, faults, missed>>
    BY <1>5, <2>2 DEF Writes
  <2> QED
    BY <1>6, <2>1, <2>2 DEF SaveQueued, SaveVerdict, SaveRunning, SaveState, State, v
<1>7. CASE SavePid(r)
  BY <1>1, <1>3, <1>5, <1>7 DEF Writes, SavePid, WritePid, v
<1>8. CASE SaveExitStatus(r)
  BY <1>1, <1>4, <1>5, <1>8 DEF Writes, SaveExitStatus, v
<1> QED
  BY <1>6, <1>7, <1>8 DEF WriteStep

\* What the INSERT appends.
LEMMA Inserted ==
    ASSUME TypeOK, NEW r \in Run, Len(rows) < MaxRows, rows' = Append(rows, NewRow(r))
    PROVE  /\ rows' \in Seq(Row) /\ Len(rows') <= MaxRows /\ Len(rows) + 1 \in RowId
           /\ Len(rows) + 1 # 0
           /\ DOMAIN rows' = DOMAIN rows \union {Len(rows) + 1}
           /\ Len(rows) + 1 \notin DOMAIN rows
           /\ \A i \in DOMAIN rows : rows'[i] = rows[i]
           /\ rows'[Len(rows) + 1] = NewRow(r)
<1>1. NewRow(r) \in Row
  BY DEF NewRow, Row, State
<1>2. rows \in Seq(Row) /\ DOMAIN rows = 1 .. Len(rows) /\ Len(rows) \in Nat
  BY LenProperties DEF TypeOK
<1>3. /\ rows' \in Seq(Row) /\ Len(rows') = Len(rows) + 1
      /\ \A i \in 1 .. Len(rows) : rows'[i] = rows[i]
      /\ rows'[Len(rows) + 1] = NewRow(r)
      /\ DOMAIN rows' = 1 .. Len(rows) + 1
  BY <1>1, <1>2, AppendProperties, LenProperties
<1> QED
  BY <1>2, <1>3, FaultsAssumption DEF RowId

---------------------------------------------------------------------------
(* Types and stages.                                                        *)

\* The steps that touch no row.
QuietStep(r) ==
    \/ OpenSem(r) \/ ForkMonitor(r) \/ SemWait(r) \/ SemWaitInterrupted(r)
    \/ ForkJob(r) \/ PostSem(r) \/ WaitPid(r) \/ WaitPidFails(r) \/ End(r)
    \/ ClientDies(r) \/ MonitorDies(r)

LEMMA QuietKeeps ==
    ASSUME NEW r \in Run, QuietStep(r)
    PROVE  /\ UNCHANGED <<rows, row, resets, missed, disturbed>>
           /\ unwaited \subseteq unwaited'
BY DEF QuietStep, OpenSem, ForkMonitor, SemWait, SemWaitInterrupted, ReturnHandle, ForkJob, PostSem,
       WaitPid, WaitPidFails, End, ClientDies, MonitorDies, early

LEMMA NextCases ==
    ASSUME [Next]_vars
    PROVE  \/ \E r \in Run : SaveJob(r) \/ QuietStep(r) \/ WriteStep(r)
           \/ Reset
           \/ UNCHANGED vars
BY DEF Next, ClientStep, MonitorStep, QuietStep, WriteStep

LEMMA WriteRows ==
    ASSUME TypeOK, NEW r \in Run, Writes(r)
    PROVE  /\ rows' \in Seq(Row) /\ Len(rows') = Len(rows) /\ DOMAIN rows' = DOMAIN rows
           /\ missed \subseteq missed' /\ missed' \subseteq Run /\ faults' \in 0 .. MaxFaults
           /\ \A i \in DOMAIN rows :
                 \/ rows'[i] = rows[i]
                 \/ i = row[r] /\ Kept(r, rows[i], rows'[i])
<1>1. ASSUME NEW w, Wrote(r, w), row[r] \in DOMAIN rows => Kept(r, rows[row[r]], w)
      PROVE  /\ rows' \in Seq(Row) /\ Len(rows') = Len(rows) /\ DOMAIN rows' = DOMAIN rows
             /\ \A i \in DOMAIN rows :
                   \/ rows'[i] = rows[i]
                   \/ i = row[r] /\ Kept(r, rows[i], rows'[i])
  <2>1. row[r] \in DOMAIN rows => w \in Row
    BY <1>1 DEF Kept
  <2>2. /\ rows' \in Seq(Row) /\ Len(rows') = Len(rows) /\ DOMAIN rows' = DOMAIN rows
        /\ \A i \in DOMAIN rows : rows'[i] = IF i = row[r] THEN w ELSE rows[i]
    BY <1>1, <2>1, WroteRows
  <2> QED
    BY <1>1, <2>2
<1>2. CASE Missed(r)
  BY <1>2, FaultType DEF Missed, TypeOK
<1>3. CASE \E w : Wrote(r, w) /\ (row[r] \in DOMAIN rows => Kept(r, rows[row[r]], w))
  BY <1>1, <1>3 DEF Wrote, TypeOK
<1>4. CASE UNCHANGED <<rows, faults, missed>>
  BY <1>4 DEF TypeOK
<1> QED
  BY <1>2, <1>3, <1>4 DEF Writes

LEMMA TypeInit == Init => TypeOK
<1> SUFFICES ASSUME Init PROVE TypeOK
  OBVIOUS
<1>1. rows \in Seq(Row) /\ Len(rows) <= MaxRows
  BY EmptySeq, FaultsAssumption DEF Init
<1>2. 0 \in RowId /\ 0 \in 0 .. MaxFaults /\ 0 \in 0 .. MaxResets
  BY FaultsAssumption DEF RowId
<1> QED
  BY <1>1, <1>2 DEF Init, TypeOK

LEMMA TypeStep == TypeOK /\ [Next]_vars => TypeOK'
<1> SUFFICES ASSUME TypeOK, [Next]_vars PROVE TypeOK'
  OBVIOUS
<1>1. ASSUME NEW r \in Run, SaveJob(r) PROVE TypeOK'
  <2>1. /\ UNCHANGED <<names, posted, mon, proc, resets, unwaited, hurried, disturbed>>
        /\ cl' \in [Run -> InRunJob \union {"idle", "returned", "refused", "exited", "dead"}]
    BY <1>1 DEF SaveJob, ClientAt, TypeOK, InRunJob, early
  <2>2. CASE /\ rows' = Append(rows, NewRow(r)) /\ row' = [row EXCEPT ![r] = Len(rows) + 1]
             /\ UNCHANGED <<faults, missed>>
    <3>1. rows' \in Seq(Row) /\ Len(rows') <= MaxRows /\ Len(rows) + 1 \in RowId
      BY <1>1, <2>2, Inserted DEF SaveJob
    <3> QED
      BY <2>1, <2>2, <3>1 DEF TypeOK
  <2>3. CASE Fault /\ missed' = missed \union {r} /\ UNCHANGED <<rows, row>>
    BY <2>1, <2>3, FaultType DEF TypeOK
  <2> QED
    BY <1>1, <2>2, <2>3 DEF SaveJob
<1>2. ASSUME NEW r \in Run, WriteStep(r) PROVE TypeOK'
  <2>1. Writes(r)
    BY <1>2, WriteCases
  <2>2. /\ cl' \in [Run -> InRunJob \union {"idle", "returned", "refused", "exited", "dead"}]
        /\ mon' \in [Run -> Monitoring \union {"none", "failed", "gone", "dead"}]
        /\ proc' \in [Run -> {"none", "forked", "executing", "ended"}]
    BY <1>2 DEF WriteStep, SaveQueued, SavePid, SaveExitStatus, SaveVerdict, SaveRunning,
                TypeOK, ClientAt, MonAt, ProcAt, InRunJob, Monitoring
  <2>3. rows' \in Seq(Row) /\ Len(rows') <= MaxRows /\ missed' \subseteq Run
        /\ faults' \in 0 .. MaxFaults
    BY <2>1, WriteRows DEF TypeOK
  <2> QED
    BY <2>1, <2>2, <2>3 DEF Writes, TypeOK, early
<1>3. ASSUME NEW r \in Run, QuietStep(r) PROVE TypeOK'
  <2>1. UNCHANGED <<rows, row, resets, missed, disturbed>>
    BY <1>3, QuietKeeps
  <2>2. /\ cl' \in [Run -> InRunJob \union {"idle", "returned", "refused", "exited", "dead"}]
        /\ mon' \in [Run -> Monitoring \union {"none", "failed", "gone", "dead"}]
        /\ proc' \in [Run -> {"none", "forked", "executing", "ended"}]
    BY <1>3 DEF QuietStep, OpenSem, ForkMonitor, SemWait, SemWaitInterrupted, ReturnHandle,
                ForkJob, PostSem, WaitPid, WaitPidFails, End, ClientDies, MonitorDies, early,
                TypeOK, ClientAt, MonAt, ProcAt, InRunJob, Monitoring
  <2>3. /\ names' \in [RowId -> Run \union {None}] /\ posted' \subseteq Run
        /\ unwaited' \subseteq Run /\ hurried' \subseteq Run
    BY <1>3 DEF QuietStep, OpenSem, ForkMonitor, SemWait, SemWaitInterrupted, ReturnHandle,
                ForkJob, PostSem, WaitPid, WaitPidFails, End, ClientDies, MonitorDies, early, TypeOK
  <2>4. UNCHANGED faults \/ Fault
    BY <1>3 DEF QuietStep, OpenSem, ForkMonitor, SemWait, SemWaitInterrupted, ReturnHandle,
                ForkJob, PostSem, WaitPid, WaitPidFails, End, ClientDies, MonitorDies, early
  <2>5. faults' \in 0 .. MaxFaults
    BY <2>4, FaultType DEF TypeOK
  <2> QED
    BY <2>1, <2>2, <2>3, <2>5 DEF TypeOK
<1>4. CASE Reset
  <2>1. rows' \in Seq(Row) /\ Len(rows') <= MaxRows
    BY <1>4, EmptySeq, FaultsAssumption DEF Reset
  <2>2. resets' \in 0 .. MaxResets
    BY <1>4, FaultsAssumption DEF Reset, TypeOK
  <2>3. UNCHANGED <<names, posted, row, procs, early, faults, missed>> /\ disturbed' \in BOOLEAN
    BY <1>4 DEF Reset
  <2> QED
    BY <2>1, <2>2, <2>3 DEF TypeOK, procs, early
<1>5. CASE UNCHANGED vars
  BY <1>5 DEF vars, procs, early, TypeOK
<1> QED
  BY <1>1, <1>2, <1>3, <1>4, <1>5, NextCases

LEMMA StageStep == TypeOK /\ StageInv /\ [Next]_vars => StageInv'
<1> SUFFICES ASSUME TypeOK, StageInv, [Next]_vars PROVE StageInv'
  OBVIOUS
<1> USE DEF StageInv, ClientAt, MonAt, ProcAt, TypeOK, early
<1>1. ASSUME NEW r \in Run, SaveJob(r) PROVE StageInv'
  BY <1>1 DEF SaveJob
<1>2. ASSUME NEW r \in Run, WriteStep(r) PROVE StageInv'
  <2>1. UNCHANGED <<row, posted, early>>
    BY <1>2, WriteCases DEF Writes
  <2>2. CASE SaveQueued(r)
    BY <2>1, <2>2 DEF SaveQueued
  <2>3. CASE SavePid(r)
    BY <2>1, <2>3 DEF SavePid
  <2>4. CASE SaveExitStatus(r)
    BY <2>1, <2>4 DEF SaveExitStatus
  <2>5. CASE SaveVerdict(r)
    BY <2>1, <2>5 DEF SaveVerdict
  <2>6. CASE SaveRunning(r)
    BY <2>1, <2>6 DEF SaveRunning
  <2> QED
    BY <1>2, <2>2, <2>3, <2>4, <2>5, <2>6 DEF WriteStep
<1>3. ASSUME NEW r \in Run, OpenSem(r) PROVE StageInv'
  BY <1>3 DEF OpenSem
<1>4. ASSUME NEW r \in Run, ForkMonitor(r) PROVE StageInv'
  BY <1>4 DEF ForkMonitor
<1>5. ASSUME NEW r \in Run, SemWait(r) PROVE StageInv'
  BY <1>5 DEF SemWait, ReturnHandle
<1>6. ASSUME NEW r \in Run, ForkJob(r) PROVE StageInv'
  BY <1>6 DEF ForkJob
<1>7. ASSUME NEW r \in Run, PostSem(r) PROVE StageInv'
  BY <1>7 DEF PostSem
<1>8. ASSUME NEW r \in Run, End(r) PROVE StageInv'
  BY <1>8 DEF End
<1>9. ASSUME NEW r \in Run, ClientDies(r) PROVE StageInv'
  BY <1>9 DEF ClientDies, InRunJob
<1>10. ASSUME NEW r \in Run, MonitorDies(r) PROVE StageInv'
  BY <1>10 DEF MonitorDies, Monitoring
<1>11. ASSUME NEW r \in Run, SemWaitInterrupted(r) PROVE StageInv'
  BY <1>11 DEF SemWaitInterrupted, ReturnHandle
<1>12. ASSUME NEW r \in Run, WaitPid(r) PROVE StageInv'
  BY <1>12 DEF WaitPid
<1>13. ASSUME NEW r \in Run, WaitPidFails(r) PROVE StageInv'
  BY <1>13 DEF WaitPidFails
<1>14. CASE Reset
  BY <1>14 DEF Reset, procs
<1>15. CASE UNCHANGED vars
  BY <1>15 DEF vars, procs
<1> QED
  BY <1>1, <1>2, <1>3, <1>4, <1>5, <1>6, <1>7, <1>8, <1>9, <1>10, <1>11, <1>12, <1>13, <1>14,
     <1>15, NextCases
  DEF QuietStep

---------------------------------------------------------------------------
(* Whose a row is.                                                          *)

\* Nobody comes to be at work but by SaveJob.
LEMMA WorkGoesOn ==
    ASSUME TypeOK, NEW r \in Run, QuietStep(r) \/ WriteStep(r), NEW q \in Run
    PROVE  (AtWork(q)' => AtWork(q)) /\ (cl'[q] = "idle" <=> cl[q] = "idle")
<1> USE DEF AtWork, InRunJob, Monitoring, TypeOK, ClientAt, MonAt, ProcAt
<1>1. CASE SaveQueued(r) \/ SavePid(r) \/ SaveExitStatus(r)
  BY <1>1 DEF SaveQueued, SavePid, SaveExitStatus
<1>2. CASE SaveVerdict(r) \/ SaveRunning(r)
  BY <1>2 DEF SaveVerdict, SaveRunning
<1>3. CASE OpenSem(r) \/ ForkMonitor(r) \/ SemWait(r) \/ SemWaitInterrupted(r)
  BY <1>3 DEF OpenSem, ForkMonitor, SemWait, SemWaitInterrupted, ReturnHandle
<1>4. CASE ForkJob(r) \/ PostSem(r) \/ WaitPid(r) \/ WaitPidFails(r) \/ End(r)
  BY <1>4 DEF ForkJob, PostSem, WaitPid, WaitPidFails, End
<1>5. CASE ClientDies(r) \/ MonitorDies(r)
  BY <1>5 DEF ClientDies, MonitorDies
<1> QED
  BY <1>1, <1>2, <1>3, <1>4, <1>5 DEF QuietStep, WriteStep

LEMMA ResetKeepsWork ==
    ASSUME Reset, NEW q \in Run PROVE AtWork(q)' <=> AtWork(q)
BY DEF Reset, procs, AtWork

LEMMA RowStep == TypeOK /\ RowInv /\ StageInv /\ [Next]_vars => RowInv'
<1> SUFFICES ASSUME TypeOK, RowInv, StageInv, [Next]_vars PROVE RowInv'
  OBVIOUS
<1> USE DEF RowInv, Own
<1>1. ASSUME NEW r \in Run, SaveJob(r) PROVE RowInv'
  <2>1. /\ cl[r] = "idle" /\ row[r] = 0 /\ Len(rows) < MaxRows
        /\ cl' = [cl EXCEPT ![r] = "inserted"]
        /\ UNCHANGED <<names, posted, mon, proc, resets, disturbed>>
    BY <1>1 DEF SaveJob, ClientAt, StageInv
  <2>2. \A q \in Run \ {r} : (AtWork(q)' <=> AtWork(q)) /\ cl'[q] = cl[q]
    BY <2>1 DEF AtWork, TypeOK
  <2>3. cl'[r] = "inserted"
    BY <2>1 DEF TypeOK
  <2>4. CASE /\ rows' = Append(rows, NewRow(r)) /\ row' = [row EXCEPT ![r] = Len(rows) + 1]
             /\ UNCHANGED <<faults, missed>>
    <3> DEFINE new == Len(rows) + 1
    <3>1. /\ DOMAIN rows' = DOMAIN rows \union {new} /\ new \notin DOMAIN rows
          /\ \A i \in DOMAIN rows : rows'[i] = rows[i]
          /\ rows'[new] = NewRow(r) /\ new # 0
      BY <2>1, <2>4, Inserted
    <3>2. rows'[new].owner = r
      BY <3>1 DEF NewRow
    <3>3. row'[r] = new /\ \A q \in Run \ {r} : row'[q] = row[q]
      BY <2>4 DEF TypeOK
    <3>4. \A i \in DOMAIN rows : rows[i].owner \in Run /\ rows[i].owner # r
      BY <2>1, RowType DEF Row
    <3> HIDE DEF new
    <3>5. \A i \in DOMAIN rows' : row'[rows'[i].owner] = i /\ cl'[rows'[i].owner] # "idle"
      BY <2>2, <2>3, <3>1, <3>2, <3>3, <3>4
    <3>6. Own(r)'
      BY <3>1, <3>2, <3>3
    <3>7. \A q \in Run \ {r} : Own(q) => Own(q)'
      BY <3>1, <3>3
    <3> QED
      BY <2>1, <2>2, <2>4, <3>1, <3>3, <3>5, <3>6, <3>7
  <2>5. CASE Fault /\ missed' = missed \union {r} /\ UNCHANGED <<rows, row>>
    <3>1. \A i \in DOMAIN rows : rows[i].owner \in Run /\ rows[i].owner # r
      BY <2>1, RowType DEF Row
    <3> QED
      BY <2>1, <2>2, <2>5, <3>1
  <2> QED
    BY <1>1, <2>4, <2>5 DEF SaveJob
<1>2. ASSUME NEW r \in Run, WriteStep(r) PROVE RowInv'
  <2>1. Writes(r)
    BY <1>2, WriteCases
  <2>2. /\ DOMAIN rows' = DOMAIN rows /\ missed \subseteq missed'
        /\ \A i \in DOMAIN rows : rows'[i].owner = rows[i].owner
        /\ UNCHANGED <<row, resets, disturbed>>
    BY <2>1, WriteRows DEF Kept, Writes
  <2>3. \A i \in DOMAIN rows : rows[i].owner \in Run
    BY RowType DEF Row
  <2> QED
    BY <1>2, <2>2, <2>3, WorkGoesOn
<1>3. ASSUME NEW r \in Run, QuietStep(r) PROVE RowInv'
  <2>1. \A i \in DOMAIN rows : rows[i].owner \in Run
    BY RowType DEF Row
  <2> QED
    BY <1>3, <2>1, QuietKeeps, WorkGoesOn
<1>4. CASE Reset
  <2>1. DOMAIN <<>> = {}
    OBVIOUS
  <2>2. rows' = <<>> /\ UNCHANGED <<row, cl, missed>> /\ resets' # 0
    BY <1>4 DEF Reset, procs, TypeOK
  <2>3. ~disturbed' => \A q \in Run : ~AtWork(q)
    BY <1>4, Zenon DEF Reset
  <2> QED
    BY <1>4, <2>1, <2>2, <2>3, ResetKeepsWork
<1>5. CASE UNCHANGED vars
  BY <1>5 DEF vars, procs, AtWork
<1> QED
  BY <1>1, <1>2, <1>3, <1>4, <1>5, NextCases

LEMMA OwnStep == TypeOK /\ RowInv /\ OwnRowOnly /\ [Next]_vars => OwnRowOnly'
<1> SUFFICES ASSUME TypeOK, RowInv, OwnRowOnly, [Next]_vars, ~disturbed' PROVE OwnRowOnly'
  BY DEF OwnRowOnly
<1> DEFINE Clean(v) == {v.stateBy, v.pid, v.exit} \subseteq {v.owner, None}
<1>0. /\ OwnRowOnly <=> (~disturbed => \A i \in DOMAIN rows : Clean(rows[i]))
      /\ OwnRowOnly' <=> (~disturbed' => \A i \in DOMAIN rows' : Clean(rows'[i]))
  BY DEF OwnRowOnly
<1>1. ASSUME NEW r \in Run, SaveJob(r) PROVE OwnRowOnly'
  <2>1. CASE rows' = Append(rows, NewRow(r))
    <3>1. Clean(NewRow(r))
      BY DEF NewRow
    <3> HIDE DEF Clean
    <3> QED
      BY <1>0, <1>1, <2>1, <3>1, Inserted DEF SaveJob
  <2> QED
    BY <1>0, <1>1, <2>1 DEF SaveJob
<1>2. ASSUME NEW r \in Run, WriteStep(r) PROVE OwnRowOnly'
  <2>1. Writes(r) /\ ~disturbed
    BY <1>2, WriteCases DEF Writes
  <2>2. ASSUME NEW i \in DOMAIN rows PROVE Clean(rows'[i])
    <3>1. Clean(rows[i])
      BY <1>0, <2>1
    <3>2. CASE i = row[r] /\ Kept(r, rows[i], rows'[i])
      <4>1. i # 0
        BY LenProperties DEF TypeOK
      <4>2. rows[i].owner = r
        BY <2>1, <3>2, <4>1 DEF RowInv, Own, Writes
      <4> QED
        BY <3>1, <3>2, <4>2 DEF Kept
    <3> QED
      BY <2>1, <3>1, <3>2, WriteRows
  <2> QED
    BY <1>0, <2>1, <2>2, WriteRows
<1>3. ASSUME NEW r \in Run, QuietStep(r) PROVE OwnRowOnly'
  BY <1>0, <1>3, QuietKeeps
<1>4. CASE Reset
  <2>1. DOMAIN <<>> = {}
    OBVIOUS
  <2> QED
    BY <1>0, <1>4, <2>1 DEF Reset
<1>5. CASE UNCHANGED vars
  BY <1>0, <1>5 DEF vars
<1> QED
  BY <1>1, <1>2, <1>3, <1>4, <1>5, NextCases

---------------------------------------------------------------------------
(* Semaphores.                                                              *)

LEMMA NamesStep ==
    TypeOK /\ RowInv /\ StageInv /\ NamesAccounted /\ [Next]_vars => NamesAccounted'
<1> SUFFICES ASSUME TypeOK, RowInv, StageInv, NamesAccounted, [Next]_vars PROVE NamesAccounted'
  OBVIOUS
<1> DEFINE Named == \A i \in RowId : names[i] # None =>
                       /\ row[names[i]] = i
                       /\ cl[names[i]] \in {"opened", "queued", "semWait", "exited", "dead"}
           Shared(r) == /\ resets > 0 \/ r \in missed
                        /\ \E q \in Run \ {r} : row[q] = row[r] /\ cl[q] # "idle"
           Refused == \A r \in Run : cl[r] = "refused" => Shared(r)
<1>0. (NamesAccounted <=> Named /\ Refused) /\ (NamesAccounted' <=> Named' /\ Refused')
  BY DEF NamesAccounted
<1>n. names \in [RowId -> Run \union {None}] /\ row \in [Run -> RowId] /\ resets \in Nat
  BY FaultsAssumption DEF TypeOK
<1>1. ASSUME NEW r \in Run, SaveJob(r) PROVE NamesAccounted'
  <2>1. /\ cl[r] = "idle" /\ cl' = [cl EXCEPT ![r] = "inserted"] /\ UNCHANGED <<names, resets>>
        /\ \A q \in Run \ {r} : row'[q] = row[q]
    BY <1>1 DEF SaveJob, ClientAt, TypeOK
  <2>2. missed \subseteq missed'
    BY <1>1 DEF SaveJob
  <2>3. cl'[r] = "inserted" /\ \A q \in Run \ {r} : cl'[q] = cl[q]
    BY <2>1 DEF TypeOK
  <2>4. Named'
    <3>1. ASSUME NEW i \in RowId, names[i] # None
          PROVE  /\ row'[names[i]] = i
                 /\ cl'[names[i]] \in {"opened", "queued", "semWait", "exited", "dead"}
      <4>1. names[i] \in Run \ {r}
        BY <1>0, <1>n, <2>1, <3>1
      <4> QED
        BY <1>0, <2>1, <2>3, <3>1, <4>1
    <3> QED
      BY <2>1, <3>1
  <2>5. Refused'
    BY <1>0, <2>1, <2>2, <2>3
  <2> QED
    BY <1>0, <2>4, <2>5
<1>2. ASSUME NEW r \in Run, OpenSem(r) PROVE NamesAccounted'
  <2>1. cl[r] = "inserted" /\ UNCHANGED <<row, resets, missed>>
    BY <1>2 DEF OpenSem, ClientAt
  <2>2. CASE /\ names[row[r]] = None /\ cl' = [cl EXCEPT ![r] = "opened"]
             /\ names' = [names EXCEPT ![row[r]] = r]
    <3>1. cl'[r] = "opened" /\ \A q \in Run \ {r} : cl'[q] = cl[q]
      BY <2>2 DEF TypeOK
    <3>2. \A i \in RowId : names'[i] = IF i = row[r] THEN r ELSE names[i]
      BY <1>n, <2>2
    <3>3. Named'
      <4>1. ASSUME NEW i \in RowId, names'[i] # None
            PROVE  /\ row[names'[i]] = i
                   /\ cl'[names'[i]] \in {"opened", "queued", "semWait", "exited", "dead"}
        BY <1>0, <1>n, <2>1, <3>1, <3>2, <4>1
      <4> QED
        BY <2>1, <4>1
    <3>4. Refused'
      BY <1>0, <2>1, <3>1
    <3> QED
      BY <1>0, <3>3, <3>4
  <2>4. CASE cl' = [cl EXCEPT ![r] = "exited"] /\ UNCHANGED names
    <3>1. cl'[r] = "exited" /\ \A q \in Run \ {r} : cl'[q] = cl[q]
      BY <2>4 DEF TypeOK
    <3>2. \A i \in RowId : names[i] # None => names[i] # r
      BY <1>0, <2>1
    <3>3. Named'
      BY <1>0, <1>n, <2>1, <2>4, <3>1, <3>2
    <3>4. Refused'
      BY <1>0, <2>1, <3>1
    <3> QED
      BY <1>0, <3>3, <3>4
  <2>3. CASE names[row[r]] # None /\ cl' = [cl EXCEPT ![r] = "refused"] /\ UNCHANGED names
    <3>1. PICK q : q = names[row[r]]
      OBVIOUS
    <3>2. row[r] \in RowId /\ q \in Run /\ q # None
      BY <1>n, <2>3, <3>1
    <3>3. row[q] = row[r] /\ cl[q] \in {"opened", "queued", "semWait", "exited", "dead"}
      BY <1>0, <2>3, <3>1, <3>2
    <3>4. q # r
      BY <2>1, <3>3
    <3>5. resets > 0 \/ r \in missed
      <4>1. SUFFICES ASSUME resets = 0, row[r] # 0 PROVE FALSE
        BY <1>n, <2>1 DEF RowInv
      <4>2. rows[row[r]].owner = r /\ rows[row[q]].owner = q
        BY <3>2, <3>3, <4>1 DEF RowInv, Own
      <4> QED
        BY <3>3, <3>4, <4>2
    <3>6. cl'[r] = "refused" /\ \A p \in Run \ {r} : cl'[p] = cl[p]
      BY <2>3 DEF TypeOK
    <3>7. Shared(r)'
      BY <2>1, <3>2, <3>3, <3>4, <3>5, <3>6
    <3>8. Refused'
      BY <1>0, <2>1, <3>6, <3>7
    <3>a. Named'
      <4>1. \A i \in RowId : names[i] # None => names[i] # r
        BY <1>0, <2>1
      <4> QED
        BY <1>0, <1>n, <2>1, <2>3, <3>6, <4>1
    <3> QED
      BY <1>0, <3>8, <3>a
  <2> QED
    BY <1>2, <2>2, <2>3, <2>4 DEF OpenSem, ClientAt
<1>3. ASSUME NEW r \in Run, ReturnHandle(r) PROVE NamesAccounted'
  <2>1. /\ cl[r] = "semWait" /\ cl' = [cl EXCEPT ![r] = "returned"]
        /\ names' = [names EXCEPT ![row[r]] = None] /\ UNCHANGED <<row, resets, missed>>
    BY <1>3 DEF ReturnHandle, ClientAt
  <2>2. cl'[r] = "returned" /\ \A q \in Run \ {r} : cl'[q] = cl[q]
    BY <2>1 DEF TypeOK
  <2>3. \A i \in RowId : names'[i] = IF i = row[r] THEN None ELSE names[i]
    BY <1>n, <2>1
  <2>4. Named'
    <3>1. ASSUME NEW i \in RowId, names'[i] # None
          PROVE  /\ row[names'[i]] = i
                 /\ cl'[names'[i]] \in {"opened", "queued", "semWait", "exited", "dead"}
      <4>1. names'[i] = names[i] /\ i # row[r] /\ names[i] # None
        BY <2>3, <3>1
      <4>2. row[names[i]] = i /\ names[i] \in Run
        BY <1>0, <1>n, <4>1
      <4>3. names[i] # r
        BY <4>1, <4>2
      <4> QED
        BY <1>0, <2>2, <4>1, <4>2, <4>3
    <3> QED
      BY <2>1, <3>1
  <2>5. Refused'
    BY <1>0, <2>1, <2>2
  <2> QED
    BY <1>0, <2>4, <2>5
<1>4. ASSUME NEW r \in Run, WriteStep(r) \/ QuietStep(r), ~OpenSem(r), ~ReturnHandle(r)
      PROVE  NamesAccounted'
  <2>1. UNCHANGED <<row, resets, names>> /\ missed \subseteq missed'
    BY <1>4, WriteCases, WriteRows
    DEF Writes, QuietStep, ForkMonitor, SemWait, SemWaitInterrupted, ForkJob, PostSem, WaitPid,
        WaitPidFails, End, ClientDies, MonitorDies
  <2>2. \A q \in Run : \/ cl'[q] = cl[q]
                       \/ cl[q] \in InRunJob /\ cl'[q] \in {"queued", "semWait", "exited", "dead"}
    BY <1>4 DEF WriteStep, SaveQueued, SavePid, SaveExitStatus, SaveVerdict, SaveRunning,
                QuietStep, ForkMonitor, SemWait, SemWaitInterrupted, ForkJob, PostSem, WaitPid,
                WaitPidFails, End, ClientDies, MonitorDies, ClientAt, TypeOK, InRunJob
  <2>3. Named'
    BY <1>0, <1>n, <2>1, <2>2
  <2>4. Refused'
    BY <1>0, <2>1, <2>2 DEF InRunJob
  <2> QED
    BY <1>0, <2>3, <2>4
<1>5. CASE Reset
  <2>1. UNCHANGED <<names, row, cl, missed>> /\ resets' > 0
    BY <1>5, <1>n DEF Reset, procs
  <2> QED
    BY <1>0, <2>1
<1>6. CASE UNCHANGED vars
  BY <1>0, <1>6 DEF vars, procs
<1> QED
  BY <1>1, <1>2, <1>3, <1>4, <1>5, <1>6, NextCases

---------------------------------------------------------------------------
(* Columns.                                                                 *)

\* What a submission has written stays when others write, and when nobody does.
LEMMA WrittenKept ==
    ASSUME TypeOK, NEW q \in Run, Written(q),
           \/ mon'[q] = mon[q] \/ mon'[q] \in {"none", "started", "forked", "failed", "dead"}
           \/ mon[q] = "posted" /\ mon'[q] = "waited",
           unwaited \subseteq unwaited', q \in posted' => q \in posted,
           \A i \in DOMAIN rows' : rows'[i].owner = q => i \in DOMAIN rows /\ rows'[i] = rows[i]
    PROVE  Written(q)'
BY DEF Written

LEMMA ColumnStep == TypeOK /\ RowInv /\ StageInv /\ ColumnInv /\ [Next]_vars => ColumnInv'
<1> SUFFICES ASSUME TypeOK, RowInv, StageInv, ColumnInv, [Next]_vars, ~disturbed',
                    NEW q \in Run, q \notin missed'
             PROVE  Written(q)'
  BY DEF ColumnInv
<1>0. \A i \in DOMAIN rows : rows[i] \in Row /\ rows[i].owner \in Run
  BY RowType DEF Row
<1>1. ASSUME NEW r \in Run, SaveJob(r) PROVE Written(q)'
  <2>1. /\ UNCHANGED <<mon, posted, unwaited, disturbed>> /\ missed \subseteq missed'
        /\ cl[r] = "idle"
    BY <1>1 DEF SaveJob, ClientAt, early
  <2>2. Written(q)
    BY <2>1 DEF ColumnInv
  <2>3. CASE rows' = Append(rows, NewRow(r))
    <3>1. CASE q = r
      <4>1. mon[r] = "none" /\ r \notin posted
        BY <2>1 DEF StageInv
      <4> QED
        BY <2>1, <3>1, <4>1 DEF Written
    <3>2. CASE q # r
      <4>1. /\ DOMAIN rows' = DOMAIN rows \union {Len(rows) + 1}
            /\ \A i \in DOMAIN rows : rows'[i] = rows[i]
            /\ rows'[Len(rows) + 1].owner = r
        BY <1>1, <2>3, Inserted DEF SaveJob, NewRow
      <4> QED
        BY <2>1, <2>2, <3>2, <4>1, WrittenKept
    <3> QED
      BY <3>1, <3>2
  <2>4. CASE UNCHANGED rows
    BY <2>1, <2>2, <2>4, WrittenKept
  <2> QED
    BY <1>1, <2>3, <2>4 DEF SaveJob
<1>2. ASSUME NEW r \in Run, WriteStep(r) PROVE Written(q)'
  <2>1. /\ Writes(r) /\ UNCHANGED <<posted, unwaited, disturbed, row>>
        /\ DOMAIN rows' = DOMAIN rows /\ missed \subseteq missed'
        /\ \A i \in DOMAIN rows : \/ rows'[i] = rows[i]
                                  \/ i = row[r] /\ Kept(r, rows[i], rows'[i])
    BY <1>2, WriteCases, WriteRows DEF Writes, early
  <2>2. Written(q)
    BY <2>1 DEF ColumnInv
  <2>3. \A i \in DOMAIN rows : i = row[r] => rows[i].owner = r
    <3>1. \A i \in DOMAIN rows : i # 0
      BY LenProperties DEF TypeOK
    <3> QED
      BY <2>1, <3>1 DEF RowInv, Own, Writes
  <2>4. CASE q # r
    <3>1. mon'[q] = mon[q]
      BY <1>2, <2>4 DEF WriteStep, SaveQueued, SavePid, SaveExitStatus, SaveVerdict,
                        SaveRunning, MonAt, TypeOK
    <3>2. \A i \in DOMAIN rows : rows'[i].owner = q => rows'[i] = rows[i]
      BY <2>1, <2>3, <2>4 DEF Kept
    <3> QED
      BY <2>1, <2>2, <3>1, <3>2, WrittenKept
  <2>5. CASE q = r
    <3>1. \A i \in DOMAIN rows : rows'[i].owner = rows[i].owner
      BY <2>1 DEF Kept
    <3>2. \A i \in DOMAIN rows : rows[i].owner = r => i = row[r]
      BY DEF RowInv
    <3>3. ASSUME NEW w, Update(r, row[r], w)
          PROVE  \A i \in DOMAIN rows : rows[i].owner = r => rows'[i] = w
      <4>1. Wrote(r, w)
        BY <2>5, <3>3, UpdateCases DEF Missed
      <4> QED
        BY <3>2, <4>1 DEF Wrote
    <3>a. ASSUME NEW s \in State, Update(r, row[r], [rows[row[r]] EXCEPT !.state = s, !.stateBy = r])
          PROVE  \A i \in DOMAIN rows : rows[i].owner = r =>
                    /\ rows'[i].state = s /\ rows'[i].stateBy = r
                    /\ rows'[i].pid = rows[i].pid /\ rows'[i].exit = rows[i].exit
      <4>1. ASSUME NEW i \in DOMAIN rows, rows[i].owner = r
            PROVE  /\ rows'[i].state = s /\ rows'[i].stateBy = r
                   /\ rows'[i].pid = rows[i].pid /\ rows'[i].exit = rows[i].exit
        <5>1. rows'[i] = [rows[i] EXCEPT !.state = s, !.stateBy = r] /\ rows[i] \in Row
          BY <1>0, <3>2, <3>3, <3>a, <4>1
        <5>2. PICK v : v = rows[i]
          OBVIOUS
        <5> QED
          BY <5>1, <5>2 DEF Row
      <4> QED
        BY <4>1
    <3>4. CASE SaveQueued(r)
      <4>1. mon[r] = "none" /\ mon'[r] = "none"
        BY <3>4 DEF SaveQueued, ClientAt, StageInv
      <4> QED
        BY <2>1, <2>5, <4>1 DEF Written, StageInv
    <3>5. CASE SavePid(r)
      <4>1. mon'[r] = "pidSaved" /\ Update(r, row[r], [rows[row[r]] EXCEPT !.pid = r])
        BY <3>5 DEF SavePid, WritePid, MonAt, TypeOK
      <4>2. \A i \in DOMAIN rows : rows[i].owner = r => rows'[i].pid = r
        BY <1>0, <3>2, <3>3, <4>1 DEF Row
      <4> QED
        BY <2>1, <2>5, <3>1, <4>1, <4>2 DEF Written
    <3>6. CASE SaveExitStatus(r)
      <4>1. /\ mon[r] = "waited" /\ mon'[r] = "exitSaved"
            /\ Update(r, row[r], [rows[row[r]] EXCEPT !.exit = r])
        BY <3>6 DEF SaveExitStatus, MonAt, TypeOK
      <4>2. \A i \in DOMAIN rows : rows[i].owner = r =>
               rows'[i].exit = r /\ rows'[i].pid = rows[i].pid
        BY <1>0, <3>2, <3>3, <4>1 DEF Row
      <4> QED
        BY <2>1, <2>2, <2>5, <3>1, <4>1, <4>2 DEF Written
    <3>7. CASE SaveVerdict(r)
      <4>1. mon[r] = "exitSaved" /\ mon'[r] = "gone"
        BY <3>7 DEF SaveVerdict, MonAt, TypeOK
      <4>2. CASE Update(r, row[r], [rows[row[r]] EXCEPT !.state = "ENDED", !.stateBy = r])
        <5>1. \A i \in DOMAIN rows : rows[i].owner = r =>
                 /\ rows'[i].state = "ENDED" /\ rows'[i].stateBy = r
                 /\ rows'[i].pid = rows[i].pid /\ rows'[i].exit = rows[i].exit
          BY <1>0, <3>a, <4>2 DEF State
        <5> QED
          BY <2>1, <2>2, <2>5, <3>1, <4>1, <5>1 DEF Written
      <4>3. CASE r \in unwaited /\ UNCHANGED rows
        BY <2>1, <2>2, <2>5, <4>1, <4>3 DEF Written
      <4> QED
        BY <3>7, <4>2, <4>3 DEF SaveVerdict, SaveState
    <3>8. CASE SaveRunning(r)
      <4>1. (mon[r] = "gone" => r \in unwaited) /\ mon'[r] = mon[r]
        BY <3>8 DEF SaveRunning, ProcAt, StageInv
      <4>2. Update(r, row[r], [rows[row[r]] EXCEPT !.state = "RUNNING", !.stateBy = r])
        BY <3>8 DEF SaveRunning, SaveState
      <4>3. \A i \in DOMAIN rows : rows[i].owner = r =>
               rows'[i].pid = rows[i].pid /\ rows'[i].exit = rows[i].exit
        BY <1>0, <3>a, <4>2 DEF State
      <4> QED
        BY <2>1, <2>2, <2>5, <3>1, <4>1, <4>3 DEF Written
    <3> QED
      BY <1>2, <3>4, <3>5, <3>6, <3>7, <3>8 DEF WriteStep
  <2> QED
    BY <2>4, <2>5
<1>3. ASSUME NEW r \in Run, QuietStep(r) PROVE Written(q)'
  <2>1. UNCHANGED <<rows, row, resets, missed, disturbed>> /\ unwaited \subseteq unwaited'
    BY <1>3, QuietKeeps
  <2>2. Written(q)
    BY <2>1 DEF ColumnInv
  <2>3. CASE PostSem(r)
    <3>1. /\ mon[r] = "pidSaved" /\ mon'[r] = "posted" /\ posted' = posted \union {r}
          /\ \A p \in Run \ {r} : mon'[p] = mon[p]
      BY <2>3 DEF PostSem, MonAt, TypeOK
    <3> QED
      BY <2>1, <2>2, <3>1 DEF Written
  <2>4. CASE ~PostSem(r)
    <3>1. /\ UNCHANGED posted
          /\ \/ mon'[q] = mon[q] \/ mon'[q] \in {"started", "forked", "failed", "dead"}
             \/ mon[q] = "posted" /\ mon'[q] = "waited"
      BY <1>3, <2>4 DEF QuietStep, OpenSem, ForkMonitor, SemWait, SemWaitInterrupted, ReturnHandle,
                        ForkJob, WaitPid, WaitPidFails, End, ClientDies, MonitorDies, MonAt, TypeOK
    <3> QED
      BY <2>1, <2>2, <3>1, WrittenKept
  <2> QED
    BY <2>3, <2>4
<1>4. CASE Reset
  <2>1. DOMAIN <<>> = {}
    OBVIOUS
  <2> QED
    BY <1>4, <2>1 DEF Reset, Written
<1>5. CASE UNCHANGED vars
  BY <1>5 DEF vars, procs, early, ColumnInv, Written
<1> QED
  BY <1>1, <1>2, <1>3, <1>4, <1>5, NextCases

---------------------------------------------------------------------------
(* Nothing is recorded before the end.                                      *)

\* Only the monitor's last two statements make a row one of an ended job.
LEMMA EndedColumns ==
    ASSUME TypeOK, NEW r \in Run, SaveQueued(r) \/ SavePid(r) \/ SaveRunning(r)
    PROVE  \A i \in DOMAIN rows : EndedRow(rows'[i]) => EndedRow(rows[i])
<1>0. \A i \in DOMAIN rows : rows[i] \in Row
  BY RowType
<1>1. ASSUME NEW w, Update(r, row[r], w), NEW i \in DOMAIN rows,
             i = row[r] => (EndedRow(w) => EndedRow(rows[i]))
      PROVE  EndedRow(rows'[i]) => EndedRow(rows[i])
  BY <1>1 DEF Update
<1>2. ASSUME NEW s \in {"QUEUED", "RUNNING"},
             Update(r, row[r], [rows[row[r]] EXCEPT !.state = s, !.stateBy = r]),
             NEW i \in DOMAIN rows
      PROVE  EndedRow(rows'[i]) => EndedRow(rows[i])
  <2>1. ASSUME NEW v \in Row PROVE EndedRow([v EXCEPT !.state = s, !.stateBy = r]) => EndedRow(v)
    <3>1. PICK w : w = [v EXCEPT !.state = s, !.stateBy = r]
      OBVIOUS
    <3>2. w.state = s /\ w.exit = v.exit /\ s # "ENDED"
      BY <2>1, <3>1 DEF Row
    <3> QED
      BY <3>1, <3>2 DEF EndedRow
  <2> QED
    BY <1>0, <1>1, <1>2, <2>1
<1>3. ASSUME Update(r, row[r], [rows[row[r]] EXCEPT !.pid = r]), NEW i \in DOMAIN rows
      PROVE  EndedRow(rows'[i]) => EndedRow(rows[i])
  <2>1. ASSUME NEW v \in Row PROVE EndedRow([v EXCEPT !.pid = r]) => EndedRow(v)
    <3>1. PICK w : w = [v EXCEPT !.pid = r]
      OBVIOUS
    <3>2. w.state = v.state /\ w.exit = v.exit
      BY <2>1, <3>1 DEF Row
    <3> QED
      BY <3>1, <3>2 DEF EndedRow
  <2> QED
    BY <1>0, <1>1, <1>3, <2>1
<1>4. CASE SaveQueued(r) \/ SaveRunning(r)
  BY <1>2, <1>4 DEF SaveQueued, SaveRunning, SaveState
<1>5. CASE SavePid(r)
  BY <1>3, <1>5 DEF SavePid, WritePid
<1> QED
  BY <1>4, <1>5

LEMMA EndStep == TypeOK /\ RowInv /\ StageInv /\ EndInv /\ [Next]_vars => EndInv'
<1> SUFFICES ASSUME TypeOK, RowInv, StageInv, EndInv, [Next]_vars, ~disturbed' PROVE EndInv'
  BY DEF EndInv
<1> DEFINE Over(q) == proc[q] = "ended" \/ q \in unwaited
<1>0. \A i \in DOMAIN rows : rows[i] \in Row /\ rows[i].owner \in Run
  BY RowType DEF Row
<1>1. ASSUME NEW r \in Run, SaveJob(r) PROVE EndInv'
  <2>1. UNCHANGED <<proc, unwaited, disturbed>>
    BY <1>1 DEF SaveJob, early
  <2>2. CASE rows' = Append(rows, NewRow(r))
    <3>1. /\ DOMAIN rows' = DOMAIN rows \union {Len(rows) + 1}
          /\ \A i \in DOMAIN rows : rows'[i] = rows[i]
          /\ rows'[Len(rows) + 1] = NewRow(r)
      BY <1>1, <2>2, Inserted DEF SaveJob
    <3>2. ~EndedRow(NewRow(r))
      BY DEF EndedRow, NewRow
    <3> QED
      BY <2>1, <3>1, <3>2 DEF EndInv
  <2> QED
    BY <1>1, <2>1, <2>2 DEF SaveJob, EndInv
<1>2. ASSUME NEW r \in Run, WriteStep(r) PROVE EndInv'
  <2>1. /\ Writes(r) /\ UNCHANGED <<unwaited, disturbed>> /\ DOMAIN rows' = DOMAIN rows
        /\ \A i \in DOMAIN rows : \/ rows'[i] = rows[i]
                                  \/ i = row[r] /\ Kept(r, rows[i], rows'[i])
    BY <1>2, WriteCases, WriteRows DEF Writes, early
  <2>2. \A i \in DOMAIN rows : i = row[r] => rows[i].owner = r
    <3>1. \A i \in DOMAIN rows : i # 0
      BY LenProperties DEF TypeOK
    <3> QED
      BY <2>1, <3>1 DEF RowInv, Own, Writes
  <2>3. \A i \in DOMAIN rows : rows'[i].owner = rows[i].owner
    BY <2>1 DEF Kept
  <2>4. \A q \in Run : Over(q) => Over(q)'
    BY <1>2, <2>1 DEF WriteStep, SaveQueued, SavePid, SaveExitStatus, SaveVerdict, SaveRunning,
                      ProcAt, TypeOK
  <2>5. \A i \in DOMAIN rows : EndedRow(rows'[i]) => EndedRow(rows[i]) \/ Over(rows[i].owner)
    <3>1. CASE SaveExitStatus(r) \/ SaveVerdict(r)
      <4>1. Over(r)
        BY <3>1 DEF SaveExitStatus, SaveVerdict, MonAt, StageInv
      <4> QED
        BY <2>1, <2>2, <4>1
    <3> QED
      BY <1>2, <3>1, EndedColumns DEF WriteStep
  <2> QED
    BY <1>0, <2>1, <2>3, <2>4, <2>5 DEF EndInv
<1>3. ASSUME NEW r \in Run, QuietStep(r) PROVE EndInv'
  <2>1. UNCHANGED <<rows, disturbed>> /\ unwaited \subseteq unwaited'
    BY <1>3, QuietKeeps
  <2>2. \A q \in Run : proc[q] = "ended" => proc'[q] = "ended"
    BY <1>3 DEF QuietStep, OpenSem, ForkMonitor, SemWait, SemWaitInterrupted, ReturnHandle, ForkJob,
                PostSem, WaitPid, WaitPidFails, End, ClientDies, MonitorDies, ProcAt, TypeOK
  <2> QED
    BY <1>0, <2>1, <2>2 DEF EndInv
<1>4. CASE Reset
  <2>1. DOMAIN <<>> = {}
    OBVIOUS
  <2> QED
    BY <1>4, <2>1 DEF Reset, EndInv
<1>5. CASE UNCHANGED vars
  BY <1>5 DEF vars, procs, early, EndInv
<1> QED
  BY <1>1, <1>2, <1>3, <1>4, <1>5, NextCases

---------------------------------------------------------------------------
(* The invariant, and what follows from it.                                 *)

LEMMA InvInit == Init => IInv
<1> SUFFICES ASSUME Init PROVE IInv
  OBVIOUS
<1>1. DOMAIN rows = {}
  BY DEF Init
<1>2. \A i \in RowId : names[i] = None
  BY DEF Init
<1> QED
  BY <1>1, <1>2, TypeInit
  DEF IInv, RowInv, StageInv, OwnRowOnly, NamesAccounted, ColumnInv, EndInv, Written, Init, AtWork,
      InRunJob, Monitoring

LEMMA Invariance == Spec => []IInv
<1>1. IInv /\ [Next]_vars => IInv'
  BY TypeStep, RowStep, StageStep, OwnStep, NamesStep, ColumnStep, EndStep DEF IInv
<1> QED
  BY InvInit, <1>1, PTL DEF Spec

\* Rows, semaphores and processes stay in their ranges.
THEOREM TypeCorrect == Spec => []TypeOK
<1>1. IInv => TypeOK
  BY DEF IInv
<1> QED
  BY Invariance, <1>1, PTL

\* Whatever fails and whoever dies, a row is written by the processes of its own job, as
\* long as the database is reset only while nothing runs.
THEOREM RowSafety == Spec => []OwnRowOnly
<1>1. IInv => OwnRowOnly
  BY DEF IInv
<1> QED
  BY Invariance, <1>1, PTL

\* Only clients that are in run_job, or ended there, have a semaphore, and run_job is
\* refused one only for a row id that is not its own.
THEOREM NamesSafety == Spec => []NamesAccounted
<1>1. IInv => NamesAccounted
  BY DEF IInv
<1> QED
  BY Invariance, <1>1, PTL

\* A handle that run_job has returned is that of a job with a process, and with the pid
\* in its row if all statements succeeded; only after an interrupted sem_wait it is
\* returned before, and then has both as soon as the monitor has posted.
THEOREM HandleSafety == Spec => []HandleHasJob
<1>1. ASSUME IInv, NEW r \in Run, cl[r] = "returned"
      PROVE  /\ \/ proc[r] # "none"
                \/ r \in hurried /\ mon[r] \in {"started", "failed", "dead"}
             /\ r \notin missed /\ ~disturbed =>
                   \A i \in DOMAIN rows : rows[i].owner = r =>
                      \/ rows[i].pid = r
                      \/ r \in hurried /\ mon[r] \in {"started", "forked", "failed", "dead"}
  <2>1. mon[r] \in Monitoring \union {"failed", "gone", "dead"} /\ r \in posted \union hurried
    BY <1>1 DEF IInv, StageInv, TypeOK
  <2>2. \/ proc[r] # "none"
        \/ r \in hurried /\ mon[r] \in {"started", "failed", "dead"}
    BY <1>1, <2>1 DEF IInv, StageInv, Monitoring
  <2>3. ASSUME r \notin missed, ~disturbed, NEW i \in DOMAIN rows, rows[i].owner = r
        PROVE  \/ rows[i].pid = r
               \/ r \in hurried /\ mon[r] \in {"started", "forked", "failed", "dead"}
    <3>1. Written(r)
      BY <1>1, <2>3 DEF IInv, ColumnInv
    <3> QED
      BY <2>1, <2>3, <3>1 DEF Written, Monitoring
  <2> QED
    BY <2>2, <2>3
<1>2. IInv => HandleHasJob
  BY <1>1 DEF HandleHasJob
<1> QED
  BY Invariance, <1>2, PTL

\* A monitor that has waited for its job and ends has recorded exit status and verdict,
\* unless one of the submission's statements failed, and whatever fails it has recorded
\* neither before the job ended.
THEOREM VerdictSafety == Spec => []VerdictRecorded
<1>1. ASSUME IInv, ~disturbed, NEW r \in Run \ unwaited, NEW i \in DOMAIN rows, rows[i].owner = r
      PROVE  /\ mon[r] = "gone" /\ r \notin missed =>
                   rows[i].state = "ENDED" /\ rows[i].stateBy = r /\ rows[i].exit = r
             /\ rows[i].state = "ENDED" \/ rows[i].exit # None => proc[r] = "ended"
  BY <1>1 DEF IInv, ColumnInv, Written, EndInv, EndedRow
<1>2. IInv => VerdictRecorded
  BY <1>1 DEF VerdictRecorded
<1> QED
  BY Invariance, <1>2, PTL

============================================================================
