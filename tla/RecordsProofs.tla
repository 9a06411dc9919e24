--------------------------- MODULE RecordsProofs ---------------------------
(* What a filter selects, what becomes of a template that is stored and     *)
(* read back, and what a bulk call leaves in its job array, for rows,       *)
(* templates, texts, ranges and words of any size.                          *)
EXTENDS BulkArrays, TemplateCodec, JobFilter, StringListsProofs

---------------------------------------------------------------------------
(* JobFilter *)

\* A query is answered from the row it was asked about.
QueryInv ==
    /\ job \in Row
    /\ query # NULL =>
          \E h \in Handle \cup {NULL}, f \in Filter :
             query = [handle |-> h, filter |-> f] /\ found = GetJobs(<<job>>, h, f)

LEMMA QueryInit == FilterInit => QueryInv
BY DEF FilterInit, QueryInv

LEMMA QueryNext == QueryInv /\ [FilterNext]_filterVars => QueryInv'
<1> SUFFICES ASSUME QueryInv, [FilterNext]_filterVars PROVE QueryInv'
  OBVIOUS
<1>1. CASE UNCHANGED filterVars
  BY <1>1 DEF QueryInv, filterVars, GetJobs, Refused, Where
<1>2. ASSUME NEW h \in Handle \cup {NULL}, NEW f \in Filter, Ask(h, f) PROVE QueryInv'
  <2>1. query' = [handle |-> h, filter |-> f] /\ found' = GetJobs(<<job>>, h, f) /\ job' = job
    BY <1>2 DEF Ask
  <2>2. job' \in Row
    BY <2>1 DEF QueryInv
  <2> QED
    BY <2>1, <2>2 DEF QueryInv
<1> QED
  BY <1>1, <1>2 DEF FilterNext

\* The WHERE clause against the job info, column by column.
LEMMA WhereIsAgreement ==
    ASSUME NEW r \in Row, NEW h \in Handle \cup {NULL}, NEW f \in Filter, NEW offset \in Offset,
           f.jobState # Undetermined, f.queueName = NULL, h = NULL \/ h.name \notin Column
    PROVE  Where(r, h, f) <=> Mine(r, h) /\ Agrees(Shifted(f, offset), Info(r, offset))
<1> USE JobFilterAssumption
<1>1. /\ r.session_name \in Session /\ r.session_id \in SessionId
      /\ r.exit_status \in Code \cup {NULL} /\ r.job_state \in State \cup {NULL}
      /\ r.finish_time \in When \cup {NULL} /\ r.queue_name = NULL
  BY DEF Row
<1>2. /\ f.exitStatus \in Code \cup {NULL} /\ f.jobState \in State \cup {NULL}
      /\ f.finishTime \in When \cup {NULL}
  BY DEF Filter
<1>3. /\ Info(r, offset).exitStatus = r.exit_status
      /\ Info(r, offset).jobState = IF r.job_state = NULL THEN Undetermined ELSE r.job_state
      /\ Info(r, offset).finishTime = IF r.finish_time = NULL THEN NULL ELSE r.finish_time - offset
      /\ Info(r, offset).queueName = NULL
  BY <1>1 DEF Info
<1>4. /\ Shifted(f, offset).exitStatus = f.exitStatus
      /\ Shifted(f, offset).jobState = f.jobState
      /\ Shifted(f, offset).finishTime = IF f.finishTime = NULL THEN NULL ELSE f.finishTime - offset
      /\ Shifted(f, offset).queueName = NULL
  BY DEF Shifted, Filter
<1>5. (h # NULL => Equal(r.session_name, AsColumn(r, h.name)) /\ Equal(r.session_id, h.id))
         <=> Mine(r, h)
  <2>1. CASE h = NULL
    BY <2>1 DEF Mine
  <2>2. CASE h # NULL
    <3>1. h \in Handle /\ h.name \in Session /\ h.id \in SessionId /\ h.name \notin Column
      BY <2>2 DEF Handle
    <3>2. AsColumn(r, h.name) = h.name
      BY <3>1 DEF AsColumn
    <3> QED
      BY <1>1, <2>2, <3>1, <3>2 DEF Mine, Equal
  <2> QED
    BY <2>1, <2>2
<1>6. (f.exitStatus # NULL => Equal(r.exit_status, f.exitStatus))
         <=> f.exitStatus \in {NULL, r.exit_status}
  BY DEF Equal
<1>7. (f.jobState # NULL => Equal(r.job_state, f.jobState))
         <=> f.jobState \in {NULL, Info(r, offset).jobState}
  BY <1>1, <1>2, <1>3 DEF Equal
<1>8. (f.finishTime # NULL => NotBefore(r.finish_time, f.finishTime))
         <=> (Shifted(f, offset).finishTime # NULL =>
                 NotBefore(Info(r, offset).finishTime, Shifted(f, offset).finishTime))
  <2> DEFINE x == r.finish_time
             y == f.finishTime
  <2>1. x \in Int \cup {NULL} /\ y \in Int \cup {NULL} /\ offset \in Int /\ NULL \notin Int
    BY <1>1, <1>2
  <2> HIDE DEF x, y
  <2>2. CASE y = NULL
    BY <1>4, <2>2 DEF y
  <2>3. CASE y # NULL /\ x = NULL
    <3>1. y - offset \in Int
      BY <2>1, <2>3
    <3>2. y - offset # NULL
      BY <2>1, <3>1
    <3> QED
      BY <1>3, <1>4, <2>3, <3>2 DEF NotBefore, x, y
  <2>4. CASE y # NULL /\ x # NULL
    <3>1. y - offset \in Int /\ x - offset \in Int /\ (x >= y <=> x - offset >= y - offset)
      BY <2>1, <2>4
    <3>2. y - offset # NULL /\ x - offset # NULL
      BY <2>1, <3>1
    <3> QED
      BY <1>3, <1>4, <2>4, <3>1, <3>2 DEF NotBefore, x, y
  <2> QED
    BY <2>2, <2>3, <2>4
<1>9. Where(r, h, f) <=>
         /\ Mine(r, h)
         /\ f.exitStatus \in {NULL, r.exit_status}
         /\ f.jobState \in {NULL, Info(r, offset).jobState}
         /\ Shifted(f, offset).finishTime # NULL =>
               NotBefore(Info(r, offset).finishTime, Shifted(f, offset).finishTime)
  BY <1>5, <1>6, <1>7, <1>8 DEF Where
<1> QED
  BY <1>3, <1>4, <1>9 DEF Agrees

LEMMA QuerySafe == QueryInv => FilterAgreesWithInfo
<1> SUFFICES ASSUME QueryInv, query # NULL PROVE FilterAgreesWithInfo
  BY DEF FilterAgreesWithInfo
<1> USE JobFilterAssumption
<1>1. PICK h \in Handle \cup {NULL}, f \in Filter :
         query = [handle |-> h, filter |-> f] /\ found = GetJobs(<<job>>, h, f)
  BY DEF QueryInv
<1>2. query.handle = h /\ query.filter = f /\ job \in Row
  BY <1>1 DEF QueryInv
<1>3. found = Error \/ found = {i \in {1} : Where(job, h, f)}
  <2>1. DOMAIN <<job>> = {1} /\ \A i \in {1} : <<job>>[i] = job
    OBVIOUS
  <2> QED
    BY <1>1, <2>1 DEF GetJobs
<1>4. CASE f.jobState = Undetermined \/ f.queueName # NULL
  <2>1. ~Where(job, h, f)
    <3>1. job.queue_name = NULL /\ job.job_state \in State \cup {NULL}
      BY <1>2 DEF Row
    <3>2. ~Equal(job.job_state, Undetermined) /\ Undetermined # NULL
      BY <3>1 DEF Equal, Undetermined
    <3>3. ~Equal(job.queue_name, AsColumn(job, f.queueName))
      BY <3>1 DEF Equal
    <3> QED
      BY <1>4, <3>2, <3>3 DEF Where
  <2>2. found \in {{}, Error}
    BY <1>3, <2>1
  <2> QED
    BY <1>2, <1>4, <2>2 DEF FilterAgreesWithInfo
<1>5. CASE ~(f.jobState = Undetermined \/ f.queueName # NULL)
  <2>1. found = {i \in {1} : Where(job, h, f)}
    <3>1. ~Refused(f)
      BY <1>5 DEF Refused
    <3>2. DOMAIN <<job>> = {1} /\ \A i \in {1} : <<job>>[i] = job
      OBVIOUS
    <3> QED
      BY <1>1, <3>1, <3>2 DEF GetJobs
  <2>2. 1 \in found <=> Where(job, h, f)
    BY <2>1
  <2>3. ASSUME h = NULL \/ h.name \notin Column, NEW offset \in Offset
        PROVE  1 \in found <=> Mine(job, h) /\ Agrees(Shifted(f, offset), Info(job, offset))
    BY <1>2, <1>5, <2>2, <2>3, WhereIsAgreement
  <2> QED
    BY <1>2, <1>5, <2>3 DEF FilterAgreesWithInfo
<1> QED
  BY <1>4, <1>5

\* get_jobs selects a job exactly if it is one of the session's and its job info agrees
\* with the filter, whose times are displaced like those of the info; what is asked
\* of members that cannot agree selects nothing or is refused.
THEOREM FiltersAgree == FilterSpec => []FilterAgreesWithInfo
<1>1. FilterSpec => []QueryInv
  BY QueryInit, QueryNext, PTL DEF FilterSpec
<1> QED
  BY <1>1, QuerySafe, PTL

---------------------------------------------------------------------------
(* TemplateCodec *)

\* The column is what save made of the template, and what came back is what the reader
\* made of the column.
CodecInv ==
    /\ kept \in Template
    /\ stored \in {Null, Save(kept)}
    /\ back \in {Null, Read(Save(kept))}

LEMMA CodecStart == CodecInit => CodecInv
BY DEF CodecInit, CodecInv

LEMMA CodecStep == CodecInv /\ [CodecNext]_codecVars => CodecInv'
<1> SUFFICES ASSUME CodecInv, [CodecNext]_codecVars PROVE CodecInv'
  OBVIOUS
<1>1. CASE UNCHANGED codecVars
  <2>1. kept' = kept /\ stored' = stored /\ back' = back
    BY <1>1 DEF codecVars
  <2> QED
    BY <2>1 DEF CodecInv
<1>2. CASE Store
  <2>1. stored' = Save(kept) /\ kept' = kept /\ back' = back
    BY <1>2 DEF Store
  <2> QED
    BY <2>1 DEF CodecInv
<1>3. CASE Load
  <2>1. stored # Null /\ back' = Read(stored) /\ kept' = kept /\ stored' = stored
    BY <1>3 DEF Load
  <2>2. back' = Read(Save(kept))
    BY <2>1 DEF CodecInv
  <2> QED
    BY <2>1, <2>2 DEF CodecInv
<1> QED
  BY <1>1, <1>2, <1>3 DEF CodecNext

\* An int is what it was exactly if it was one.
LEMMA ToIntIs ==
    ASSUME NEW n \in Int
    PROVE  ToInt(n) = n <=> n \in -(Int32 \div 2) .. Int32 \div 2 - 1
<1> DEFINE w == Int32
           d == Int32 \div 2
<1>1. w \in Nat /\ w > 6 /\ d \in Nat /\ w = 2 * d
  BY CodecAssumption
<1> HIDE DEF w, d
<1>2. ToInt(n) = ((n + d) % w) - d
  BY DEF ToInt, w, d
<1>3. (n + d) % w = n + d <=> n + d \in 0 .. w - 1
  BY <1>1
<1>4. ToInt(n) = n <=> (n + d) % w = n + d
  BY <1>1, <1>2
<1> QED
  BY <1>1, <1>3, <1>4 DEF d

\* A list that is set and not empty comes back from its column exactly if no item has
\* the separator in it.
LEMMA ListBack ==
    ASSUME NEW list \in List
    PROVE  Split(Join(list)) = list <=> Clean(list)
<1>1. CASE list = Null
  <2>1. list # <<>>
    <3>1. <<>> \in Seq(Seq(Char))
      BY EmptySeq
    <3> QED
      BY <1>1, <3>1, CodecAssumption
  <2> QED
    BY <1>1, <2>1 DEF Join, Split, Clean
<1>2. CASE list # Null /\ list = <<>>
  BY <1>2 DEF Join, Split, Clean
<1>3. CASE list # Null /\ list # <<>>
  <2>1. list \in Seq(Seq(Char))
    <3>1. \A t \in Text : t \in Seq(Char)
      BY CodecAssumption
    <3>2. CASE \E t \in Text : list = <<t>>
      <4>1. PICK t \in Text : list = <<t>>
        BY <3>2
      <4>2. t \in Seq(Char)
        BY <3>1
      <4> QED
        BY <4>1, <4>2
    <3>3. CASE \E t, u \in Text : list = <<t, u>>
      <4>1. PICK t, u \in Text : list = <<t, u>>
        BY <3>3
      <4>2. t \in Seq(Char) /\ u \in Seq(Char)
        BY <3>1
      <4> QED
        BY <4>1, <4>2
    <3> QED
      BY <1>3, <3>2, <3>3 DEF List
  <2>2. Join(list) \in Seq(Char \cup {Sep})
    BY <1>3, <2>1, JoinIs
  <2>3. Join(list) # Null
    BY <2>2, CodecAssumption
  <2>4. Split(Join(list)) = list <=> NoSepIn(list)
    BY <1>3, <2>1, <2>3, SplitOfJoin
  <2> QED
    BY <1>3, <2>4 DEF NoSepIn, Clean
<1> QED
  BY <1>1, <1>2, <1>3

\* The unset time is the only one that a template can be read back with.
LEMMA UnsetIsInt == ToInt(UnsetTime) = UnsetTime
<1> DEFINE w == Int32
           d == Int32 \div 2
<1>1. w \in Nat /\ w > 6 /\ d \in Nat /\ w = 2 * d
  BY CodecAssumption
<1> HIDE DEF w, d
<1>2. ToInt(-3) = ((-3 + d) % w) - d
  BY DEF ToInt, w, d
<1>3. -3 + d \in 0 .. w - 1
  BY <1>1
<1>4. (-3 + d) % w = -3 + d
  BY <1>1, <1>3
<1> QED
  BY <1>1, <1>2, <1>4 DEF UnsetTime

LEMMA CodecSafe == CodecInv => ReadBack
<1> SUFFICES ASSUME CodecInv, back # Null PROVE back = kept <=> Storable(kept)
  BY DEF ReadBack
<1> DEFINE row == Save(kept)
<1>1. kept \in Template /\ back = Read(row)
  BY DEF CodecInv
<1>2. /\ kept.number \in Int /\ kept.list \in List /\ kept.time \in Time /\ kept.end \in Time
      /\ kept = [text |-> kept.text, number |-> kept.number, small |-> kept.small,
                 list |-> kept.list, dict |-> kept.dict, time |-> kept.time, end |-> kept.end]
  BY <1>1, CodecAssumption DEF Template
<1>3. /\ row.text = kept.text /\ row.number = kept.number /\ row.small = kept.small
      /\ row.list = Join(kept.list) /\ row.time = ToInt(kept.time) /\ row.end = ToInt(kept.end)
  BY DEF Save
<1> HIDE DEF row
<1>4. CASE ~TimeReads(row.time) \/ ~TimeReads(row.end)
  <2>1. back = Exit /\ back # kept
    BY <1>1, <1>4, CodecAssumption DEF Read
  <2>2. ~Storable(kept)
    BY <1>3, <1>4, UnsetIsInt DEF Storable, TimeReads
  <2> QED
    BY <2>1, <2>2
<1>5. CASE TimeReads(row.time) /\ TimeReads(row.end)
  <2>1. back = [text |-> kept.text, number |-> ToInt(kept.number), small |-> kept.small,
                list |-> Split(Join(kept.list)), dict |-> Null,
                time |-> UnsetTime, end |-> UnsetTime]
    BY <1>1, <1>3, <1>5 DEF Read
  <2>2. back = kept <=> /\ ToInt(kept.number) = kept.number
                        /\ Split(Join(kept.list)) = kept.list
                        /\ Null = kept.dict
                        /\ UnsetTime = kept.time /\ UnsetTime = kept.end
    BY <1>2, <2>1
  <2>3. ToInt(kept.number) = kept.number <=>
           kept.number \in -(Int32 \div 2) .. Int32 \div 2 - 1
    BY <1>2, ToIntIs
  <2>4. Split(Join(kept.list)) = kept.list <=> Clean(kept.list)
    BY <1>2, ListBack
  <2> QED
    BY <2>2, <2>3, <2>4 DEF Storable
<1> QED
  BY <1>4, <1>5

\* A template is read back as it was stored exactly if the formats of its columns can
\* carry it: list items without the separator, no empty list, no dictionary, no time,
\* numbers of an int.
THEOREM TemplatesReadBack == CodecSpec => []ReadBack
<1>1. CodecSpec => []CodecInv
  BY CodecStart, CodecStep, PTL DEF CodecSpec
<1> QED
  BY <1>1, CodecSafe, PTL

---------------------------------------------------------------------------
(* BulkArrays *)

Paths       == [workingDirectory : Path, inputPath : Path]
FilledPaths == {Filled(t, i) : t \in Paths, i \in Unsigned}
Submitted   == [id : Nat, paths : FilledPaths]

BulkType ==
    /\ range \in [begin : Unsigned, end : Unsigned, step : Unsigned]
    /\ index \in Unsigned
    /\ jobs \in Seq(Submitted)
    /\ ids \in Seq(Seq(Nat))
    /\ pc \in {"called", "refused", "loop", "filled", "submitted", "done"}

\* The caller's paths are in the locals while those of a job are in the template, and
\* the list has the id of every job but the one that has just been submitted.
CallInv ==
    /\ pc = "called" => jt \in Paths /\ jobs = <<>> /\ ids = <<>>
    /\ pc \notin {"called", "refused"} => saved \in Paths /\ range.begin <= range.end
    /\ pc = "loop" => jt = saved
    /\ pc \in {"filled", "submitted"} => jt = Filled(saved, index) /\ index <= range.end
    /\ Len(jobs) = IF pc = "submitted" THEN Len(ids) + 1 ELSE Len(ids)
    /\ \A k \in 1 .. Len(ids) : ids[k] = <<jobs[k].id>>
    /\ pc = "done" => array = [template |-> saved, jobs |-> Join(ids)] /\ index > range.end

\* The index after n ids, while it does not wrap around.
IndexAt(n) == range.begin + n * range.step

\* Every job has the paths for its index, and no index was beyond the end.
IndexInv ==
    Regular /\ pc \notin {"called", "refused"} =>
        /\ index = IndexAt(Len(ids))
        /\ \A k \in 1 .. Len(jobs) : jobs[k].paths = Filled(saved, IndexAt(k - 1))
        /\ Len(ids) > 0 => IndexAt(Len(ids) - 1) <= range.end

BulkInv == BulkType /\ CallInv /\ IndexInv

LEMMA BulkInit == Init => BulkInv
<1> SUFFICES ASSUME Init PROVE BulkInv
  OBVIOUS
<1>1. 0 \in Unsigned
  BY BulkArraysAssumption DEF Unsigned
<1>2. BulkType
  BY <1>1, EmptySeq DEF Init, BulkType
<1>3. CallInv
  <2>1. pc = "called" /\ jt \in Paths /\ jobs = <<>> /\ ids = <<>> /\ Len(<<>>) = 0
    BY DEF Init, Paths
  <2> QED
    BY <2>1 DEF CallInv
<1>4. IndexInv
  BY DEF Init, IndexInv
<1> QED
  BY <1>2, <1>3, <1>4 DEF BulkInv

\* What the numbers are.
LEMMA BulkNumbers ==
    ASSUME BulkType
    PROVE  /\ Word \in Nat /\ Word > 0 /\ index \in Nat /\ index < Word
           /\ range.begin \in Nat /\ range.end \in Nat /\ range.step \in Nat
           /\ range.begin < Word /\ range.end < Word
           /\ Len(ids) \in Nat /\ Len(jobs) \in Nat
<1>1. /\ range.begin \in Unsigned /\ range.end \in Unsigned /\ range.step \in Unsigned
      /\ index \in Unsigned
  BY DEF BulkType
<1>2. Len(ids) \in Nat /\ Len(jobs) \in Nat
  BY LenProperties DEF BulkType
<1> QED
  BY <1>1, <1>2, BulkArraysAssumption DEF Unsigned

\* An index within a range whose last index plus step is a word can be moved on.
LEMMA NoWrap ==
    ASSUME NEW b \in Nat, NEW e \in Nat, NEW s \in Nat, s > 0, NEW w \in Nat,
           b + ((e - b) \div s) * s + s < w, NEW n \in Nat, b + n * s <= e
    PROVE  b + n * s + s < w
<1> DEFINE d == e - b
           q == d \div s
<1>1. d \in Int /\ q \in Int /\ s * q <= d /\ d < s * q + s
  OBVIOUS
<1>2. n * s <= d
  OBVIOUS
<1>3. b + q * s + s < w
  OBVIOUS
<1> HIDE DEF d, q
<1>4. n <= q
  <2>1. ASSUME ~(n <= q) PROVE FALSE
    <3>1. q + 1 <= n
      BY <1>1, <2>1
    <3>2. s * (q + 1) <= s * n
      BY <1>1, <3>1
    <3> QED
      BY <1>1, <1>2, <3>2
  <2> QED
    BY <2>1
<1>5. n * s <= q * s
  BY <1>1, <1>4
<1> QED
  BY <1>1, <1>3, <1>5

LEMMA BulkTypeStep == BulkInv /\ [Next]_vars => BulkType'
<1> SUFFICES ASSUME BulkInv, [Next]_vars PROVE BulkType'
  OBVIOUS
<1> USE DEF BulkInv, BulkType
<1>1. CASE UNCHANGED vars
  BY <1>1 DEF vars
<1>2. CASE Check
  <2>1. index' \in Unsigned
    BY <1>2 DEF Check
  <2> QED
    BY <1>2, <2>1 DEF Check
<1>3. CASE Fill
  BY <1>3 DEF Fill
<1>4. CASE RunJob
  <2>1. PICK n \in Others : jobs' = Append(jobs, [id |-> n + 1 + IF jobs = <<>> THEN 0 ELSE Last(jobs).id,
                                                  paths |-> jt])
    BY <1>4 DEF RunJob
  <2>2. jt \in FilledPaths
    <3>1. pc = "filled" /\ jt = Filled(saved, index) /\ saved \in Paths /\ index \in Unsigned
      BY <1>4 DEF RunJob, CallInv
    <3> QED
      BY <3>1 DEF FilledPaths
  <2>3. n \in Nat /\ (IF jobs = <<>> THEN 0 ELSE Last(jobs).id) \in Nat
    <3>1. CASE jobs # <<>>
      <4>1. Last(jobs) \in Submitted
        <5>1. Len(jobs) \in 1 .. Len(jobs)
          BY <3>1, EmptySeq
        <5> QED
          BY <5>1, ElementOfSeq DEF Last
      <4> QED
        BY <3>1, <4>1, BulkArraysAssumption DEF Submitted
    <3> QED
      BY <3>1, BulkArraysAssumption
  <2> DEFINE l == IF jobs = <<>> THEN 0 ELSE Last(jobs).id
  <2>4. [id |-> n + 1 + l, paths |-> jt] \in Submitted
    <3>1. l \in Nat
      BY <2>3
    <3> HIDE DEF l
    <3> QED
      BY <2>2, <2>3, <3>1 DEF Submitted
  <2>5. jobs' \in Seq(Submitted)
    BY <2>1, <2>4, AppendProperties
  <2> QED
    BY <1>4, <2>5 DEF RunJob
<1>5. CASE Restore
  <2>1. index' \in Unsigned
    <3>1. index + range.step \in Nat /\ Word \in Nat /\ Word > 0
      BY BulkNumbers
    <3>2. (index + range.step) % Word \in 0 .. Word - 1
      BY <3>1
    <3> QED
      BY <1>5, <3>2 DEF Restore, Unsigned
  <2>2. ids' \in Seq(Seq(Nat))
    <3>1. Len(jobs) \in 1 .. Len(jobs)
      BY <1>5, BulkNumbers DEF Restore, CallInv
    <3>2. Last(jobs) \in Submitted
      BY <3>1, ElementOfSeq DEF Last
    <3>3. <<Last(jobs).id>> \in Seq(Nat)
      BY <3>2 DEF Submitted
    <3> QED
      BY <1>5, <3>3, AppendProperties DEF Restore
  <2> QED
    BY <1>5, <2>1, <2>2 DEF Restore
<1>6. CASE SaveArray
  BY <1>6 DEF SaveArray
<1> QED
  BY <1>1, <1>2, <1>3, <1>4, <1>5, <1>6 DEF Next

\* The new end of a list, and what was there before.
LEMMA AtTheEnd ==
    ASSUME NEW S, NEW s \in Seq(S), NEW x \in S
    PROVE  /\ Len(s) \in Nat /\ Len(Append(s, x)) = Len(s) + 1
           /\ \A k \in 1 .. Len(s) : Append(s, x)[k] = s[k]
           /\ Append(s, x)[Len(s) + 1] = x
BY AppendProperties, LenProperties

LEMMA CallStep == BulkInv /\ [Next]_vars => CallInv'
<1> SUFFICES ASSUME BulkInv, [Next]_vars PROVE CallInv'
  OBVIOUS
<1> USE DEF BulkInv
<1>1. CASE UNCHANGED vars
  BY <1>1 DEF CallInv, vars
<1>2. CASE Check
  <2>1. /\ jt \in Paths /\ jobs = <<>> /\ ids = <<>> /\ Len(ids) = 0 /\ Len(jobs) = 0
        /\ jobs' = jobs /\ ids' = ids /\ jt' = jt /\ range' = range
    BY <1>2 DEF Check, CallInv
  <2>2. CASE pc' = "refused"
    BY <2>1, <2>2 DEF CallInv
  <2>3. CASE pc' # "refused"
    <3>1. pc' = "loop" /\ saved' = jt /\ range.end >= range.begin
      BY <1>2, <2>3 DEF Check
    <3>2. range.begin <= range.end
      BY <3>1, BulkNumbers
    <3> QED
      BY <2>1, <3>1, <3>2 DEF CallInv
  <2> QED
    BY <2>2, <2>3
<1>3. CASE Fill
  BY <1>3 DEF Fill, CallInv
<1>4. CASE RunJob
  <2>1. /\ pc = "filled" /\ pc' = "submitted"
        /\ UNCHANGED <<range, index, jt, saved, ids, array>>
    BY <1>4 DEF RunJob
  <2>2. PICK x : jobs' = Append(jobs, x)
    BY <1>4 DEF RunJob
  <2>3. /\ saved \in Paths /\ range.begin <= range.end
        /\ jt = Filled(saved, index) /\ index <= range.end
        /\ Len(jobs) = Len(ids) /\ \A k \in 1 .. Len(ids) : ids[k] = <<jobs[k].id>>
    BY <2>1 DEF CallInv
  <2>4. jobs \in Seq(Submitted \cup {x})
    BY SeqMonotonic DEF BulkType
  <2>5. Len(jobs') = Len(jobs) + 1 /\ \A k \in 1 .. Len(jobs) : jobs'[k] = jobs[k]
    BY <2>2, <2>4, AtTheEnd
  <2>6. Len(jobs') = Len(ids') + 1 /\ \A k \in 1 .. Len(ids') : ids'[k] = <<jobs'[k].id>>
    BY <2>1, <2>3, <2>5
  <2> QED
    BY <2>1, <2>3, <2>6 DEF CallInv
<1>5. CASE Restore
  <2>1. /\ pc = "submitted" /\ pc' = "loop" /\ jt' = saved
        /\ UNCHANGED <<range, saved, jobs, array>>
        /\ ids' = Append(ids, <<jobs[Len(jobs)].id>>)
    BY <1>5 DEF Restore, Last
  <2>2. /\ saved \in Paths /\ range.begin <= range.end
        /\ Len(jobs) = Len(ids) + 1 /\ \A k \in 1 .. Len(ids) : ids[k] = <<jobs[k].id>>
    BY <2>1 DEF CallInv
  <2> DEFINE x == <<jobs[Len(jobs)].id>>
  <2>3. ids \in Seq(Seq(Nat) \cup {x})
    BY SeqMonotonic DEF BulkType
  <2> HIDE DEF x
  <2>4. /\ ids' = Append(ids, x) /\ Len(ids) \in Nat
        /\ Len(ids') = Len(ids) + 1 /\ ids'[Len(ids) + 1] = x
        /\ \A k \in 1 .. Len(ids) : ids'[k] = ids[k]
    BY <2>1, <2>3, AtTheEnd DEF x
  <2>5. ASSUME NEW k \in 1 .. Len(ids') PROVE ids'[k] = <<jobs'[k].id>>
    <3>1. CASE k \in 1 .. Len(ids)
      BY <2>1, <2>2, <2>4, <3>1
    <3>2. CASE k \notin 1 .. Len(ids)
      <4>1. k = Len(ids) + 1
        BY <2>4, <3>2
      <4> QED
        BY <2>1, <2>2, <2>4, <4>1 DEF x
    <3> QED
      BY <3>1, <3>2
  <2>6. Len(jobs') = Len(ids')
    BY <2>1, <2>2, <2>4
  <2> QED
    BY <2>1, <2>2, <2>5, <2>6 DEF CallInv
<1>6. CASE SaveArray
  <2>1. /\ pc = "loop" /\ pc' = "done" /\ index > range.end
        /\ array' = [template |-> jt, jobs |-> Join(ids)]
        /\ UNCHANGED <<range, index, jt, saved, ids, jobs>>
    BY <1>6 DEF SaveArray
  <2>2. jt = saved /\ saved \in Paths /\ range.begin <= range.end /\ Len(jobs) = Len(ids)
        /\ \A k \in 1 .. Len(ids) : ids[k] = <<jobs[k].id>>
    BY <2>1 DEF CallInv
  <2> QED
    BY <2>1, <2>2 DEF CallInv
<1> QED
  BY <1>1, <1>2, <1>3, <1>4, <1>5, <1>6 DEF Next

LEMMA IndexStep == BulkInv /\ [Next]_vars => IndexInv'
<1> SUFFICES ASSUME BulkInv, [Next]_vars, Regular', pc' \notin {"called", "refused"}
             PROVE  /\ index' = IndexAt(Len(ids))'
                    /\ \A k \in 1 .. Len(jobs') : jobs'[k].paths = Filled(saved, IndexAt(k - 1))'
                    /\ Len(ids') > 0 => (IndexAt(Len(ids) - 1) <= range.end)'
  BY DEF IndexInv
<1> USE DEF BulkInv
<1>1. range' = range /\ Regular
  <2>1. range' = range
    BY DEF Next, vars, Check, Fill, RunJob, Restore, SaveArray
  <2> QED
    BY <2>1 DEF Regular
<1>2. \A n : IndexAt(n)' = IndexAt(n)
  BY <1>1 DEF IndexAt
<1>3. CASE Check
  <2>1. /\ jobs' = <<>> /\ ids' = <<>> /\ Len(ids') = 0 /\ Len(jobs') = 0
        /\ index' = range.begin
    BY <1>3 DEF Check, CallInv
  <2>2. IndexAt(Len(ids))' = range.begin
    BY <1>1, <2>1, BulkNumbers DEF IndexAt
  <2> QED
    BY <2>1, <2>2
<1>4. ASSUME pc \notin {"called", "refused"}
      PROVE  /\ index = IndexAt(Len(ids))
             /\ \A k \in 1 .. Len(jobs) : jobs[k].paths = Filled(saved, IndexAt(k - 1))
             /\ Len(ids) > 0 => IndexAt(Len(ids) - 1) <= range.end
  BY <1>1, <1>4 DEF IndexInv
<1>5. CASE UNCHANGED vars
  BY <1>4, <1>5 DEF vars, IndexAt
<1>6. CASE Fill
  BY <1>4, <1>6 DEF Fill, IndexAt
<1>7. CASE SaveArray
  BY <1>4, <1>7 DEF SaveArray, IndexAt
<1>8. CASE RunJob
  <2>1. /\ pc = "filled" /\ UNCHANGED <<range, index, saved, ids>>
        /\ \E i : jobs' = Append(jobs, [id |-> i, paths |-> jt])
    BY <1>8 DEF RunJob
  <2>2. PICK i : jobs' = Append(jobs, [id |-> i, paths |-> jt])
    BY <2>1
  <2> DEFINE x == [id |-> i, paths |-> jt]
  <2>3. jobs \in Seq(Submitted \cup {x})
    BY SeqMonotonic DEF BulkType
  <2>4. x.paths = jt
    OBVIOUS
  <2> HIDE DEF x
  <2>5. /\ Len(jobs) \in Nat /\ Len(jobs') = Len(jobs) + 1
        /\ \A k \in 1 .. Len(jobs) : jobs'[k] = jobs[k]
        /\ jobs'[Len(jobs) + 1] = x
    BY <2>2, <2>3, AtTheEnd DEF x
  <2>6. jt = Filled(saved, index) /\ Len(jobs) = Len(ids)
    BY <2>1 DEF CallInv
  <2>7. ASSUME NEW k \in 1 .. Len(jobs') PROVE jobs'[k].paths = Filled(saved, IndexAt(k - 1))
    <3>1. CASE k \in 1 .. Len(jobs)
      BY <1>4, <2>1, <2>5, <3>1
    <3>2. CASE k \notin 1 .. Len(jobs)
      <4>1. k = Len(jobs) + 1 /\ k - 1 = Len(ids)
        BY <2>5, <2>6, <3>2
      <4> QED
        BY <1>4, <2>1, <2>4, <2>5, <2>6, <4>1
    <3> QED
      BY <3>1, <3>2
  <2>8. \A k \in 1 .. Len(jobs') : jobs'[k].paths = Filled(saved, IndexAt(k - 1))'
    BY <1>1, <2>1, <2>7 DEF IndexAt, Filled
  <2> QED
    BY <1>1, <1>4, <2>1, <2>8 DEF IndexAt
<1>9. CASE Restore
  <2> DEFINE n == Len(ids)
             b == range.begin
             e == range.end
             s == range.step
  <2>1. /\ pc = "submitted" /\ UNCHANGED <<range, saved, jobs>>
        /\ ids' = Append(ids, <<Last(jobs).id>>)
        /\ index' = (index + s) % Word
    BY <1>9 DEF Restore
  <2>2. /\ b \in Nat /\ e \in Nat /\ s \in Nat /\ s > 0 /\ Word \in Nat /\ Word > 0 /\ n \in Nat
        /\ b + ((e - b) \div s) * s + s < Word
    BY <1>1, BulkNumbers DEF Regular
  <2>3. index = b + n * s /\ index <= e
    BY <1>4, <2>1 DEF CallInv, IndexAt
  <2>4. Len(ids') = n + 1
    <3> DEFINE x == <<Last(jobs).id>>
    <3>1. ids \in Seq(Seq(Nat) \cup {x})
      BY SeqMonotonic DEF BulkType
    <3> HIDE DEF x
    <3> QED
      BY <2>1, <3>1, AtTheEnd DEF x
  <2> HIDE DEF n, b, e, s
  <2>5. b + n * s + s < Word
    BY <2>2, <2>3, NoWrap
  <2>6. index' = b + (n + 1) * s
    <3>1. index + s = b + n * s + s /\ index + s \in Nat /\ index + s \in 0 .. Word - 1
      BY <2>2, <2>3, <2>5
    <3>2. (index + s) % Word = index + s
      BY <2>2, <3>1
    <3>3. b + (n + 1) * s = b + n * s + s
      BY <2>2
    <3> QED
      BY <2>1, <3>1, <3>2, <3>3
  <2>7. index' = IndexAt(Len(ids))'
    BY <1>1, <2>4, <2>6 DEF IndexAt, b, s
  <2>8. (IndexAt(Len(ids) - 1) <= range.end)'
    <3>1. (n + 1) - 1 = n
      BY <2>2
    <3>2. IndexAt(Len(ids) - 1)' = b + n * s
      BY <1>1, <2>4, <3>1 DEF IndexAt, b, s
    <3> QED
      BY <1>1, <2>3, <3>2 DEF e
  <2>9. \A k \in 1 .. Len(jobs') : jobs'[k].paths = Filled(saved, IndexAt(k - 1))'
    BY <1>1, <1>4, <2>1 DEF IndexAt, Filled
  <2> QED
    BY <2>7, <2>8, <2>9
<1> QED
  BY <1>3, <1>5, <1>6, <1>7, <1>8, <1>9 DEF Next

---------------------------------------------------------------------------
\* The paths a job was submitted with are those its index asks for.
LEMMA FilledIs ==
    ASSUME NEW t \in Paths, NEW i \in Nat
    PROVE  Filled(t, i) = [workingDirectory |-> Expected(t.workingDirectory, i, FALSE),
                           inputPath |-> Expected(t.inputPath, i, TRUE)]
<1>1. ASSUME NEW p \in Seq(Symbol), NEW old, NEW new \in Symbol
      PROVE  /\ Replace(p, old, new) \in Seq(Symbol) /\ Replace(p, old, new) # Null
             /\ Len(Replace(p, old, new)) = Len(p)
             /\ \A k \in 1 .. Len(p) :
                   Replace(p, old, new)[k] = IF p[k] = old THEN new ELSE p[k]
  <2> DEFINE q == [k \in 1 .. Len(p) |-> IF p[k] = old THEN new ELSE p[k]]
  <2>1. p # Null /\ Len(p) \in Nat
    BY LenProperties, BulkArraysAssumption
  <2>2. Replace(p, old, new) = q
    BY <2>1 DEF Replace, ReplaceAll
  <2>3. q \in [1 .. Len(p) -> Symbol]
    BY ElementOfSeq
  <2>4. \A k \in 1 .. Len(p) : q[k] = IF p[k] = old THEN new ELSE p[k]
    OBVIOUS
  <2> HIDE DEF q
  <2>5. q \in Seq(Symbol) /\ Len(q) = Len(p)
    BY <2>1, <2>3
  <2>6. q # Null
    BY <2>5, BulkArraysAssumption
  <2> QED
    BY <2>2, <2>4, <2>5, <2>6
<1>2. i \in Symbol /\ Tilde \in Symbol /\ Dot \in Symbol
  BY DEF Symbol
<1>3. /\ i # Home /\ i # Working /\ Index # Home /\ Index # Working /\ Home # Working
      /\ Tilde # Working
  BY BulkArraysAssumption
<1>4. ASSUME NEW p \in Path
      PROVE  /\ Replace(Replace(p, Index, i), Home, Tilde) = Expected(p, i, FALSE)
             /\ Replace(Replace(Replace(p, Index, i), Home, Tilde), Working, Dot)
                   = Expected(p, i, TRUE)
  <2>1. CASE p = Null
    BY <2>1 DEF Replace, Expected
  <2>2. CASE p # Null
    <3> DEFINE u == Replace(p, Index, i)
               v == Replace(u, Home, Tilde)
               w == Replace(v, Working, Dot)
    <3>1. p \in Seq(Symbol) /\ DOMAIN p = 1 .. Len(p)
      BY <2>2, LenProperties, BulkArraysAssumption
    <3>2. /\ u \in Seq(Symbol) /\ Len(u) = Len(p)
          /\ \A k \in 1 .. Len(p) : u[k] = IF p[k] = Index THEN i ELSE p[k]
      BY <1>1, <1>2, <3>1
    <3> HIDE DEF u
    <3>3. /\ v \in Seq(Symbol) /\ Len(v) = Len(p)
          /\ \A k \in 1 .. Len(p) : v[k] = IF u[k] = Home THEN Tilde ELSE u[k]
      BY <1>1, <1>2, <3>2
    <3> HIDE DEF v
    <3>4. /\ w \in Seq(Symbol) /\ Len(w) = Len(p)
          /\ \A k \in 1 .. Len(p) : w[k] = IF v[k] = Working THEN Dot ELSE v[k]
      BY <1>1, <1>2, <3>3
    <3> HIDE DEF w
    <3>5. /\ v = [k \in 1 .. Len(p) |-> v[k]]
          /\ w = [k \in 1 .. Len(p) |-> w[k]]
      BY <3>3, <3>4, LenProperties
    <3>6. ASSUME NEW k \in 1 .. Len(p)
          PROVE  /\ v[k] = CASE p[k] = Index -> i
                             [] p[k] = Home -> Tilde
                             [] p[k] = Working /\ FALSE -> Dot
                             [] OTHER -> p[k]
                 /\ w[k] = CASE p[k] = Index -> i
                             [] p[k] = Home -> Tilde
                             [] p[k] = Working /\ TRUE -> Dot
                             [] OTHER -> p[k]
      <4>1. /\ u[k] = IF p[k] = Index THEN i ELSE p[k]
            /\ v[k] = IF u[k] = Home THEN Tilde ELSE u[k]
            /\ w[k] = IF v[k] = Working THEN Dot ELSE v[k]
        BY <3>2, <3>3, <3>4
      <4>2. CASE p[k] = Index
        BY <1>3, <4>1, <4>2
      <4>3. CASE p[k] = Home
        BY <1>3, <4>1, <4>3
      <4>4. CASE p[k] = Working
        BY <1>3, <4>1, <4>4
      <4>5. CASE p[k] # Index /\ p[k] # Home /\ p[k] # Working
        BY <4>1, <4>5
      <4> QED
        BY <4>2, <4>3, <4>4, <4>5
    <3>7. v = Expected(p, i, FALSE) /\ w = Expected(p, i, TRUE)
      BY <2>2, <3>1, <3>5, <3>6 DEF Expected
    <3> QED
      BY <3>7 DEF u, v, w
  <2> QED
    BY <2>1, <2>2
<1>5. t.workingDirectory \in Path /\ t.inputPath \in Path
  BY DEF Paths
<1> QED
  BY <1>4, <1>5 DEF Filled

\* The array's row is taken apart into the ids it was joined from.
LEMMA IdsBack ==
    ASSUME NEW list \in Seq(Seq(Nat)), NEW js, list # <<>>,
           \A k \in 1 .. Len(list) : list[k] = <<js[k].id>>
    PROVE  Split(Join(list)) = list
<1>1. list # Null
  BY BulkArraysAssumption
<1>2. Join(list) \in Seq(Nat \cup {Sep})
  BY <1>1, JoinIs
<1>3. Join(list) # Null
  BY <1>2, BulkArraysAssumption
<1>4. NoSepIn(list)
  <2>1. ASSUME NEW k \in DOMAIN list PROVE Sep \notin ToSet(list[k])
    <3>1. list[k] \in Seq(Nat)
      BY LenProperties, ElementOfSeq
    <3>2. \A i \in DOMAIN list[k] : list[k][i] \in Nat
      BY <3>1, LenProperties, ElementOfSeq
    <3> QED
      BY <3>2, BulkArraysAssumption DEF ToSet
  <2> QED
    BY <2>1 DEF NoSepIn
<1> QED
  BY <1>1, <1>3, <1>4, SplitOfJoin

\* The loop has submitted one job for each index of the range.
LEMMA LoopCount ==
    ASSUME NEW d \in Nat, NEW s \in Nat, s > 0, NEW n \in Nat, n > 0,
           (n - 1) * s <= d, d < n * s
    PROVE  n = d \div s + 1
<1> DEFINE q == d \div s
<1>1. q \in Int /\ s * q <= d /\ d < s * q + s
  OBVIOUS
<1> HIDE DEF q
<1>2. ~(q < n - 1)
  <2>1. ASSUME q < n - 1 PROVE FALSE
    <3>1. s * (q + 1) <= s * (n - 1)
      BY <1>1, <2>1
    <3> QED
      BY <1>1, <3>1
  <2> QED
    BY <2>1
<1>3. ~(q > n - 1)
  <2>1. ASSUME q > n - 1 PROVE FALSE
    <3>1. s * n <= s * q
      BY <1>1, <2>1
    <3> QED
      BY <1>1, <3>1
  <2> QED
    BY <2>1
<1> QED
  BY <1>1, <1>2, <1>3 DEF q

LEMMA BulkSafe == BulkInv => ArrayReadBack
<1> SUFFICES ASSUME BulkInv, pc = "done", Regular PROVE ArrayReadBack
  BY DEF ArrayReadBack
<1> DEFINE n == Len(ids)
           b == range.begin
           e == range.end
           s == range.step
           count == (e - b) \div s + 1
<1>1. /\ array = [template |-> saved, jobs |-> Join(ids)] /\ index > e /\ b <= e
      /\ saved \in Paths /\ Len(jobs) = n
      /\ \A k \in 1 .. n : ids[k] = <<jobs[k].id>>
  BY DEF BulkInv, CallInv
<1>2. /\ index = b + n * s
      /\ \A k \in 1 .. n : jobs[k].paths = Filled(saved, IndexAt(k - 1))
      /\ n > 0 => b + (n - 1) * s <= e
  BY <1>1 DEF BulkInv, IndexInv, IndexAt
<1>3. b \in Nat /\ e \in Nat /\ s \in Nat /\ s > 0 /\ n \in Nat
  BY BulkNumbers DEF BulkInv, Regular
<1>4. ids \in Seq(Seq(Nat))
  BY DEF BulkInv, BulkType
<1> HIDE DEF n, b, e, s
<1>5. n > 0
  <2>1. CASE n = 0
    BY <1>1, <1>2, <1>3, <2>1
  <2> QED
    BY <1>3, <2>1
<1>6. n = count
  <2>1. e - b \in Nat /\ (n - 1) * s <= e - b /\ e - b < n * s
    <3> DEFINE x == (n - 1) * s
               y == n * s
    <3>1. x \in Int /\ y \in Int
      BY <1>3
    <3>2. b + x <= e /\ b + y > e
      BY <1>1, <1>2, <1>5
    <3> HIDE DEF x, y
    <3>3. e - b \in Nat /\ x <= e - b /\ e - b < y
      BY <1>1, <1>3, <3>1, <3>2
    <3> QED
      BY <3>3 DEF x, y
  <2> QED
    BY <1>3, <1>5, <2>1, LoopCount
<1> DEFINE arrayIds == Split(array.jobs)
<1>7. arrayIds = ids
  <2>1. ids # <<>>
    BY <1>5, EmptySeq DEF n
  <2>2. \A k \in 1 .. Len(ids) : ids[k] = <<jobs[k].id>>
    BY <1>1 DEF n
  <2> QED
    BY <1>1, <1>4, <2>1, <2>2, IdsBack
<1> HIDE DEF arrayIds
<1>8. ASSUME NEW k \in 1 .. n
      PROVE  /\ arrayIds[k] = <<jobs[k].id>>
             /\ jobs[k].paths =
                   [workingDirectory |-> Expected(saved.workingDirectory, b + (k - 1) * s, FALSE),
                    inputPath |-> Expected(saved.inputPath, b + (k - 1) * s, TRUE)]
  <2>1. IndexAt(k - 1) = b + (k - 1) * s /\ b + (k - 1) * s \in Nat
    <3>1. k - 1 \in Nat
      BY <1>3
    <3>2. (k - 1) * s \in Nat
      BY <1>3, <3>1
    <3> QED
      BY <1>3, <3>2 DEF IndexAt, b, s
  <2>2. Filled(saved, b + (k - 1) * s) =
           [workingDirectory |-> Expected(saved.workingDirectory, b + (k - 1) * s, FALSE),
            inputPath |-> Expected(saved.inputPath, b + (k - 1) * s, TRUE)]
    BY <1>1, <2>1, FilledIs
  <2> QED
    BY <1>1, <1>2, <1>7, <2>1, <2>2
<1>9. Len(arrayIds) = count /\ Len(jobs) = count /\ array.template = saved
  BY <1>1, <1>6, <1>7 DEF n
<1> HIDE DEF count
<1>10. \A k \in 1 .. count :
          LET i == b + (k - 1) * s
          IN  /\ arrayIds[k] = <<jobs[k].id>>
              /\ jobs[k].paths = [workingDirectory |-> Expected(saved.workingDirectory, i, FALSE),
                                  inputPath |-> Expected(saved.inputPath, i, TRUE)]
  BY <1>6, <1>8
<1> QED
  BY <1>9, <1>10 DEF ArrayReadBack, arrayIds, count, b, e, s

\* When a bulk call whose index does not wrap around has returned, the job array is
\* read back as one job for each index of its range, in order and with the paths its
\* index asks for, and with the caller's template, whatever ids other clients took.
THEOREM ArraysReadBack == Spec => []ArrayReadBack
<1>1. Spec => []BulkInv
  BY BulkInit, BulkTypeStep, CallStep, IndexStep, PTL DEF Spec, BulkInv
<1> QED
  BY <1>1, BulkSafe, PTL
=============================================================================
