--------------------------- MODULE JobWatchProofs ---------------------------
(* The safety properties of JobWatch hold for any number of clients, jobs   *)
(* and control calls, and for any lists.                                    *)
EXTENDS JobWatch, FiniteSetTheorems, SequenceTheorems, WellFoundedInduction, TLAPS

Requeued == {"REQUEUED", "REQUEUED_HELD"}

\* No code writes REQUEUED but release of a job that is REQUEUED_HELD, which only hold
\* of a requeued job writes; and a monitor announces nothing before its job has ended.
JobInv ==
    \A j \in Job : /\ state[j] \notin Requeued
                   /\ state[j] = "NoRow" => proc[j] = "none" /\ mon[j] = "none"
                   /\ mon[j] = "written" => proc[j] \in {"exited", "killed"}

\* What a call knows of the jobs it has passed, and of the one it is at.
CallOk(c) ==
    /\ ~Free(c) =>
          /\ call[c].op # "none" /\ call[c].pos >= 1
          /\ \A k \in ToSet(call[c].jobs) : state[k] # "NoRow"
          /\ \A k \in steady[c] : LooksFor(call[c].op, state[k])
          /\ \A i \in 1 .. call[c].pos - 1 : call[c].jobs[i] \notin steady[c]
    /\ call[c].at \in {"admitted", "announce"} =>
          /\ call[c].pos \in DOMAIN call[c].jobs
          /\ call[c].op \in ControlOp
          /\ call[c].move \in ControlMoves[call[c].op] /\ call[c].move[1] \notin Requeued
    /\ call[c].at = "announce" => Current(c) \notin steady[c]

CallInv == \A c \in Client : CallOk(c)

\* ToldOnce, and that it counts something: there are only finitely many tellers.
OnceInv ==
    \A j \in Job, s \in JState :
        /\ IsFiniteSet(Tellers(j, s))
        /\ Cardinality({i \in DOMAIN due[j] : due[j][i] = s}) = Cardinality(Tellers(j, s))

\* Unless announcements of a job were due at once, there is never more than one due.
OrderInv == /\ \A j \in Job : j \notin muddled => Len(due[j]) <= 1
            /\ mistold \subseteq muddled

IInv == TypeOK /\ JobInv /\ CallInv /\ OnceInv /\ OrderInv
---------------------------------------------------------------------------
(* Sequences: how often an element occurs.                                  *)

Places(q, e) == {i \in DOMAIN q : q[i] = e}

LEMMA PlacesFinite ==
    ASSUME NEW S, NEW q \in Seq(S), NEW e
    PROVE  IsFiniteSet(Places(q, e)) /\ Cardinality(Places(q, e)) \in Nat
<1>1. IsFiniteSet(1 .. Len(q))
  BY FS_Interval
<1>2. Places(q, e) \in SUBSET (1 .. Len(q))
  BY DEF Places
<1> QED
  BY <1>1, <1>2, FS_Subset, FS_CardinalityType

LEMMA PlacesAppend ==
    ASSUME NEW S, NEW q \in Seq(S), NEW d \in S, NEW e
    PROVE  Cardinality(Places(Append(q, d), e))
             = IF d = e THEN Cardinality(Places(q, e)) + 1 ELSE Cardinality(Places(q, e))
<1> DEFINE n == Len(q) + 1
<1>1. n \notin Places(q, e)
  BY DEF Places
<1>2. Places(Append(q, d), e) = IF d = e THEN Places(q, e) \cup {n} ELSE Places(q, e)
  BY DEF Places
<1> QED
  BY <1>1, <1>2, PlacesFinite, FS_AddElement

LEMMA RemoveAtIs ==
    ASSUME NEW S, NEW q \in Seq(S), NEW p \in DOMAIN q
    PROVE  /\ RemoveAt(q, p) \in Seq(S)
           /\ Len(RemoveAt(q, p)) = Len(q) - 1
           /\ \A i \in 1 .. Len(q) - 1 : RemoveAt(q, p)[i] = IF i < p THEN q[i] ELSE q[i + 1]
<1> DEFINE a == SubSeq(q, 1, p - 1)
           b == SubSeq(q, p + 1, Len(q))
<1>1. p \in 1 .. Len(q) /\ Len(q) \in Nat /\ \A i \in 1 .. Len(q) : q[i] \in S
  OBVIOUS
<1>2. a \in Seq(S) /\ Len(a) = p - 1 /\ \A i \in 1 .. p - 1 : a[i] = q[i]
  BY <1>1, SubSeqProperties
<1>3. b \in Seq(S) /\ Len(b) = Len(q) - p /\ \A i \in 1 .. Len(q) - p : b[i] = q[p + i]
  BY <1>1, SubSeqProperties
<1>4. /\ a \o b \in Seq(S) /\ Len(a \o b) = Len(a) + Len(b)
      /\ \A i \in 1 .. Len(a) + Len(b) : (a \o b)[i] = IF i <= Len(a) THEN a[i] ELSE b[i - Len(a)]
  BY <1>2, <1>3, ConcatProperties
<1>5. RemoveAt(q, p) = a \o b
  BY DEF RemoveAt
<1> HIDE DEF a, b
<1>6. Len(a \o b) = Len(q) - 1
  BY <1>1, <1>2, <1>3, <1>4
<1>7. ASSUME NEW i \in 1 .. Len(q) - 1 PROVE (a \o b)[i] = IF i < p THEN q[i] ELSE q[i + 1]
  <2>1. i \in 1 .. Len(a) + Len(b)
    BY <1>1, <1>2, <1>3
  <2>2. CASE i < p
    BY <1>1, <1>2, <1>4, <2>1, <2>2
  <2>3. CASE ~(i < p)
    <3>1. i - (p - 1) \in 1 .. Len(q) - p /\ p + (i - (p - 1)) = i + 1
      BY <1>1, <2>3
    <3>2. i - Len(a) \in 1 .. Len(q) - p /\ ~(i <= Len(a))
      BY <1>1, <1>2, <2>3
    <3>3. (a \o b)[i] = b[i - (p - 1)]
      BY <1>2, <1>4, <2>1, <3>2
    <3>4. b[i - (p - 1)] = q[p + (i - (p - 1))]
      BY <1>3, <3>1
    <3> QED
      BY <2>3, <3>1, <3>3, <3>4
  <2> QED
    BY <2>2, <2>3
<1> QED
  BY <1>4, <1>5, <1>6, <1>7

LEMMA PlacesRemoveAt ==
    ASSUME NEW S, NEW q \in Seq(S), NEW p \in DOMAIN q, NEW e
    PROVE  Cardinality(Places(RemoveAt(q, p), e))
             = IF q[p] = e THEN Cardinality(Places(q, e)) - 1 ELSE Cardinality(Places(q, e))
<1> DEFINE r == RemoveAt(q, p)
           A == Places(q, e) \ {p}
           B == Places(r, e)
           f == [i \in A |-> IF i < p THEN i ELSE i - 1]
<1>1. /\ r \in Seq(S) /\ Len(r) = Len(q) - 1
      /\ \A i \in 1 .. Len(r) : r[i] = IF i < p THEN q[i] ELSE q[i + 1]
  BY RemoveAtIs
<1>2. IsFiniteSet(Places(q, e)) /\ Cardinality(Places(q, e)) \in Nat
  BY PlacesFinite
<1>3. /\ IsFiniteSet(A)
      /\ Cardinality(A) = IF p \in Places(q, e) THEN Cardinality(Places(q, e)) - 1
                          ELSE Cardinality(Places(q, e))
  BY <1>2, FS_RemoveElement
<1>4. /\ Len(q) \in Nat /\ Len(r) \in Nat /\ p \in 1 .. Len(q) /\ DOMAIN r = 1 .. Len(r)
      /\ \A i : i \in A <=> i \in 1 .. Len(q) /\ i # p /\ q[i] = e
      /\ \A i : i \in B <=> i \in 1 .. Len(r) /\ r[i] = e
  BY <1>1 DEF Places
<1> HIDE DEF r, A, B
<1>5. f \in Bijection(A, B)
  <2>1. ASSUME NEW i \in A PROVE f[i] \in B
    <3>1. CASE i < p
      <4>1. i \in 1 .. Len(r) /\ f[i] = i
        BY <1>1, <1>4, <3>1
      <4> QED
        BY <1>1, <1>4, <3>1, <4>1
    <3>2. CASE ~(i < p)
      <4>1. i - 1 \in 1 .. Len(r) /\ f[i] = i - 1 /\ ~(i - 1 < p) /\ (i - 1) + 1 = i
        BY <1>1, <1>4, <3>2
      <4>2. r[i - 1] = q[(i - 1) + 1]
        BY <1>1, <4>1
      <4> QED
        BY <1>4, <4>1, <4>2
    <3> QED
      BY <3>1, <3>2
  <2>2. \A i, k \in A : f[i] = f[k] => i = k
    BY <1>4
  <2>3. ASSUME NEW k \in B PROVE \E i \in A : f[i] = k
    <3>1. CASE k < p
      <4>1. k \in A
        BY <1>1, <1>4, <3>1
      <4> QED
        BY <3>1, <4>1
    <3>2. CASE ~(k < p)
      <4>1. k + 1 \in A
        BY <1>1, <1>4, <3>2
      <4>2. f[k + 1] = k
        BY <1>4, <3>2, <4>1
      <4> QED
        BY <4>1, <4>2
    <3> QED
      BY <3>1, <3>2
  <2> QED
    BY <2>1, <2>2, <2>3 DEF Bijection, Injection, Surjection, IsInjective
<1>6. Cardinality(B) = Cardinality(A)
  BY <1>3, <1>5, FS_Bijection DEF ExistsBijection
<1> QED
  BY <1>3, <1>6 DEF A, B, r, Places

LEMMA PlacesRemoveFirst ==
    ASSUME NEW S, NEW q \in Seq(S), NEW d, Places(q, d) # {}, NEW e
    PROVE  /\ RemoveFirst(q, d) \in Seq(S)
           /\ Len(RemoveFirst(q, d)) = Len(q) - 1
           /\ Cardinality(Places(RemoveFirst(q, d), e))
                = IF d = e THEN Cardinality(Places(q, e)) - 1 ELSE Cardinality(Places(q, e))
<1> DEFINE I == {i \in 1 .. Len(q) : q[i] = d}
           p == Min(I)
<1>1. I # {} /\ I \subseteq Nat
  BY DEF Places
<1>2. p \in I
  <2>1. I \subseteq Nat
    OBVIOUS
  <2>2. PICK m \in I : \A k \in I : <<k, m>> \notin OpToRel(<, Nat)
    BY ONLY <1>1, <2>1, NatLessThanWellFounded, WFMin
  <2>3. ASSUME NEW k \in I PROVE ~(k < m)
    <3>1. OpToRel(<, Nat) = {ss \in Nat \X Nat : ss[1] < ss[2]}
      BY ONLY ZenonT(10) DEF OpToRel
    <3>2. <<k, m>> \in Nat \X Nat /\ <<k, m>>[1] = k /\ <<k, m>>[2] = m
      BY <2>1
    <3>3. <<k, m>> \notin {ss \in Nat \X Nat : ss[1] < ss[2]}
      BY ONLY <2>2, <3>1, Zenon
    <3> QED
      BY ONLY <3>2, <3>3, Zenon
  <2>4. \A k \in I : m <= k
    BY <2>1, <2>3
  <2> QED
    BY <2>4 DEF Min
<1>3. RemoveFirst(q, d) = RemoveAt(q, p)
  BY <1>1 DEF RemoveFirst, SelectInSeq
<1>4. p \in DOMAIN q /\ q[p] = d
  BY <1>2
<1>5. RemoveAt(q, p) \in Seq(S) /\ Len(RemoveAt(q, p)) = Len(q) - 1
  BY <1>4, RemoveAtIs
<1>6. Cardinality(Places(RemoveAt(q, p), e))
        = IF d = e THEN Cardinality(Places(q, e)) - 1 ELSE Cardinality(Places(q, e))
  BY <1>4, PlacesRemoveAt
<1> QED
  BY <1>3, <1>5, <1>6

LEMMA RemoveFirstType ==
    ASSUME NEW S, NEW q \in Seq(S), NEW d PROVE RemoveFirst(q, d) \in Seq(S)
<1>1. CASE Places(q, d) # {}
  BY <1>1, PlacesRemoveFirst
<1>2. CASE Places(q, d) = {}
  BY <1>2 DEF RemoveFirst, Places
<1> QED
  BY <1>1, <1>2

---------------------------------------------------------------------------
(* The control calls' moves.                                                *)

LEMMA ControlOps == ControlOp = {"suspend", "resume", "hold", "release"}
BY DEF ControlOp, ControlMoves

LEMMA MoveFacts ==
    ASSUME NEW op \in ControlOp, NEW m \in ControlMoves[op]
    PROVE  /\ m \in Moves /\ m[1] \in JState /\ m[2] \in JState
           /\ m[1] \notin Requeued => m[2] \notin Requeued /\ m[2] = m[3]
           /\ ~LooksFor(op, m[2])
<1>1. m \in Moves
  BY DEF Moves
<1>2. op \notin WaitOp
  BY ControlOps DEF WaitOp
<1>3. \A s : LooksFor(op, s) <=> \E n \in ControlMoves[op] : n[1] = s
  BY <1>2 DEF LooksFor, WaitOp
<1> QED
  BY <1>1, <1>3, ControlOps DEF ControlMoves, JState, Requeued

LEMMA MovesAre == \A m \in Moves : m = NoMove \/ \E op \in ControlOp : m \in ControlMoves[op]
BY DEF Moves

---------------------------------------------------------------------------
(* Writing and announcing.                                                  *)

\* A write, with or without a callback to tell of it.
Writes(j, s) == Write(j, s, TRUE) \/ Write(j, s, FALSE)

LEMMA WriteType ==
    ASSUME TypeOK, NEW j \in Job, NEW s \in JState, Writes(j, s)
    PROVE  /\ state' \in [Job -> JState \union {"NoRow"}]
           /\ due' \in [Job -> Seq(JState)]
           /\ muddled' \union mistold' \subseteq Job
           /\ steady' \in [Client -> SUBSET Job]
           /\ \A c \in Client : steady'[c] \subseteq steady[c]
<1>1. state' \in [Job -> JState \union {"NoRow"}]
  BY DEF TypeOK, Write, Writes
<1>2. due' \in [Job -> Seq(JState)]
  <2>1. Append(due[j], s) \in Seq(JState)
    BY DEF TypeOK
  <2>2. due' = due \/ due' = [due EXCEPT ![j] = Append(@, s)]
    BY DEF Write, Writes
  <2> QED
    BY <2>1, <2>2 DEF TypeOK
<1>3. muddled' \union mistold' \subseteq Job
  BY DEF TypeOK, Write, Writes
<1>4. /\ steady' \in [Client -> SUBSET Job]
      /\ \A c \in Client : steady'[c] \subseteq steady[c]
  <2>1. steady' = [c \in Client |-> {k \in steady[c] : k # j \/ LooksFor(call[c].op, s)}]
    BY DEF Write, Writes
  <2> HIDE DEF LooksFor
  <2> QED
    BY <2>1 DEF TypeOK
<1> QED
  BY <1>1, <1>2, <1>3, <1>4

LEMMA TellType ==
    ASSUME TypeOK, NEW j \in Job, NEW s \in JState, Tell(j, s)
    PROVE  /\ due' \in [Job -> Seq(JState)]
           /\ muddled' \union mistold' \subseteq Job
<1>1. RemoveFirst(due[j], s) \in Seq(JState)
  BY RemoveFirstType DEF TypeOK
<1> QED
  BY <1>1 DEF TypeOK, Tell

LEMMA VerdictType == \A j \in Job : Verdict(j) \in {"DONE", "FAILED"}
BY DEF Verdict

LEMMA DoingType == TypeOK => \A c \in Client : call[c] \in Doing
BY DEF TypeOK

LEMMA IdleType == Idle \in Doing
BY DEF Idle, Doing, Moves

LEMMA CurrentType ==
    ASSUME TypeOK, NEW c \in Client, call[c].pos >= 1, call[c].pos <= Len(call[c].jobs)
    PROVE  Current(c) \in Job /\ Current(c) \in ToSet(call[c].jobs)
BY DEF TypeOK, Doing, Current, ToSet

---------------------------------------------------------------------------
(* Types.                                                                   *)

LEMMA TypeInit == Init => TypeOK
<1> SUFFICES ASSUME Init PROVE TypeOK
  OBVIOUS
<1>1. call \in [Client -> Doing]
  BY IdleType DEF Init
<1> QED
  BY <1>1 DEF Init, TypeOK, Idle, ToSet

CallType ==
    /\ call' \in [Client -> Doing] /\ steady' \in [Client -> SUBSET Job]
    /\ \A c \in Client : /\ call'[c].pos <= Len(call'[c].jobs) + 1
                         /\ steady'[c] \subseteq ToSet(call'[c].jobs)

LEMMA StepType ==
    ASSUME TypeOK, NEW c \in Client, NEW at \in {"scan", "announce"}, NEW pos \in Nat,
           pos <= Len(call[c].jobs) + 1, Step(c, at, pos),
           steady' \in [Client -> SUBSET Job],
           \A d \in Client : steady'[d] \subseteq steady[d]
                             \/ steady'[d] \subseteq ToSet(call[d].jobs)
    PROVE  CallType
<1>1. [call[c] EXCEPT !.at = at, !.pos = pos] \in Doing
  BY DoingType DEF Doing
<1>2. call' = [call EXCEPT ![c] = [call[c] EXCEPT !.at = at, !.pos = pos]]
  BY DEF Step
<1> QED
  BY <1>1, <1>2 DEF TypeOK, CallType, Doing

LEMMA ReturnType ==
    ASSUME TypeOK, NEW c \in Client, Return(c) PROVE CallType
BY IdleType DEF TypeOK, CallType, Return, Idle, ToSet

LEMMA TypeStep == TypeOK /\ JobInv /\ CallInv /\ [Next]_vars => TypeOK'
<1> SUFFICES ASSUME TypeOK, JobInv, CallInv, [Next]_vars PROVE TypeOK'
  OBVIOUS
<1> USE DEF jobVars, heard
<1>1. ASSUME NEW c \in Client, NEW j \in Job, Submit(c, j) PROVE TypeOK'
  BY <1>1 DEF Submit, TypeOK, JState
<1>2. ASSUME NEW c \in Client, Register(c) PROVE TypeOK'
  BY <1>2 DEF Register, TypeOK
<1>3. ASSUME NEW c \in Client, NEW op \in WaitOp \union ControlOp, NEW l \in Lists,
             NEW t \in Timeout \union {"none"}, Begin(c, op, l, t)
      PROVE  TypeOK'
  <2> DEFINE new == [Idle EXCEPT !.at = "scan", !.op = op, !.jobs = l, !.pos = 1, !.timeout = t]
  <2>1. l \in Seq(Job)
    BY WatchAssumption DEF Lists
  <2>2. new \in Doing /\ new.pos = 1 /\ new.jobs = l
    BY <2>1 DEF Idle, Doing, Moves
  <2>3. call' = [call EXCEPT ![c] = new]
    BY <1>3 DEF Begin
  <2> HIDE DEF new
  <2>4. ToSet(l) \subseteq Job
    BY <2>1 DEF ToSet
  <2>5. CallType
    BY <1>3, <2>1, <2>2, <2>3, <2>4 DEF Begin, StartOver, TypeOK, CallType
  <2> QED
    BY <1>3, <2>5 DEF Begin, TypeOK, CallType
<1>4. ASSUME NEW c \in Client, Look(c) PROVE TypeOK'
  <2>1. CallType
    <3>1. CASE Return(c)
      BY <3>1, ReturnType
    <3>2. CASE Step(c, "scan", call[c].pos + 1) /\ UNCHANGED steady
      <4>1. call[c].pos + 1 \in Nat /\ call[c].pos + 1 <= Len(call[c].jobs) + 1
        BY <1>4, DoingType DEF Look, Doing
      <4> QED
        BY <3>2, <4>1, StepType DEF TypeOK
    <3>3. ASSUME NEW m \in ControlMoves[call[c].op], call[c].op \in ControlOp,
                 call' = [call EXCEPT ![c].at = "admitted", ![c].move = m], UNCHANGED steady
          PROVE  CallType
      <4>1. m \in Moves
        BY <3>3, MoveFacts
      <4>2. [call[c] EXCEPT !.at = "admitted", !.move = m] \in Doing
        BY <4>1, DoingType DEF Doing
      <4>3. call' = [call EXCEPT ![c] = [call[c] EXCEPT !.at = "admitted", !.move = m]]
        BY <3>3
      <4> QED
        BY <3>3, <4>2, <4>3 DEF TypeOK, CallType, Doing
    <3> QED
      BY <1>4, <3>1, <3>2, <3>3 DEF Look
  <2> QED
    BY <1>4, <2>1 DEF Look, TypeOK, CallType
<1>5. ASSUME NEW c \in Client, SaveMove(c) PROVE TypeOK'
  <2>1. /\ Current(c) \in Job /\ call[c].move[2] \in JState
        /\ call[c].pos \in Nat /\ call[c].pos <= Len(call[c].jobs)
    BY <1>5, CurrentType, MoveFacts, DoingType DEF SaveMove, CallInv, CallOk, Doing
  <2>2. Writes(Current(c), call[c].move[2])
    BY <1>5 DEF SaveMove, Writes, Write
  <2>3. Step(c, "announce", call[c].pos) \/ Step(c, "scan", call[c].pos + 1)
    BY <1>5 DEF SaveMove
  <2>4. /\ steady' \in [Client -> SUBSET Job]
        /\ \A d \in Client : steady'[d] \subseteq steady[d]
    BY <2>1, <2>2, WriteType
  <2>5. CallType
    BY <2>1, <2>3, <2>4, StepType
  <2> QED
    BY <1>5, <2>1, <2>2, <2>5, WriteType DEF SaveMove, TypeOK, CallType
<1>6. ASSUME NEW c \in Client, TellMove(c) PROVE TypeOK'
  <2>1. /\ Current(c) \in Job /\ call[c].move[3] \in JState
        /\ call[c].pos \in Nat /\ call[c].pos <= Len(call[c].jobs)
    BY <1>6, CurrentType, MoveFacts, DoingType DEF TellMove, CallInv, CallOk, Doing
  <2>2. Step(c, "scan", call[c].pos + 1) /\ UNCHANGED steady
    BY <1>6 DEF TellMove, Tell
  <2>3. CallType
    BY <2>1, <2>2, StepType DEF TypeOK
  <2> QED
    BY <1>6, <2>1, <2>3, TellType DEF TellMove, Tell, TypeOK, CallType
<1>7. ASSUME NEW c \in Client, NextRound(c) PROVE TypeOK'
  <2>1. ToSet(call[c].jobs) \subseteq Job /\ Len(call[c].jobs) \in Nat
    BY DoingType DEF Doing, ToSet
  <2>2. /\ steady' \in [Client -> SUBSET Job]
        /\ \A d \in Client : steady'[d] \subseteq steady[d] \/ steady'[d] \subseteq ToSet(call[d].jobs)
    BY <1>7, <2>1 DEF NextRound, StartOver, TypeOK
  <2>3. CallType
    BY <1>7, <2>1, <2>2, StepType DEF NextRound
  <2> QED
    BY <1>7, <2>3 DEF NextRound, TypeOK, CallType
<1>8. ASSUME NEW c \in Client, GiveUp(c) PROVE TypeOK'
  BY <1>8, ReturnType DEF GiveUp, TypeOK, CallType
<1>9. ASSUME NEW j \in Job, SaveRunning(j) PROVE TypeOK'
  <2>1. "RUNNING" \in JState /\ Writes(j, "RUNNING")
    BY <1>9 DEF SaveRunning, Writes, Write, JState
  <2> QED
    BY <1>9, <2>1, WriteType DEF SaveRunning, TypeOK
<1>10. ASSUME NEW j \in Job, TellRunning(j) PROVE TypeOK'
  <2>1. "RUNNING" \in JState
    BY DEF JState
  <2> QED
    BY <1>10, <2>1, TellType DEF TellRunning, Tell, TypeOK
<1>11. ASSUME NEW j \in Job, SaveVerdict(j) PROVE TypeOK'
  <2>1. Verdict(j) \in JState /\ Writes(j, Verdict(j))
    BY <1>11, VerdictType DEF SaveVerdict, Writes, Write, JState
  <2> QED
    BY <1>11, <2>1, WriteType DEF SaveVerdict, TypeOK
<1>12. ASSUME NEW j \in Job, TellVerdict(j) PROVE TypeOK'
  <2>1. Verdict(j) \in JState
    BY VerdictType DEF JState
  <2> QED
    BY <1>12, <2>1, TellType DEF TellVerdict, Tell, TypeOK
<1>13. ASSUME NEW j \in Job, End(j) PROVE TypeOK'
  <2>1. RemoveFirst(due[j], "RUNNING") \in Seq(JState)
    BY RemoveFirstType DEF TypeOK
  <2> QED
    BY <1>13, <2>1 DEF End, TypeOK
<1>14. CASE UNCHANGED vars
  BY <1>14 DEF vars, TypeOK
<1> QED
  BY <1>1, <1>2, <1>3, <1>4, <1>5, <1>6, <1>7, <1>8, <1>9, <1>10, <1>11, <1>12, <1>13, <1>14
     DEF Next, CallStep, JobStep, BeginWait, BeginControl

---------------------------------------------------------------------------
(* What calls know.                                                         *)

LEMMA SameCallOk ==
    ASSUME NEW d, CallOk(d), call'[d] = call[d], steady'[d] = steady[d], state' = state
    PROVE  CallOk(d)'
BY DEF CallOk, Free, Current

LEMMA SubmitCallOk ==
    ASSUME TypeOK, NEW d \in Client, CallOk(d), NEW j \in Job,
           state[j] = "NoRow", state' = [state EXCEPT ![j] = "QUEUED"],
           call'[d] = call[d], steady'[d] = steady[d]
    PROVE  CallOk(d)'
<1>1. steady[d] \subseteq ToSet(call[d].jobs)
  BY DEF TypeOK
<1>2. \A k \in ToSet(call[d].jobs) : ~Free(d) => k # j
  BY DEF CallOk
<1>3. ASSUME NEW k, k # j, k \in Job PROVE state'[k] = state[k]
  BY <1>3 DEF TypeOK
<1>4. ToSet(call[d].jobs) \subseteq Job
  BY DEF TypeOK, Doing, ToSet
<1> HIDE DEF LooksFor, ToSet
<1> QED
  BY <1>1, <1>2, <1>3, <1>4 DEF CallOk, Free, Current

LEMMA WriteCallOk ==
    ASSUME TypeOK, NEW d \in Client, CallOk(d), NEW j \in Job, NEW s \in JState,
           Writes(j, s), call'[d] = call[d]
    PROVE  CallOk(d)'
<1>1. steady'[d] = {k \in steady[d] : k # j \/ LooksFor(call[d].op, s)}
  BY DEF Write, Writes
<1>2. state' = [state EXCEPT ![j] = s] /\ s # "NoRow"
  BY DEF Write, Writes, JState
<1>3. ToSet(call[d].jobs) \subseteq Job /\ steady[d] \subseteq Job
  BY DEF TypeOK, Doing, ToSet
<1>4. ASSUME NEW k \in Job PROVE state'[k] = IF k = j THEN s ELSE state[k]
  BY <1>2 DEF TypeOK
<1> HIDE DEF LooksFor, ToSet
<1>5. \A k \in steady'[d] : ~Free(d) => LooksFor(call[d].op, state'[k])
  BY <1>1, <1>3, <1>4 DEF CallOk
<1>6. \A k \in ToSet(call[d].jobs) : ~Free(d) => state'[k] # "NoRow"
  BY <1>2, <1>3, <1>4 DEF CallOk
<1> QED
  BY <1>1, <1>5, <1>6 DEF CallOk, Free, Current

LEMMA LooksForState ==
    \A op \in ControlOp : \A s : LooksFor(op, s) <=> \E m \in ControlMoves[op] : m[1] = s
BY ControlOps DEF LooksFor, WaitOp

LEMMA CallStepInv == TypeOK /\ JobInv /\ CallInv /\ [Next]_vars => CallInv'
<1> SUFFICES ASSUME TypeOK, JobInv, CallInv, [Next]_vars, NEW d \in Client PROVE CallOk(d)'
  BY DEF CallInv
<1> USE DEF jobVars, heard
<1>0. CallOk(d)
  BY DEF CallInv
<1>1. ASSUME NEW c \in Client, NEW j \in Job, Submit(c, j) PROVE CallOk(d)'
  BY <1>0, <1>1, SubmitCallOk DEF Submit
<1>2. ASSUME NEW c \in Client, Register(c) PROVE CallOk(d)'
  BY <1>0, <1>2, SameCallOk DEF Register
<1>3. ASSUME NEW c \in Client, NEW op \in WaitOp \union ControlOp, NEW l \in Lists,
             NEW t, Begin(c, op, l, t)
      PROVE  CallOk(d)'
  <2>1. CASE d # c
    BY <1>0, <1>3, <2>1, SameCallOk DEF Begin, StartOver, TypeOK
  <2>2. CASE d = c
    <3>1. /\ call'[c].at = "scan" /\ call'[c].op = op /\ call'[c].jobs = l /\ call'[c].pos = 1
          /\ steady'[c] = {j \in ToSet(l) : LooksFor(op, state[j])} /\ state' = state
      BY <1>3 DEF Begin, StartOver, TypeOK, Idle
    <3>2. \A k \in ToSet(l) : state[k] # "NoRow"
      BY DEF Lists
    <3>3. op # "none"
      BY ControlOps DEF WaitOp
    <3> HIDE DEF LooksFor, ToSet
    <3> QED
      BY <2>2, <3>1, <3>2, <3>3 DEF CallOk, Free
  <2> QED
    BY <2>1, <2>2
<1>4. ASSUME NEW c \in Client, Look(c) PROVE CallOk(d)'
  <2>1. CASE d # c
    BY <1>0, <1>4, <2>1, SameCallOk DEF Look, Step, Return, TypeOK
  <2>2. CASE d = c /\ Return(c)
    BY <2>2 DEF Return, CallOk, Free, Idle, TypeOK
  <2>3. CASE d = c /\ ~LooksFor(call[c].op, state[Current(c)])
                   /\ Step(c, "scan", call[c].pos + 1) /\ UNCHANGED steady
    <3>1. /\ call'[c].at = "scan" /\ call'[c].op = call[c].op /\ call'[c].jobs = call[c].jobs
          /\ call'[c].pos = call[c].pos + 1 /\ steady' = steady
      BY <2>3, DoingType DEF Step, TypeOK, Doing
    <3>0. state' = state
      BY <1>4 DEF Look
    <3>2. ~Free(c) /\ call[c].pos \in Nat
      BY <1>4, DoingType DEF Look, Free, Doing
    <3>3. Current(c) \notin steady[c]
      BY <1>0, <2>3, <3>2 DEF CallOk
    <3> HIDE DEF LooksFor, ToSet
    <3>4. \A i \in 1 .. call[c].pos : call[c].jobs[i] \notin steady[c]
      BY <1>0, <2>3, <3>2, <3>3 DEF CallOk, Current
    <3> QED
      BY <1>0, <2>3, <3>0, <3>1, <3>2, <3>4 DEF CallOk, Free
  <2>4. ASSUME d = c, NEW m \in ControlMoves[call[c].op], call[c].op \in ControlOp,
               m[1] = state[Current(c)],
               call' = [call EXCEPT ![c].at = "admitted", ![c].move = m], UNCHANGED steady
        PROVE  CallOk(d)'
    <3>1. /\ call'[c].at = "admitted" /\ call'[c].op = call[c].op /\ call'[c].jobs = call[c].jobs
          /\ call'[c].pos = call[c].pos /\ call'[c].move = m /\ steady' = steady
      BY <2>4, DoingType DEF TypeOK, Doing
    <3>0. state' = state
      BY <1>4 DEF Look
    <3>2. ~Free(c) /\ call[c].pos \in Nat /\ call[c].pos <= Len(call[c].jobs) /\ call[c].jobs \in Seq(Job)
      BY <1>4, DoingType DEF Look, Free, Doing
    <3>3. m[1] \notin Requeued
      BY <1>0, <2>4, <3>2, CurrentType DEF CallOk, JobInv
    <3> HIDE DEF LooksFor, ToSet
    <3>4. /\ call[c].op # "none" /\ call[c].pos >= 1
          /\ \A k \in ToSet(call[c].jobs) : state[k] # "NoRow"
          /\ \A k \in steady[c] : LooksFor(call[c].op, state[k])
          /\ \A i \in 1 .. call[c].pos - 1 : call[c].jobs[i] \notin steady[c]
      BY <1>0, <2>4, <3>2 DEF CallOk
    <3>5. call[c].pos \in DOMAIN call[c].jobs
      BY <3>2, <3>4
    <3> QED
      BY <2>4, <3>0, <3>1, <3>3, <3>4, <3>5 DEF CallOk, Free
  <2> QED
    BY <1>4, <2>1, <2>2, <2>3, <2>4 DEF Look
<1>5. ASSUME NEW c \in Client, SaveMove(c) PROVE CallOk(d)'
  <2>1. /\ Current(c) \in Job /\ call[c].move[2] \in JState
        /\ call[c].pos \in Nat /\ call[c].pos >= 1 /\ call[c].pos <= Len(call[c].jobs)
        /\ call[c].op \in ControlOp /\ ~LooksFor(call[c].op, call[c].move[2])
    BY <1>5, CurrentType, MoveFacts, DoingType DEF SaveMove, CallInv, CallOk, Doing
  <2>2. Writes(Current(c), call[c].move[2])
    BY <1>5 DEF SaveMove, Writes, Write
  <2>3. CASE d # c
    <3>1. call'[d] = call[d]
      BY <1>5, <2>3 DEF SaveMove, Step, TypeOK
    <3> QED
      BY <1>0, <2>1, <2>2, <3>1, WriteCallOk
  <2>4. CASE d = c
    <3>1. steady'[c] = {k \in steady[c] : k # Current(c) \/ LooksFor(call[c].op, call[c].move[2])}
      BY <2>2 DEF Write, Writes
    <3>2. Current(c) \notin steady'[c] /\ steady'[c] \subseteq steady[c]
      BY <2>1, <3>1
    <3>3. ~Free(c)
      BY <1>5 DEF SaveMove, Free
    <3>4. /\ call'[c].op = call[c].op /\ call'[c].jobs = call[c].jobs /\ call'[c].move = call[c].move
          /\ \/ call'[c].at = "announce" /\ call'[c].pos = call[c].pos
             \/ call'[c].at = "scan" /\ call'[c].pos = call[c].pos + 1
      BY <1>5 DEF SaveMove, Step, TypeOK, Doing
    <3>5. /\ state' = [state EXCEPT ![Current(c)] = call[c].move[2]] /\ call[c].move[2] # "NoRow"
      BY <2>1, <2>2 DEF Write, Writes, JState
    <3>6. ToSet(call[c].jobs) \subseteq Job /\ steady[c] \subseteq Job
      BY DEF TypeOK, Doing, ToSet
    <3> HIDE DEF LooksFor, ToSet
    <3>7. \A k \in steady'[c] : LooksFor(call[c].op, state'[k])
      BY <1>0, <2>4, <3>2, <3>3, <3>5, <3>6 DEF CallOk, TypeOK
    <3>8. \A k \in ToSet(call[c].jobs) : state'[k] # "NoRow"
      BY <1>0, <2>1, <2>4, <3>3, <3>5, <3>6 DEF CallOk, TypeOK
    <3>9. \A i \in 1 .. call[c].pos : call[c].jobs[i] \notin steady'[c]
      BY <1>0, <2>1, <2>4, <3>2, <3>3 DEF CallOk, Current
    <3>10. call[c].pos \in DOMAIN call[c].jobs
      BY <2>1, DoingType DEF Doing
    <3>11. call[c].op # "none" /\ call[c].move \in ControlMoves[call[c].op] /\ call[c].move[1] \notin Requeued
      BY <1>0, <1>5, <2>4, <3>3 DEF CallOk, SaveMove
    <3>12. CASE call'[c].at = "announce" /\ call'[c].pos = call[c].pos
      BY <2>1, <2>4, <3>2, <3>4, <3>7, <3>8, <3>9, <3>10, <3>11, <3>12 DEF CallOk, Free, Current
    <3>13. CASE call'[c].at = "scan" /\ call'[c].pos = call[c].pos + 1
      BY <2>1, <2>4, <3>4, <3>7, <3>8, <3>9, <3>11, <3>13 DEF CallOk, Free
    <3> QED
      BY <3>4, <3>12, <3>13
  <2> QED
    BY <2>3, <2>4
<1>6. ASSUME NEW c \in Client, TellMove(c) PROVE CallOk(d)'
  <2>1. CASE d # c
    BY <1>0, <1>6, <2>1, SameCallOk DEF TellMove, Step, Tell, TypeOK
  <2>2. CASE d = c
    <3>1. /\ call'[c].at = "scan" /\ call'[c].op = call[c].op /\ call'[c].jobs = call[c].jobs
          /\ call'[c].pos = call[c].pos + 1 /\ steady' = steady /\ state' = state
      BY <1>6 DEF TellMove, Step, Tell, TypeOK, Doing
    <3>2. ~Free(c) /\ call[c].pos \in Nat /\ Current(c) \notin steady[c]
      BY <1>0, <1>6, <2>2, DoingType DEF TellMove, Free, Doing, CallOk
    <3> HIDE DEF LooksFor, ToSet
    <3>3. \A i \in 1 .. call[c].pos : call[c].jobs[i] \notin steady[c]
      BY <1>0, <2>2, <3>2 DEF CallOk, Current
    <3> QED
      BY <1>0, <2>2, <3>1, <3>2, <3>3 DEF CallOk, Free
  <2> QED
    BY <2>1, <2>2
<1>7. ASSUME NEW c \in Client, NextRound(c) PROVE CallOk(d)'
  <2>1. CASE d # c
    BY <1>0, <1>7, <2>1, SameCallOk DEF NextRound, Step, StartOver, TypeOK
  <2>2. CASE d = c
    <3>1. /\ call'[c].at = "scan" /\ call'[c].op = call[c].op /\ call'[c].jobs = call[c].jobs
          /\ call'[c].pos = 1 /\ state' = state
          /\ steady'[c] = {j \in ToSet(call[c].jobs) : LooksFor(call[c].op, state[j])}
      BY <1>7 DEF NextRound, Step, StartOver, TypeOK, Doing
    <3>2. ~Free(c)
      BY <1>7 DEF NextRound, AtEnd, Free
    <3> HIDE DEF LooksFor, ToSet
    <3> QED
      BY <1>0, <2>2, <3>1, <3>2 DEF CallOk, Free
  <2> QED
    BY <2>1, <2>2
<1>8. ASSUME NEW c \in Client, GiveUp(c) PROVE CallOk(d)'
  <2>1. CASE d # c
    BY <1>0, <1>8, <2>1, SameCallOk DEF GiveUp, Return, TypeOK
  <2>2. CASE d = c
    BY <1>8, <2>2 DEF GiveUp, Return, CallOk, Free, Idle, TypeOK
  <2> QED
    BY <2>1, <2>2
<1>9. ASSUME NEW j \in Job, JobStep(j) PROVE CallOk(d)'
  <2>1. CASE SaveRunning(j)
    <3>1. "RUNNING" \in JState /\ Writes(j, "RUNNING") /\ call' = call
      BY <2>1 DEF SaveRunning, Writes, Write, JState
    <3> QED
      BY <1>0, <3>1, WriteCallOk
  <2>2. CASE SaveVerdict(j)
    <3>1. Verdict(j) \in JState /\ Writes(j, Verdict(j)) /\ call' = call
      BY <2>2, VerdictType DEF SaveVerdict, Writes, Write, JState
    <3> QED
      BY <1>0, <3>1, WriteCallOk
  <2>3. CASE TellRunning(j) \/ TellVerdict(j)
    BY <1>0, <2>3, SameCallOk DEF TellRunning, TellVerdict, Tell
  <2> QED
    BY <1>9, <2>1, <2>2, <2>3 DEF JobStep
<1>10. ASSUME NEW j \in Job, End(j) PROVE CallOk(d)'
  BY <1>0, <1>10, SameCallOk DEF End
<1>11. CASE UNCHANGED vars
  BY <1>0, <1>11, SameCallOk DEF vars
<1> QED
  BY <1>1, <1>2, <1>3, <1>4, <1>5, <1>6, <1>7, <1>8, <1>9, <1>10, <1>11
     DEF Next, CallStep, BeginWait, BeginControl

---------------------------------------------------------------------------
(* The jobs.                                                                *)

LEMMA JobStepInv == TypeOK /\ JobInv /\ CallInv /\ [Next]_vars => JobInv'
<1> SUFFICES ASSUME TypeOK, JobInv, CallInv, [Next]_vars PROVE JobInv'
  OBVIOUS
<1> USE DEF jobVars, heard
<1>1. ASSUME NEW c \in Client, NEW j \in Job, Submit(c, j) PROVE JobInv'
  BY <1>1 DEF Submit, TypeOK, JobInv, Requeued
<1>2. ASSUME NEW c \in Client, SaveMove(c) PROVE JobInv'
  <2>1. /\ Current(c) \in Job /\ call[c].move[2] \in JState \ Requeued
    BY <1>2, CurrentType, MoveFacts, DoingType DEF SaveMove, CallInv, CallOk, Doing
  <2>2. state' = [state EXCEPT ![Current(c)] = call[c].move[2]] /\ UNCHANGED <<proc, mon>>
    BY <1>2 DEF SaveMove, Write
  <2> QED
    BY <2>1, <2>2 DEF TypeOK, JobInv, JState
<1>3. ASSUME NEW j \in Job, SaveRunning(j) PROVE JobInv'
  <2>1. /\ state' = [state EXCEPT ![j] = "RUNNING"] /\ proc[j] = "forked" /\ mon' = mon
        /\ \E p : proc' = [proc EXCEPT ![j] = p]
    BY <1>3 DEF SaveRunning, Write
  <2> QED
    BY <2>1 DEF TypeOK, JobInv, Requeued
<1>4. ASSUME NEW j \in Job, SaveVerdict(j) PROVE JobInv'
  <2>1. /\ state' = [state EXCEPT ![j] = Verdict(j)] /\ proc' = proc /\ proc[j] \in {"exited", "killed"}
        /\ \E m : mon' = [mon EXCEPT ![j] = m]
    BY <1>4 DEF SaveVerdict, Write
  <2> QED
    BY <2>1, VerdictType DEF TypeOK, JobInv, Requeued
<1>5. ASSUME NEW j \in Job, TellRunning(j) PROVE JobInv'
  BY <1>5 DEF TellRunning, Tell, TypeOK, JobInv
<1>6. ASSUME NEW j \in Job, TellVerdict(j) PROVE JobInv'
  BY <1>6 DEF TellVerdict, Tell, TypeOK, JobInv
<1>7. ASSUME NEW j \in Job, End(j) PROVE JobInv'
  <2>1. /\ state' = state /\ mon' = mon /\ proc[j] \in {"forked", "written", "executing"}
        /\ \E p : proc' = [proc EXCEPT ![j] = p]
    BY <1>7 DEF End
  <2> QED
    BY <2>1 DEF TypeOK, JobInv
<1>8. CASE UNCHANGED <<state, proc, mon>>
  BY <1>8 DEF JobInv
<1>9. ASSUME NEW c \in Client,
             \/ Register(c) \/ BeginWait(c) \/ BeginControl(c)
             \/ Look(c) \/ TellMove(c) \/ NextRound(c) \/ GiveUp(c)
      PROVE  UNCHANGED <<state, proc, mon>>
  <2>1. CASE BeginWait(c) \/ BeginControl(c)
    BY <2>1 DEF BeginWait, BeginControl, Begin
  <2>2. CASE Look(c)
    BY <2>2 DEF Look
  <2> QED
    BY <1>9, <2>1, <2>2 DEF Register, TellMove, Tell, NextRound, GiveUp
<1> QED
  BY <1>1, <1>2, <1>3, <1>4, <1>5, <1>6, <1>7, <1>8, <1>9 DEF Next, CallStep, JobStep, vars

---------------------------------------------------------------------------
(* The announcements: how each step changes the processes that owe one.     *)

LEMMA TellersHas ==
    ASSUME NEW j, NEW s, NEW x
    PROVE  x \in Tellers(j, s) <=>
             \/ x \in Client /\ call[x].at = "announce" /\ Current(x) = j /\ call[x].move[2] = s
             \/ x = "job" /\ proc[j] = "written" /\ s = "RUNNING"
             \/ x = "monitor" /\ mon[j] = "written" /\ s = Verdict(j)
BY DEF Tellers

LEMMA TellersHasNext ==
    ASSUME NEW j, NEW s, NEW x
    PROVE  x \in Tellers(j, s)' <=>
             \/ x \in Client /\ call'[x].at = "announce" /\ Current(x)' = j /\ call'[x].move[2] = s
             \/ x = "job" /\ proc'[j] = "written" /\ s = "RUNNING"
             \/ x = "monitor" /\ mon'[j] = "written" /\ s = Verdict(j)'
BY DEF Tellers

SameTellers == \A k \in Job, t \in JState : Tellers(k, t)' = Tellers(k, t)
NewTeller(p, j, s) ==
    /\ p \notin Tellers(j, s)
    /\ \A k \in Job, t \in JState :
          Tellers(k, t)' = IF k = j /\ t = s THEN Tellers(k, t) \cup {p} ELSE Tellers(k, t)
TellerDone(p, j, s) ==
    /\ p \in Tellers(j, s)
    /\ \A k \in Job, t \in JState :
          Tellers(k, t)' = IF k = j /\ t = s THEN Tellers(k, t) \ {p} ELSE Tellers(k, t)

LEMMA DuePlaces ==
    OnceInv <=> \A j \in Job, s \in JState :
                   /\ IsFiniteSet(Tellers(j, s))
                   /\ Cardinality(Places(due[j], s)) = Cardinality(Tellers(j, s))
BY DEF OnceInv, Places

LEMMA DuePlacesNext ==
    OnceInv' <=> \A j \in Job, s \in JState :
                   /\ IsFiniteSet(Tellers(j, s)')
                   /\ Cardinality(Places(due'[j], s)) = Cardinality(Tellers(j, s)')
BY DEF OnceInv, Places

Heard == OnceInv /\ OrderInv

LEMMA HeardSame ==
    ASSUME Heard, SameTellers, UNCHANGED <<due, muddled, mistold>>
    PROVE  Heard'
BY DuePlaces, DuePlacesNext DEF Heard, SameTellers, OrderInv

\* A write that nobody is to be told of.
LEMMA HeardSilent ==
    ASSUME Heard, SameTellers, NEW j, NEW s, Write(j, s, FALSE)
    PROVE  Heard'
BY HeardSame DEF Write

\* A write that p is to tell of.
LEMMA HeardWrite ==
    ASSUME TypeOK, Heard, NEW j \in Job, NEW s \in JState, NEW p,
           Write(j, s, TRUE), NewTeller(p, j, s)
    PROVE  Heard'
<1>1. /\ due' = [due EXCEPT ![j] = Append(@, s)]
      /\ muddled' = IF due[j] # <<>> THEN muddled \union {j} ELSE muddled
      /\ mistold' = mistold
  BY DEF Write
<1>2. due \in [Job -> Seq(JState)]
  BY DEF TypeOK
<1>3. OnceInv'
  <2> SUFFICES ASSUME NEW k \in Job, NEW t \in JState
               PROVE  /\ IsFiniteSet(Tellers(k, t)')
                      /\ Cardinality(Places(due'[k], t)) = Cardinality(Tellers(k, t)')
    BY DuePlacesNext
  <2>1. /\ IsFiniteSet(Tellers(k, t))
        /\ Cardinality(Places(due[k], t)) = Cardinality(Tellers(k, t))
    BY DuePlaces DEF Heard
  <2>2. CASE k = j /\ t = s
    <3>1. Tellers(k, t)' = Tellers(k, t) \cup {p} /\ p \notin Tellers(k, t)
      BY <2>2 DEF NewTeller
    <3>2. Cardinality(Tellers(k, t)') = Cardinality(Tellers(k, t)) + 1 /\ IsFiniteSet(Tellers(k, t)')
      BY <2>1, <3>1, FS_AddElement
    <3>3. Cardinality(Places(due'[k], t)) = Cardinality(Places(due[k], t)) + 1
      BY <1>1, <1>2, <2>2, PlacesAppend
    <3> QED
      BY <2>1, <3>2, <3>3
  <2>3. CASE ~(k = j /\ t = s)
    <3>1. Tellers(k, t)' = Tellers(k, t)
      BY <2>3 DEF NewTeller
    <3>2. Cardinality(Places(due'[k], t)) = Cardinality(Places(due[k], t))
      BY <1>1, <1>2, <2>3, PlacesAppend
    <3> QED
      BY <2>1, <3>1, <3>2
  <2> QED
    BY <2>2, <2>3
<1>4. OrderInv'
  <2>1. ASSUME NEW k \in Job, k \notin muddled' PROVE Len(due'[k]) <= 1
    <3>1. CASE k = j
      BY <1>1, <1>2, <2>1, <3>1
    <3>2. CASE k # j
      BY <1>1, <1>2, <2>1, <3>2 DEF Heard, OrderInv
    <3> QED
      BY <3>1, <3>2
  <2> QED
    BY <1>1, <2>1 DEF Heard, OrderInv
<1> QED
  BY <1>3, <1>4 DEF Heard

\* The end of what p was to tell: the announcement is due.
LEMMA TellerIsDue ==
    ASSUME TypeOK, Heard, NEW j \in Job, NEW s \in JState, NEW p \in Tellers(j, s)
    PROVE  Places(due[j], s) # {}
<1>1. IsFiniteSet(Tellers(j, s)) /\ Cardinality(Places(due[j], s)) = Cardinality(Tellers(j, s))
  BY DuePlaces DEF Heard
<1> QED
  BY <1>1, FS_EmptySet

LEMMA OnceRemove ==
    ASSUME TypeOK, Heard, NEW j \in Job, NEW s \in JState, NEW p,
           due' = [due EXCEPT ![j] = RemoveFirst(@, s)], TellerDone(p, j, s)
    PROVE  OnceInv' /\ Len(due'[j]) = Len(due[j]) - 1
<1>1. due \in [Job -> Seq(JState)] /\ Places(due[j], s) # {}
  BY TellerIsDue DEF TypeOK, TellerDone
<1>2. OnceInv'
  <2> SUFFICES ASSUME NEW k \in Job, NEW t \in JState
               PROVE  /\ IsFiniteSet(Tellers(k, t)')
                      /\ Cardinality(Places(due'[k], t)) = Cardinality(Tellers(k, t)')
    BY DuePlacesNext
  <2>1. /\ IsFiniteSet(Tellers(k, t))
        /\ Cardinality(Places(due[k], t)) = Cardinality(Tellers(k, t))
    BY DuePlaces DEF Heard
  <2>2. CASE k = j /\ t = s
    <3>1. Tellers(k, t)' = Tellers(k, t) \ {p} /\ p \in Tellers(k, t)
      BY <2>2 DEF TellerDone
    <3>2. Cardinality(Tellers(k, t)') = Cardinality(Tellers(k, t)) - 1 /\ IsFiniteSet(Tellers(k, t)')
      BY <2>1, <3>1, FS_RemoveElement
    <3>3. Cardinality(Places(due'[k], t)) = Cardinality(Places(due[k], t)) - 1
      BY <1>1, <2>2, PlacesRemoveFirst
    <3> QED
      BY <2>1, <3>2, <3>3
  <2>3. CASE ~(k = j /\ t = s)
    <3>1. Tellers(k, t)' = Tellers(k, t)
      BY <2>3 DEF TellerDone
    <3>2. Cardinality(Places(due'[k], t)) = Cardinality(Places(due[k], t))
      BY <1>1, <2>3, PlacesRemoveFirst
    <3> QED
      BY <2>1, <3>1, <3>2
  <2> QED
    BY <2>2, <2>3
<1>3. Len(due'[j]) = Len(due[j]) - 1
  BY <1>1, PlacesRemoveFirst
<1> QED
  BY <1>2, <1>3

LEMMA HeardTell ==
    ASSUME TypeOK, Heard, NEW j \in Job, NEW s \in JState, NEW p,
           Tell(j, s), TellerDone(p, j, s)
    PROVE  Heard'
<1>1. /\ due' = [due EXCEPT ![j] = RemoveFirst(@, s)] /\ muddled' = muddled
      /\ mistold' = IF due[j] # <<>> /\ Head(due[j]) = s THEN mistold ELSE mistold \union {j}
  BY DEF Tell
<1>2. OnceInv' /\ Len(due'[j]) = Len(due[j]) - 1
  BY <1>1, OnceRemove
<1>3. due \in [Job -> Seq(JState)] /\ Places(due[j], s) # {}
  BY TellerIsDue DEF TypeOK, TellerDone
<1>4. j \notin muddled => due[j] # <<>> /\ Head(due[j]) = s
  <2>1. ASSUME j \notin muddled PROVE due[j] # <<>> /\ Head(due[j]) = s
    <3>1. Len(due[j]) <= 1
      BY <2>1 DEF Heard, OrderInv
    <3>2. PICK i \in DOMAIN due[j] : due[j][i] = s
      BY <1>3 DEF Places
    <3>3. i = 1
      BY <1>3, <3>1
    <3> QED
      BY <1>3, <3>2, <3>3
  <2> QED
    BY <2>1
<1>5. OrderInv'
  <2>1. ASSUME NEW k \in Job, k \notin muddled' PROVE Len(due'[k]) <= 1
    BY <1>1, <1>2, <1>3, <2>1 DEF Heard, OrderInv
  <2>2. mistold' \subseteq muddled'
    BY <1>1, <1>4 DEF Heard, OrderInv
  <2> QED
    BY <2>1, <2>2 DEF OrderInv
<1> QED
  BY <1>2, <1>5 DEF Heard

\* A job process that is killed before it tells.
LEMMA HeardEnd ==
    ASSUME TypeOK, Heard, NEW j \in Job, NEW s \in JState, NEW p,
           due' = [due EXCEPT ![j] = RemoveFirst(@, s)], TellerDone(p, j, s),
           UNCHANGED <<muddled, mistold>>
    PROVE  Heard'
<1>1. OnceInv' /\ Len(due'[j]) = Len(due[j]) - 1 /\ due \in [Job -> Seq(JState)]
  BY OnceRemove DEF TypeOK
<1>2. ASSUME NEW k \in Job, k \notin muddled' PROVE Len(due'[k]) <= 1
  BY <1>1, <1>2 DEF Heard, OrderInv
<1> QED
  BY <1>1, <1>2 DEF Heard, OrderInv

---------------------------------------------------------------------------
(* The announcements, step by step.                                         *)

\* What a step of client c changes, if it leaves the jobs' processes alone.
LEMMA CallTellers ==
    ASSUME TypeOK, NEW c \in Client, NEW j \in Job, NEW s \in JState,
           UNCHANGED <<proc, mon>>, \A d \in Client \ {c} : call'[d] = call[d]
    PROVE  \A x : x # c => (x \in Tellers(j, s)' <=> x \in Tellers(j, s))
<1> SUFFICES ASSUME NEW x, x # c PROVE x \in Tellers(j, s)' <=> x \in Tellers(j, s)
  OBVIOUS
<1>1. Verdict(j)' = Verdict(j)
  BY DEF Verdict
<1>2. x \in Client => call'[x] = call[x]
  OBVIOUS
<1> QED
  BY <1>1, <1>2, TellersHas, TellersHasNext DEF Current

LEMMA NotByName == \A c \in Client : c # "job" /\ c # "monitor"
BY WatchAssumption

LEMMA QuietCall ==
    ASSUME TypeOK, NEW c \in Client, UNCHANGED <<proc, mon>>,
           \A d \in Client \ {c} : call'[d] = call[d],
           call[c].at # "announce", call'[c].at # "announce"
    PROVE  SameTellers
<1> SUFFICES ASSUME NEW k \in Job, NEW t \in JState PROVE Tellers(k, t)' = Tellers(k, t)
  BY DEF SameTellers
<1>1. c \notin Tellers(k, t)' /\ c \notin Tellers(k, t)
  BY NotByName, TellersHas, TellersHasNext
<1>2. \A x : x # c => (x \in Tellers(k, t)' <=> x \in Tellers(k, t))
  BY CallTellers
<1> QED
  BY <1>1, <1>2

LEMMA CallBeginsToTell ==
    ASSUME TypeOK, NEW c \in Client, UNCHANGED <<proc, mon>>,
           \A d \in Client \ {c} : call'[d] = call[d],
           call[c].at # "announce", call'[c].at = "announce"
    PROVE  NewTeller(c, Current(c)', call'[c].move[2])
<1>1. \A k \in Job, t \in JState : c \notin Tellers(k, t)
  BY NotByName, TellersHas
<1>2. \A k \in Job, t \in JState :
         c \in Tellers(k, t)' <=> Current(c)' = k /\ call'[c].move[2] = t
  BY NotByName, TellersHasNext
<1>3. \A k \in Job, t \in JState : \A x : x # c => (x \in Tellers(k, t)' <=> x \in Tellers(k, t))
  BY CallTellers
<1>4. c \notin Tellers(Current(c)', call'[c].move[2])
  BY NotByName, TellersHas
<1> QED
  BY <1>1, <1>2, <1>3, <1>4 DEF NewTeller

LEMMA CallHasTold ==
    ASSUME TypeOK, NEW c \in Client, UNCHANGED <<proc, mon>>,
           \A d \in Client \ {c} : call'[d] = call[d],
           call[c].at = "announce", call'[c].at # "announce"
    PROVE  TellerDone(c, Current(c), call[c].move[2])
<1>1. \A k \in Job, t \in JState : c \notin Tellers(k, t)'
  BY NotByName, TellersHasNext
<1>2. \A k \in Job, t \in JState :
         c \in Tellers(k, t) <=> Current(c) = k /\ call[c].move[2] = t
  BY NotByName, TellersHas
<1>3. \A k \in Job, t \in JState : \A x : x # c => (x \in Tellers(k, t)' <=> x \in Tellers(k, t))
  BY CallTellers
<1>4. c \in Tellers(Current(c), call[c].move[2])
  BY TellersHas
<1> QED
  BY <1>1, <1>2, <1>3, <1>4 DEF TellerDone

\* What a step of the job process or the monitor of job i changes.
LEMMA JobTellers ==
    ASSUME NEW i \in Job, UNCHANGED call, NEW x, NEW k \in Job, NEW t \in JState,
           k # i \/ x \notin {"job", "monitor"},
           k # i => proc'[k] = proc[k] /\ mon'[k] = mon[k]
    PROVE  x \in Tellers(k, t)' <=> x \in Tellers(k, t)
<1>1. CASE k # i
  <2>1. Verdict(k)' = Verdict(k)
    BY <1>1 DEF Verdict
  <2> QED
    BY <1>1, <2>1, TellersHas, TellersHasNext DEF Current
<1>2. CASE x \notin {"job", "monitor"}
  BY <1>2, TellersHas, TellersHasNext DEF Current
<1> QED
  BY <1>1, <1>2

\* One step of them, by whether each owes an announcement before and after it.
LEMMA QuietJob ==
    ASSUME TypeOK, NEW i \in Job, UNCHANGED call,
           \A k \in Job \ {i} : proc'[k] = proc[k] /\ mon'[k] = mon[k],
           proc[i] # "written", proc'[i] # "written", mon[i] # "written", mon'[i] # "written"
    PROVE  SameTellers
<1> SUFFICES ASSUME NEW k \in Job, NEW t \in JState, NEW x
             PROVE x \in Tellers(k, t)' <=> x \in Tellers(k, t)
  BY DEF SameTellers
<1>1. CASE k # i \/ x \notin {"job", "monitor"}
  BY <1>1, JobTellers
<1>2. CASE k = i /\ x \in {"job", "monitor"}
  BY <1>2, NotByName, TellersHas, TellersHasNext
<1> QED
  BY <1>1, <1>2

LEMMA JobProcessTells ==
    ASSUME TypeOK, NEW i \in Job, UNCHANGED call,
           \A k \in Job \ {i} : proc'[k] = proc[k] /\ mon'[k] = mon[k],
           mon[i] # "written", mon'[i] # "written"
    PROVE  /\ proc[i] # "written" /\ proc'[i] = "written" => NewTeller("job", i, "RUNNING")
           /\ proc[i] = "written" /\ proc'[i] # "written" => TellerDone("job", i, "RUNNING")
<1>1. \A k \in Job, t \in JState : \A x :
         k # i \/ x \notin {"job", "monitor"} => (x \in Tellers(k, t)' <=> x \in Tellers(k, t))
  BY JobTellers
<1>2. \A t \in JState : /\ "monitor" \notin Tellers(i, t)' /\ "monitor" \notin Tellers(i, t)
                        /\ "job" \in Tellers(i, t) <=> proc[i] = "written" /\ t = "RUNNING"
                        /\ "job" \in Tellers(i, t)' <=> proc'[i] = "written" /\ t = "RUNNING"
  BY NotByName, TellersHas, TellersHasNext
<1>3. "RUNNING" \in JState
  BY DEF JState
<1>4. ASSUME proc[i] # "written", proc'[i] = "written" PROVE NewTeller("job", i, "RUNNING")
  <2>1. "job" \notin Tellers(i, "RUNNING")
    BY <1>2, <1>3, <1>4
  <2>2. ASSUME NEW k \in Job, NEW t \in JState
        PROVE  Tellers(k, t)' = IF k = i /\ t = "RUNNING" THEN Tellers(k, t) \cup {"job"} ELSE Tellers(k, t)
    <3>1. CASE k # i
      BY <1>1, <3>1
    <3>2. CASE k = i
      BY <1>1, <1>2, <1>4, <3>2
    <3> QED
      BY <3>1, <3>2
  <2> QED
    BY <2>1, <2>2 DEF NewTeller
<1>5. ASSUME proc[i] = "written", proc'[i] # "written" PROVE TellerDone("job", i, "RUNNING")
  <2>1. "job" \in Tellers(i, "RUNNING")
    BY <1>2, <1>3, <1>5
  <2>2. ASSUME NEW k \in Job, NEW t \in JState
        PROVE  Tellers(k, t)' = IF k = i /\ t = "RUNNING" THEN Tellers(k, t) \ {"job"} ELSE Tellers(k, t)
    <3>1. CASE k # i
      BY <1>1, <3>1
    <3>2. CASE k = i
      BY <1>1, <1>2, <1>5, <3>2
    <3> QED
      BY <3>1, <3>2
  <2> QED
    BY <2>1, <2>2 DEF TellerDone
<1> QED
  BY <1>4, <1>5

LEMMA MonitorTells ==
    ASSUME TypeOK, NEW i \in Job, UNCHANGED <<call, proc>>,
           \A k \in Job \ {i} : mon'[k] = mon[k], proc[i] # "written"
    PROVE  /\ mon[i] # "written" /\ mon'[i] = "written" => NewTeller("monitor", i, Verdict(i))
           /\ mon[i] = "written" /\ mon'[i] # "written" => TellerDone("monitor", i, Verdict(i))
<1> DEFINE v == Verdict(i)
<1>1. \A k \in Job, t \in JState : \A x :
         k # i \/ x \notin {"job", "monitor"} => (x \in Tellers(k, t)' <=> x \in Tellers(k, t))
  BY JobTellers
<1>0. v' = v /\ v \in JState
  BY VerdictType DEF Verdict, JState
<1>2. \A t \in JState : /\ "job" \notin Tellers(i, t)' /\ "job" \notin Tellers(i, t)
                        /\ "monitor" \in Tellers(i, t) <=> mon[i] = "written" /\ t = v
                        /\ "monitor" \in Tellers(i, t)' <=> mon'[i] = "written" /\ t = v
  BY <1>0, NotByName, TellersHas, TellersHasNext
<1> HIDE DEF v
<1>4. ASSUME mon[i] # "written", mon'[i] = "written" PROVE NewTeller("monitor", i, v)
  <2>1. "monitor" \notin Tellers(i, v)
    BY <1>0, <1>2, <1>4
  <2>2. ASSUME NEW k \in Job, NEW t \in JState
        PROVE  Tellers(k, t)' = IF k = i /\ t = v THEN Tellers(k, t) \cup {"monitor"} ELSE Tellers(k, t)
    <3>1. CASE k # i
      BY <1>1, <3>1
    <3>2. CASE k = i
      BY <1>1, <1>2, <1>4, <3>2
    <3> QED
      BY <3>1, <3>2
  <2> QED
    BY <2>1, <2>2 DEF NewTeller
<1>5. ASSUME mon[i] = "written", mon'[i] # "written" PROVE TellerDone("monitor", i, v)
  <2>1. "monitor" \in Tellers(i, v)
    BY <1>0, <1>2, <1>5
  <2>2. ASSUME NEW k \in Job, NEW t \in JState
        PROVE  Tellers(k, t)' = IF k = i /\ t = v THEN Tellers(k, t) \ {"monitor"} ELSE Tellers(k, t)
    <3>1. CASE k # i
      BY <1>1, <3>1
    <3>2. CASE k = i
      BY <1>1, <1>2, <1>5, <3>2
    <3> QED
      BY <3>1, <3>2
  <2> QED
    BY <2>1, <2>2 DEF TellerDone
<1> QED
  BY <1>4, <1>5 DEF v

\* What the steps of client c make of the calls.
Others(c) == \A d \in Client \ {c} : call'[d] = call[d]

LEMMA StepCall ==
    ASSUME TypeOK, NEW c \in Client, NEW at, NEW pos, Step(c, at, pos)
    PROVE  /\ Others(c) /\ call'[c].at = at /\ call'[c].pos = pos
           /\ call'[c].jobs = call[c].jobs /\ call'[c].move = call[c].move
BY DoingType DEF Step, Others, TypeOK, Doing

LEMMA ReturnCall ==
    ASSUME TypeOK, NEW c \in Client, Return(c) PROVE Others(c) /\ call'[c].at = "idle"
BY DEF Return, Others, TypeOK, Idle

LEMMA BeginCall ==
    ASSUME TypeOK, NEW c \in Client, BeginWait(c) \/ BeginControl(c)
    PROVE  Others(c) /\ call'[c].at = "scan"
<1>1. PICK op, l, t : Begin(c, op, l, t)
  BY DEF BeginWait, BeginControl
<1> DEFINE new == [Idle EXCEPT !.at = "scan", !.op = op, !.jobs = l, !.pos = 1, !.timeout = t]
<1>2. new.at = "scan"
  BY DEF Idle
<1>3. call' = [call EXCEPT ![c] = new]
  BY <1>1 DEF Begin
<1> HIDE DEF new
<1> QED
  BY <1>2, <1>3 DEF Others, TypeOK

LEMMA LookCall ==
    ASSUME TypeOK, NEW c \in Client, Look(c)
    PROVE  /\ Others(c) /\ call'[c].at \in {"idle", "scan", "admitted"}
           /\ call'[c].at = "idle" => call[c].op \in WaitOp /\ LooksFor(call[c].op, state[Current(c)])
<1>1. CASE Return(c) /\ call[c].op \in WaitOp /\ LooksFor(call[c].op, state[Current(c)])
  BY <1>1, ReturnCall
<1>2. CASE Step(c, "scan", call[c].pos + 1)
  BY <1>2, StepCall
<1>3. ASSUME NEW m, call' = [call EXCEPT ![c].at = "admitted", ![c].move = m]
      PROVE  Others(c) /\ call'[c].at = "admitted"
  BY <1>3, DoingType DEF Others, TypeOK, Doing
<1> QED
  BY <1>1, <1>2, <1>3 DEF Look

LEMMA HeardStep == IInv /\ [Next]_vars => Heard'
<1> SUFFICES ASSUME TypeOK, JobInv, CallInv, Heard, [Next]_vars PROVE Heard'
  BY DEF IInv, Heard
<1> USE DEF jobVars, heard
<1>1. ASSUME NEW c \in Client, NEW j \in Job, Submit(c, j) PROVE Heard'
  <2>1. /\ UNCHANGED call /\ proc' = [proc EXCEPT ![j] = "forked"] /\ mon' = [mon EXCEPT ![j] = "waiting"]
        /\ proc[j] # "written" /\ mon[j] # "written"
    BY <1>1 DEF Submit, JobInv
  <2>2. SameTellers
    BY <2>1, QuietJob DEF TypeOK
  <2> QED
    BY <1>1, <2>2, HeardSame DEF Submit
<1>2. ASSUME NEW c \in Client, \/ BeginWait(c) \/ BeginControl(c) \/ Look(c)
                               \/ NextRound(c) \/ GiveUp(c)
      PROVE  Heard'
  <2>1. UNCHANGED <<proc, mon, due, muddled, mistold>> /\ call[c].at # "announce"
    <3>1. CASE BeginWait(c) \/ BeginControl(c)
      BY <3>1 DEF BeginWait, BeginControl, Begin, Free
    <3>2. CASE Look(c)
      BY <3>2 DEF Look
    <3> QED
      BY <1>2, <3>1, <3>2 DEF NextRound, GiveUp, AtEnd
  <2>2. call'[c].at # "announce" /\ Others(c)
    <3>1. CASE BeginWait(c) \/ BeginControl(c)
      BY <3>1, BeginCall
    <3>2. CASE Look(c)
      BY <3>2, LookCall
    <3>3. CASE NextRound(c)
      BY <3>3, StepCall DEF NextRound
    <3>4. CASE GiveUp(c)
      BY <3>4, ReturnCall DEF GiveUp
    <3> QED
      BY <1>2, <3>1, <3>2, <3>3, <3>4
  <2> QED
    BY <2>1, <2>2, QuietCall, HeardSame DEF Others
<1>3. ASSUME NEW c \in Client, SaveMove(c) PROVE Heard'
  <2>1. /\ Current(c) \in Job /\ call[c].move[2] \in JState
    BY <1>3, CurrentType, MoveFacts, DoingType DEF SaveMove, CallInv, CallOk, Doing
  <2>2. /\ call[c].at # "announce" /\ UNCHANGED <<proc, mon>>
        /\ \A d \in Client \ {c} : call'[d] = call[d]
        /\ call'[c].jobs = call[c].jobs /\ call'[c].move = call[c].move
    BY <1>3, DoingType DEF SaveMove, Step, TypeOK, Doing
  <2>3. CASE c \in callback
    <3>1. Write(Current(c), call[c].move[2], TRUE)
      BY <1>3, <2>3 DEF SaveMove, Write
    <3>2. call'[c].at = "announce" /\ call'[c].pos = call[c].pos
      BY <1>3, <2>3, DoingType DEF SaveMove, Step, TypeOK, Doing
    <3>3. Current(c)' = Current(c)
      BY <2>2, <3>2 DEF Current
    <3>4. NewTeller(c, Current(c), call[c].move[2])
      BY <2>2, <3>2, <3>3, CallBeginsToTell
    <3> QED
      BY <2>1, <3>1, <3>4, HeardWrite
  <2>4. CASE c \notin callback
    <3>1. Write(Current(c), call[c].move[2], FALSE)
      BY <1>3, <2>4 DEF SaveMove, Write
    <3>2. call'[c].at = "scan"
      BY <1>3, <2>4, DoingType DEF SaveMove, Step, TypeOK, Doing
    <3> QED
      BY <2>2, <3>1, <3>2, QuietCall, HeardSilent
  <2> QED
    BY <2>3, <2>4
<1>4. ASSUME NEW c \in Client, TellMove(c) PROVE Heard'
  <2>1. /\ Current(c) \in Job /\ call[c].move[2] \in JState /\ call[c].move[3] = call[c].move[2]
    BY <1>4, CurrentType, MoveFacts, DoingType DEF TellMove, CallInv, CallOk, Doing
  <2>2. /\ call[c].at = "announce" /\ call'[c].at = "scan" /\ UNCHANGED <<proc, mon>>
        /\ \A d \in Client \ {c} : call'[d] = call[d]
    BY <1>4, DoingType DEF TellMove, Step, TypeOK, Doing
  <2>3. TellerDone(c, Current(c), call[c].move[2])
    BY <2>2, CallHasTold
  <2> QED
    BY <1>4, <2>1, <2>3, HeardTell DEF TellMove
<1>5. ASSUME NEW j \in Job, SaveRunning(j) PROVE Heard'
  <2>1. /\ UNCHANGED call /\ \A k \in Job \ {j} : proc'[k] = proc[k] /\ mon'[k] = mon[k]
        /\ proc[j] # "written" /\ mon[j] # "written" /\ mon'[j] # "written"
        /\ "RUNNING" \in JState
    BY <1>5 DEF SaveRunning, TypeOK, JobInv, JState
  <2>2. CASE j \in inherits
    <3>1. Write(j, "RUNNING", TRUE) /\ proc'[j] = "written"
      BY <1>5, <2>2 DEF SaveRunning, Write, TypeOK
    <3> QED
      BY <2>1, <3>1, JobProcessTells, HeardWrite
  <2>3. CASE j \notin inherits
    <3>1. Write(j, "RUNNING", FALSE) /\ proc'[j] = "executing"
      BY <1>5, <2>3 DEF SaveRunning, Write, TypeOK
    <3> QED
      BY <2>1, <3>1, QuietJob, HeardSilent
  <2> QED
    BY <2>2, <2>3
<1>6. ASSUME NEW j \in Job, TellRunning(j) PROVE Heard'
  <2>1. /\ UNCHANGED call /\ \A k \in Job \ {j} : proc'[k] = proc[k] /\ mon'[k] = mon[k]
        /\ proc[j] = "written" /\ proc'[j] # "written" /\ mon[j] # "written" /\ mon'[j] # "written"
        /\ "RUNNING" \in JState /\ Tell(j, "RUNNING")
    BY <1>6 DEF TellRunning, TypeOK, JobInv, JState
  <2> QED
    BY <2>1, JobProcessTells, HeardTell
<1>7. ASSUME NEW j \in Job, SaveVerdict(j) PROVE Heard'
  <2>1. /\ UNCHANGED <<call, proc>> /\ \A k \in Job \ {j} : mon'[k] = mon[k]
        /\ proc[j] # "written" /\ mon[j] # "written"
        /\ Verdict(j) \in JState
    BY <1>7, VerdictType DEF SaveVerdict, TypeOK, JState
  <2>2. CASE j \in inherits
    <3>1. Write(j, Verdict(j), TRUE) /\ mon'[j] = "written"
      BY <1>7, <2>2 DEF SaveVerdict, Write, TypeOK
    <3> QED
      BY <2>1, <3>1, MonitorTells, HeardWrite
  <2>3. CASE j \notin inherits
    <3>1. Write(j, Verdict(j), FALSE) /\ mon'[j] = "gone"
      BY <1>7, <2>3 DEF SaveVerdict, Write, TypeOK
    <3> QED
      BY <2>1, <3>1, QuietJob, HeardSilent
  <2> QED
    BY <2>2, <2>3
<1>8. ASSUME NEW j \in Job, TellVerdict(j) PROVE Heard'
  <2>1. /\ UNCHANGED <<call, proc>> /\ \A k \in Job \ {j} : mon'[k] = mon[k]
        /\ proc[j] # "written" /\ mon[j] = "written" /\ mon'[j] # "written"
        /\ Verdict(j) \in JState /\ Tell(j, Verdict(j))
    BY <1>8, VerdictType DEF TellVerdict, TypeOK, JobInv, JState
  <2> QED
    BY <2>1, MonitorTells, HeardTell
<1>9. ASSUME NEW j \in Job, End(j) PROVE Heard'
  <2>1. /\ UNCHANGED call /\ \A k \in Job \ {j} : proc'[k] = proc[k] /\ mon'[k] = mon[k]
        /\ proc'[j] # "written" /\ mon[j] # "written" /\ mon'[j] # "written"
        /\ "RUNNING" \in JState /\ UNCHANGED <<muddled, mistold>>
    BY <1>9 DEF End, TypeOK, JobInv, JState
  <2>2. CASE proc[j] = "written"
    <3>1. due' = [due EXCEPT ![j] = RemoveFirst(@, "RUNNING")]
      BY <1>9, <2>2 DEF End
    <3> QED
      BY <2>1, <2>2, <3>1, JobProcessTells, HeardEnd
  <2>3. CASE proc[j] # "written"
    <3>1. due' = due
      BY <1>9, <2>3 DEF End
    <3> QED
      BY <2>1, <2>3, <3>1, QuietJob, HeardSame
  <2> QED
    BY <2>2, <2>3
<1>10. CASE UNCHANGED <<proc, mon, call, due, muddled, mistold>>
  <2>1. SameTellers
    BY <1>10 DEF SameTellers, Tellers, Current, Verdict
  <2> QED
    BY <1>10, <2>1, HeardSame
<1>11. ASSUME NEW c \in Client, Register(c) PROVE Heard'
  BY <1>10, <1>11 DEF Register
<1> QED
  BY <1>1, <1>2, <1>3, <1>4, <1>5, <1>6, <1>7, <1>8, <1>9, <1>10, <1>11
     DEF Next, CallStep, JobStep, vars

---------------------------------------------------------------------------
(* The theorems.                                                            *)

LEMMA InitInv == Init => IInv
<1> SUFFICES ASSUME Init PROVE IInv
  OBVIOUS
<1>1. TypeOK
  BY TypeInit
<1>2. JobInv
  BY DEF Init, JobInv, Requeued
<1>3. CallInv
  BY DEF Init, CallInv, CallOk, Free, Idle
<1>4. OnceInv
  <2> SUFFICES ASSUME NEW j \in Job, NEW s \in JState
               PROVE  /\ IsFiniteSet(Tellers(j, s))
                      /\ Cardinality(Places(due[j], s)) = Cardinality(Tellers(j, s))
    BY DuePlaces
  <2>1. Tellers(j, s) = {}
    BY TellersHas DEF Init, Idle
  <2>2. Places(due[j], s) = {}
    BY DEF Init, Places
  <2> QED
    BY <2>1, <2>2, FS_EmptySet
<1>5. OrderInv
  BY DEF Init, OrderInv
<1> QED
  BY <1>1, <1>2, <1>3, <1>4, <1>5 DEF IInv

LEMMA InvStep == IInv /\ [Next]_vars => IInv'
BY TypeStep, JobStepInv, CallStepInv, HeardStep DEF IInv, Heard

LEMMA Invariance == Spec => []IInv
<1>1. IInv /\ [Next]_vars => IInv'
  BY InvStep
<1> QED
  BY <1>1, InitInv, PTL DEF Spec

\* Every variable stays in its range.
THEOREM TypeCorrect == Spec => []TypeOK
<1>1. IInv => TypeOK
  BY DEF IInv
<1> QED
  BY <1>1, Invariance, PTL

\* What is still to be announced of a job is what some process is about to announce:
\* each change written where a callback is registered is announced once, as it was
\* written.
THEOREM OnceSafety == Spec => []ToldOnce
<1>1. IInv => ToldOnce
  BY DEF IInv, OnceInv, ToldOnce
<1> QED
  BY <1>1, Invariance, PTL

\* The announcements of a job come in the order of its changes, unless two were due at
\* once.
THEOREM OrderSafety == Spec => []ToldInOrder
<1>1. IInv => ToldInOrder
  BY DEF IInv, OrderInv, ToldInOrder
<1> QED
  BY <1>1, Invariance, PTL

LEMMA LeftOutStep ==
    ASSUME IInv, Next, NEW c \in Client, ~Free(c), Free(c)'
    PROVE  /\ steady[c] \intersect {call[c].jobs[i] : i \in 1 .. call[c].pos - 1} = {}
           /\ AtEnd(c) \/ (call[c].op \in WaitOp /\ LooksFor(call[c].op, state[Current(c)]))
<1>1. \A i \in 1 .. call[c].pos - 1 : call[c].jobs[i] \notin steady[c]
  BY DEF IInv, CallInv, CallOk
<1>2. TypeOK
  BY DEF IInv
<1>3. call[c].at # "idle" /\ call'[c].at = "idle"
  BY DEF Free
<1>4. PICK d \in Client : BeginWait(d) \/ BeginControl(d) \/ CallStep(d)
  <2>1. ASSUME NEW d \in Client, NEW j \in Job, Submit(d, j) PROVE FALSE
    BY <1>3, <2>1 DEF Submit
  <2>2. ASSUME NEW d \in Client, Register(d) PROVE FALSE
    BY <1>3, <2>2 DEF Register
  <2>3. ASSUME NEW j \in Job, JobStep(j) \/ End(j) PROVE FALSE
    BY <1>3, <2>3 DEF JobStep, SaveRunning, TellRunning, SaveVerdict, TellVerdict, End
  <2> QED
    BY <2>1, <2>2, <2>3 DEF Next
<1>5. AtEnd(c) \/ (call[c].op \in WaitOp /\ LooksFor(call[c].op, state[Current(c)]))
  <2>1. CASE BeginWait(d) \/ BeginControl(d)
    BY <1>2, <1>3, <2>1, BeginCall DEF Others
  <2>2. CASE Look(d)
    BY <1>2, <1>3, <2>2, LookCall DEF Others
  <2>3. CASE SaveMove(d)
    BY <1>2, <1>3, <2>3, StepCall DEF SaveMove, Others
  <2>4. CASE TellMove(d)
    BY <1>2, <1>3, <2>4, StepCall DEF TellMove, Others
  <2>5. CASE NextRound(d)
    BY <1>2, <1>3, <2>5, StepCall DEF NextRound, Others
  <2>6. CASE GiveUp(d)
    BY <1>2, <1>3, <2>6, ReturnCall DEF GiveUp, Others
  <2> QED
    BY <1>4, <2>1, <2>2, <2>3, <2>4, <2>5, <2>6 DEF CallStep
<1> QED
  BY <1>1, <1>5

\* A call that is over has left no job out: the jobs it has passed have not been where
\* it wants them all the time, and it ends with a job that is, or at the end of its list.
THEOREM NothingLeftOut == Spec => NoneLeftOut
<1>1. IInv /\ [Next]_vars => [\A c \in Client : ~Free(c) /\ Free(c)' =>
          LET passed == {call[c].jobs[i] : i \in 1 .. call[c].pos - 1}
          IN  /\ steady[c] \intersect passed = {}
              /\ AtEnd(c) \/ (call[c].op \in WaitOp /\ LooksFor(call[c].op, state[Current(c)]))]_vars
  BY LeftOutStep
<1> QED
  BY <1>1, Invariance, PTL DEF Spec, NoneLeftOut
=============================================================================
