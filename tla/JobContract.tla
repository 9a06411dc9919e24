---------------------------- MODULE JobContract ----------------------------
(* What drmaa2_jsession_run_job, the monitor and drmaa2_j_terminate promise  *)
(* about a job together, without processes, signals, columns or states: a    *)
(* job gets one process, its handle is handed out once that process exists,  *)
(* it ends once, and its exit status is recorded once, after the end, and    *)
(* agrees with it.                                                           *)
EXTENDS Integers

CONSTANTS Job,        \* jobs
          Status,     \* how a job's process can be: Alive or ended
          Alive,
          NullExit    \* no exit status recorded

VARIABLES phase,      \* "absent", "accepted" or "handed"
          launched,   \* jobs that have got a process
          outcome,    \* how the process of a job is
          recorded    \* the recorded exit status

vars == <<phase, launched, outcome, recorded>>

Init ==
    /\ phase = [j \in Job |-> "absent"]
    /\ launched = {}
    /\ outcome = [j \in Job |-> Alive]
    /\ recorded = [j \in Job |-> NullExit]

Accept(j) ==
    /\ phase[j] = "absent"
    /\ phase' = [phase EXCEPT ![j] = "accepted"]
    /\ UNCHANGED <<launched, outcome, recorded>>

Launch(j) ==
    /\ phase[j] = "accepted" /\ j \notin launched
    /\ launched' = launched \cup {j}
    /\ UNCHANGED <<phase, outcome, recorded>>

\* run_job returns the handle.
Hand(j) ==
    /\ phase[j] = "accepted" /\ j \in launched
    /\ phase' = [phase EXCEPT ![j] = "handed"]
    /\ UNCHANGED <<launched, outcome, recorded>>

\* Jobs end, several at once when a process group is signalled; a job ends once.
Finish(S) ==
    /\ S # {} /\ S \subseteq {j \in launched : outcome[j] = Alive}
    /\ \E s \in Status \ {Alive} :
          outcome' = [j \in Job |-> IF j \in S THEN s ELSE outcome[j]]
    /\ UNCHANGED <<phase, launched, recorded>>

Record(j) ==
    /\ outcome[j] # Alive /\ recorded[j] = NullExit
    /\ recorded' = [recorded EXCEPT ![j] = outcome[j].code]
    /\ UNCHANGED <<phase, launched, outcome>>

Next ==
    \/ \E j \in Job : Accept(j) \/ Launch(j) \/ Hand(j) \/ Record(j)
    \/ \E S \in SUBSET Job : Finish(S)

Spec == Init /\ [][Next]_vars
=============================================================================
