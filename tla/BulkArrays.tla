---------------------------- MODULE BulkArrays -----------------------------
(***************************************************************************)
(* The loop of drmaa2_jsession_run_bulk_jobs over machine words, and the    *)
(* job array it leaves in the database.  begin_index, end_index, step and   *)
(* the loop's index are unsigned longs, whose sum wraps around; the paths   *)
(* of the caller's template are replaced before each run_job and put back   *)
(* after it.  What run_job does, and what may happen to its session         *)
(* meanwhile, is in JobSessions and JobLifecycle; here it answers with the  *)
(* row id of a new job.                                                     *)
(***************************************************************************)
EXTENDS StringLists

CONSTANTS Word,      \* number of values of an unsigned long
          MaxJobs,   \* bound on the jobs of a call, which may never end
          Others,    \* how many jobs other clients may insert before one of the loop's
          Path,      \* the paths a template may have
          Index,     \* the placeholders $DRMAA2_INDEX$,
          Home,      \*   $DRMAA2_HOME_DIR$ and
          Working,   \*   $DRMAA2_WORKING_DIR$
          Tilde,     \* what the last two are replaced with
          Dot

\* What a path may be made of: a placeholder counts as one symbol, as does a number.
Symbol == (UNION {ToSet(path) : path \in Path \ {Null}}) \cup {Tilde, Dot} \cup Nat

ASSUME BulkArraysAssumption ==
    /\ Word \in Nat \ {0} /\ MaxJobs \in Nat /\ Others \subseteq Nat
    /\ \A symbol \in {Index, Home, Working, Sep} : symbol \notin Nat
    /\ Index # Home /\ Index # Working /\ Home # Working /\ Tilde # Working
    /\ Path \subseteq Seq(Symbol) \cup {Null}
    /\ Null \notin Seq(Symbol) /\ Null \notin Seq(Nat \cup {Sep}) /\ Null \notin Seq(Seq(Nat))

VARIABLES
    range,   \* the arguments begin_index, end_index and step
    index,   \* the loop's index
    jt,      \* the caller's template: its working directory and its input path
    saved,   \* the locals that keep the caller's paths
    ids,     \* the string list of job ids
    pc,      \* where the call is
    jobs,    \* the jobs submitted, in order: row id and paths
    array    \* the row of job_arrays: template and joined ids

vars == <<range, index, jt, saved, ids, pc, jobs, array>>

Unsigned == 0 .. Word - 1

\* str_replace; a NULL path stays NULL.
Replace(path, placeholder, with) ==
    IF path = Null THEN Null ELSE ReplaceAll(path, placeholder, with)

\* A job's paths: the working directory has two placeholders replaced, the other
\* paths have three.
Filled(t, i) ==
    [workingDirectory |-> Replace(Replace(t.workingDirectory, Index, i), Home, Tilde),
     inputPath |-> Replace(Replace(Replace(t.inputPath, Index, i), Home, Tilde), Working, Dot)]

Init ==
    /\ range \in [begin : Unsigned, end : Unsigned, step : Unsigned]
    /\ jt \in [workingDirectory : Path, inputPath : Path]
    /\ saved = Null /\ index = 0
    /\ ids = <<>>
    /\ pc = "called"
    /\ jobs = <<>>
    /\ array = Null

---------------------------------------------------------------------------
\* An end before the begin, or a begin of 0, is refused.
Check ==
    /\ pc = "called"
    /\ \/ /\ range.end < range.begin \/ range.begin < 1
          /\ pc' = "refused"
          /\ UNCHANGED <<index, saved>>
       \/ /\ range.end >= range.begin /\ range.begin >= 1
          /\ pc' = "loop"
          /\ index' = range.begin
          /\ saved' = jt
    /\ UNCHANGED <<range, jt, ids, jobs, array>>

\* The head of the loop, and the paths of the caller's template replaced in place.
Fill ==
    /\ pc = "loop" /\ index <= range.end
    /\ jt' = Filled(jt, index)
    /\ pc' = "filled"
    /\ UNCHANGED <<range, index, saved, ids, jobs, array>>

\* run_job inserts a job; other clients may have inserted theirs in between.
RunJob ==
    /\ pc = "filled" /\ Len(jobs) < MaxJobs
    /\ \E n \in Others :
          jobs' = Append(jobs, [id |-> n + 1 + IF jobs = <<>> THEN 0 ELSE Last(jobs).id,
                                paths |-> jt])
    /\ pc' = "submitted"
    /\ UNCHANGED <<range, index, jt, saved, ids, array>>

\* Faulty variant: the last of the paths is not put back.
RestoreAllButOne ==
    /\ pc = "submitted"
    /\ jt' = [jt EXCEPT !.workingDirectory = saved.workingDirectory]
    /\ ids' = Append(ids, <<Last(jobs).id>>)
    /\ index' = (index + range.step) % Word
    /\ pc' = "loop"
    /\ UNCHANGED <<range, saved, jobs, array>>

\* The caller's paths are put back, the id is added to the list, the index moves on.
Restore ==
    /\ pc = "submitted"
    /\ jt' = saved
    /\ ids' = Append(ids, <<Last(jobs).id>>)
    /\ index' = (index + range.step) % Word
    /\ pc' = "loop"
    /\ UNCHANGED <<range, saved, jobs, array>>

\* Faulty variant: the loop waits for an index right behind the end.
SaveArrayWhenEqual ==
    /\ pc = "loop" /\ index = range.end + 1
    /\ array' = [template |-> jt, jobs |-> Join(ids)]
    /\ pc' = "done"
    /\ UNCHANGED <<range, index, jt, saved, ids, jobs>>

\* After the loop: save_jtemplate and save_jarray.
SaveArray ==
    /\ pc = "loop" /\ index > range.end
    /\ array' = [template |-> jt, jobs |-> Join(ids)]
    /\ pc' = "done"
    /\ UNCHANGED <<range, index, jt, saved, ids, jobs>>

Next == Check \/ Fill \/ RunJob \/ Restore \/ SaveArray

\* The client runs on by itself.
Spec == Init /\ [][Next]_vars /\ WF_vars(Next)

---------------------------------------------------------------------------
(* Properties.                                                              *)

\* The step leads to an index beyond the end without wrapping around.
Regular ==
    LET b == range.begin  e == range.end  s == range.step
    IN  s > 0 /\ b + ((e - b) \div s) * s + s < Word

\* The call returns for every range whose last index plus step is still a word;
\* there are others for which it goes on submitting jobs for ever.
LoopEnds == pc = "loop" /\ Regular ~> pc = "done"

\* What a job of index i is to be given for the caller's paths.
Expected(path, i, workingIsDot) ==
    IF path = Null THEN Null
    ELSE [k \in DOMAIN path |->
            CASE path[k] = Index -> i
              [] path[k] = Home -> Tilde
              [] path[k] = Working /\ workingIsDot -> Dot
              [] OTHER -> path[k]]

\* drmaa2_jarray_get_jobs, which takes the row apart again, finds one job for each
\* index of the range, in order and with its own paths, whatever ids other clients
\* have taken; drmaa2_jarray_get_job_template finds the caller's paths.
ArrayReadBack ==
    pc = "done" /\ Regular =>
        LET found == Split(array.jobs)
            count == (range.end - range.begin) \div range.step + 1
        IN  /\ Len(found) = count /\ Len(jobs) = count
            /\ array.template = saved
            /\ \A k \in 1 .. count :
                  LET i == range.begin + (k - 1) * range.step
                  IN  /\ found[k] = <<jobs[k].id>>
                      /\ jobs[k].paths =
                            [workingDirectory |-> Expected(saved.workingDirectory, i, FALSE),
                             inputPath |-> Expected(saved.inputPath, i, TRUE)]
=============================================================================
