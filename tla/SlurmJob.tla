------------------------------ MODULE SlurmJob ------------------------------
(***************************************************************************)
(* A batch job (hpc/slurm.py): the script that runs wrf.exe in it, its     *)
(* submission, and wait(), which polls sacct until the job ends or a       *)
(* deadline passes, or the caller cancels.  SLURM is external: it starts   *)
(* jobs, kills them, may suspend and requeue them, and its accounting lags *)
(* and fails to answer.                                                    *)
(***************************************************************************)
EXTENDS Integers

CONSTANT JobSetups

ASSUME JobAssumption ==
    \A s \in JobSetups :
        /\ s.ranks \in Nat /\ s.slots \in Nat   \* np; nodes times tasks per node
        /\ s.timeout \in Nat /\ s.poll \in Nat \ {0}
        /\ s.suspends \in BOOLEAN /\ s.requeues \in BOOLEAN
        /\ s.lag \in BOOLEAN                    \* accounting may show what was

VARIABLES jobSetup,
          job,      \* its state in SLURM: "none" before it is submitted
          shown,    \* its state in the accounting, "" before it has one
          wrf,      \* the exit code of wrf.exe, or "running"
          caller,   \* "new", "waiting", "returned", "timeout" or "raised"
          answer,   \* what wait() returned
          time      \* since wait() began

jobVars == <<jobSetup, job, shown, wrf, caller, answer, time>>
slurm == <<job, shown, wrf>>

Going == {"PENDING", "RUNNING", "COMPLETING"}
Ended == {"COMPLETED", "FAILED", "CANCELLED", "TIMEOUT", "NODE_FAIL"}

JobStart(s) ==
    /\ jobSetup = s /\ job = "none" /\ shown = "" /\ wrf = "none"
    /\ caller = "new" /\ answer = "" /\ time = 0
JobInit == \E s \in JobSetups : JobStart(s)

-----------------------------------------------------------------------------
(* SLURM, and the script in it. *)

Shows(state) == job' = state /\ shown' \in {state} \cup (IF jobSetup.lag THEN {shown} ELSE {})
Accounting ==
    /\ job # "none" /\ shown # job /\ shown' = job
    /\ UNCHANGED <<jobSetup, job, wrf, caller, answer, time>>
Schedule ==
    /\ job = "PENDING" /\ Shows("RUNNING")
    /\ wrf' = "running"
    /\ UNCHANGED <<jobSetup, caller, answer, time>>
WrfExits(code) ==
    /\ job = "RUNNING" /\ wrf = "running" /\ wrf' = code
    /\ UNCHANGED <<jobSetup, job, shown, caller, answer, time>>

\* Mutated form: the exit code of the script is that of killing tail.
ExitOfTail == "COMPLETED"

\* wait $WRF_PID; kill $TAIL_PID; exit $WRF_EXIT.
ExitOfScript == IF wrf = "0" THEN "COMPLETED" ELSE "FAILED"
ScriptEnds ==
    /\ job = "RUNNING" /\ wrf \in {"0", "1"} /\ Shows("COMPLETING")
    /\ UNCHANGED <<jobSetup, wrf, caller, answer, time>>
Ends ==
    /\ job = "COMPLETING" /\ Shows(ExitOfScript)
    /\ UNCHANGED <<jobSetup, wrf, caller, answer, time>>

Kill(state) ==
    /\ job \in {"PENDING", "RUNNING", "SUSPENDED"} /\ Shows(state)
    /\ UNCHANGED <<jobSetup, wrf, caller, answer, time>>
Suspend ==
    /\ jobSetup.suspends /\ job = "RUNNING" /\ Shows("SUSPENDED")
    /\ UNCHANGED <<jobSetup, wrf, caller, answer, time>>
Resume ==
    /\ job = "SUSPENDED" /\ Shows("RUNNING")
    /\ UNCHANGED <<jobSetup, wrf, caller, answer, time>>
Requeue ==
    /\ jobSetup.requeues /\ job = "NODE_FAIL" /\ Shows("PENDING")
    /\ wrf' = "none"
    /\ UNCHANGED <<jobSetup, caller, answer, time>>

-----------------------------------------------------------------------------
(* The caller. *)

\* sbatch refuses; or what it prints names no job, queued though it is.
Submit ==
    /\ caller = "new"
    /\ \/ jobSetup.ranks <= jobSetup.slots /\ Shows("PENDING") /\ caller' \in {"waiting", "raised"}
       \/ job' = job /\ shown' = shown /\ caller' = "raised"
    /\ UNCHANGED <<jobSetup, wrf, answer, time>>

\* Mutated form: no answer is an answer.
PollAny(state) ==
    /\ caller = "waiting" /\ time < jobSetup.timeout
    /\ IF state \notin Going THEN caller' = "returned" /\ answer' = state /\ UNCHANGED time
       ELSE time' = time + jobSetup.poll /\ UNCHANGED <<caller, answer>>
    /\ UNCHANGED <<jobSetup, slurm>>

\* sacct answers, or not: state is "" then.
Poll(state) ==
    /\ caller = "waiting" /\ time < jobSetup.timeout
    /\ IF state \notin Going \cup {""} THEN caller' = "returned" /\ answer' = state /\ UNCHANGED time
       ELSE time' = time + jobSetup.poll /\ UNCHANGED <<caller, answer>>
    /\ UNCHANGED <<jobSetup, slurm>>
WaitTimesOut ==
    /\ caller = "waiting" /\ time >= jobSetup.timeout
    /\ caller' = "timeout"
    /\ UNCHANGED <<jobSetup, slurm, answer, time>>

\* scancel, whoever calls it; a job that has ended is left alone.
Cancel == caller # "new" /\ Kill("CANCELLED")

JobNext ==
    \/ Accounting \/ Schedule \/ ScriptEnds \/ Ends \/ Suspend \/ Resume \/ Requeue \/ Cancel
    \/ \E code \in {"0", "1"} : WrfExits(code)
    \/ \E state \in {"TIMEOUT", "NODE_FAIL"} : Kill(state)
    \/ Submit \/ \E state \in {shown, ""} : Poll(state)
    \/ WaitTimesOut

JobSpec == JobInit /\ [][JobNext]_jobVars

-----------------------------------------------------------------------------
\* The type of the state; what wait() returned is the name of a state.
JobTypeOK ==
    /\ job \in Going \cup Ended \cup {"none", "SUSPENDED"} /\ shown \in Going \cup Ended \cup {"", "SUSPENDED"}
    /\ wrf \in {"none", "running", "0", "1"} /\ time \in 0..(jobSetup.timeout + jobSetup.poll)
    /\ caller = "returned" => answer \in Ended \cup {"SUSPENDED"}

\* wait() returns the state the job ended in, however the accounting lags, if no job
\* is suspended or requeued; and a job that is COMPLETED is one whose wrf.exe was.
\* (SUSPENDED is taken for an end, and so is the NODE_FAIL of a job that SLURM
\* queues again.)
WaitReturnsTheEnd ==
    /\ caller = "returned" /\ ~jobSetup.suspends /\ ~jobSetup.requeues => answer = job /\ job \in Ended
    /\ caller = "returned" /\ answer = "COMPLETED" => wrf = "0"
=============================================================================
