--------------------------- MODULE CheckpointedRun ---------------------------
(***************************************************************************)
(* A producer that saves its state and resumes from it                     *)
(* (engine/checkpoint.py, used as its module's docstring shows), within a  *)
(* run that engine/manifest.py records.  The process may die at any step,  *)
(* and is then started again, by the same configuration or another.        *)
(*                                                                         *)
(* A state is abstracted to how often it has been advanced, and by which   *)
(* configurations.  Every statement commits on its own.  The environment   *)
(* and the input files a manifest records are left out.                    *)
(***************************************************************************)
EXTENDS Integers, Sequences, FiniteSetsExt

CONSTANTS RunConfigs, RunSteps, RunEvery,   \* n_steps, checkpoint_every
          RunSetups

ASSUME RunAssumption ==
    /\ RunSteps \in Nat \ {0} /\ RunEvery \in Nat \ {0}
    /\ RunSetups \subseteq [configs : SUBSET RunConfigs,
                            wipes : BOOLEAN,  \* delete() when the configuration is new
                            runs : Nat]       \* bound: runs in all

VARIABLES runSetup,
          saved,      \* checkpoints: step_id -> the state stored, if any
          manifest,   \* the rows of runs and run_outputs
          worker      \* the producer in the run under way

runVars == <<runSetup, saved, manifest, worker>>

StepIds == 0 .. RunSteps - 1
States == [advanced : 0 .. RunSteps + 1, by : SUBSET RunConfigs]
InitState == [advanced |-> 0, by |-> {}]
Away == [at |-> "away", step |-> 0, state |-> InitState]
Current == manifest[Len(manifest)]
LastConfig == IF manifest = <<>> THEN {} ELSE {Current.config}
Stored == {i \in StepIds : saved[i] # {}}
Latest == Max(Stored \cup {-1})

RunStart(s) ==
    /\ runSetup = s /\ manifest = <<>> /\ worker = Away
    /\ saved = [i \in StepIds |-> {}]

RunInit == \E s \in RunSetups : RunStart(s)

\* RunManifest.create
Create(c) ==
    /\ worker = Away /\ Len(manifest) < runSetup.runs /\ c \in runSetup.configs
    /\ manifest' = Append(manifest, [config |-> c, status |-> "running", output |-> {}])
    /\ saved' = IF runSetup.wipes /\ {c} # LastConfig THEN [i \in StepIds |-> {}] ELSE saved
    /\ worker' = [Away EXCEPT !.at = "load"]
    /\ UNCHANGED runSetup

\* Mutated form: the step of the checkpoint is made again.
LoadLatestAgain ==
    /\ worker.at = "load"
    /\ worker' = IF Stored = {} THEN [Away EXCEPT !.at = "advance"]
                 ELSE [at |-> "advance", step |-> Latest, state |-> CHOOSE x \in saved[Latest] : TRUE]
    /\ UNCHANGED <<runSetup, saved, manifest>>

\* load_latest, and where the loop starts.
LoadLatest ==
    /\ worker.at = "load"
    /\ worker' = IF Stored = {} THEN [Away EXCEPT !.at = "advance"]
                 ELSE [at |-> "advance", step |-> Latest + 1, state |-> CHOOSE x \in saved[Latest] : TRUE]
    /\ UNCHANGED <<runSetup, saved, manifest>>

\* Mutated form: no step but the first is saved.
SaveFirst(i) == i = 0

SaveHere(i) == i % RunEvery = 0

Advance ==
    /\ worker.at = "advance" /\ worker.step < RunSteps
    /\ LET s == [advanced |-> worker.state.advanced + 1, by |-> worker.state.by \cup {Current.config}]
       IN  worker' = IF SaveHere(worker.step)
                     THEN [worker EXCEPT !.at = "save", !.state = s]
                     ELSE [worker EXCEPT !.step = @ + 1, !.state = s]
    /\ UNCHANGED <<runSetup, saved, manifest>>

\* Mutated form: the older checkpoints make room first.
SaveDeleteAll ==
    /\ worker.at = "save"
    /\ saved' = [i \in StepIds |-> {}]
    /\ worker' = [worker EXCEPT !.at = "insert"]
    /\ UNCHANGED <<runSetup, manifest>>

\* save(): DELETE, ...
SaveDelete ==
    /\ worker.at = "save"
    /\ saved' = [saved EXCEPT ![worker.step] = {}]
    /\ worker' = [worker EXCEPT !.at = "insert"]
    /\ UNCHANGED <<runSetup, manifest>>

\* ... then INSERT.
SaveInsert ==
    /\ worker.at = "insert"
    /\ saved' = [saved EXCEPT ![worker.step] = {worker.state}]
    /\ worker' = [worker EXCEPT !.at = "advance", !.step = @ + 1]
    /\ UNCHANGED <<runSetup, manifest>>

\* record_output
RecordOutput ==
    /\ worker.at = "advance" /\ worker.step >= RunSteps
    /\ manifest' = [manifest EXCEPT ![Len(manifest)].output = {worker.state}]
    /\ worker' = [worker EXCEPT !.at = "exit"]
    /\ UNCHANGED <<runSetup, saved>>

Finalize(status) ==
    /\ manifest' = [manifest EXCEPT ![Len(manifest)].status = status]
    /\ worker' = Away
    /\ UNCHANGED <<runSetup, saved>>

\* __exit__, when the block ends or an exception goes through it; a process
\* that dies leaves its row as it is.
ExitOk == worker.at = "exit" /\ Finalize("ok")
ExitRaising == worker.at \in {"load", "advance", "save", "insert"} /\ Finalize("error")
RunDies == worker # Away /\ worker' = Away /\ UNCHANGED <<runSetup, saved, manifest>>

RunNext ==
    \/ \E c \in RunConfigs : Create(c)
    \/ LoadLatest \/ Advance \/ SaveDelete \/ SaveInsert
    \/ RecordOutput \/ ExitOk \/ ExitRaising \/ RunDies

RunSpec == RunInit /\ [][RunNext]_runVars

-----------------------------------------------------------------------------
\* Types; no state has been advanced more often than there are steps.
RunTypeOK ==
    /\ \A i \in StepIds : saved[i] = {} \/ \E x \in States : saved[i] = {x}
    /\ worker.at \in {"away", "load", "advance", "save", "insert", "exit"}
    /\ worker.step \in 0 .. RunSteps /\ worker.state \in States
    /\ worker.state.advanced <= RunSteps

\* A run the manifest calls ok has made every step exactly once and with its
\* own configuration, however many runs before it died or raised in the middle
\* of a step or of a save: as long as checkpoints are not shared between
\* configurations, which the table's key does not prevent.
OkRunsAreExact ==
    runSetup.wipes \/ (\A b, c \in runSetup.configs : b = c) =>
        \A r \in DOMAIN manifest : manifest[r].status = "ok" =>
            manifest[r].output = {[advanced |-> RunSteps, by |-> {manifest[r].config}]}

\* A death costs the steps since the last save and never a checkpoint: the
\* point to resume from is at most RunEvery steps behind.
LittleIsLost ==
    worker.at \in {"advance", "save", "insert"} => worker.step <= Latest + RunEvery

\* A run that is started again, after any deaths and failures, goes on from a
\* checkpoint close by, and ends with what an undisturbed run makes
\* (checkpoint.py:63-108, manifest.py:125-210).
RunsResumeExactly == OkRunsAreExact /\ LittleIsLost
=============================================================================
