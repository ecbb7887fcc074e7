---------------------------- MODULE FilesProofs -----------------------------
(***************************************************************************)
(* Proofs about what outlives a process in files.                          *)
(*                                                                         *)
(* CheckpointedRun, for any number of steps, any interval between          *)
(* checkpoints and any configurations: the invariant ties the three things *)
(* that outlive one another, checkpoints, manifest and the state in        *)
(* memory, to the number of steps made.                                    *)
(*                                                                         *)
(* SchemaMigration, for any engines, versions and registered migrations:   *)
(* the stamp of a cube counts the migrations of its tables and never goes  *)
(* back, unless engines open the cube at once.                             *)
(*                                                                         *)
(* CubeSnapshot, for any variables, files and versions, and copies in any  *)
(* order: what a copy has done so far is as in the tree it copies, but for *)
(* what a writer touched.                                                  *)
(*                                                                         *)
(* ContentCache, for any keys, sizes, processes and calls, file operations *)
(* that fail included: what an eviction still has before it is what may be *)
(* in the cache, less what was put since and what it could not remove; a   *)
(* process that is alone knows the rest exactly.                           *)
(***************************************************************************)
EXTENDS MCFiles, FiniteSetTheorems, TLAPS

-----------------------------------------------------------------------------
(* --- CheckpointedRun --------------------------------------------------------- *)

Exclusive == runSetup.wipes \/ (\A b, c \in runSetup.configs : b = c)

\* A checkpoint holds the state after its step, and is of the configuration of the
\* last run; the latest is there to be found.
CheckpointsInv ==
    /\ saved \in [StepIds -> SUBSET States]
    /\ manifest = <<>> => Stored = {}
    /\ \A i \in StepIds : \A x \in saved[i] :
         saved[i] = {x} /\ x.advanced = i + 1 /\ SaveHere(i) /\ (Exclusive => x.by = LastConfig)
    /\ Latest \in StepIds \cup {-1} /\ Latest \in Stored \cup {-1} /\ \A i \in Stored : i <= Latest

\* The state in memory is that after the steps made, and no step that saves lies
\* between the latest checkpoint and the step under way.
WorkerInv ==
    /\ worker \in [at : {"away", "load", "advance", "save", "insert", "exit"},
                   step : 0 .. RunSteps, state : States]
    /\ worker.at # "away" => manifest # <<>>
    /\ worker.at \in {"away", "load"} => worker = [Away EXCEPT !.at = worker.at]
    /\ worker.at \in {"advance", "exit"} => worker.state.advanced = worker.step
    /\ worker.at \in {"save", "insert"} =>
         worker.step < RunSteps /\ SaveHere(worker.step) /\ worker.state.advanced = worker.step + 1
    /\ worker.at \in {"advance", "save", "insert"} =>
         /\ Latest < worker.step /\ worker.step <= Latest + RunEvery
         /\ Latest = -1 => worker.step = 0
    /\ worker.state.advanced = 0 => worker.state.by = {}
    /\ worker.state.advanced > 0 /\ Exclusive => worker.state.by = LastConfig

Row == [config : RunConfigs, status : {"running", "ok", "error"}, output : SUBSET States]
Exact(row) == row.output = {[advanced |-> RunSteps, by |-> {row.config}]}

\* The rows that are ok are exact, and the one about to be is.
ManifestInv ==
    /\ runSetup \in RunSetups
    /\ manifest \in Seq(Row) /\ \A r \in DOMAIN manifest : manifest[r].config \in runSetup.configs
    /\ Exclusive => \A r \in DOMAIN manifest : manifest[r].status = "ok" => Exact(manifest[r])
    /\ worker.at = "exit" => worker.step = RunSteps /\ Current.output = {worker.state}

RunIInv == CheckpointsInv /\ WorkerInv /\ ManifestInv

-----------------------------------------------------------------------------
LEMMA MaxIs ==
    ASSUME NEW S \in SUBSET Int, NEW m \in S, \A i \in S : m >= i
    PROVE  Max(S) = m
<1>1. \A x \in S : (\A y \in S : x >= y) => x = m
  OBVIOUS
<1> QED
  BY <1>1 DEF Max

\* A step that saves is a step that saves RunEvery steps later.
LEMMA SavesAgain ==
    /\ SaveHere(0)
    /\ \A i \in Nat : SaveHere(i) => SaveHere(i + RunEvery)
<1> SUFFICES ASSUME NEW i \in Nat PROVE SaveHere(0) /\ (SaveHere(i) => SaveHere(i + RunEvery))
  OBVIOUS
<1> DEFINE R == RunEvery
<1>1. R \in Nat /\ R > 0
  BY RunAssumption
<1>2. i = R * (i \div R) + (i % R) /\ i \div R \in Nat
  BY <1>1
<1>3. \A q \in Nat : (R * q) % R = 0
  BY <1>1
<1> DEFINE q == (i \div R) + 1
<1>4. q \in Nat /\ (i % R = 0 => R * q = i + R)
  BY <1>1, <1>2
<1> HIDE DEF R, q
<1>5. i % R = 0 => (i + R) % R = 0
  <2>1. (R * q) % R = 0
    BY <1>3, <1>4
  <2> QED
    BY <1>4, <2>1
<1>6. 0 % R = 0
  BY <1>1
<1> QED
  BY <1>5, <1>6 DEF SaveHere, R

-----------------------------------------------------------------------------
LEMMA RunInitially == RunInit => RunIInv
<1> SUFFICES ASSUME NEW s \in RunSetups, RunStart(s) PROVE RunIInv
  BY DEF RunInit
<1>1. /\ Stored = {} /\ manifest = <<>> /\ runSetup \in RunSetups
      /\ worker = [at |-> "away", step |-> 0, state |-> [advanced |-> 0, by |-> {}]]
      /\ saved = [i \in StepIds |-> {}]
  BY DEF RunStart, Stored, Away, InitState
<1>2. Latest = -1
  BY <1>1, MaxIs DEF Latest
<1>3. worker.state \in States
  BY <1>1, RunAssumption DEF States
<1>4. CheckpointsInv
  BY <1>1, <1>2 DEF CheckpointsInv
<1>5. WorkerInv
  BY <1>1, <1>3, RunAssumption DEF WorkerInv, Away, InitState
<1>6. ManifestInv
  BY <1>1 DEF ManifestInv
<1> QED
  BY <1>4, <1>5, <1>6 DEF RunIInv

\* The steps that change no checkpoint leave the latest where it was.
LEMMA SameCheckpoints ==
    ASSUME UNCHANGED saved
    PROVE  Stored' = Stored /\ Latest' = Latest
  BY DEF Stored, Latest

LEMMA CurrentRow ==
    ASSUME RunIInv, manifest # <<>>
    PROVE  /\ Len(manifest) \in DOMAIN manifest /\ Current = manifest[Len(manifest)]
           /\ Current \in Row /\ Current.config \in runSetup.configs /\ Current.config \in RunConfigs
           /\ LastConfig = {Current.config}
<1>1. manifest \in Seq(Row)
  BY DEF RunIInv, ManifestInv
<1>2. Len(manifest) \in DOMAIN manifest
  BY <1>1
<1>3. manifest[Len(manifest)] \in Row
  BY <1>1, <1>2
<1> QED
  BY <1>2, <1>3 DEF RunIInv, ManifestInv, Current, LastConfig, Row

LEMMA CreateKeeps == ASSUME RunIInv, NEW c \in RunConfigs, Create(c) PROVE RunIInv'
<1> DEFINE row == [config |-> c, status |-> "running", output |-> {}]
<1>t. /\ manifest \in Seq(Row) /\ row \in Row
  BY DEF RunIInv, ManifestInv, Row
<1>1. /\ worker.at = "away" /\ c \in runSetup.configs /\ runSetup' = runSetup /\ manifest' = Append(manifest, row)
      /\ worker' = [Away EXCEPT !.at = "load"]
      /\ saved' = IF runSetup.wipes /\ {c} # LastConfig THEN [i \in StepIds |-> {}] ELSE saved
  BY DEF Create, Away
<1> HIDE DEF row
<1>2. /\ manifest' \in Seq(Row) /\ manifest' # <<>> /\ Len(manifest') = Len(manifest) + 1
      /\ DOMAIN manifest' = 1 .. Len(manifest) + 1 /\ DOMAIN manifest = 1 .. Len(manifest)
      /\ \A r \in DOMAIN manifest : manifest'[r] = manifest[r]
      /\ manifest'[Len(manifest) + 1] = row
  <2>1. manifest' \in Seq(Row) /\ Len(manifest') = Len(manifest) + 1 /\ Len(manifest) \in Nat
    BY <1>t, <1>1
  <2>2. DOMAIN manifest' = 1 .. Len(manifest) + 1 /\ DOMAIN manifest = 1 .. Len(manifest)
    BY <1>t, <2>1
  <2> QED
    BY <1>t, <1>1, <2>1, <2>2
<1>3. LastConfig' = {c} /\ Exclusive' = Exclusive
  BY <1>1, <1>2 DEF LastConfig, Current, Exclusive, row
<1>4. CheckpointsInv'
  <2>1. CASE saved' = [i \in StepIds |-> {}]
    <3>1. Stored' = {}
      BY <2>1 DEF Stored
    <3>2. Latest' = -1
      BY <3>1, MaxIs DEF Latest
    <3> QED
      BY <2>1, <3>1, <3>2, <1>2 DEF CheckpointsInv
  <2>2. CASE saved' = saved /\ (runSetup.wipes => {c} = LastConfig)
    <3>1. Stored' = Stored /\ Latest' = Latest
      BY <2>2, SameCheckpoints
    <3>2. ASSUME NEW i \in StepIds, NEW x \in saved[i], Exclusive PROVE LastConfig = {c}
      <4>1. manifest # <<>>
        BY <3>2 DEF RunIInv, CheckpointsInv, Stored
      <4>2. Current.config \in runSetup.configs /\ LastConfig = {Current.config}
        BY <4>1, CurrentRow
      <4> QED
        BY <2>2, <3>2, <4>2, <1>1 DEF Exclusive
    <3> QED
      BY <2>2, <3>1, <3>2, <1>2, <1>3 DEF RunIInv, CheckpointsInv, SaveHere
  <2> QED
    BY <1>1, <2>1, <2>2
<1>5. WorkerInv'
  BY <1>1, <1>2, RunAssumption DEF WorkerInv, Away, InitState, States
<1>6. ManifestInv'
  <2>1. \A r \in DOMAIN manifest' : manifest'[r].config \in runSetup.configs
    BY <1>1, <1>2 DEF RunIInv, ManifestInv, row
  <2>2. ASSUME Exclusive, NEW r \in DOMAIN manifest', manifest'[r].status = "ok" PROVE Exact(manifest'[r])
    BY <1>2, <2>2 DEF RunIInv, ManifestInv, row, Exact
  <2>3. \A r \in DOMAIN manifest' : Exact(manifest[r])' <=> Exact(manifest'[r])
    BY DEF Exact
  <2> QED
    BY <1>1, <1>2, <1>3, <2>1, <2>2, <2>3 DEF RunIInv, ManifestInv, Away
<1> QED
  BY <1>4, <1>5, <1>6 DEF RunIInv

\* The steps of the worker alone.
LEMMA LoadKeeps == ASSUME RunIInv, LoadLatest PROVE RunIInv'
<1>1. /\ worker.at = "load" /\ UNCHANGED <<runSetup, saved, manifest>> /\ worker.state = InitState
      /\ manifest # <<>>
  BY DEF LoadLatest, RunIInv, WorkerInv, Away
<1>2. Stored' = Stored /\ Latest' = Latest /\ LastConfig' = LastConfig /\ Exclusive' = Exclusive
  BY <1>1, SameCheckpoints DEF LastConfig, Current, Exclusive
<1>3. CheckpointsInv'
  BY <1>1, <1>2 DEF RunIInv, CheckpointsInv, SaveHere
<1>4. WorkerInv'
  <2>1. CASE Stored = {}
    <3>1. worker' = [Away EXCEPT !.at = "advance"] /\ Latest = -1
      BY <1>1, <2>1 DEF LoadLatest, RunIInv, CheckpointsInv
    <3> QED
      BY <1>1, <1>2, <3>1, RunAssumption DEF WorkerInv, Away, InitState, States
  <2>2. CASE Stored # {}
    <3>1. Latest \in StepIds /\ saved[Latest] # {} /\ Latest >= 0
      BY <2>2 DEF RunIInv, CheckpointsInv, Stored, StepIds
    <3>2. PICK x \in saved[Latest] : worker' = [at |-> "advance", step |-> Latest + 1, state |-> x]
      BY <1>1, <2>2, <3>1 DEF LoadLatest
    <3>3. x \in States /\ x.advanced = Latest + 1 /\ (Exclusive => x.by = LastConfig)
      BY <3>1, <3>2 DEF RunIInv, CheckpointsInv
    <3>4. Latest + 1 \in 0 .. RunSteps /\ Latest + 1 > 0 /\ Latest + 1 <= Latest + RunEvery /\ Latest < Latest + 1
      BY <3>1, RunAssumption DEF StepIds
    <3> HIDE DEF Latest
    <3> QED
      BY <1>1, <1>2, <3>1, <3>2, <3>3, <3>4 DEF WorkerInv
  <2> QED
    BY <2>1, <2>2
<1>5. ManifestInv'
  <2>1. worker'.at = "advance"
    BY <1>1 DEF LoadLatest, Away
  <2> QED
    BY <1>1, <1>2, <2>1 DEF RunIInv, ManifestInv, Exact
<1> QED
  BY <1>3, <1>4, <1>5 DEF RunIInv

LEMMA AdvanceKeeps == ASSUME RunIInv, Advance PROVE RunIInv'
<1> DEFINE made == [advanced |-> worker.state.advanced + 1, by |-> worker.state.by \cup {Current.config}]
<1>1. /\ worker.at = "advance" /\ worker.step < RunSteps /\ UNCHANGED <<runSetup, saved, manifest>>
      /\ worker' = IF SaveHere(worker.step) THEN [worker EXCEPT !.at = "save", !.state = made]
                   ELSE [worker EXCEPT !.step = @ + 1, !.state = made]
  BY DEF Advance
<1>2. Stored' = Stored /\ Latest' = Latest /\ LastConfig' = LastConfig /\ Exclusive' = Exclusive
  BY <1>1, SameCheckpoints DEF LastConfig, Current, Exclusive
<1>3. CheckpointsInv'
  BY <1>1, <1>2 DEF RunIInv, CheckpointsInv, SaveHere
<1>t. /\ worker \in [at : {"away", "load", "advance", "save", "insert", "exit"},
                      step : 0 .. RunSteps, state : States]
      /\ worker.step \in Nat /\ RunSteps \in Nat /\ RunEvery \in Nat /\ RunEvery > 0
      /\ worker.state.advanced = worker.step /\ manifest # <<>>
      /\ Latest \in StepIds \cup {-1} /\ Latest < worker.step /\ worker.step <= Latest + RunEvery
      /\ Latest = -1 => worker.step = 0
  BY <1>1, RunAssumption DEF RunIInv, WorkerInv, CheckpointsInv
<1>m. Current.config \in RunConfigs /\ LastConfig = {Current.config}
  BY <1>t, CurrentRow
<1>s. /\ made \in States /\ made.advanced = worker.step + 1 /\ made.advanced > 0
      /\ Exclusive => made.by = LastConfig
  <2>1. worker.state \in States
    BY <1>t
  <2>2. made \in States
    BY <1>1, <1>t, <1>m, <2>1 DEF States
  <2>3. Exclusive => worker.state.by \subseteq LastConfig
    BY <1>t, <2>1 DEF RunIInv, WorkerInv, States
  <2> QED
    BY <1>t, <1>m, <2>2, <2>3
<1> HIDE DEF made
<1>4. WorkerInv'
  <2>1. CASE SaveHere(worker.step)
    <3>1. /\ worker' \in [at : {"save"}, step : 0 .. RunSteps, state : States]
          /\ worker'.step = worker.step /\ worker'.state = made
      BY <1>1, <1>t, <1>s, <2>1
    <3> QED
      BY <1>1, <1>2, <1>t, <1>s, <2>1, <3>1 DEF WorkerInv, SaveHere
  <2>2. CASE ~SaveHere(worker.step)
    <3>1. /\ worker' \in [at : {"advance"}, step : 0 .. RunSteps, state : States]
          /\ worker'.step = worker.step + 1 /\ worker'.state = made
      <4>1. worker' = [worker EXCEPT !.step = worker.step + 1, !.state = made]
        BY <1>1, <2>2
      <4>2. worker.step + 1 \in 0 .. RunSteps
        BY <1>1, <1>t
      <4> QED
        BY <1>1, <1>t, <1>s, <4>1, <4>2
    <3>2. Latest # -1
      BY <1>t, <2>2, SavesAgain
    <3>3. Latest \in Nat /\ SaveHere(Latest)
      BY <1>t, <3>2 DEF RunIInv, CheckpointsInv, Stored, StepIds
    <3>4. worker.step # Latest + RunEvery
      BY <2>2, <3>3, SavesAgain
    <3>5. Latest < worker.step + 1 /\ worker.step + 1 <= Latest + RunEvery
      BY <1>t, <3>3, <3>4
    <3> QED
      BY <1>1, <1>2, <1>t, <1>s, <3>1, <3>2, <3>5 DEF WorkerInv
  <2> QED
    BY <2>1, <2>2
<1>5. ManifestInv'
  <2>1. worker'.at # "exit"
    BY <1>1, <1>t
  <2> QED
    BY <1>1, <1>2, <2>1 DEF RunIInv, ManifestInv, Exact
<1> QED
  BY <1>3, <1>4, <1>5 DEF RunIInv

\* The DELETE finds nothing: the step is after the latest checkpoint.
LEMMA DeleteKeeps == ASSUME RunIInv, SaveDelete PROVE RunIInv'
<1>1. /\ worker.at = "save" /\ worker' = [worker EXCEPT !.at = "insert"] /\ UNCHANGED <<runSetup, manifest>>
      /\ saved' = [saved EXCEPT ![worker.step] = {}]
  BY DEF SaveDelete
<1>t. /\ worker \in [at : {"away", "load", "advance", "save", "insert", "exit"},
                      step : 0 .. RunSteps, state : States]
      /\ worker.step \in StepIds /\ Latest \in Int /\ Latest < worker.step
      /\ saved \in [StepIds -> SUBSET States] /\ \A i \in Stored : i <= Latest
  BY <1>1, RunAssumption DEF RunIInv, WorkerInv, CheckpointsInv, StepIds
<1>2. saved' = saved
  <2>1. saved[worker.step] = {}
    <3>1. worker.step \notin Stored
      BY <1>t DEF StepIds
    <3> QED
      BY <1>t, <3>1 DEF Stored
  <2> QED
    BY <1>1, <1>t, <2>1
<1>3. Stored' = Stored /\ Latest' = Latest /\ LastConfig' = LastConfig /\ Exclusive' = Exclusive
  BY <1>1, <1>2, SameCheckpoints DEF LastConfig, Current, Exclusive
<1>4. CheckpointsInv'
  BY <1>1, <1>2, <1>3 DEF RunIInv, CheckpointsInv, SaveHere
<1>5. worker'.at = "insert" /\ worker'.step = worker.step /\ worker'.state = worker.state
  BY <1>1, <1>t
<1>6. WorkerInv'
  <2>1. worker' \in [at : {"insert"}, step : 0 .. RunSteps, state : States]
    BY <1>1, <1>t
  <2> QED
    BY <1>1, <1>3, <1>5, <2>1 DEF RunIInv, WorkerInv, SaveHere
<1>7. ManifestInv'
  BY <1>1, <1>3, <1>5 DEF RunIInv, ManifestInv, Exact
<1> QED
  BY <1>4, <1>6, <1>7 DEF RunIInv

\* The INSERT makes it the latest.
LEMMA InsertKeeps == ASSUME RunIInv, SaveInsert PROVE RunIInv'
<1>1. /\ worker.at = "insert" /\ UNCHANGED <<runSetup, manifest>>
      /\ worker' = [worker EXCEPT !.at = "advance", !.step = worker.step + 1]
      /\ saved' = [saved EXCEPT ![worker.step] = {worker.state}]
  BY DEF SaveInsert
<1>t. /\ worker \in [at : {"away", "load", "advance", "save", "insert", "exit"},
                      step : 0 .. RunSteps, state : States]
      /\ worker.step \in StepIds /\ Latest \in Int /\ Latest < worker.step
      /\ saved \in [StepIds -> SUBSET States] /\ \A i \in Stored : i <= Latest
      /\ SaveHere(worker.step) /\ worker.state.advanced = worker.step + 1 /\ manifest # <<>>
  BY <1>1, RunAssumption DEF RunIInv, WorkerInv, CheckpointsInv, StepIds
<1>2. Stored' = Stored \cup {worker.step}
  BY <1>1, <1>t DEF Stored
<1>3. Latest' = worker.step
  <2>1. Stored' \cup {-1} \in SUBSET Int /\ \A i \in Stored' \cup {-1} : worker.step >= i
    BY <1>t, <1>2 DEF Stored, StepIds
  <2> QED
    BY <1>2, <2>1, MaxIs DEF Latest
<1>4. LastConfig' = LastConfig /\ Exclusive' = Exclusive
  BY <1>1 DEF LastConfig, Current, Exclusive
<1>5. CheckpointsInv'
  <2>1. saved' \in [StepIds -> SUBSET States]
    BY <1>1, <1>t
  <2>2. ASSUME NEW i \in StepIds, NEW x \in saved'[i]
        PROVE  saved'[i] = {x} /\ x.advanced = i + 1 /\ SaveHere(i) /\ (Exclusive => x.by = LastConfig)
    <3>1. CASE i = worker.step
      <4>1. x = worker.state /\ saved'[i] = {x}
        BY <1>1, <1>t, <2>2, <3>1
      <4>2. worker.state.advanced > 0
        BY <1>t DEF StepIds
      <4> QED
        BY <1>t, <3>1, <4>1, <4>2 DEF RunIInv, WorkerInv
    <3>2. CASE i # worker.step
      <4>1. saved'[i] = saved[i]
        BY <1>1, <1>t, <3>2
      <4> QED
        BY <2>2, <4>1 DEF RunIInv, CheckpointsInv
    <3> QED
      BY <3>1, <3>2
  <2>3. \A i \in Stored' : i <= Latest'
    BY <1>t, <1>2, <1>3 DEF StepIds, Stored
  <2> QED
    BY <1>1, <1>t, <1>2, <1>3, <1>4, <2>1, <2>2, <2>3 DEF CheckpointsInv, SaveHere
<1>6. worker'.at = "advance" /\ worker'.step = worker.step + 1 /\ worker'.state = worker.state
  BY <1>1, <1>t
<1>7. WorkerInv'
  <2>1. worker.step + 1 \in 0 .. RunSteps
    BY <1>t, RunAssumption DEF StepIds
  <2>2. worker' \in [at : {"advance"}, step : 0 .. RunSteps, state : States]
    BY <1>1, <1>t, <2>1
  <2>3. worker.step < worker.step + 1 /\ worker.step + 1 <= worker.step + RunEvery /\ worker.step # -1
    BY <1>t, RunAssumption DEF StepIds
  <2> QED
    BY <1>1, <1>t, <1>3, <1>4, <1>6, <2>2, <2>3 DEF RunIInv, WorkerInv
<1>8. ManifestInv'
  BY <1>1, <1>4, <1>6 DEF RunIInv, ManifestInv, Exact
<1> QED
  BY <1>5, <1>7, <1>8 DEF RunIInv

\* A step that only replaces the row of the run under way.
LEMMA RowKeeps ==
    ASSUME RunIInv, manifest # <<>>, NEW row \in Row, row.config = Current.config,
           manifest' = [manifest EXCEPT ![Len(manifest)] = row], UNCHANGED <<runSetup, saved>>,
           Exclusive /\ row.status = "ok" => Exact(row)
    PROVE  /\ CheckpointsInv' /\ LastConfig' = LastConfig /\ Latest' = Latest /\ Exclusive' = Exclusive
           /\ manifest' # <<>> /\ Current' = row
           /\ manifest' \in Seq(Row) /\ \A r \in DOMAIN manifest' : manifest'[r].config \in runSetup.configs
           /\ Exclusive => \A r \in DOMAIN manifest' : manifest'[r].status = "ok" => Exact(manifest'[r])
<1>1. manifest \in Seq(Row) /\ Len(manifest) \in DOMAIN manifest /\ LastConfig = {Current.config}
  BY CurrentRow DEF RunIInv, ManifestInv
<1>2. /\ manifest' \in Seq(Row) /\ Len(manifest') = Len(manifest) /\ DOMAIN manifest' = DOMAIN manifest
      /\ manifest' # <<>>
      /\ \A r \in DOMAIN manifest : manifest'[r] = IF r = Len(manifest) THEN row ELSE manifest[r]
  BY <1>1
<1>3. Current' = row /\ LastConfig' = LastConfig
  BY <1>1, <1>2 DEF Current, LastConfig
<1>4. Stored' = Stored /\ Latest' = Latest /\ Exclusive' = Exclusive
  BY SameCheckpoints DEF Exclusive
<1>5. CheckpointsInv'
  BY <1>2, <1>3, <1>4 DEF RunIInv, CheckpointsInv, SaveHere
<1>6. \A r \in DOMAIN manifest' : manifest'[r].config \in runSetup.configs
  BY <1>2, CurrentRow DEF RunIInv, ManifestInv
<1>7. ASSUME Exclusive, NEW r \in DOMAIN manifest', manifest'[r].status = "ok" PROVE Exact(manifest'[r])
  BY <1>2, <1>7 DEF RunIInv, ManifestInv, Exact
<1> QED
  BY <1>2, <1>3, <1>4, <1>5, <1>6, <1>7

\* The state after the last step, in a row of its configuration, is exact.
LEMMA LastIsExact ==
    ASSUME RunIInv, manifest # <<>>, worker.at \in {"advance", "exit"}, worker.step = RunSteps, Exclusive,
           NEW row, row.config = Current.config, row.output = {worker.state}
    PROVE  Exact(row)
<1>1. worker.state \in States /\ worker.state.advanced = RunSteps /\ RunSteps > 0 /\ RunSteps \in Nat
  BY RunAssumption DEF RunIInv, WorkerInv
<1>2. worker.state.by = {Current.config}
  BY <1>1, CurrentRow DEF RunIInv, WorkerInv
<1>3. worker.state = [advanced |-> RunSteps, by |-> {Current.config}]
  BY <1>1, <1>2 DEF States
<1> QED
  BY <1>3 DEF Exact

LEMMA OutputKeeps == ASSUME RunIInv, RecordOutput PROVE RunIInv'
<1> DEFINE row == [Current EXCEPT !.output = {worker.state}]
<1>1. /\ worker.at = "advance" /\ worker.step >= RunSteps /\ UNCHANGED <<runSetup, saved>>
      /\ manifest' = [manifest EXCEPT ![Len(manifest)] = row] /\ worker' = [worker EXCEPT !.at = "exit"]
  BY DEF RecordOutput, Current
<1>t. /\ worker \in [at : {"away", "load", "advance", "save", "insert", "exit"},
                      step : 0 .. RunSteps, state : States]
      /\ worker.step = RunSteps /\ manifest # <<>> /\ worker.state.advanced = worker.step
  BY <1>1, RunAssumption DEF RunIInv, WorkerInv
<1>2. row \in Row /\ row.config = Current.config /\ row.output = {worker.state}
  BY <1>t, CurrentRow DEF Row
<1> HIDE DEF row
<1>3. Exclusive => Exact(row)
  BY <1>1, <1>t, <1>2, LastIsExact
<1>4. /\ CheckpointsInv' /\ LastConfig' = LastConfig /\ Latest' = Latest /\ Exclusive' = Exclusive
      /\ manifest' # <<>> /\ Current' = row
      /\ manifest' \in Seq(Row) /\ \A r \in DOMAIN manifest' : manifest'[r].config \in runSetup.configs
      /\ Exclusive => \A r \in DOMAIN manifest' : manifest'[r].status = "ok" => Exact(manifest'[r])
  BY <1>1, <1>t, <1>2, <1>3, RowKeeps
<1>5. worker' \in [at : {"exit"}, step : 0 .. RunSteps, state : States]
      /\ worker'.step = worker.step /\ worker'.state = worker.state
  BY <1>1, <1>t
<1>6. WorkerInv'
  BY <1>1, <1>t, <1>4, <1>5 DEF RunIInv, WorkerInv
<1>7. ManifestInv'
  BY <1>1, <1>t, <1>2, <1>4, <1>5 DEF RunIInv, ManifestInv, Exact
<1> QED
  BY <1>4, <1>6, <1>7 DEF RunIInv

LEMMA FinalizeKeeps ==
    ASSUME RunIInv, NEW status, Finalize(status),
           \/ worker.at = "exit" /\ status = "ok"
           \/ worker.at # "away" /\ status = "error"
    PROVE  RunIInv'
<1> DEFINE row == [Current EXCEPT !.status = status]
<1>1. /\ UNCHANGED <<runSetup, saved>> /\ manifest # <<>> /\ worker' = Away
      /\ manifest' = [manifest EXCEPT ![Len(manifest)] = row]
  BY DEF Finalize, Current, RunIInv, WorkerInv
<1>2. row \in Row /\ row.config = Current.config /\ row.output = Current.output /\ row.status = status
  BY <1>1, CurrentRow DEF Row
<1> HIDE DEF row
<1>3. Exclusive /\ row.status = "ok" => Exact(row)
  <2>1. CASE worker.at = "exit"
    BY <1>1, <1>2, <2>1, LastIsExact DEF RunIInv, ManifestInv
  <2> QED
    BY <1>2, <2>1
<1>4. /\ CheckpointsInv' /\ LastConfig' = LastConfig /\ Latest' = Latest /\ Exclusive' = Exclusive
      /\ manifest' # <<>> /\ Current' = row
      /\ manifest' \in Seq(Row) /\ \A r \in DOMAIN manifest' : manifest'[r].config \in runSetup.configs
      /\ Exclusive => \A r \in DOMAIN manifest' : manifest'[r].status = "ok" => Exact(manifest'[r])
  BY <1>1, <1>2, <1>3, RowKeeps
<1>5. WorkerInv'
  BY <1>1, RunAssumption DEF WorkerInv, Away, InitState, States
<1>6. ManifestInv'
  BY <1>1, <1>4 DEF RunIInv, ManifestInv, Exact, Away
<1> QED
  BY <1>4, <1>5, <1>6 DEF RunIInv

\* A death loses the worker and nothing else.
LEMMA DeathKeeps == ASSUME RunIInv, RunDies PROVE RunIInv'
<1>1. worker' = Away /\ UNCHANGED <<runSetup, saved, manifest>>
  BY DEF RunDies
<1>2. Stored' = Stored /\ Latest' = Latest /\ LastConfig' = LastConfig /\ Exclusive' = Exclusive
  BY <1>1, SameCheckpoints DEF LastConfig, Current, Exclusive
<1>3. CheckpointsInv'
  BY <1>1, <1>2 DEF RunIInv, CheckpointsInv, SaveHere
<1>4. WorkerInv'
  BY <1>1, RunAssumption DEF WorkerInv, Away, InitState, States
<1>5. ManifestInv'
  BY <1>1, <1>2 DEF RunIInv, ManifestInv, Exact, Away
<1> QED
  BY <1>3, <1>4, <1>5 DEF RunIInv

LEMMA RunInductive == RunIInv /\ [RunNext]_runVars => RunIInv'
<1> SUFFICES ASSUME RunIInv, [RunNext]_runVars PROVE RunIInv'
  OBVIOUS
<1>1. ASSUME NEW c \in RunConfigs, Create(c) PROVE RunIInv'
  BY <1>1, CreateKeeps
<1>2. CASE ExitOk
  BY <1>2, FinalizeKeeps DEF ExitOk
<1>3. CASE ExitRaising
  BY <1>3, FinalizeKeeps DEF ExitRaising
<1>4. CASE UNCHANGED runVars
  <2>1. /\ UNCHANGED <<runSetup, saved, manifest, worker>> /\ Stored' = Stored /\ Latest' = Latest
        /\ LastConfig' = LastConfig /\ Exclusive' = Exclusive /\ Current' = Current
    BY <1>4, SameCheckpoints DEF runVars, LastConfig, Current, Exclusive
  <2> QED
    BY <2>1 DEF RunIInv, CheckpointsInv, WorkerInv, ManifestInv, Exact, SaveHere
<1> QED
  BY <1>1, <1>2, <1>3, <1>4, LoadKeeps, AdvanceKeeps, DeleteKeeps, InsertKeeps, OutputKeeps, DeathKeeps
     DEF RunNext

\* The checkpoints, the worker and its state have their types, and no state has
\* been advanced more often than there are steps.
THEOREM RunType == RunSpec => []RunTypeOK
<1>1. ASSUME RunIInv PROVE RunTypeOK
  <2>1. ASSUME NEW i \in StepIds, saved[i] # {} PROVE \E x \in States : saved[i] = {x}
    BY <1>1, <2>1 DEF RunIInv, CheckpointsInv
  <2>2. /\ worker.at \in {"away", "load", "advance", "save", "insert", "exit"}
        /\ worker.step \in 0 .. RunSteps /\ worker.state \in States
    BY <1>1 DEF RunIInv, WorkerInv
  <2>3. worker.state.advanced <= RunSteps
    <3>1. CASE worker.at \in {"away", "load"}
      <4>1. worker.state.advanced = 0
        BY <1>1, <3>1 DEF RunIInv, WorkerInv, Away, InitState
      <4> QED
        BY <4>1, RunAssumption
    <3>2. CASE worker.at \in {"advance", "exit", "save", "insert"}
      BY <1>1, <2>2, <3>2, RunAssumption DEF RunIInv, WorkerInv
    <3> QED
      BY <2>2, <3>1, <3>2
  <2> QED
    BY <2>1, <2>2, <2>3 DEF RunTypeOK
<1> QED
  BY <1>1, RunInitially, RunInductive, PTL DEF RunSpec

\* checkpoint.py:63-108 and manifest.py:125-210: for any number of steps and any
\* interval, however often runs die or raise, a run that ends ok has made every
\* step once, with its own configuration, and none loses more than the steps since
\* a checkpoint.
THEOREM RunsResume == RunSpec => []RunsResumeExactly
<1>1. RunIInv => RunsResumeExactly
  BY DEF RunIInv, CheckpointsInv, WorkerInv, ManifestInv, RunsResumeExactly, OkRunsAreExact, LittleIsLost,
         Exclusive, Exact
<1> QED
  BY <1>1, RunInitially, RunInductive, PTL DEF RunSpec

-----------------------------------------------------------------------------
(* --- SchemaMigration --------------------------------------------------------- *)

Positions == {"out", "compare", "migrate"}

\* What an engine goes by is the stamp, while it is alone with the cube.
Alone ==
    ~schemaSetup.together =>
        /\ schemaSetup.stamped \/ schemaSetup.created = 0 => stamp = layout
        /\ \A e \in Engines : engine[e].at # "out" => engine[e].current = stamp
        /\ \A d, e \in Engines : engine[d].at # "out" /\ engine[e].at # "out" => d = e

SchemaIInv ==
    /\ schemaSetup \in SchemaSetups
    /\ stamp \in 0 .. SchemaMax /\ layout \in Nat
    /\ engine \in [Engines -> [at : Positions, current : 0 .. SchemaMax]]
    /\ \A e \in Engines : /\ engine[e].at = "migrate" => engine[e].current <= schemaSetup.target[e]
                          /\ engine[e].at = "out" => engine[e] = Out
    /\ Alone

\* What the assumption says of the setup of a behaviour.
LEMMA SetupType ==
    ASSUME schemaSetup \in SchemaSetups
    PROVE  /\ SchemaMax \in Nat
           /\ \A e \in Engines : schemaSetup.target[e] \in 1 .. SchemaMax
           /\ schemaSetup.created \in 0 .. SchemaMax
  BY SchemaAssumption

\* What Now does to the positions of the engines.
LEMMA NowType ==
    ASSUME NEW e \in Engines, NEW at \in Positions, NEW current \in 0 .. SchemaMax,
           engine \in [Engines -> [at : Positions, current : 0 .. SchemaMax]], Now(e, at, current)
    PROVE  /\ engine' \in [Engines -> [at : Positions, current : 0 .. SchemaMax]]
           /\ engine'[e] = [at |-> at, current |-> current]
           /\ \A d \in Engines \ {e} : engine'[d] = engine[d]
  BY DEF Now

LEMMA SchemaInitially == SchemaInit => SchemaIInv
<1> SUFFICES ASSUME NEW s \in SchemaSetups, SchemaStart(s) PROVE SchemaIInv
  BY DEF SchemaInit
<1>1. schemaSetup \in SchemaSetups /\ schemaSetup = s /\ layout = s.created
      /\ stamp = IF s.stamped THEN s.created ELSE 0
  BY DEF SchemaStart
<1>2. stamp \in 0 .. SchemaMax /\ layout \in Nat /\ SchemaMax \in Nat
  BY <1>1, SetupType
<1>3. \A e \in Engines : engine[e] = Out
  BY DEF SchemaStart
<1>4. engine \in [Engines -> [at : Positions, current : 0 .. SchemaMax]]
  BY <1>2 DEF SchemaStart, Out, Positions
<1> QED
  BY <1>1, <1>2, <1>3, <1>4 DEF SchemaIInv, Alone, Out

LEMMA SchemaInductive == SchemaIInv /\ [SchemaNext]_schemaVars => SchemaIInv'
<1> SUFFICES ASSUME SchemaIInv, [SchemaNext]_schemaVars PROVE SchemaIInv'
  OBVIOUS
<1>t. /\ schemaSetup \in SchemaSetups /\ stamp \in 0 .. SchemaMax /\ layout \in Nat /\ SchemaMax \in Nat
      /\ engine \in [Engines -> [at : Positions, current : 0 .. SchemaMax]]
      /\ \A e \in Engines : schemaSetup.target[e] \in 1 .. SchemaMax
      /\ \A e \in Engines : /\ engine[e].at = "migrate" => engine[e].current <= schemaSetup.target[e]
                            /\ engine[e].at = "out" => engine[e] = Out
  BY SetupType DEF SchemaIInv
<1>1. CASE UNCHANGED schemaVars
  BY <1>1 DEF SchemaIInv, Alone, schemaVars
<1>2. ASSUME NEW e \in Engines, ReadVersion(e) PROVE SchemaIInv'
  <2>1. /\ Now(e, "compare", stamp) /\ engine[e] = Out
        /\ schemaSetup' = schemaSetup /\ stamp' = stamp /\ layout' = layout
        /\ schemaSetup.together \/ \A d \in Engines : engine[d] = Out
    BY <1>2 DEF ReadVersion, Unchanged
  <2>2. /\ engine' \in [Engines -> [at : Positions, current : 0 .. SchemaMax]]
        /\ engine'[e] = [at |-> "compare", current |-> stamp]
        /\ \A d \in Engines \ {e} : engine'[d] = engine[d]
    BY <2>1, <1>t, NowType DEF Positions
  <2>3. Alone'
    BY <2>1, <2>2, <1>t DEF SchemaIInv, Alone, Out
  <2> QED
    BY <2>1, <2>2, <2>3, <1>t DEF SchemaIInv
<1>3. ASSUME NEW e \in Engines, NothingToDo(e) \/ Leave(e) PROVE SchemaIInv'
  <2>1. /\ Now(e, "out", 0)
        /\ schemaSetup' = schemaSetup /\ stamp' = stamp /\ layout' = layout
    BY <1>3 DEF NothingToDo, Leave, Unchanged
  <2>2. /\ engine' \in [Engines -> [at : Positions, current : 0 .. SchemaMax]]
        /\ engine'[e] = Out
        /\ \A d \in Engines \ {e} : engine'[d] = engine[d]
    BY <2>1, <1>t, NowType DEF Positions, Out
  <2>3. Alone'
    BY <2>1, <2>2, <1>t DEF SchemaIInv, Alone, Out
  <2> QED
    BY <2>1, <2>2, <2>3, <1>t DEF SchemaIInv, Out
<1>4. ASSUME NEW e \in Engines, StampNew(e) PROVE SchemaIInv'
  <2>1. /\ Now(e, "out", 0) /\ engine[e] = [at |-> "compare", current |-> 0]
        /\ schemaSetup' = schemaSetup /\ stamp' = schemaSetup.target[e]
        /\ layout' = IF layout = 0 THEN stamp' ELSE layout
    BY <1>4 DEF StampNew
  <2>2. /\ engine' \in [Engines -> [at : Positions, current : 0 .. SchemaMax]]
        /\ engine'[e] = Out
        /\ \A d \in Engines \ {e} : engine'[d] = engine[d]
    BY <2>1, <1>t, NowType DEF Positions, Out
  <2>3. Alone'
    BY <2>1, <2>2, <1>t DEF SchemaIInv, Alone, Out
  <2> QED
    BY <2>1, <2>2, <2>3, <1>t DEF SchemaIInv, Out
<1>5. ASSUME NEW e \in Engines, OpenToMigrate(e) PROVE SchemaIInv'
  <2>1. /\ Now(e, "migrate", engine[e].current) /\ engine[e].at = "compare"
        /\ engine[e].current <= schemaSetup.target[e]
        /\ schemaSetup' = schemaSetup /\ stamp' = stamp /\ layout' = layout
    BY <1>5, <1>t DEF OpenToMigrate, Unchanged
  <2>2. /\ engine' \in [Engines -> [at : Positions, current : 0 .. SchemaMax]]
        /\ engine'[e] = [at |-> "migrate", current |-> engine[e].current]
        /\ \A d \in Engines \ {e} : engine'[d] = engine[d]
    BY <2>1, <1>t, NowType DEF Positions
  <2>3. Alone'
    BY <2>1, <2>2, <1>t DEF SchemaIInv, Alone
  <2> QED
    BY <2>1, <2>2, <2>3, <1>t DEF SchemaIInv
<1>6. ASSUME NEW e \in Engines, Step(e) PROVE SchemaIInv'
  <2>1. /\ Now(e, "migrate", engine[e].current + 1) /\ engine[e].at = "migrate"
        /\ engine[e].current < schemaSetup.target[e]
        /\ schemaSetup' = schemaSetup /\ stamp' = engine[e].current + 1 /\ layout' = layout + 1
    BY <1>6 DEF Step
  <2>2. engine[e].current + 1 \in 0 .. SchemaMax
    BY <2>1, <1>t
  <2>3. /\ engine' \in [Engines -> [at : Positions, current : 0 .. SchemaMax]]
        /\ engine'[e] = [at |-> "migrate", current |-> engine[e].current + 1]
        /\ \A d \in Engines \ {e} : engine'[d] = engine[d]
    BY <2>1, <2>2, <1>t, NowType DEF Positions
  <2>4. Alone'
    BY <2>1, <2>3, <1>t DEF SchemaIInv, Alone
  <2>5. engine[e].current + 1 <= schemaSetup.target[e]
    BY <2>1, <1>t
  <2> QED
    BY <2>1, <2>2, <2>3, <2>4, <2>5, <1>t DEF SchemaIInv
<1> QED
  BY <1>1, <1>2, <1>3, <1>4, <1>5, <1>6 DEF SchemaNext

LEMMA SchemaInvariant == SchemaSpec => []SchemaIInv
  BY SchemaInitially, SchemaInductive, PTL DEF SchemaSpec

\* ensure_schema (schema.py:55): no engine's version is passed, whoever fails.
THEOREM SchemaTypes == SchemaSpec => []SchemaTypeOK
<1>1. SchemaIInv => SchemaTypeOK
  BY DEF SchemaIInv, SchemaTypeOK, Positions
<1> QED
  BY <1>1, SchemaInvariant, PTL

\* The stamp counts the migrations the tables have gone through, for engines of
\* any versions that open the cube one after the other, unless it was an old one
\* without a stamp, with any migrations registered, failing or dying anywhere.
THEOREM StampCountsMigrations == SchemaSpec => []StampIsTheLayout
<1>1. SchemaIInv => StampIsTheLayout
  BY DEF SchemaIInv, Alone, StampIsTheLayout
<1> QED
  BY <1>1, SchemaInvariant, PTL

\* No engine takes a cube back to an older version, if no two open it at once.
THEOREM SchemaNeverDowngraded == SchemaSpec => NeverDowngraded
<1>1. ASSUME SchemaIInv, [SchemaNext]_schemaVars PROVE ~schemaSetup.together => stamp' >= stamp
  <2> SUFFICES ASSUME ~schemaSetup.together PROVE stamp' >= stamp
    OBVIOUS
  <2>t. /\ stamp \in 0 .. SchemaMax /\ SchemaMax \in Nat
        /\ \A e \in Engines : schemaSetup.target[e] \in 1 .. SchemaMax
        /\ \A e \in Engines : engine[e].at # "out" => engine[e].current = stamp
    BY <1>1, SetupType DEF SchemaIInv, Alone
  <2>1. CASE stamp' = stamp
    BY <2>1, <2>t
  <2>2. ASSUME NEW e \in Engines, StampNew(e) PROVE stamp' >= stamp
    BY <2>2, <2>t DEF StampNew
  <2>3. ASSUME NEW e \in Engines, Step(e) PROVE stamp' >= stamp
    BY <2>3, <2>t DEF Step
  <2> QED
    BY <1>1, <2>1, <2>2, <2>3
       DEF SchemaNext, schemaVars, ReadVersion, NothingToDo, OpenToMigrate, Leave, Unchanged
<1> QED
  BY <1>1, SchemaInvariant, PTL DEF SchemaSpec, NeverDowngraded

-----------------------------------------------------------------------------
(* --- CubeSnapshot ---------------------------------------------------------- *)

DataMaps == {d \in [SnapFiles -> Nat] : \A f \in SnapFiles : d[f] <= SnapVersions[f[1]]}
RowMaps == {r \in [SnapVars -> Nat] : \A v \in SnapVars : r[v] <= SnapVersions[v]}
Trees == [data : DataMaps, rows : RowMaps, has : SUBSET TopLevel]
Tasks == [at : {"idle", "save", "restore", "drop"}, todo : SUBSET (TopLevel \cup SnapVars),
          cube : SUBSET SnapVars, files : SUBSET SnapFiles, failed : BOOLEAN]

\* What is not there has nothing in it.
Whole(tree) ==
    /\ "catalog" \notin tree.has => tree.rows = NoRows
    /\ "cube" \notin tree.has => tree.data = NoData

\* Of a copy under way: the entries copied are those no longer to be done, ...
Listed(to, from, t) ==
    /\ t.todo \subseteq from.has /\ to.has = from.has \ t.todo
    /\ t.cube \cup t.files # {} => "cube" \in to.has
    /\ \A f \in t.files : f[1] \notin t.cube

\* ... a file that has not been handled is not in the copy, ...
Done(to, t, f) == "cube" \in to.has /\ f[1] \notin t.cube /\ f \notin t.files
Blank(to, t) == \A f \in SnapFiles : ~Done(to, t, f) => to.data[f] = 0

\* ... and what has been copied of vs is as in the original.
Copying(to, from, t, vs) ==
    /\ \A v \in vs : to.rows[v] = IF "catalog" \in to.has THEN from.rows[v] ELSE 0
    /\ \A f \in SnapFiles : f[1] \in vs /\ Done(to, t, f) => to.data[f] = from.data[f]

\* v's array is there, as one, of version n or a later one.
Stands(tree, v, n) == \A f, g \in FilesOf(v) : tree.data[f] = tree.data[g] /\ tree.data[f] >= n

SnapTypes ==
    /\ snapSetup \in SnapSetups /\ root \in Trees /\ snap \in Trees /\ task \in Tasks
    /\ kept = {} \/ \E tree \in Trees : kept = {tree}
    /\ writing = {} \/ \E v \in SnapVars : \E n \in 1 .. SnapVersions[v] : writing = {[var |-> v, version |-> n]}
    /\ touched \subseteq SnapVars /\ doubtful \subseteq SnapVars
    /\ task.at = "idle" => task = Quiet
    /\ task.at = "drop" => task.todo \subseteq SnapVars /\ task.cube = {} /\ task.files = {}
    /\ task.cube \cup task.files # {} => "cube" \notin task.todo

\* Only in a save, and only if it may, does a producer write beside a call.
WritersApart ==
    writing # {} => /\ TopLevel \ {"marker"} \subseteq root.has
                    /\ task = Quiet \/ (snapSetup.writes /\ task.at = "save")

CopiesExact ==
    /\ Whole(root) /\ Whole(snap)
    /\ task.at = "restore" => Listed(root, snap, task) /\ Blank(root, task) /\ Copying(root, snap, task, SnapVars)
    /\ task.at = "save" => /\ kept = {} /\ Listed(snap, root, task) /\ Blank(snap, task)
                           /\ Copying(snap, root, task, SnapVars \ touched)
    /\ ~snapSetup.writes => touched = {}
    /\ \A tree \in kept :
         /\ snap.has = tree.has
         /\ \A v \in SnapVars \ touched :
              snap.rows[v] = tree.rows[v] /\ \A f \in FilesOf(v) : snap.data[f] = tree.data[f]

\* Rows copied before the arrays claim no more than the arrays then have, and still
\* have when they are copied.
Sure(v) ==
    /\ v \notin Torn(root)
    /\ snap.rows[v] # 0 => Stands(root, v, snap.rows[v])
    /\ "cube" \in snap.has =>
         /\ "catalog" \notin task.todo
         /\ snap.rows[v] # 0 => \A f \in FilesOf(v) : Done(snap, task, f) => snap.data[f] = root.data[f]
CatalogBeforeArrays ==
    /\ task.at = "save" => \A v \in SnapVars \ doubtful : Sure(v)
    /\ kept # {} => Torn(snap) \subseteq doubtful

Untroubled == ~(snapSetup.dies \/ snapSetup.writes \/ snapSetup.generator)
Written == {w.var : w \in writing}

\* Without deaths and writers a tree is torn only while a call or a write works on it.
TornOnlyInCalls ==
    Untroubled => /\ task.at # "save" => Torn(snap) = {}
                  /\ task.at \in {"idle", "save"} => Torn(root) \subseteq Written
                  /\ task.at = "drop" => Torn(root) \subseteq task.todo

SnapIInv == SnapTypes /\ WritersApart /\ CopiesExact /\ CatalogBeforeArrays /\ TornOnlyInCalls

-----------------------------------------------------------------------------
LEMMA FilesAre ==
    /\ \A v \in SnapVars : SnapVersions[v] \in Nat
    /\ \A f \in SnapFiles : f[1] \in SnapVars /\ f \in FilesOf(f[1]) /\ SnapVersions[f[1]] \in Nat
    /\ \A v : FilesOf(v) \subseteq SnapFiles /\ \A f \in FilesOf(v) : f[1] = v
<1>1. \A f \in SnapFiles : f[1] \in SnapVars
  BY SnapAssumption DEF SnapAssumption
<1>2. \A v \in SnapVars : SnapVersions[v] \in Nat
  BY SnapAssumption DEF SnapAssumption
<1> QED
  BY <1>1, <1>2 DEF FilesOf

LEMMA TreeIs ==
    ASSUME NEW t \in Trees
    PROVE  /\ t.data \in DataMaps /\ t.rows \in RowMaps /\ t.has \in SUBSET TopLevel
           /\ \A f \in SnapFiles : t.data[f] \in Nat /\ t.data[f] <= SnapVersions[f[1]]
           /\ \A v \in SnapVars : t.rows[v] \in Nat /\ t.rows[v] <= SnapVersions[v]
  BY DEF Trees, DataMaps, RowMaps

LEMMA ZeroMaps ==
    /\ NoData \in DataMaps /\ NoRows \in RowMaps
    /\ \A f \in SnapFiles : NoData[f] = 0
    /\ \A v \in SnapVars : NoRows[v] = 0
<1>1. \A f \in SnapFiles : 0 <= SnapVersions[f[1]]
  BY FilesAre
<1>2. \A v \in SnapVars : 0 <= SnapVersions[v]
  BY FilesAre
<1> QED
  BY <1>1, <1>2 DEF NoData, NoRows, DataMaps, RowMaps

LEMMA EmptyTree ==
    /\ Empty \in Trees /\ Empty.data = NoData /\ Empty.rows = NoRows /\ Empty.has = {}
    /\ Whole(Empty) /\ Torn(Empty) = {}
<1>1. Empty \in Trees /\ Empty.data = NoData /\ Empty.rows = NoRows /\ Empty.has = {}
  BY ZeroMaps DEF Empty, Trees
<1> QED
  BY <1>1, ZeroMaps DEF Whole, Torn

\* Two trees that agree in their parts are one.
LEMMA SameTree ==
    ASSUME NEW t \in Trees, NEW u \in Trees, t.has = u.has,
           \A v \in SnapVars : t.rows[v] = u.rows[v], \A f \in SnapFiles : t.data[f] = u.data[f]
    PROVE  t = u
<1>1. t.data = u.data /\ t.rows = u.rows
  BY DEF Trees, DataMaps, RowMaps
<1> QED
  BY <1>1 DEF Trees

LEMMA WithEntries ==
    ASSUME NEW t \in Trees, NEW h \in SUBSET TopLevel
    PROVE  /\ [t EXCEPT !.has = h] \in Trees /\ [t EXCEPT !.has = h].has = h
           /\ [t EXCEPT !.has = h].data = t.data /\ [t EXCEPT !.has = h].rows = t.rows
  BY DEF Trees

PutFile(t, f, n) == [t EXCEPT !.data[f] = n]
PutRow(t, v, n) == [t EXCEPT !.rows[v] = n]

LEMMA WithFile ==
    ASSUME NEW t \in Trees, NEW f \in SnapFiles, NEW n \in 0 .. SnapVersions[f[1]]
    PROVE  LET u == PutFile(t, f, n)
           IN  /\ u \in Trees /\ u.has = t.has /\ u.rows = t.rows
               /\ u.data[f] = n /\ \A g \in SnapFiles \ {f} : u.data[g] = t.data[g]
<1> DEFINE u == PutFile(t, f, n)  d == [t.data EXCEPT ![f] = n]
<1>1. t.data \in [SnapFiles -> Nat] /\ \A g \in SnapFiles : t.data[g] <= SnapVersions[g[1]]
  BY TreeIs DEF DataMaps
<1>2. n \in Nat /\ n <= SnapVersions[f[1]]
  BY FilesAre
<1>3. d \in [SnapFiles -> Nat] /\ d[f] = n /\ \A g \in SnapFiles \ {f} : d[g] = t.data[g]
  BY <1>1, <1>2
<1>4. d \in DataMaps
  BY <1>1, <1>2, <1>3 DEF DataMaps
<1>5. u \in Trees /\ u.has = t.has /\ u.rows = t.rows /\ u.data = d
  BY <1>4 DEF Trees, PutFile
<1> QED
  BY <1>3, <1>5

LEMMA WithRow ==
    ASSUME NEW t \in Trees, NEW v \in SnapVars, NEW n \in 0 .. SnapVersions[v]
    PROVE  LET u == PutRow(t, v, n)
           IN  /\ u \in Trees /\ u.has = t.has /\ u.data = t.data
               /\ u.rows[v] = n /\ \A w \in SnapVars \ {v} : u.rows[w] = t.rows[w]
<1> DEFINE u == PutRow(t, v, n)  r == [t.rows EXCEPT ![v] = n]
<1>1. t.rows \in [SnapVars -> Nat] /\ \A w \in SnapVars : t.rows[w] <= SnapVersions[w]
  BY TreeIs DEF RowMaps
<1>2. n \in Nat /\ n <= SnapVersions[v]
  BY FilesAre
<1>3. r \in [SnapVars -> Nat] /\ r[v] = n /\ \A w \in SnapVars \ {v} : r[w] = t.rows[w]
  BY <1>1, <1>2
<1>4. r \in RowMaps
  BY <1>1, <1>2, <1>3 DEF RowMaps
<1>5. u \in Trees /\ u.has = t.has /\ u.data = t.data /\ u.rows = r
  BY <1>4 DEF Trees, PutRow
<1> QED
  BY <1>3, <1>5

LEMMA TornIs ==
    ASSUME NEW t \in Trees, NEW v \in SnapVars
    PROVE  v \in Torn(t) <=> t.rows[v] # 0 /\ ~Stands(t, v, t.rows[v])
<1>1. \A f \in FilesOf(v) : t.data[f] \in Nat /\ t.rows[v] \in Nat
  BY TreeIs, FilesAre
<1>2. \A f \in FilesOf(v) : t.data[f] < t.rows[v] <=> ~(t.data[f] >= t.rows[v])
  BY <1>1
<1> QED
  BY <1>2 DEF Torn, Stands

\* A variable is torn or not by what is there of itself.
LEMMA TornByItself ==
    ASSUME NEW t, NEW u, NEW v \in SnapVars, t.rows[v] = u.rows[v], \A f \in FilesOf(v) : t.data[f] = u.data[f]
    PROVE  v \in Torn(t) <=> v \in Torn(u)
  BY DEF Torn

LEMMA TornAfter ==
    ASSUME NEW t, NEW u, NEW vs, t.rows = u.rows,
           \A f \in SnapFiles : f[1] \notin vs => t.data[f] = u.data[f]
    PROVE  Torn(u) \subseteq Torn(t) \cup vs
  BY TornByItself, FilesAre DEF Torn

-----------------------------------------------------------------------------
\* A step of shutil.copytree, from t and to, to t2 and to2.
EntryStep(x, t, to, t2, to2, from) ==
    /\ x \in t.todo /\ t.cube = {} /\ t.files = {}
    /\ t2 = [t EXCEPT !.todo = @ \ {x}, !.cube = IF x = "cube" THEN Arrays(from) ELSE {}]
    /\ to2 = [to EXCEPT !.has = @ \cup {x}, !.rows = IF x = "catalog" THEN from.rows ELSE @]
EnterStep(v, t, to, t2, to2, from) ==
    /\ v \in t.cube /\ t.files = {}
    /\ \E gone \in BOOLEAN :
         t2 = [t EXCEPT !.cube = @ \ {v}, !.files = Present(from, v), !.failed = @ \/ gone]
    /\ to2 = to
FileStep(f, t, to, t2, to2, from) ==
    /\ f \in t.files
    /\ t2 = [t EXCEPT !.files = @ \ {f}, !.failed = @ \/ from.data[f] = 0]
    /\ to2 = [to EXCEPT !.data[f] = from.data[f]]

\* What a step keeps, and what it does to rows and files.
Kept(t, to, t2, to2, from) ==
    /\ to2 \in Trees /\ t2 \in Tasks /\ t2.at = t.at
    /\ t2.todo \subseteq t.todo /\ to.has \subseteq to2.has
    /\ Whole(to2) /\ Listed(to2, from, t2) /\ Blank(to2, t2)
    /\ t2.cube \cup t2.files # {} => "cube" \notin t2.todo
    /\ \/ to2.rows = to.rows /\ ("catalog" \in to2.has => "catalog" \in to.has)
       \/ to2.rows = from.rows /\ "catalog" \in to2.has /\ ("cube" \in to2.has => "cube" \in to.has)
          /\ "catalog" \in t.todo
    /\ "cube" \in to2.has => "cube" \in to.has \/ "cube" \in t.todo \ t2.todo
    /\ "cube" \in t.todo \ t2.todo => t2.todo = t.todo \ {"cube"}
    /\ \A f \in SnapFiles : Done(to2, t2, f) => \/ to2.data[f] = from.data[f]
                                                \/ Done(to, t, f) /\ to2.data[f] = to.data[f]

LEMMA EntryKeeps ==
    ASSUME NEW to \in Trees, NEW from \in Trees, NEW t \in Tasks, NEW t2, NEW to2, NEW x \in TopLevel,
           Whole(to), Listed(to, from, t), Blank(to, t), EntryStep(x, t, to, t2, to2, from)
    PROVE  Kept(t, to, t2, to2, from)
<1>1. /\ to2 \in Trees /\ to2.data = to.data /\ to2.has = to.has \cup {x}
      /\ to2.rows = (IF x = "catalog" THEN from.rows ELSE to.rows)
  BY DEF Trees, EntryStep
<1>2. Arrays(from) \subseteq SnapVars
  BY DEF Arrays
<1>3. /\ t2 \in Tasks /\ t2.at = t.at /\ t2.todo = t.todo \ {x} /\ t2.files = {}
      /\ t2.cube = (IF x = "cube" THEN Arrays(from) ELSE {}) /\ x \in t.todo /\ t.cube = {} /\ t.files = {}
  BY <1>2 DEF Tasks, EntryStep
<1>4. Whole(to2) /\ Listed(to2, from, t2)
  BY <1>1, <1>3 DEF Whole, Listed
<1>5. x \notin to.has
  BY <1>3 DEF Listed
<1>6. Blank(to2, t2)
  <2>1. \A f \in SnapFiles : ~Done(to2, t2, f) => ~Done(to, t, f)
    BY <1>1, <1>3, <1>5 DEF Done
  <2> QED
    BY <1>1, <2>1 DEF Blank
<1>7. ASSUME NEW f \in SnapFiles, Done(to2, t2, f)
      PROVE  to2.data[f] = from.data[f] \/ (Done(to, t, f) /\ to2.data[f] = to.data[f])
  <2>1. CASE x = "cube"
    <3>1. to.data[f] = 0
      BY <1>5, <2>1 DEF Blank, Done
    <3>2. from.data[f] = 0
      BY <1>3, <1>7, <2>1, FilesAre DEF Done, Arrays, Present
    <3> QED
      BY <1>1, <3>1, <3>2
  <2>2. CASE x # "cube"
    BY <1>1, <1>3, <1>7, <2>2 DEF Done
  <2> QED
    BY <2>1, <2>2
<1>8. t2.cube \cup t2.files # {} => "cube" \notin t2.todo
  BY <1>3
<1>9. \/ to2.rows = to.rows /\ ("catalog" \in to2.has => "catalog" \in to.has)
      \/ to2.rows = from.rows /\ "catalog" \in to2.has /\ ("cube" \in to2.has => "cube" \in to.has)
         /\ "catalog" \in t.todo
  BY <1>1, <1>3
<1>10. /\ "cube" \in to2.has => "cube" \in to.has \/ "cube" \in t.todo \ t2.todo
       /\ "cube" \in t.todo \ t2.todo => t2.todo = t.todo \ {"cube"}
       /\ t2.todo \subseteq t.todo /\ to.has \subseteq to2.has
  BY <1>1, <1>3
<1> QED
  BY <1>1, <1>3, <1>4, <1>6, <1>7, <1>8, <1>9, <1>10 DEF Kept

LEMMA EnterKeeps ==
    ASSUME NEW to \in Trees, NEW from \in Trees, NEW t \in Tasks, NEW t2, NEW to2, NEW v \in SnapVars,
           Whole(to), Listed(to, from, t), Blank(to, t), t.cube \cup t.files # {} => "cube" \notin t.todo,
           EnterStep(v, t, to, t2, to2, from)
    PROVE  Kept(t, to, t2, to2, from)
<1>1. Present(from, v) \subseteq SnapFiles
  BY FilesAre DEF Present
<1>2. /\ t2 \in Tasks /\ t2.at = t.at /\ t2.todo = t.todo /\ t2.files = Present(from, v)
      /\ t2.cube = t.cube \ {v} /\ v \in t.cube /\ t.files = {} /\ to2 = to
  BY <1>1 DEF Tasks, EnterStep
<1>3. "cube" \in to.has /\ "cube" \notin t.todo
  BY <1>2 DEF Listed
<1>4. Whole(to2) /\ Listed(to2, from, t2)
  BY <1>2, <1>3, FilesAre DEF Whole, Listed, Present
<1>5. ASSUME NEW f \in SnapFiles, Done(to2, t2, f) PROVE to2.data[f] = from.data[f] \/ Done(to, t, f)
  <2>1. CASE f[1] # v
    BY <1>2, <1>5, <2>1 DEF Done
  <2>2. CASE f[1] = v
    <3>1. to.data[f] = 0
      BY <1>2, <2>2 DEF Blank, Done
    <3>2. from.data[f] = 0
      BY <1>2, <1>5, <2>2, FilesAre DEF Done, Present
    <3> QED
      BY <1>2, <3>1, <3>2
  <2> QED
    BY <2>1, <2>2
<1>6. Blank(to2, t2)
  <2>1. ASSUME NEW f \in SnapFiles, ~Done(to2, t2, f) PROVE ~Done(to, t, f)
    <3>1. f[1] \in t2.cube \/ f \in t2.files
      BY <1>2, <1>3, <2>1 DEF Done
    <3>2. CASE f[1] \in t2.cube
      BY <1>2, <3>2 DEF Done
    <3>3. CASE f \in t2.files
      <4>1. f[1] = v
        BY <1>2, <3>3, FilesAre DEF Present
      <4> QED
        BY <1>2, <4>1 DEF Done
    <3> QED
      BY <3>1, <3>2, <3>3
  <2> QED
    BY <1>2, <2>1 DEF Blank
<1> QED
  BY <1>2, <1>3, <1>4, <1>5, <1>6 DEF Kept

LEMMA FileKeeps ==
    ASSUME NEW to \in Trees, NEW from \in Trees, NEW t \in Tasks, NEW t2, NEW to2, NEW f \in SnapFiles,
           Whole(to), Listed(to, from, t), Blank(to, t), t.cube \cup t.files # {} => "cube" \notin t.todo,
           FileStep(f, t, to, t2, to2, from)
    PROVE  Kept(t, to, t2, to2, from)
<1>1. from.data[f] \in 0 .. SnapVersions[f[1]]
  BY TreeIs, FilesAre
<1>2. /\ to2 \in Trees /\ to2.has = to.has /\ to2.rows = to.rows
      /\ to2.data[f] = from.data[f] /\ \A g \in SnapFiles \ {f} : to2.data[g] = to.data[g]
  BY <1>1, WithFile DEF PutFile, FileStep
<1>3. /\ t2 \in Tasks /\ t2.at = t.at /\ t2.todo = t.todo /\ t2.files = t.files \ {f}
      /\ t2.cube = t.cube /\ f \in t.files
  BY DEF Tasks, FileStep
<1>4. "cube" \in to.has /\ "cube" \notin t.todo
  BY <1>3 DEF Listed
<1>5. Whole(to2) /\ Listed(to2, from, t2)
  BY <1>2, <1>3, <1>4 DEF Whole, Listed
<1>6. ASSUME NEW g \in SnapFiles, Done(to2, t2, g)
      PROVE  to2.data[g] = from.data[g] \/ (Done(to, t, g) /\ to2.data[g] = to.data[g])
  <2>1. CASE g = f
    BY <1>2, <2>1
  <2>2. CASE g # f
    BY <1>2, <1>3, <1>6, <2>2 DEF Done
  <2> QED
    BY <2>1, <2>2
<1>7. Blank(to2, t2)
  <2>1. ASSUME NEW g \in SnapFiles, ~Done(to2, t2, g) PROVE to2.data[g] = 0
    <3>1. CASE g = f
      <4>1. f[1] \notin t.cube
        BY <1>3 DEF Listed
      <4> QED
        BY <1>2, <1>3, <1>4, <2>1, <3>1, <4>1 DEF Done
    <3>2. CASE g # f
      <4>1. ~Done(to, t, g)
        BY <1>2, <1>3, <2>1, <3>2 DEF Done
      <4> QED
        BY <1>2, <3>2, <4>1 DEF Blank
    <3> QED
      BY <3>1, <3>2
  <2> QED
    BY <2>1 DEF Blank
<1> QED
  BY <1>2, <1>3, <1>4, <1>5, <1>6, <1>7 DEF Kept

-----------------------------------------------------------------------------
LEMMA CopyingKept ==
    ASSUME NEW t, NEW to, NEW t2, NEW to2, NEW from, NEW vs,
           Kept(t, to, t2, to2, from), Copying(to, from, t, vs)
    PROVE  Copying(to2, from, t2, vs)
<1>1. \A v \in vs : to2.rows[v] = IF "catalog" \in to2.has THEN from.rows[v] ELSE 0
  BY DEF Kept, Copying
<1>2. \A f \in SnapFiles : f[1] \in vs /\ Done(to2, t2, f) => to2.data[f] = from.data[f]
  BY DEF Kept, Copying
<1> QED
  BY <1>1, <1>2 DEF Copying

\* A copy with nothing left to do has what it copied.
LEMMA CopyDone ==
    ASSUME NEW to \in Trees, NEW from \in Trees, NEW t, NEW vs \in SUBSET SnapVars,
           t.todo = {}, t.cube = {}, t.files = {},
           Whole(from), Listed(to, from, t), Blank(to, t), Copying(to, from, t, vs)
    PROVE  /\ to.has = from.has
           /\ \A v \in vs : to.rows[v] = from.rows[v]
           /\ \A f \in SnapFiles : f[1] \in vs => to.data[f] = from.data[f]
<1>1. to.has = from.has
  BY DEF Listed
<1>2. ASSUME NEW v \in vs PROVE to.rows[v] = from.rows[v]
  BY <1>1, ZeroMaps DEF Copying, Whole
<1>3. ASSUME NEW f \in SnapFiles, f[1] \in vs PROVE to.data[f] = from.data[f]
  <2>1. CASE "cube" \in to.has
    BY <1>3, <2>1 DEF Done, Copying
  <2>2. CASE "cube" \notin to.has
    BY <1>1, <2>2, ZeroMaps DEF Done, Blank, Whole
  <2> QED
    BY <2>1, <2>2
<1> QED
  BY <1>1, <1>2, <1>3

LEMMA QuietIs ==
    /\ Quiet \in Tasks /\ Quiet.at = "idle"
    /\ \A at \in {"save", "restore", "drop"}, todo \in SUBSET (TopLevel \cup SnapVars) :
         LET t == TaskOf(at, todo)
         IN  t \in Tasks /\ t.at = at /\ t.todo = todo /\ t.cube = {} /\ t.files = {}
  BY DEF Quiet, TaskOf, Tasks

\* A copy begins with the empty tree.
LEMMA CopyStarts ==
    ASSUME NEW from \in Trees, NEW t, t.todo = from.has, t.cube = {}, t.files = {}, NEW vs \in SUBSET SnapVars
    PROVE  Listed(Empty, from, t) /\ Blank(Empty, t) /\ Copying(Empty, from, t, vs)
  BY EmptyTree, ZeroMaps DEF Listed, Blank, Copying, Done

LEMMA SnapInitially == SnapInit => SnapIInv
<1> SUFFICES ASSUME NEW s \in SnapSetups, SnapStart(s) PROVE SnapIInv
  BY DEF SnapInit
<1>1. /\ root \in Trees /\ root.data = NoData /\ root.rows = NoRows
      /\ root.has = TopLevel \ {"marker"} /\ Torn(root) = {}
  <2>1. root = [Empty EXCEPT !.has = TopLevel \ {"marker"}]
    BY DEF SnapStart
  <2>2. root \in Trees /\ root.data = NoData /\ root.rows = NoRows /\ root.has = TopLevel \ {"marker"}
    BY <2>1, EmptyTree, WithEntries
  <2> QED
    BY <2>2, ZeroMaps DEF Torn
<1>2. Whole(root)
  BY <1>1 DEF Whole
<1>3. /\ snapSetup \in SnapSetups /\ snap = Empty /\ writing = {} /\ task = Quiet
      /\ touched = {} /\ doubtful = {} /\ kept = {}
  BY DEF SnapStart
<1>4. SnapTypes
  BY <1>1, <1>3, EmptyTree, QuietIs DEF SnapTypes, Quiet, TaskOf
<1>5. WritersApart /\ CatalogBeforeArrays
  BY <1>3, QuietIs DEF WritersApart, CatalogBeforeArrays
<1>6. CopiesExact
  BY <1>2, <1>3, EmptyTree, QuietIs DEF CopiesExact
<1>7. TornOnlyInCalls
  BY <1>1, <1>3, EmptyTree, QuietIs DEF TornOnlyInCalls
<1> QED
  BY <1>4, <1>5, <1>6, <1>7 DEF SnapIInv

-----------------------------------------------------------------------------
LEMMA WrittenIs ==
    ASSUME SnapTypes, NEW w \in writing
    PROVE  w.var \in SnapVars /\ w.version \in 1 .. SnapVersions[w.var] /\ Written = {w.var} /\ writing # {}
  BY DEF SnapTypes, Written

LEMMA SureKept ==
    ASSUME NEW v \in SnapVars, Sure(v), root'.rows[v] = root.rows[v],
           \A f \in FilesOf(v) : root'.data[f] = root.data[f], snap' = snap, task' = task
    PROVE  Sure(v)'
<1>1. v \notin Torn(root')
  BY TornByItself DEF Sure
<1> QED
  BY <1>1 DEF Sure, Stands

\* What a step of a writer keeps, which changes what is there of v.
LEMMA ByWriter ==
    ASSUME SnapIInv, NEW v \in SnapVars, writing # {}, writing' \in {writing, {}},
           root' \in Trees, root'.has = root.has, Touches(v),
           \A u \in SnapVars \ {v} : root'.rows[u] = root.rows[u],
           \A f \in SnapFiles : f[1] # v => root'.data[f] = root.data[f],
           snap' = snap, task' = task, kept' = kept, snapSetup' = snapSetup,
           doubtful \subseteq doubtful', doubtful' \subseteq SnapVars,
           task.at = "save" /\ v \notin doubtful' => Sure(v)'
    PROVE  SnapTypes' /\ WritersApart' /\ CopiesExact' /\ CatalogBeforeArrays'
<1> USE DEF SnapIInv
<1>1. TopLevel \ {"marker"} \subseteq root.has /\ task.at # "restore" /\ task.at # "drop"
      /\ (task.at = "save" => snapSetup.writes)
  BY QuietIs DEF WritersApart
<1>2. touched' = (IF task.at = "save" THEN touched \cup {v} ELSE touched)
  BY DEF Touches
<1>3. SnapTypes'
  BY <1>2 DEF SnapTypes
<1>4. WritersApart'
  BY DEF WritersApart
<1>5. CopiesExact'
  <2>1. Whole(root)' /\ Whole(snap)'
    BY <1>1 DEF Whole, CopiesExact, TopLevel
  <2>2. ASSUME task.at = "save" PROVE Copying(snap, root, task, SnapVars \ touched)'
    <3>1. Copying(snap, root, task, SnapVars \ touched) /\ touched' = touched \cup {v}
      BY <1>2, <2>2 DEF CopiesExact
    <3> QED
      BY <3>1, FilesAre DEF Copying, Done
  <2>3. task.at = "save" => Listed(snap, root, task)' /\ Blank(snap, task)' /\ kept' = {}
    BY DEF CopiesExact, Listed, Blank, Done
  <2>4. ~snapSetup'.writes => touched' = {}
    BY <1>1, <1>2 DEF CopiesExact
  <2> QED
    BY <1>1, <1>2, <2>1, <2>2, <2>3, <2>4 DEF CopiesExact
<1>6. CatalogBeforeArrays'
  <2>1. ASSUME task.at = "save", NEW u \in SnapVars \ doubtful' PROVE Sure(u)'
    <3>1. CASE u = v
      BY <2>1, <3>1
    <3>2. CASE u # v
      <4>1. Sure(u)
        BY <2>1 DEF CatalogBeforeArrays
      <4> QED
        BY <3>2, <4>1, SureKept, FilesAre
    <3> QED
      BY <3>1, <3>2
  <2> QED
    BY <2>1 DEF CatalogBeforeArrays
<1> QED
  BY <1>3, <1>4, <1>5, <1>6

\* Where nothing is to write beside a call, the writer has the cube to itself.
LEMMA TornByWriter ==
    ASSUME SnapIInv, NEW v \in Written, snap' = snap, task' = task, snapSetup' = snapSetup,
           Torn(root') \subseteq (Torn(root) \cup {v}) \cap Written'
    PROVE  TornOnlyInCalls'
<1>1. Untroubled => task = Quiet
  BY DEF SnapIInv, WritersApart, Untroubled, Written
<1> QED
  BY <1>1, QuietIs DEF SnapIInv, TornOnlyInCalls, Untroubled

LEMMA ArrayBegun ==
    ASSUME SnapIInv, NEW v \in SnapVars, NEW n \in 1 .. SnapVersions[v], WriteArray(v, n)
    PROVE  SnapIInv'
<1>1. SnapTypes'
  BY DEF SnapIInv, SnapTypes, WriteArray
<1>2. WritersApart' /\ Written = {}
  BY DEF SnapIInv, WritersApart, WriteArray, MayWrite, Written
<1>3. CopiesExact' /\ CatalogBeforeArrays'
  BY DEF SnapIInv, WriteArray, CopiesExact, CatalogBeforeArrays, Sure
<1>4. TornOnlyInCalls'
  BY <1>2 DEF SnapIInv, WriteArray, TornOnlyInCalls, Untroubled
<1> QED
  BY <1>1, <1>2, <1>3, <1>4 DEF SnapIInv

LEMMA FileErased ==
    ASSUME SnapIInv, NEW f \in SnapFiles, EraseFile(f) PROVE SnapIInv'
<1> DEFINE v == f[1]
<1>1. PICK w \in writing : w.var = v
  BY DEF EraseFile
<1>2. v \in SnapVars /\ v \in Written /\ Written = {v} /\ writing # {}
  BY <1>1, WrittenIs DEF SnapIInv
<1>3. 0 \in 0 .. SnapVersions[f[1]] /\ root' = PutFile(root, f, 0) /\ root \in Trees
  BY FilesAre DEF EraseFile, PutFile, SnapIInv, SnapTypes
<1>4. /\ root' \in Trees /\ root'.has = root.has /\ root'.rows = root.rows
      /\ \A g \in SnapFiles \ {f} : root'.data[g] = root.data[g]
  BY <1>3, WithFile
<1>5. doubtful' \subseteq SnapVars /\ doubtful \subseteq doubtful' /\ (task.at = "save" => v \in doubtful')
  BY <1>2 DEF EraseFile, SnapIInv, SnapTypes
<1>6. SnapTypes' /\ WritersApart' /\ CopiesExact' /\ CatalogBeforeArrays'
  BY <1>2, <1>4, <1>5, ByWriter DEF EraseFile
<1>7. Torn(root') \subseteq Torn(root) \cup {v}
  BY <1>4, TornAfter
<1>8. ~Untroubled \/ Torn(root) \subseteq Written
  <2>1. Untroubled => task.at \in {"idle", "save"}
    BY <1>2, QuietIs DEF SnapIInv, WritersApart
  <2> QED
    BY <2>1 DEF SnapIInv, TornOnlyInCalls
<1>9. TornOnlyInCalls'
  <2>1. Written' = Written
    BY DEF EraseFile, Written
  <2>2. CASE ~Untroubled
    BY <2>2 DEF TornOnlyInCalls, Untroubled, EraseFile
  <2>3. CASE Torn(root) \subseteq Written
    BY <1>2, <1>7, <2>1, <2>3, TornByWriter DEF EraseFile
  <2> QED
    BY <1>8, <2>2, <2>3
<1> QED
  BY <1>6, <1>9 DEF SnapIInv

LEMMA FileWritten ==
    ASSUME SnapIInv, NEW f \in SnapFiles, WriteFile(f) PROVE SnapIInv'
<1> DEFINE v == f[1]
<1>1. PICK w \in writing : w.var = v /\ root' = PutFile(root, f, w.version)
  BY DEF WriteFile, PutFile
<1>2. v \in SnapVars /\ v \in Written /\ Written = {v} /\ writing # {} /\ w.version \in 1 .. SnapVersions[v]
  BY <1>1, WrittenIs DEF SnapIInv
<1>3. w.version \in 0 .. SnapVersions[f[1]] /\ root \in Trees /\ snap \in Trees /\ root.data[f] = 0
  BY <1>2, FilesAre DEF SnapIInv, SnapTypes, WriteFile
<1>4. /\ root' \in Trees /\ root'.has = root.has /\ root'.rows = root.rows
      /\ \A g \in SnapFiles \ {f} : root'.data[g] = root.data[g]
  BY <1>1, <1>3, WithFile
<1>5. ASSUME task.at = "save", v \notin doubtful' PROVE Sure(v)'
  <2>1. Sure(v) /\ snap' = snap /\ task' = task
    BY <1>2, <1>5 DEF SnapIInv, CatalogBeforeArrays, WriteFile
  <2>2. f \in FilesOf(v) /\ snap.rows[v] \in Nat /\ root.rows[v] \in Nat
    BY <1>2, <1>3, FilesAre, TreeIs
  <2>3. root.rows[v] = 0
    BY <1>2, <1>3, <2>1, <2>2 DEF Sure, Torn
  <2>4. snap.rows[v] = 0
    BY <1>3, <2>1, <2>2 DEF Sure, Stands
  <2>5. v \notin Torn(root')
    BY <1>4, <2>3 DEF Torn
  <2> QED
    BY <2>1, <2>4, <2>5 DEF Sure
<1>6. SnapTypes' /\ WritersApart' /\ CopiesExact' /\ CatalogBeforeArrays'
  <2>1. doubtful' \subseteq SnapVars /\ doubtful \subseteq doubtful'
    BY DEF WriteFile, SnapIInv, SnapTypes
  <2> QED
    BY <1>2, <1>4, <1>5, <2>1, ByWriter DEF WriteFile
<1>7. Torn(root') \subseteq Torn(root) \cup {v}
  BY <1>4, TornAfter
<1>8. ~Untroubled \/ Torn(root) \subseteq Written
  <2>1. Untroubled => task.at \in {"idle", "save"}
    BY <1>2, QuietIs DEF SnapIInv, WritersApart
  <2> QED
    BY <2>1 DEF SnapIInv, TornOnlyInCalls
<1>9. TornOnlyInCalls'
  <2>1. Written' = Written
    BY DEF WriteFile, Written
  <2>2. CASE ~Untroubled
    BY <2>2 DEF TornOnlyInCalls, Untroubled, WriteFile
  <2>3. CASE Torn(root) \subseteq Written
    BY <1>2, <1>7, <2>1, <2>3, TornByWriter DEF WriteFile
  <2> QED
    BY <1>8, <2>2, <2>3
<1> QED
  BY <1>6, <1>9 DEF SnapIInv

LEMMA RowWritten ==
    ASSUME SnapIInv, NEW v \in SnapVars, WriteRow(v) PROVE SnapIInv'
<1>1. PICK w \in writing : /\ w.var = v /\ root' = PutRow(root, v, w.version)
                           /\ \A f \in FilesOf(v) : root.data[f] = w.version
  BY DEF WriteRow, PutRow
<1>2. v \in Written /\ Written = {v} /\ writing # {} /\ w.version \in 1 .. SnapVersions[v]
  BY <1>1, WrittenIs DEF SnapIInv
<1>3. w.version \in 0 .. SnapVersions[v] /\ root \in Trees /\ w.version \in Nat
  BY <1>2, FilesAre DEF SnapIInv, SnapTypes
<1>4. /\ root' \in Trees /\ root'.has = root.has /\ root'.data = root.data /\ root'.rows[v] = w.version
      /\ \A u \in SnapVars \ {v} : root'.rows[u] = root.rows[u]
  BY <1>1, <1>3, WithRow
<1>5. v \notin Torn(root')
  BY <1>1, <1>3, <1>4 DEF Torn
<1>6. ASSUME task.at = "save", v \notin doubtful' PROVE Sure(v)'
  <2>1. Sure(v) /\ snap' = snap /\ task' = task
    BY <1>6 DEF SnapIInv, CatalogBeforeArrays, WriteRow
  <2> QED
    BY <1>4, <1>5, <2>1 DEF Sure, Stands
<1>7. SnapTypes' /\ WritersApart' /\ CopiesExact' /\ CatalogBeforeArrays'
  <2>1. doubtful' \subseteq SnapVars /\ doubtful \subseteq doubtful'
    BY DEF WriteRow, SnapIInv, SnapTypes
  <2> QED
    BY <1>2, <1>4, <1>6, <2>1, ByWriter DEF WriteRow
<1>8. Untroubled => task = Quiet /\ Torn(root) \subseteq {v}
  BY <1>2, QuietIs DEF SnapIInv, WritersApart, TornOnlyInCalls, Untroubled
<1>9. ASSUME NEW u \in Torn(root') PROVE u \in Torn(root) \ {v}
  BY <1>4, <1>5, <1>9, TornByItself DEF Torn
<1>10. TornOnlyInCalls'
  BY <1>8, <1>9, QuietIs DEF WriteRow, SnapIInv, TornOnlyInCalls, Untroubled
<1> QED
  BY <1>7, <1>10 DEF SnapIInv

-----------------------------------------------------------------------------
LEMMA SaveStarted ==
    ASSUME SnapIInv, NEW overwrite, Save(overwrite) PROVE SnapIInv'
<1>1. /\ root \in Trees /\ task = Quiet /\ snap' = Empty /\ root' = root /\ writing' = writing
      /\ writing = {} \/ snapSetup.writes
      /\ touched' = {} /\ doubtful' = Torn(root) /\ kept' = {} /\ snapSetup' = snapSetup
  BY DEF Save, Call, SnapIInv, SnapTypes
<1>2. root.has \in SUBSET (TopLevel \cup SnapVars)
  BY <1>1, TreeIs
<1>3. task' \in Tasks /\ task'.at = "save" /\ task'.todo = root.has /\ task'.cube = {} /\ task'.files = {}
  BY <1>2, QuietIs DEF Save, Call
<1>4. SnapTypes'
  BY <1>1, <1>3, EmptyTree DEF SnapIInv, SnapTypes, Torn
<1>5. WritersApart'
  BY <1>1, <1>3 DEF SnapIInv, WritersApart
<1>6. CopiesExact'
  BY <1>1, <1>3, CopyStarts, EmptyTree DEF SnapIInv, CopiesExact
<1>7. CatalogBeforeArrays'
  BY <1>1, <1>3, EmptyTree, ZeroMaps DEF CatalogBeforeArrays, Sure
<1>8. TornOnlyInCalls'
  BY <1>1, <1>3, QuietIs DEF SnapIInv, TornOnlyInCalls, Untroubled, Written
<1> QED
  BY <1>4, <1>5, <1>6, <1>7, <1>8 DEF SnapIInv

LEMMA RestoreStarted ==
    ASSUME SnapIInv, NEW overwrite, Restore(overwrite) PROVE SnapIInv'
<1>1. /\ snap \in Trees /\ task = Quiet /\ snap' = snap /\ root' = Empty /\ writing' = {} /\ writing = {}
      /\ touched' = touched /\ doubtful' = doubtful /\ kept' = kept /\ snapSetup' = snapSetup
  BY DEF Restore, Call, SnapIInv, SnapTypes
<1>2. snap.has \in SUBSET (TopLevel \cup SnapVars)
  BY <1>1, TreeIs
<1>3. task' \in Tasks /\ task'.at = "restore" /\ task'.todo = snap.has /\ task'.cube = {} /\ task'.files = {}
  BY <1>2, QuietIs DEF Restore, Call
<1>4. SnapTypes'
  BY <1>1, <1>3, EmptyTree DEF SnapIInv, SnapTypes
<1>5. WritersApart'
  BY <1>1 DEF WritersApart
<1>6. CopiesExact'
  BY <1>1, <1>3, CopyStarts, EmptyTree DEF SnapIInv, CopiesExact
<1>7. CatalogBeforeArrays'
  BY <1>1, <1>3 DEF SnapIInv, CatalogBeforeArrays
<1>8. TornOnlyInCalls'
  BY <1>1, <1>3, QuietIs DEF SnapIInv, TornOnlyInCalls, Untroubled
<1> QED
  BY <1>4, <1>5, <1>6, <1>7, <1>8 DEF SnapIInv

LEMMA DropStarted ==
    ASSUME SnapIInv, NEW vs \in SUBSET SnapVars, Drop(vs) PROVE SnapIInv'
<1>1. /\ task = Quiet /\ snap' = snap /\ root' = root /\ writing' = {} /\ writing = {}
      /\ touched' = touched /\ doubtful' = doubtful /\ kept' = kept /\ snapSetup' = snapSetup
  BY DEF Drop, Call
<1>2. task' \in Tasks /\ task'.at = "drop" /\ task'.todo = vs /\ task'.cube = {} /\ task'.files = {}
  BY QuietIs DEF Drop, Call
<1>3. SnapTypes' /\ WritersApart' /\ CatalogBeforeArrays'
  BY <1>1, <1>2 DEF SnapIInv, SnapTypes, WritersApart, CatalogBeforeArrays
<1>4. CopiesExact'
  BY <1>1, <1>2 DEF SnapIInv, CopiesExact
<1>5. TornOnlyInCalls'
  BY <1>1, <1>2, QuietIs DEF SnapIInv, TornOnlyInCalls, Untroubled, Written
<1> QED
  BY <1>3, <1>4, <1>5 DEF SnapIInv

LEMMA FileDropped ==
    ASSUME SnapIInv, NEW f \in SnapFiles, DropFile(f) PROVE SnapIInv'
<1>1. /\ root \in Trees /\ 0 \in 0 .. SnapVersions[f[1]] /\ root' = PutFile(root, f, 0)
      /\ task.at = "drop" /\ f[1] \in task.todo /\ root.data[f] # 0
      /\ UNCHANGED <<snapSetup, snap, writing, task, touched, doubtful, kept>>
  BY FilesAre DEF DropFile, PutFile, SnapIInv, SnapTypes
<1>2. /\ root' \in Trees /\ root'.has = root.has /\ root'.rows = root.rows
      /\ \A g \in SnapFiles \ {f} : root'.data[g] = root.data[g]
  BY <1>1, WithFile
<1>3. writing = {}
  BY <1>1, QuietIs DEF SnapIInv, WritersApart
<1>4. SnapTypes'
  BY <1>1, <1>2 DEF SnapIInv, SnapTypes
<1>5. WritersApart' /\ CatalogBeforeArrays'
  BY <1>1, <1>3 DEF SnapIInv, WritersApart, CatalogBeforeArrays
<1>6. CopiesExact'
  <2>1. Whole(root')
    BY <1>1, <1>2, ZeroMaps DEF SnapIInv, CopiesExact, Whole
  <2> QED
    BY <1>1, <2>1 DEF SnapIInv, CopiesExact
<1>7. Torn(root') \subseteq Torn(root) \cup {f[1]}
  BY <1>2, TornAfter
<1>8. TornOnlyInCalls'
  BY <1>1, <1>7 DEF SnapIInv, TornOnlyInCalls, Untroubled
<1> QED
  BY <1>4, <1>5, <1>6, <1>8 DEF SnapIInv

LEMMA RowsDropped ==
    ASSUME SnapIInv, DropRows PROVE SnapIInv'
<1>1. /\ root \in Trees /\ task.at = "drop" /\ task' = Quiet
      /\ UNCHANGED <<snapSetup, snap, writing, touched, doubtful, kept>>
  BY DEF DropRows, SnapIInv, SnapTypes
<1>2. CASE snapSetup.generator \/ "catalog" \notin root.has
  <2>1. root' = root
    BY <1>2 DEF DropRows
  <2>2. Untroubled => Torn(root) = {}
    BY <1>2, ZeroMaps DEF Untroubled, SnapIInv, CopiesExact, Whole, Torn
  <2>3. SnapTypes'
    BY <1>1, <2>1, QuietIs DEF SnapIInv, SnapTypes, Quiet, TaskOf
  <2>4. WritersApart' /\ CatalogBeforeArrays' /\ CopiesExact'
    BY <1>1, <2>1, QuietIs DEF SnapIInv, WritersApart, CatalogBeforeArrays, CopiesExact
  <2>5. TornOnlyInCalls'
    BY <1>1, <2>1, <2>2, QuietIs DEF SnapIInv, TornOnlyInCalls, Untroubled
  <2> QED
    BY <2>3, <2>4, <2>5 DEF SnapIInv
<1>3. CASE ~(snapSetup.generator \/ "catalog" \notin root.has)
  <2> DEFINE r == [v \in SnapVars |-> IF v \in task.todo THEN 0 ELSE root.rows[v]]
  <2>1. r \in RowMaps
    BY <1>1, TreeIs, FilesAre DEF RowMaps
  <2>2. root' \in Trees /\ root'.rows = r /\ root'.data = root.data /\ root'.has = root.has
    BY <1>1, <1>3, <2>1 DEF DropRows, Trees
  <2>3. ASSUME Untroubled, NEW v \in Torn(root') PROVE FALSE
    <3>1. v \in SnapVars /\ r[v] # 0
      BY <2>2, <2>3 DEF Torn
    <3>2. v \notin task.todo /\ r[v] = root.rows[v]
      BY <3>1
    <3>3. v \in Torn(root)
      BY <2>2, <2>3, <3>1, <3>2, TornByItself
    <3> QED
      BY <1>1, <2>3, <3>2, <3>3 DEF SnapIInv, TornOnlyInCalls
  <2>4. SnapTypes'
    BY <1>1, <2>2, QuietIs DEF SnapIInv, SnapTypes, Quiet, TaskOf
  <2>5. WritersApart' /\ CatalogBeforeArrays'
    BY <1>1, <2>2, QuietIs DEF SnapIInv, WritersApart, CatalogBeforeArrays
  <2>6. CopiesExact'
    BY <1>1, <1>3, <2>2, QuietIs DEF SnapIInv, CopiesExact, Whole
  <2>7. TornOnlyInCalls'
    BY <1>1, <2>3, QuietIs DEF SnapIInv, TornOnlyInCalls, Untroubled
  <2> QED
    BY <2>4, <2>5, <2>6, <2>7 DEF SnapIInv
<1> QED
  BY <1>2, <1>3

-----------------------------------------------------------------------------
LEMMA SnapStepKept ==
    ASSUME SnapIInv, task.at = "save", CopyStep(snap, root) PROVE Kept(task, snap, task', snap', root)
<1>1. /\ snap \in Trees /\ root \in Trees /\ task \in Tasks
      /\ Whole(snap) /\ Listed(snap, root, task) /\ Blank(snap, task)
      /\ task.cube \cup task.files # {} => "cube" \notin task.todo
  BY DEF SnapIInv, SnapTypes, CopiesExact
<1>2. CASE \E x \in TopLevel : CopyEntry(x, snap, root)
  <2>1. PICK x \in TopLevel : EntryStep(x, task, snap, task', snap', root)
    BY <1>2 DEF CopyEntry, EntryStep
  <2> QED
    BY <1>1, <2>1, EntryKeeps
<1>3. CASE \E v \in SnapVars : EnterArray(v, snap, root)
  <2>1. PICK v \in SnapVars : EnterStep(v, task, snap, task', snap', root)
    BY <1>3 DEF EnterArray, EnterStep
  <2> QED
    BY <1>1, <2>1, EnterKeeps
<1>4. CASE \E f \in SnapFiles : CopyFile(f, snap, root)
  <2>1. PICK f \in SnapFiles : FileStep(f, task, snap, task', snap', root)
    BY <1>4 DEF CopyFile, FileStep
  <2> QED
    BY <1>1, <2>1, FileKeeps
<1> QED
  BY <1>2, <1>3, <1>4 DEF CopyStep

LEMMA RootStepKept ==
    ASSUME SnapIInv, task.at = "restore", CopyStep(root, snap) PROVE Kept(task, root, task', root', snap)
<1>1. /\ snap \in Trees /\ root \in Trees /\ task \in Tasks
      /\ Whole(root) /\ Listed(root, snap, task) /\ Blank(root, task)
      /\ task.cube \cup task.files # {} => "cube" \notin task.todo
  BY DEF SnapIInv, SnapTypes, CopiesExact
<1>2. CASE \E x \in TopLevel : CopyEntry(x, root, snap)
  <2>1. PICK x \in TopLevel : EntryStep(x, task, root, task', root', snap)
    BY <1>2 DEF CopyEntry, EntryStep
  <2> QED
    BY <1>1, <2>1, EntryKeeps
<1>3. CASE \E v \in SnapVars : EnterArray(v, root, snap)
  <2>1. PICK v \in SnapVars : EnterStep(v, task, root, task', root', snap)
    BY <1>3 DEF EnterArray, EnterStep
  <2> QED
    BY <1>1, <2>1, EnterKeeps
<1>4. CASE \E f \in SnapFiles : CopyFile(f, root, snap)
  <2>1. PICK f \in SnapFiles : FileStep(f, task, root, task', root', snap)
    BY <1>4 DEF CopyFile, FileStep
  <2> QED
    BY <1>1, <2>1, FileKeeps
<1> QED
  BY <1>2, <1>3, <1>4 DEF CopyStep

LEMMA SnapshotFilled ==
    ASSUME SnapIInv, CopyToSnapshot PROVE SnapIInv'
<1>1. /\ task.at = "save" /\ root \in Trees /\ snap \in Trees
      /\ UNCHANGED <<snapSetup, root, writing, touched, kept>>
      /\ doubtful' = (IF "cube" \in task.todo \ task'.todo /\ "catalog" \in task.todo THEN SnapVars ELSE doubtful)
  BY DEF CopyToSnapshot, SnapIInv, SnapTypes
<1>2. Kept(task, snap, task', snap', root)
  BY SnapStepKept DEF CopyToSnapshot
<1>3. SnapTypes'
  BY <1>1, <1>2 DEF SnapIInv, SnapTypes, Kept
<1>4. WritersApart'
  BY <1>1, <1>2, QuietIs DEF SnapIInv, WritersApart, Kept
<1>5. CopiesExact'
  <2>1. Copying(snap', root, task', SnapVars \ touched)
    BY <1>1, <1>2, CopyingKept DEF SnapIInv, CopiesExact
  <2> QED
    BY <1>1, <1>2, <2>1 DEF SnapIInv, CopiesExact, Kept
<1>6. ASSUME NEW v \in SnapVars \ doubtful' PROVE Sure(v)'
  <2>1. Sure(v) /\ ~("cube" \in task.todo \ task'.todo /\ "catalog" \in task.todo)
    BY <1>1, <1>6 DEF SnapIInv, CatalogBeforeArrays
  <2>2. "cube" \in snap'.has => "catalog" \notin task'.todo
    BY <1>2, <2>1 DEF Kept, Sure
  <2>3. snap'.rows[v] # 0 => Stands(root, v, snap'.rows[v])
    BY <1>1, <1>2, <2>1, TornIs DEF Kept, Sure
  <2>4. ASSUME "cube" \in snap'.has, snap'.rows[v] # 0, NEW f \in FilesOf(v), Done(snap', task', f)
        PROVE  snap'.data[f] = root.data[f]
    <3>1. CASE snap'.data[f] = root.data[f]
      BY <3>1
    <3>2. CASE Done(snap, task, f) /\ snap'.data[f] = snap.data[f]
      <4>1. "cube" \in snap.has /\ "catalog" \notin task.todo
        BY <2>1, <3>2 DEF Done, Sure
      <4>2. snap.rows[v] # 0
        BY <1>2, <2>4, <4>1 DEF Kept
      <4> QED
        BY <2>1, <3>2, <4>1, <4>2 DEF Sure
    <3> QED
      BY <1>2, <2>4, <3>1, <3>2, FilesAre DEF Kept
  <2> QED
    BY <1>1, <2>1, <2>2, <2>3, <2>4 DEF Sure
<1>7. CatalogBeforeArrays'
  BY <1>1, <1>6 DEF SnapIInv, CopiesExact, CatalogBeforeArrays
<1>8. TornOnlyInCalls'
  BY <1>1, <1>2 DEF SnapIInv, TornOnlyInCalls, Untroubled, Written, Kept
<1> QED
  BY <1>3, <1>4, <1>5, <1>7, <1>8 DEF SnapIInv

LEMMA RootFilled ==
    ASSUME SnapIInv, CopyToRoot PROVE SnapIInv'
<1>1. /\ task.at = "restore" /\ UNCHANGED <<snapSetup, snap, writing, touched, doubtful, kept>>
  BY DEF CopyToRoot
<1>2. Kept(task, root, task', root', snap)
  BY RootStepKept DEF CopyToRoot
<1>3. SnapTypes'
  BY <1>1, <1>2 DEF SnapIInv, SnapTypes, Kept
<1>4. WritersApart' /\ CatalogBeforeArrays'
  BY <1>1, <1>2, QuietIs DEF SnapIInv, WritersApart, CatalogBeforeArrays, Kept
<1>5. CopiesExact'
  <2>1. Copying(root', snap, task', SnapVars)
    BY <1>1, <1>2, CopyingKept DEF SnapIInv, CopiesExact
  <2> QED
    BY <1>1, <1>2, <2>1 DEF SnapIInv, CopiesExact, Kept
<1>6. TornOnlyInCalls'
  BY <1>1, <1>2 DEF SnapIInv, TornOnlyInCalls, Untroubled, Kept
<1> QED
  BY <1>3, <1>4, <1>5, <1>6 DEF SnapIInv

LEMMA SaveDone ==
    ASSUME SnapIInv, Saved PROVE SnapIInv'
<1>1. /\ task.at = "save" /\ task' = Quiet /\ root \in Trees /\ snap \in Trees
      /\ task.todo = {} /\ task.cube = {} /\ task.files = {}
      /\ UNCHANGED <<snapSetup, root, writing, touched, doubtful>> /\ kept = {}
  BY DEF Saved, CopiedAll, SnapIInv, SnapTypes, CopiesExact
<1>2. /\ snap.has = root.has
      /\ \A v \in SnapVars \ touched : /\ snap.rows[v] = root.rows[v]
                                      /\ \A f \in FilesOf(v) : snap.data[f] = root.data[f]
  BY <1>1, CopyDone, FilesAre DEF SnapIInv, CopiesExact
<1> DEFINE full == [snap EXCEPT !.has = snap.has \cup {"marker"}]
           tree0 == [root EXCEPT !.has = root.has \cup {"marker"}]
<1>0. (kept' = {} /\ snap' = snap) \/ (kept' = {tree0} /\ snap' = full)
  BY <1>1 DEF Saved
<1>01. /\ full \in Trees /\ full.data = snap.data /\ full.rows = snap.rows /\ full.has = snap.has \cup {"marker"}
       /\ tree0 \in Trees /\ tree0.data = root.data /\ tree0.rows = root.rows /\ tree0.has = root.has \cup {"marker"}
  <2>1. root.has \cup {"marker"} \in SUBSET TopLevel /\ snap.has \cup {"marker"} \in SUBSET TopLevel
    BY <1>1, TreeIs DEF TopLevel
  <2> QED
    BY <1>1, <2>1, WithEntries
<1> HIDE DEF full, tree0
<1>3. snap'.data = snap.data /\ snap'.rows = snap.rows /\ snap' \in Trees
  BY <1>0, <1>01, <1>1
<1>4. \/ kept' = {} /\ snap' = snap
      \/ /\ snap'.has = snap.has \cup {"marker"}
         /\ \E tree \in Trees : /\ kept' = {tree} /\ tree.has = root.has \cup {"marker"}
                               /\ tree.rows = root.rows /\ tree.data = root.data
  BY <1>0, <1>01
<1>5. Torn(snap) \subseteq doubtful
  <2>1. ASSUME NEW v \in SnapVars, v \notin doubtful, snap.rows[v] # 0 PROVE v \notin Torn(snap)
    <3>1. Sure(v)
      BY <1>1, <2>1 DEF SnapIInv, CatalogBeforeArrays
    <3>2. \A f \in FilesOf(v) : snap.data[f] = root.data[f]
      <4>1. CASE "cube" \in snap.has
        BY <1>1, <2>1, <3>1, <4>1 DEF Sure, Done
      <4>2. CASE "cube" \notin snap.has
        BY <1>2, <4>2, FilesAre, ZeroMaps DEF SnapIInv, CopiesExact, Whole
      <4> QED
        BY <4>1, <4>2
    <3>3. Stands(snap, v, snap.rows[v])
      BY <2>1, <3>1, <3>2 DEF Sure, Stands
    <3> QED
      BY <1>1, <3>3, TornIs
  <2> QED
    BY <2>1 DEF Torn
<1>6. SnapTypes'
  BY <1>1, <1>3, <1>4, QuietIs DEF SnapIInv, SnapTypes, Quiet, TaskOf
<1>7. WritersApart'
  BY <1>1 DEF SnapIInv, WritersApart
<1>8. CopiesExact'
  <2>1. Whole(snap')
    BY <1>3, <1>4 DEF SnapIInv, CopiesExact, Whole
  <2>2. \A tree \in kept' :
          /\ snap'.has = tree.has
          /\ \A v \in SnapVars \ touched :
               snap'.rows[v] = tree.rows[v] /\ \A f \in FilesOf(v) : snap'.data[f] = tree.data[f]
    BY <1>2, <1>3, <1>4
  <2> QED
    BY <1>1, <2>1, <2>2, QuietIs DEF SnapIInv, CopiesExact
<1>9. Torn(snap') = Torn(snap)
  BY <1>3 DEF Torn
<1>10. CatalogBeforeArrays'
  BY <1>1, <1>5, <1>9, QuietIs DEF CatalogBeforeArrays
<1>11. TornOnlyInCalls'
  <2>1. ASSUME Untroubled PROVE Torn(snap) = {} /\ Torn(root) \subseteq Written
    <3>1. touched = {} /\ writing = {}
      BY <1>1, <2>1, QuietIs DEF SnapIInv, CopiesExact, WritersApart, Untroubled
    <3>2. Torn(snap) \subseteq Torn(root)
      BY <1>2, <3>1, TornByItself DEF Torn
    <3> QED
      BY <1>1, <2>1, <3>1, <3>2 DEF SnapIInv, TornOnlyInCalls, Written
  <2> QED
    BY <1>1, <1>9, <2>1, QuietIs DEF TornOnlyInCalls, Untroubled, Written
<1> QED
  BY <1>6, <1>7, <1>8, <1>10, <1>11 DEF SnapIInv

LEMMA RestoredSame ==
    ASSUME SnapIInv, task.at = "restore", CopiedAll PROVE root = snap
<1>1. /\ root \in Trees /\ snap \in Trees /\ task.todo = {} /\ task.cube = {} /\ task.files = {}
      /\ Whole(snap) /\ Listed(root, snap, task) /\ Blank(root, task) /\ Copying(root, snap, task, SnapVars)
  BY DEF SnapIInv, SnapTypes, CopiesExact, CopiedAll
<1>2. /\ root.has = snap.has /\ \A v \in SnapVars : root.rows[v] = snap.rows[v]
      /\ \A f \in SnapFiles : root.data[f] = snap.data[f]
  BY <1>1, CopyDone, FilesAre
<1> QED
  BY <1>1, <1>2, SameTree

LEMMA RestoreDone ==
    ASSUME SnapIInv, Restored PROVE SnapIInv'
<1>1. /\ task.at = "restore" /\ task' = Quiet /\ root = snap
      /\ UNCHANGED <<snapSetup, root, snap, writing, touched, doubtful, kept>>
  BY RestoredSame DEF Restored
<1>2. SnapTypes'
  BY <1>1, QuietIs DEF SnapIInv, SnapTypes, Quiet, TaskOf
<1>3. WritersApart' /\ CatalogBeforeArrays'
  BY <1>1, QuietIs DEF SnapIInv, WritersApart, CatalogBeforeArrays
<1>4. CopiesExact'
  BY <1>1, QuietIs DEF SnapIInv, CopiesExact
<1>5. TornOnlyInCalls'
  BY <1>1, QuietIs DEF SnapIInv, TornOnlyInCalls, Untroubled
<1> QED
  BY <1>2, <1>3, <1>4, <1>5 DEF SnapIInv

LEMMA SomeoneDies ==
    ASSUME SnapIInv, SnapDies PROVE SnapIInv'
<1>1. /\ snapSetup.dies /\ task' \in {task, Quiet} /\ writing' \in {writing, {}}
      /\ UNCHANGED <<snapSetup, root, snap, touched, doubtful, kept>>
  BY DEF SnapDies
<1>2. SnapTypes'
  <2>1. task' \in Tasks /\ (task'.at = "idle" => task' = Quiet)
        /\ (task'.at = "drop" => task'.todo \subseteq SnapVars /\ task'.cube = {} /\ task'.files = {})
        /\ (task'.cube \cup task'.files # {} => "cube" \notin task'.todo)
    <3>1. CASE task' = Quiet
      BY <3>1, QuietIs DEF Quiet, TaskOf
    <3>2. CASE task' = task
      BY <3>2 DEF SnapIInv, SnapTypes
    <3> QED
      BY <1>1, <3>1, <3>2
  <2>2. writing' = {} \/ \E v \in SnapVars : \E n \in 1 .. SnapVersions[v] : writing' = {[var |-> v, version |-> n]}
    BY <1>1 DEF SnapIInv, SnapTypes
  <2> QED
    BY <1>1, <2>1, <2>2 DEF SnapIInv, SnapTypes
<1>3. WritersApart' /\ CatalogBeforeArrays'
  BY <1>1, QuietIs DEF SnapIInv, WritersApart, CatalogBeforeArrays, Sure
<1>4. CopiesExact'
  BY <1>1, QuietIs DEF SnapIInv, CopiesExact
<1>5. TornOnlyInCalls'
  BY <1>1 DEF TornOnlyInCalls, Untroubled
<1> QED
  BY <1>2, <1>3, <1>4, <1>5 DEF SnapIInv

LEMMA RemainsAre ==
    ASSUME NEW tree \in Trees, NEW t \in Remains(tree) PROVE t \in Trees /\ Whole(t)
<1>1. PICK has \in SUBSET tree.has, files \in SUBSET SnapFiles :
        t = [data |-> [f \in SnapFiles |-> IF "cube" \in has /\ f \in files THEN tree.data[f] ELSE 0],
             rows |-> IF "catalog" \in has THEN tree.rows ELSE NoRows,
             has |-> has]
  BY DEF Remains
<1>2. [f \in SnapFiles |-> IF "cube" \in has /\ f \in files THEN tree.data[f] ELSE 0] \in DataMaps
  BY TreeIs, FilesAre DEF DataMaps
<1>3. t \in Trees
  BY <1>1, <1>2, TreeIs, ZeroMaps DEF Trees
<1>4. "cube" \notin t.has => t.data = NoData
  BY <1>1 DEF NoData
<1>5. "catalog" \notin t.has => t.rows = NoRows
  BY <1>1
<1> QED
  BY <1>3, <1>4, <1>5 DEF Whole

LEMMA RemovalCut ==
    ASSUME SnapIInv, RemovalDies PROVE SnapIInv'
<1>1. /\ snapSetup.dies /\ task = Quiet /\ UNCHANGED <<snapSetup, writing, task, touched, doubtful>>
      /\ root \in Trees /\ snap \in Trees
  BY DEF RemovalDies, SnapIInv, SnapTypes
<1>2. /\ root' \in Trees /\ Whole(root') /\ snap' \in Trees /\ Whole(snap')
      /\ (kept' = {} /\ root' = root) \/ (kept' = kept /\ snap' = snap /\ writing = {})
  BY <1>1, RemainsAre DEF RemovalDies, SnapIInv, CopiesExact
<1>3. SnapTypes'
  BY <1>1, <1>2 DEF SnapIInv, SnapTypes
<1>4. WritersApart'
  BY <1>1, <1>2 DEF SnapIInv, WritersApart
<1>5. CopiesExact'
  BY <1>1, <1>2, QuietIs DEF SnapIInv, CopiesExact
<1>6. CatalogBeforeArrays' /\ TornOnlyInCalls'
  BY <1>1, <1>2, QuietIs DEF SnapIInv, CatalogBeforeArrays, TornOnlyInCalls, Untroubled
<1> QED
  BY <1>3, <1>4, <1>5, <1>6 DEF SnapIInv

-----------------------------------------------------------------------------
LEMMA SnapInductive == SnapIInv /\ [SnapNext]_snapVars => SnapIInv'
<1> SUFFICES ASSUME SnapIInv, [SnapNext]_snapVars PROVE SnapIInv'
  OBVIOUS
<1>1. ASSUME NEW v \in SnapVars, NEW n \in 1 .. SnapVersions[v], WriteArray(v, n) PROVE SnapIInv'
  BY <1>1, ArrayBegun
<1>2. ASSUME NEW v \in SnapVars, WriteRow(v) PROVE SnapIInv'
  BY <1>2, RowWritten
<1>3. ASSUME NEW f \in SnapFiles, EraseFile(f) \/ WriteFile(f) \/ DropFile(f) PROVE SnapIInv'
  BY <1>3, FileErased, FileWritten, FileDropped
<1>4. ASSUME NEW overwrite \in BOOLEAN, Save(overwrite) \/ Restore(overwrite) PROVE SnapIInv'
  BY <1>4, SaveStarted, RestoreStarted
<1>5. CASE CopyToSnapshot \/ CopyToRoot \/ Saved \/ Restored
  BY <1>5, SnapshotFilled, RootFilled, SaveDone, RestoreDone
<1>6. CASE DropRows \/ SnapDies \/ RemovalDies
  BY <1>6, RowsDropped, SomeoneDies, RemovalCut
<1>7. ASSUME NEW vs \in SUBSET SnapVars, Drop(vs) PROVE SnapIInv'
  BY <1>7, DropStarted
<1>8. CASE UNCHANGED snapVars
  <2>1. UNCHANGED <<snapSetup, root, snap, writing, task, touched, doubtful, kept>>
    BY <1>8 DEF snapVars
  <2>2. SnapTypes' /\ WritersApart' /\ CopiesExact'
    BY <2>1 DEF SnapIInv, SnapTypes, WritersApart, CopiesExact
  <2>3. CatalogBeforeArrays' /\ TornOnlyInCalls'
    BY <2>1 DEF SnapIInv, CatalogBeforeArrays, Sure, TornOnlyInCalls, Untroubled, Written
  <2> QED
    BY <2>2, <2>3 DEF SnapIInv
<1> QED
  BY <1>1, <1>2, <1>3, <1>4, <1>5, <1>6, <1>7, <1>8 DEF SnapNext

LEMMA SnapInvariant == SnapSpec => []SnapIInv
<1>1. SnapInit => SnapIInv
  BY SnapInitially
<1>2. SnapIInv /\ [SnapNext]_snapVars => SnapIInv'
  BY SnapInductive
<1> QED
  BY <1>1, <1>2, PTL DEF SnapSpec

\* Trees hold versions that were written and the four entries of a cube, a call is
\* of one kind, and a directory that is being copied is not entered again
\* (snapshot.py:58-148).
THEOREM SnapType == SnapSpec => []SnapTypeOK
<1>1. ASSUME SnapIInv PROVE SnapTypeOK
  <2>1. \A tree \in Trees : VersionsOK(tree) /\ tree.has \subseteq TopLevel
    BY TreeIs DEF VersionsOK, DataMaps, RowMaps
  <2>2. {root, snap} \cup kept \subseteq Trees
    BY <1>1 DEF SnapIInv, SnapTypes
  <2>3. Cardinality(kept) <= 1
    <3>1. CASE kept = {}
      BY <3>1, FS_EmptySet
    <3>2. ASSUME NEW tree, kept = {tree} PROVE Cardinality(kept) <= 1
      <4>1. Cardinality({tree}) = 1
        BY FS_Singleton
      <4> QED
        BY <3>2, <4>1
    <3> QED
      BY <1>1, <3>1, <3>2 DEF SnapIInv, SnapTypes
  <2>4. Cardinality(writing) <= 1
    <3>1. CASE writing = {}
      BY <3>1, FS_EmptySet
    <3>2. ASSUME NEW w, writing = {w} PROVE Cardinality(writing) <= 1
      <4>1. Cardinality({w}) = 1
        BY FS_Singleton
      <4> QED
        BY <3>2, <4>1
    <3> QED
      BY <1>1, <3>1, <3>2 DEF SnapIInv, SnapTypes
  <2>5. /\ touched \subseteq SnapVars /\ doubtful \subseteq SnapVars
        /\ task.at \in {"idle", "save", "restore", "drop"} /\ task.todo \subseteq TopLevel \cup SnapVars
        /\ task.cube \subseteq SnapVars /\ task.files \subseteq SnapFiles
        /\ (task.cube \cup task.files # {} => "cube" \notin task.todo)
    BY <1>1 DEF SnapIInv, SnapTypes, Tasks
  <2> QED
    BY <2>1, <2>2, <2>3, <2>4, <2>5 DEF SnapTypeOK
<1> QED
  BY <1>1, SnapInvariant, PTL

\* A finished snapshot is the state the cube had of every variable nobody wrote
\* while it was made; a restore that ends gives back exactly the snapshot, whatever
\* died in the directory before; and no row of a snapshot or of the cube claims more
\* than its array, but of variables torn before, erased beside the save or copied
\* before the catalog, or where a process died, a save met a writer or drop was given
\* a one-shot iterable (snapshot.py:58-148, store.py:44-133).
THEOREM SnapSound == SnapSpec => []SnapshotsAreSound
<1>1. ASSUME SnapIInv PROVE SnapshotsAreSound
  <2>1. SnapshotIsFaithful
    BY <1>1 DEF SnapIInv, CopiesExact, SnapshotIsFaithful
  <2>2. RestoredIsTheSnapshot
    BY <1>1, RestoredSame DEF RestoredIsTheSnapshot
  <2>3. CatalogFirstIsSound
    BY <1>1 DEF SnapIInv, CatalogBeforeArrays, CatalogFirstIsSound
  <2>4. NoClaimWithoutArray
    BY <1>1, QuietIs DEF SnapIInv, TornOnlyInCalls, Untroubled, Written, NoClaimWithoutArray
  <2> QED
    BY <2>1, <2>2, <2>3, <2>4 DEF SnapshotsAreSound
<1> QED
  BY <1>1, SnapInvariant, PTL

-----------------------------------------------------------------------------
(* --- ContentCache ----------------------------------------------------------- *)

Ats == {"idle", "copy", "rename", "stat", "meta", "fill", "sort", "evict", "unmeta", "clear"}
Calls == [at : Ats, entries : Seq(CacheKeys), listed : SUBSET CacheKeys,
          described : SUBSET CacheKeys, current : Nat]
Keys(list) == {list[i] : i \in DOMAIN list}
Once(list) == \A i, j \in DOMAIN list : list[i] = list[j] => i = j

CacheTypes ==
    /\ cacheSetup \in CacheSetups
    /\ payload \in [CacheKeys -> {"none", "whole"}] /\ metadata \in [CacheKeys -> Files]
    /\ calls \in 0 .. cacheSetup.calls
    /\ call \in [CacheProcs -> Calls] /\ news \in [CacheProcs -> SUBSET CacheKeys]
    /\ \A p \in CacheProcs :
         /\ call[p].at \notin {"idle", "sort", "evict", "clear"} => call[p].entries # <<>>
         /\ call[p].at # "idle" => p \in cacheSetup.procs

\* rel is one order of keys.
InOrder(rel, keys) ==
    /\ rel \subseteq keys \X keys
    /\ \A j, k \in keys : <<j, k>> \in rel <=> j # k /\ <<k, j>> \notin rel
    /\ \A i, j, k \in keys : <<i, j>> \in rel /\ <<j, k>> \in rel => <<i, k>> \in rel

\* What is in the cache and was not put there since an eviction listed it is among
\* the entries that the eviction has before it, and counted.
Trim(c, cached, new) ==
    /\ c.at = "sort" => cached \ new \subseteq c.listed /\ SizeOf(c.listed) <= c.current
    /\ c.at \in {"evict", "unmeta"} =>
         /\ Once(c.entries) /\ cached \ new \subseteq Keys(c.entries)
         /\ SizeOf(Keys(c.entries)) <= c.current
    /\ c.at = "unmeta" => Head(c.entries) \notin cached \ new
TrimInv == \A p \in CacheProcs : Trim(call[p], Cached, news[p])

\* With one process, what an eviction has before it is the cache, in the order of
\* use, but for what it could not list or unlink.
Sorted(list, rel) == \A i, j \in DOMAIN list : i < j => <<list[j], list[i]>> \notin rel
ExactCall(c, cached, new, rel, fails) ==
    /\ c.at = "sort" => c.listed = cached \ new
    /\ c.at = "evict" => Keys(c.entries) = cached \ new /\ Sorted(c.entries, rel)
    /\ c.at = "unmeta" => Keys(Tail(c.entries)) = cached \ new /\ Sorted(Tail(c.entries), rel)
    /\ ~fails =>
         /\ c.at \in {"sort", "evict", "unmeta"} => new = {}
         /\ c.at \in {"sort", "evict"} => c.current = SizeOf(cached)
         /\ c.at = "unmeta" => c.current = SizeOf(cached) + CacheBytes[Head(c.entries)]
ExactInv ==
    OneProcess => \A p \in CacheProcs : ExactCall(call[p], Cached, news[p], older, cacheSetup.fails)

\* Metadata that are not what they should be are some process's, which is about to
\* put them right.
Removes == cacheSetup.evicts \/ cacheSetup.clears
Orderly == ~cacheSetup.dies /\ ~cacheSetup.fails /\ (OneProcess \/ ~Removes)
Doing(fs, ats, k) == \E p \in CacheProcs : fs[p].at \in ats /\ Head(fs[p].entries) = k
Clearing(fs) == \E p \in CacheProcs : fs[p].at = "clear"
KeyFits(k, cached, meta, fs) ==
    \/ Clearing(fs)
    \/ /\ k \notin cached => meta[k] = "none" \/ Doing(fs, {"unmeta"}, k)
       /\ k \in cached /\ meta[k] = "none" => Doing(fs, {"stat", "meta"}, k)
       /\ meta[k] = "torn" => Doing(fs, {"fill"}, k)
CallFits(c, cached, meta, removes) ==
    /\ c.at \in {"stat", "meta", "fill"} => Head(c.entries) \in cached
    /\ c.at = "fill" => meta[Head(c.entries)] # "none"
    /\ c.at = "unmeta" => Head(c.entries) \notin cached
    /\ c.at \in {"sort", "evict", "unmeta", "clear"} => removes
    /\ c.at = "sort" => c.listed \subseteq c.described
    /\ c.at \in {"evict", "unmeta"} => Keys(c.entries) \subseteq c.described
    /\ c.at = "clear" => c.listed = cached /\ c.described = {k \in CacheKeys : meta[k] # "none"}
MetaInv ==
    Orderly => /\ \A k \in CacheKeys : KeyFits(k, Cached, metadata, call)
               /\ \A p \in CacheProcs : CallFits(call[p], Cached, metadata, Removes)

CacheIInv == CacheTypes /\ InOrder(older, Cached) /\ TrimInv /\ ExactInv /\ MetaInv

-----------------------------------------------------------------------------
(* sizes *)

BytesOf(k) == {k} \X (1 .. CacheBytes[k])
Units(keys) == UNION {BytesOf(k) : k \in keys}

LEMMA SizeIs == \A keys : SizeOf(keys) = Cardinality(Units(keys))
  BY DEF SizeOf, Units, BytesOf

LEMMA BytesFinite ==
    ASSUME NEW k \in CacheKeys
    PROVE  IsFiniteSet(BytesOf(k)) /\ Cardinality(BytesOf(k)) = CacheBytes[k] /\ CacheBytes[k] \in Nat
<1>1. CacheBytes[k] \in Nat
  BY CacheAssumption DEF CacheAssumption
<1>2. IsFiniteSet(1 .. CacheBytes[k]) /\ Cardinality(1 .. CacheBytes[k]) = CacheBytes[k]
  BY <1>1, FS_Interval
<1>3. IsFiniteSet({k}) /\ Cardinality({k}) = 1
  BY FS_Singleton
<1>4. IsFiniteSet(BytesOf(k)) /\ Cardinality(BytesOf(k)) = 1 * CacheBytes[k]
  BY <1>2, <1>3, FS_Product DEF BytesOf
<1> QED
  BY <1>1, <1>4

LEMMA UnitsFinite ==
    ASSUME NEW keys \in SUBSET CacheKeys
    PROVE  IsFiniteSet(Units(keys)) /\ SizeOf(keys) \in Nat
<1>1. IsFiniteSet(keys)
  BY CacheAssumption, FS_Subset DEF CacheAssumption
<1> DEFINE sets == {BytesOf(k) : k \in keys}
           f == [k \in keys |-> BytesOf(k)]
<1>2. f \in Surjection(keys, sets)
  BY DEF Surjection
<1>3. IsFiniteSet(sets)
  <2> HIDE DEF f, sets
  <2> QED
    BY <1>1, <1>2, FS_Surjection
<1>4. \A set \in sets : IsFiniteSet(set)
  BY BytesFinite
<1>5. IsFiniteSet(Units(keys))
  <2> HIDE DEF sets
  <2>1. IsFiniteSet(UNION sets)
    BY <1>3, <1>4, FS_UNION
  <2> QED
    BY <2>1 DEF Units, sets
<1> QED
  BY <1>5, FS_CardinalityType, SizeIs

LEMMA SizeGrows ==
    ASSUME NEW keys \in SUBSET CacheKeys, NEW fewer \in SUBSET keys
    PROVE  SizeOf(fewer) <= SizeOf(keys)
<1>1. Units(fewer) \subseteq Units(keys)
  BY DEF Units
<1> QED
  BY <1>1, UnitsFinite, FS_Subset, SizeIs

LEMMA SizeWithout ==
    ASSUME NEW keys \in SUBSET CacheKeys, NEW k \in keys
    PROVE  SizeOf(keys) = SizeOf(keys \ {k}) + CacheBytes[k]
<1>1. Units(keys) = Units(keys \ {k}) \cup BytesOf(k)
  BY DEF Units
<1>2. Units(keys \ {k}) \cap BytesOf(k) = {}
  BY DEF Units, BytesOf
<1>3. IsFiniteSet(Units(keys \ {k})) /\ SizeOf(keys \ {k}) \in Nat
  BY UnitsFinite
<1>4. IsFiniteSet(BytesOf(k)) /\ Cardinality(BytesOf(k)) = CacheBytes[k] /\ CacheBytes[k] \in Nat
  BY BytesFinite
<1>5. /\ Cardinality(Units(keys)) = Cardinality(Units(keys \ {k})) + Cardinality(BytesOf(k))
                                     - Cardinality(Units(keys \ {k}) \cap BytesOf(k))
  BY <1>1, <1>3, <1>4, FS_Union
<1>6. Cardinality(Units(keys \ {k}) \cap BytesOf(k)) = 0
  BY <1>2, FS_EmptySet
<1> QED
  BY <1>3, <1>4, <1>5, <1>6, SizeIs

LEMMA NothingHasNoSize == SizeOf({}) = 0
<1>1. Units({}) = {}
  BY DEF Units
<1> QED
  BY <1>1, FS_EmptySet, SizeIs

-----------------------------------------------------------------------------
(* the order of use *)

Without(rel, k) == {pair \in rel : k \notin {pair[1], pair[2]}}

LEMMA Forgotten ==
    ASSUME NEW rel, NEW keys, InOrder(rel, keys), NEW k
    PROVE  InOrder(Without(rel, k), keys \ {k})
  BY DEF InOrder, Without

LEMMA PlacedIs ==
    ASSUME NEW rel, NEW keys, InOrder(rel, keys), NEW k, NEW before \in SUBSET (keys \ {k}),
           \A pair \in Without(rel, k) : pair[2] \in before => pair[1] \in before
    PROVE  InOrder(Without(rel, k) \cup before \X {k} \cup {k} \X (keys \ (before \cup {k})), keys \cup {k})
<1> DEFINE old == Without(rel, k)
           new == old \cup before \X {k} \cup {k} \X (keys \ (before \cup {k}))
<1>1. InOrder(old, keys \ {k})
  BY Forgotten
<1>2. \A pair \in old : pair[1] # k /\ pair[2] # k
  BY DEF Without
<1> HIDE DEF old
<1>3. \A i, j \in keys \ {k} : <<i, j>> \in new <=> <<i, j>> \in old
  OBVIOUS
<1>4. \A j \in keys \ {k} : (<<j, k>> \in new <=> j \in before) /\ (<<k, j>> \in new <=> j \notin before)
  BY <1>1, <1>2 DEF InOrder
<1>5. <<k, k>> \notin new
  BY <1>2
<1>6. new \subseteq (keys \cup {k}) \X (keys \cup {k})
  BY <1>1 DEF InOrder
<1>7. \A i, j \in keys \ {k} : <<i, j>> \in old /\ j \in before => i \in before
  BY DEF old
<1> HIDE DEF new
<1>8. \A i, j \in keys \cup {k} : <<i, j>> \in new <=> i # j /\ <<j, i>> \notin new
  BY <1>1, <1>3, <1>4, <1>5 DEF InOrder
<1>9. ASSUME NEW h \in keys \cup {k}, NEW i \in keys \cup {k}, NEW j \in keys \cup {k},
             <<h, i>> \in new, <<i, j>> \in new
      PROVE  <<h, j>> \in new
  <2>1. CASE h # k /\ i # k /\ j # k
    BY <1>1, <1>3, <1>9, <2>1 DEF InOrder
  <2>2. CASE h = k
    <3>1. i # k /\ i \notin before
      BY <1>4, <1>5, <1>9, <2>2
    <3>2. j # k
      BY <1>4, <1>9, <3>1
    <3> QED
      BY <1>3, <1>4, <1>7, <1>9, <2>2, <3>1, <3>2
  <2>3. CASE i = k
    <3>1. h # k /\ j # k /\ h \in before /\ j \notin before
      BY <1>4, <1>5, <1>9, <2>3
    <3>2. h # j /\ ~(<<j, h>> \in old)
      BY <1>7, <3>1
    <3> QED
      BY <1>1, <1>3, <3>1, <3>2 DEF InOrder
  <2>4. CASE j = k /\ h # k /\ i # k
    BY <1>3, <1>4, <1>7, <1>9, <2>4
  <2> QED
    BY <2>1, <2>2, <2>3, <2>4
<1> QED
  BY <1>6, <1>8, <1>9 DEF InOrder, new, old

-----------------------------------------------------------------------------
(* lists of keys *)

LEMMA KeysOfList ==
    ASSUME NEW list \in Seq(CacheKeys)
    PROVE  Keys(list) \in SUBSET CacheKeys
  BY DEF Keys

LEMMA HeadAndTail ==
    ASSUME NEW list \in Seq(CacheKeys), list # <<>>
    PROVE  /\ Head(list) \in CacheKeys /\ Tail(list) \in Seq(CacheKeys)
           /\ Keys(list) = Keys(Tail(list)) \cup {Head(list)}
           /\ Once(list) => Once(Tail(list)) /\ Head(list) \notin Keys(Tail(list))
           /\ \A rel : Sorted(list, rel) =>
                 /\ Sorted(Tail(list), rel) /\ \A k \in Keys(Tail(list)) : <<k, Head(list)>> \notin rel
<1> DEFINE n == Len(list)  tail == Tail(list)
<1>1. n \in Nat \ {0} /\ DOMAIN list = 1 .. n /\ \A i \in 1 .. n : list[i] \in CacheKeys
  OBVIOUS
<1>2. /\ Head(list) = list[1] /\ tail \in Seq(CacheKeys) /\ Len(tail) = n - 1 /\ DOMAIN tail = 1 .. n - 1
      /\ \A i \in 1 .. n - 1 : tail[i] = list[i + 1]
  OBVIOUS
<1> HIDE DEF n, tail
<1>3. /\ 1 \in 1 .. n
      /\ \A i \in 1 .. n - 1 : i + 1 \in 1 .. n /\ i + 1 # 1 /\ 1 < i + 1
      /\ \A i \in 1 .. n : i # 1 => i - 1 \in 1 .. n - 1 /\ (i - 1) + 1 = i
      /\ \A i, j \in 1 .. n - 1 : (i + 1 = j + 1 => i = j) /\ (i < j => i + 1 < j + 1)
  BY <1>1
<1>4. \A i \in 1 .. n : i # 1 => tail[i - 1] = list[i]
  BY <1>2, <1>3
<1>5. Keys(list) = Keys(tail) \cup {list[1]}
  <2>1. ASSUME NEW k \in Keys(list) PROVE k \in Keys(tail) \cup {list[1]}
    <3>1. PICK i \in 1 .. n : list[i] = k
      BY <1>1 DEF Keys
    <3>2. CASE i # 1
      <4>1. i - 1 \in 1 .. n - 1 /\ tail[i - 1] = k
        BY <1>3, <1>4, <3>1, <3>2
      <4> QED
        BY <1>2, <4>1 DEF Keys
    <3> QED
      BY <3>1, <3>2
  <2>2. \A k \in Keys(tail) : k \in Keys(list)
    BY <1>1, <1>2, <1>3 DEF Keys
  <2>3. list[1] \in Keys(list)
    BY <1>1, <1>3 DEF Keys
  <2> QED
    BY <2>1, <2>2, <2>3
<1>6. ASSUME Once(list) PROVE Once(tail) /\ list[1] \notin Keys(tail)
  <2>1. ASSUME NEW i \in 1 .. n - 1, NEW j \in 1 .. n - 1, tail[i] = tail[j] PROVE i = j
    <3>1. list[i + 1] = list[j + 1] /\ i + 1 \in 1 .. n /\ j + 1 \in 1 .. n
      BY <1>2, <1>3, <2>1
    <3>2. i + 1 = j + 1
      BY <1>1, <1>6, <3>1 DEF Once
    <3> QED
      BY <1>3, <3>2
  <2>2. ASSUME NEW i \in 1 .. n - 1 PROVE tail[i] # list[1]
    <3>1. i + 1 \in 1 .. n /\ i + 1 # 1 /\ tail[i] = list[i + 1]
      BY <1>2, <1>3
    <3> QED
      BY <1>1, <1>3, <1>6, <3>1 DEF Once
  <2> QED
    BY <1>2, <2>1, <2>2 DEF Once, Keys
<1>7. ASSUME NEW rel, Sorted(list, rel)
      PROVE  Sorted(tail, rel) /\ \A k \in Keys(tail) : <<k, list[1]>> \notin rel
  <2>1. ASSUME NEW i \in 1 .. n - 1, NEW j \in 1 .. n - 1, i < j PROVE <<tail[j], tail[i]>> \notin rel
    <3>1. i + 1 \in 1 .. n /\ j + 1 \in 1 .. n /\ i + 1 < j + 1
      BY <1>3, <2>1
    <3>2. <<list[j + 1], list[i + 1]>> \notin rel
      BY <1>1, <1>7, <3>1 DEF Sorted
    <3> QED
      BY <1>2, <3>2
  <2>2. ASSUME NEW i \in 1 .. n - 1 PROVE <<tail[i], list[1]>> \notin rel
    <3>1. i + 1 \in 1 .. n /\ 1 < i + 1 /\ tail[i] = list[i + 1]
      BY <1>2, <1>3
    <3> QED
      BY <1>1, <1>3, <1>7, <3>1 DEF Sorted
  <2> QED
    BY <1>2, <2>1, <2>2 DEF Sorted, Keys
<1> QED
  BY <1>1, <1>2, <1>3, <1>5, <1>6, <1>7 DEF tail

-----------------------------------------------------------------------------
(* calls *)

Moved(c, at) == [c EXCEPT !.at = at]
WithList(c, list) == [c EXCEPT !.at = "evict", !.entries = list]
PassedCall(c) == [c EXCEPT !.at = "evict", !.entries = Tail(@)]
CountedCall(c) == [PassedCall(c) EXCEPT !.current = @ - CacheBytes[Head(c.entries)]]
ListedCall(keys, described) ==
    [at |-> "sort", entries |-> <<>>, listed |-> keys, described |-> described, current |-> SizeOf(keys)]

LEMMA IdleIs == Idle \in Calls /\ Idle.at = "idle"
  BY DEF Idle, Calls, Ats

LEMMA CallOfIs ==
    ASSUME NEW k \in CacheKeys
    PROVE  /\ CallOf("copy", k) \in Calls /\ CallOf("copy", k).at = "copy" /\ CallOf("copy", k).entries = <<k>>
           /\ CallOf("copy", k).entries # <<>>
<1> DEFINE list == <<k>>
<1>1. list \in Seq(CacheKeys) /\ list # <<>> /\ "copy" \in Ats
  BY DEF Ats
<1>2. CallOf("copy", k) = [at |-> "copy", entries |-> list, listed |-> {}, described |-> {}, current |-> 0]
  BY DEF CallOf
<1> HIDE DEF list
<1>3. /\ CallOf("copy", k) \in Calls /\ CallOf("copy", k).at = "copy" /\ CallOf("copy", k).entries = list
  BY <1>1, <1>2 DEF Calls
<1> QED
  BY <1>1, <1>3 DEF list

LEMMA MovedIs ==
    ASSUME NEW c \in Calls, NEW at \in Ats
    PROVE  /\ Moved(c, at) \in Calls /\ Moved(c, at).at = at /\ Moved(c, at).entries = c.entries
           /\ Moved(c, at).listed = c.listed /\ Moved(c, at).described = c.described
           /\ Moved(c, at).current = c.current
  BY DEF Moved, Calls

LEMMA WithEntriesIs ==
    ASSUME NEW c \in Calls, NEW list \in Seq(CacheKeys)
    PROVE  /\ WithList(c, list) \in Calls /\ WithList(c, list).at = "evict"
           /\ WithList(c, list).entries = list
           /\ WithList(c, list).described = c.described /\ WithList(c, list).current = c.current
  BY DEF WithList, Calls, Ats

LEMMA PassedIs ==
    ASSUME NEW c \in Calls, c.entries # <<>>
    PROVE  /\ PassedCall(c) \in Calls /\ PassedCall(c).at = "evict" /\ PassedCall(c).entries = Tail(c.entries)
           /\ PassedCall(c).described = c.described /\ PassedCall(c).current = c.current
  BY HeadAndTail DEF PassedCall, Calls, Ats

LEMMA CountedIs ==
    ASSUME NEW c \in Calls, c.entries # <<>>, c.current - CacheBytes[Head(c.entries)] \in Nat
    PROVE  /\ CountedCall(c) \in Calls /\ CountedCall(c).at = "evict" /\ CountedCall(c).entries = Tail(c.entries)
           /\ CountedCall(c).described = c.described
           /\ CountedCall(c).current = c.current - CacheBytes[Head(c.entries)]
<1> DEFINE d == PassedCall(c)  less == c.current - CacheBytes[Head(c.entries)]
<1>1. d \in Calls /\ d.at = "evict" /\ d.entries = Tail(c.entries) /\ d.described = c.described
      /\ d.current = c.current
  BY PassedIs
<1>2. CountedCall(c) = [d EXCEPT !.current = less]
  BY <1>1 DEF CountedCall
<1>3. less \in Nat
  OBVIOUS
<1> HIDE DEF d, less
<1>4. [d EXCEPT !.current = less] \in Calls /\ [d EXCEPT !.current = less].at = "evict"
      /\ [d EXCEPT !.current = less].entries = Tail(c.entries)
      /\ [d EXCEPT !.current = less].described = c.described /\ [d EXCEPT !.current = less].current = less
  BY <1>1, <1>3 DEF Calls
<1> QED
  BY <1>2, <1>4 DEF less

LEMMA ListedIs ==
    ASSUME NEW keys \in SUBSET CacheKeys, NEW described \in SUBSET CacheKeys
    PROVE  /\ ListedCall(keys, described) \in Calls /\ ListedCall(keys, described).at = "sort"
           /\ ListedCall(keys, described).listed = keys /\ ListedCall(keys, described).described = described
           /\ ListedCall(keys, described).current = SizeOf(keys)
<1>1. SizeOf(keys) \in Nat
  BY UnitsFinite
<1>3. <<>> \in Seq(CacheKeys) /\ "sort" \in Ats
  BY DEF Ats
<1> QED
  BY <1>1, <1>3 DEF ListedCall, Calls

LEMMA GoIs ==
    ASSUME call \in [CacheProcs -> Calls], NEW p \in CacheProcs, NEW c \in Calls, Go(p, c)
    PROVE  /\ call' \in [CacheProcs -> Calls] /\ call'[p] = c
           /\ \A q \in CacheProcs : q # p => call'[q] = call[q]
  BY DEF Go

\* The order of a sort: each key once, none before one that was used earlier.
LEMMA SortingIs ==
    ASSUME NEW keys \in SUBSET CacheKeys, NEW list \in Sortings(keys)
    PROVE  /\ list \in Seq(CacheKeys) /\ Once(list) /\ Keys(list) = keys
           /\ \A i, j \in DOMAIN list : i < j => ~LaterAccess(list[i], list[j])
<1>1. IsFiniteSet(keys) /\ Cardinality(keys) \in Nat
  BY CacheAssumption, FS_Subset, FS_CardinalityType DEF CacheAssumption
<1> DEFINE n == Cardinality(keys)
<1>2. /\ list \in [1 .. n -> keys] /\ \A k \in keys : \E i \in 1 .. n : list[i] = k
      /\ \A i, j \in 1 .. n : i < j => list[i] # list[j] /\ ~LaterAccess(list[i], list[j])
  BY DEF Sortings
<1> HIDE DEF n
<1>3. n \in Nat /\ DOMAIN list = 1 .. n
  BY <1>1, <1>2 DEF n
<1>4. list \in Seq(CacheKeys)
  <2>1. list \in [1 .. n -> CacheKeys]
    BY <1>2
  <2> QED
    BY <1>3, <2>1
<1>5. \A i, j \in 1 .. n : i = j \/ i < j \/ j < i
  BY <1>3
<1>6. Once(list)
  BY <1>2, <1>3, <1>5 DEF Once
<1>7. Keys(list) = keys
  BY <1>2, <1>3 DEF Keys
<1> QED
  BY <1>2, <1>3, <1>4, <1>6, <1>7

-----------------------------------------------------------------------------
(* what a step of one process leaves alone *)

Acts(p, c) ==
    /\ p \in cacheSetup.procs /\ c \in Calls /\ cacheSetup' = cacheSetup
    /\ call' \in [CacheProcs -> Calls] /\ call'[p] = c
    /\ \A q \in CacheProcs : q # p => call'[q] = call[q]

LEMMA CacheFacts ==
    ASSUME CacheTypes, NEW p \in CacheProcs
    PROVE  /\ call[p] \in Calls /\ call[p].at \in Ats /\ call[p].entries \in Seq(CacheKeys)
           /\ call[p].listed \in SUBSET CacheKeys /\ call[p].described \in SUBSET CacheKeys
           /\ call[p].current \in Nat
           /\ call[p].at # "idle" => p \in cacheSetup.procs
           /\ call[p].at \notin {"idle", "sort", "evict", "clear"} => call[p].entries # <<>>
           /\ call[p].entries # <<>> => KeyOf(p) \in CacheKeys
<1>1. call[p] \in Calls
  BY DEF CacheTypes
<1>2. call[p].entries # <<>> => KeyOf(p) \in CacheKeys
  BY <1>1, HeadAndTail DEF KeyOf, Calls
<1> QED
  BY <1>1, <1>2 DEF CacheTypes, Calls

LEMMA Acting ==
    ASSUME CacheTypes, NEW p \in CacheProcs, call[p].at # "idle", NEW c \in Calls, Go(p, c),
           cacheSetup' = cacheSetup
    PROVE  Acts(p, c)
  BY GoIs, CacheFacts DEF Acts, CacheTypes

LEMMA BeginActing ==
    ASSUME CacheTypes, NEW p \in CacheProcs, Begin(p), NEW c \in Calls, Go(p, c), cacheSetup' = cacheSetup
    PROVE  Acts(p, c)
  BY GoIs DEF Acts, CacheTypes, Begin

LEMMA OneMoreCall == \A n, limit \in Nat : n < limit => n + 1 \in 0 .. limit
  OBVIOUS

LEMMA CallsBegun ==
    ASSUME CacheTypes, NEW p \in CacheProcs, Begin(p)
    PROVE  calls' \in 0 .. cacheSetup.calls
<1>1. cacheSetup.calls \in Nat
  BY CacheAssumption DEF CacheAssumption, CacheTypes
<1>2. calls \in Nat /\ calls < cacheSetup.calls /\ calls' = calls + 1
  BY DEF CacheTypes, Begin
<1> QED
  BY <1>1, <1>2, OneMoreCall

LEMMA TypesStep ==
    ASSUME CacheTypes, NEW p \in CacheProcs, NEW c, Acts(p, c),
           payload' \in [CacheKeys -> {"none", "whole"}], metadata' \in [CacheKeys -> Files],
           calls' \in 0 .. cacheSetup.calls, news' \in [CacheProcs -> SUBSET CacheKeys],
           c.at \notin {"idle", "sort", "evict", "clear"} => c.entries # <<>>
    PROVE  CacheTypes'
<1>1. ASSUME NEW q \in CacheProcs
      PROVE  /\ call'[q].at \notin {"idle", "sort", "evict", "clear"} => call'[q].entries # <<>>
             /\ call'[q].at # "idle" => q \in cacheSetup.procs
  BY DEF CacheTypes, Acts
<1> QED
  BY <1>1 DEF CacheTypes, Acts

LEMMA TrimKeeps ==
    ASSUME NEW c, NEW cached, NEW new, NEW cached2, NEW new2, cached2 \ new2 \subseteq cached \ new,
           Trim(c, cached, new)
    PROVE  Trim(c, cached2, new2)
  BY DEF Trim

LEMMA TrimStep ==
    ASSUME TrimInv, NEW p \in CacheProcs, NEW c, Acts(p, c),
           \A q \in CacheProcs : q # p => Cached' \ news'[q] \subseteq Cached \ news[q],
           Trim(c, Cached', news'[p])
    PROVE  TrimInv'
<1>1. ASSUME NEW q \in CacheProcs PROVE Trim(call'[q], Cached', news'[q])
  <2>1. CASE q = p
    BY <2>1 DEF Acts
  <2>2. CASE q # p
    <3>1. call'[q] = call[q] /\ Trim(call[q], Cached, news[q])
      BY <2>2 DEF Acts, TrimInv
    <3> QED
      BY <2>2, <3>1, TrimKeeps
  <2> QED
    BY <2>1, <2>2
<1> QED
  BY <1>1 DEF TrimInv

LEMMA OthersIdle ==
    ASSUME CacheTypes, OneProcess, NEW p \in cacheSetup.procs, NEW q \in CacheProcs, q # p
    PROVE  call[q].at = "idle"
  BY DEF CacheTypes, OneProcess

LEMMA ExactStep ==
    ASSUME CacheTypes, NEW p \in CacheProcs, NEW c, Acts(p, c), 
           OneProcess => ExactCall(c, Cached', news'[p], older', cacheSetup.fails)
    PROVE  ExactInv'
<1>1. OneProcess' <=> OneProcess
  BY DEF OneProcess, Acts
<1>2. ASSUME OneProcess, NEW q \in CacheProcs PROVE ExactCall(call'[q], Cached', news'[q], older', cacheSetup.fails)
  <2>1. CASE q = p
    BY <1>2, <2>1 DEF Acts
  <2>2. CASE q # p
    <3>1. call'[q] = call[q] /\ call[q].at = "idle"
      BY <1>2, <2>2, OthersIdle DEF Acts
    <3> QED
      BY <3>1 DEF ExactCall
  <2> QED
    BY <2>1, <2>2
<1> QED
  BY <1>1, <1>2 DEF ExactInv, Acts

LEMMA ExactIdle ==
    ASSUME NEW c, c.at \notin {"sort", "evict", "unmeta"}, NEW cached, NEW new, NEW rel, NEW fails
    PROVE  ExactCall(c, cached, new, rel, fails)
  BY DEF ExactCall
LEMMA TrimIdle == ASSUME NEW c, c.at \notin {"sort", "evict", "unmeta"}, NEW cached, NEW new PROVE Trim(c, cached, new)
  BY DEF Trim

LEMMA StillDoing ==
    ASSUME NEW p \in CacheProcs, NEW c, Acts(p, c), NEW ats, NEW k, Doing(call, ats, k),
           call[p].at \notin ats \/ KeyOf(p) # k \/ (c.at \in ats /\ Head(c.entries) = k)
    PROVE  Doing(call', ats, k)
  BY DEF Doing, Acts, KeyOf

LEMMA StillClearing ==
    ASSUME NEW p \in CacheProcs, NEW c, Acts(p, c), Clearing(call), call[p].at # "clear"
    PROVE  Clearing(call')
  BY DEF Clearing, Acts

LEMMA NowDoing ==
    ASSUME NEW p \in CacheProcs, NEW c, Acts(p, c), NEW ats, c.at \in ats
    PROVE  Doing(call', ats, Head(c.entries))
  BY DEF Doing, Acts

LEMMA MetaStep ==
    ASSUME NEW p \in CacheProcs, NEW c, Acts(p, c),
           Orderly => /\ \A k \in CacheKeys : KeyFits(k, Cached', metadata', call')
                      /\ CallFits(c, Cached', metadata', Removes)
                      /\ \A q \in CacheProcs : q # p => CallFits(call[q], Cached', metadata', Removes)
    PROVE  MetaInv'
<1>1. (Orderly' <=> Orderly) /\ Removes' = Removes
  BY DEF Orderly, OneProcess, Removes, Acts
<1> QED
  BY <1>1 DEF MetaInv, Acts

\* A step that leaves payloads and metadata alone.
LEMMA MetaKeeps ==
    ASSUME MetaInv, NEW p \in CacheProcs, NEW c, Acts(p, c), UNCHANGED <<payload, metadata>>,
           Orderly => CallFits(c, Cached, metadata, Removes),
           \A ats \in {{"unmeta"}, {"stat", "meta"}, {"fill"}} :
              Orderly /\ call[p].at \in ats => c.at \in ats /\ Head(c.entries) = KeyOf(p),
           Orderly => call[p].at # "clear"
    PROVE  MetaInv'
<1>1. Cached' = Cached /\ metadata' = metadata
  BY DEF Cached
<1>2. ASSUME Orderly, NEW k \in CacheKeys PROVE KeyFits(k, Cached, metadata, call')
  <2>1. \A ats \in {{"unmeta"}, {"stat", "meta"}, {"fill"}} : Doing(call, ats, k) => Doing(call', ats, k)
    BY <1>2, StillDoing
  <2>2. KeyFits(k, Cached, metadata, call) /\ (Clearing(call) => Clearing(call'))
    BY <1>2, StillClearing DEF MetaInv
  <2> QED
    BY <2>1, <2>2 DEF KeyFits
<1> QED
  BY <1>1, <1>2, MetaStep DEF MetaInv

\* A step that leaves the files and their order alone.
LEMMA Quietly ==
    ASSUME CacheIInv, NEW p \in CacheProcs, NEW c, Acts(p, c), UNCHANGED <<payload, metadata, older>>,
           calls' \in 0 .. cacheSetup.calls, news' \in [CacheProcs -> SUBSET CacheKeys],
           \A q \in CacheProcs : q # p => news'[q] = news[q],
           c.at \notin {"idle", "sort", "evict", "clear"} => c.entries # <<>>,
           Trim(c, Cached, news'[p]), OneProcess => ExactCall(c, Cached, news'[p], older, cacheSetup.fails),
           Orderly => CallFits(c, Cached, metadata, Removes),
           \A ats \in {{"unmeta"}, {"stat", "meta"}, {"fill"}} :
              Orderly /\ call[p].at \in ats => c.at \in ats /\ Head(c.entries) = KeyOf(p),
           Orderly => call[p].at # "clear"
    PROVE  CacheIInv'
<1>1. Cached' = Cached
  BY DEF Cached
<1>2. CacheTypes'
  BY TypesStep DEF CacheIInv, CacheTypes
<1>3. InOrder(older, Cached)'
  BY <1>1 DEF CacheIInv, InOrder
<1>4. TrimInv'
  BY <1>1, TrimStep DEF CacheIInv
<1>5. ExactInv'
  BY <1>1, ExactStep DEF CacheIInv
<1>6. MetaInv'
  BY MetaKeeps DEF CacheIInv
<1> QED
  BY <1>2, <1>3, <1>4, <1>5, <1>6 DEF CacheIInv

-----------------------------------------------------------------------------
(* get and put *)

LEMMA GotIt ==
    ASSUME CacheIInv, NEW p \in CacheProcs, NEW k \in CacheKeys, Get(p, k)
    PROVE  CacheIInv'
<1>1. /\ Begin(p) /\ k \in Cached /\ (older' = Touched(k) \/ older' = older)
      /\ UNCHANGED <<cacheSetup, payload, metadata, call, news>>
  BY DEF Get
<1>2. CacheTypes /\ InOrder(older, Cached) /\ call[p].at = "idle" /\ p \in cacheSetup.procs
  BY <1>1 DEF CacheIInv, Begin, At
<1>3. Acts(p, call[p])
  BY <1>1, <1>2 DEF Acts, CacheTypes
<1>4. Cached' = Cached
  BY <1>1 DEF Cached
<1>5. CacheTypes'
  <2>1. calls' \in 0 .. cacheSetup.calls
    BY <1>1, <1>2, CallsBegun
  <2> QED
    BY <1>1, <1>2, <1>3, <2>1, TypesStep DEF CacheTypes
<1>6. InOrder(older', Cached)
  <2>0. CASE older' = older
    BY <1>2, <2>0
  <2> SUFFICES ASSUME older' = Touched(k) PROVE InOrder(older', Cached)
    BY <1>1, <2>0
  <2> DEFINE before == Cached \ {k}
  <2>1. older' = Without(older, k) \cup before \X {k} \cup {k} \X (Cached \ (before \cup {k}))
    BY DEF Touched, Placed, Others, Without
  <2>2. \A pair \in Without(older, k) : pair[1] \in before
    BY <1>2 DEF Without, InOrder
  <2>3. Cached \cup {k} = Cached
    BY <1>1
  <2>4. before \in SUBSET (Cached \ {k})
    OBVIOUS
  <2> HIDE DEF before
  <2>5. InOrder(Without(older, k) \cup before \X {k} \cup {k} \X (Cached \ (before \cup {k})), Cached \cup {k})
    BY <1>2, <2>2, <2>4, PlacedIs
  <2> QED
    BY <2>1, <2>3, <2>5
<1>7. TrimInv'
  BY <1>1, <1>4 DEF CacheIInv, TrimInv
<1>8. ExactInv'
  BY <1>2, <1>3, ExactIdle, ExactStep
<1>9. MetaInv'
  <2>1. /\ (Orderly' <=> Orderly) /\ Removes' = Removes
        /\ metadata' = metadata /\ call' = call /\ cacheSetup' = cacheSetup
    BY <1>1 DEF Orderly, OneProcess, Removes
  <2> QED
    BY <1>4, <2>1 DEF CacheIInv, MetaInv
<1> QED
  BY <1>4, <1>5, <1>6, <1>7, <1>8, <1>9 DEF CacheIInv

LEMMA PutsIt ==
    ASSUME CacheIInv, NEW p \in CacheProcs, NEW k \in CacheKeys, Put(p, k)
    PROVE  CacheIInv'
<1> DEFINE c == CallOf("copy", k)
<1>1. /\ Begin(p) /\ Go(p, c) /\ UNCHANGED <<cacheSetup, payload, metadata, older, news>>
  BY DEF Put
<1>2. c \in Calls /\ c.at = "copy" /\ c.entries # <<>>
  BY CallOfIs
<1> HIDE DEF c
<1>3. CacheTypes /\ call[p].at = "idle"
  BY <1>1 DEF CacheIInv, Begin, At
<1>4. Acts(p, c)
  BY <1>1, <1>2, <1>3, BeginActing
<1>5. calls' \in 0 .. cacheSetup.calls
  BY <1>1, <1>3, CallsBegun
<1>6. news' = news /\ news' \in [CacheProcs -> SUBSET CacheKeys]
  BY <1>1, <1>3 DEF CacheTypes
<1>7. Trim(c, Cached, news'[p]) /\ ExactCall(c, Cached, news'[p], older, cacheSetup.fails)
  BY <1>2, TrimIdle, ExactIdle
<1>8. CallFits(c, Cached, metadata, Removes)
  BY <1>2 DEF CallFits
<1>9. call[p].at \notin {"unmeta", "stat", "meta", "fill", "clear"}
  BY <1>3
<1> QED
  BY <1>1, <1>2, <1>4, <1>5, <1>6, <1>7, <1>8, <1>9, Quietly

\* The step of a call that goes to another place of it, or ends.
LEMMA MovesOn ==
    ASSUME CacheIInv, NEW p \in CacheProcs, call[p].at # "idle", NEW at \in Ats \ {"sort", "evict", "unmeta", "clear"},
           Go(p, Moved(call[p], at)) \/ (at = "idle" /\ Go(p, Idle)),
           at # "idle" => call[p].entries # <<>>,
           UNCHANGED <<cacheSetup, payload, metadata, older, calls, news>>,
           Orderly /\ at \in {"stat", "meta", "fill"} => KeyOf(p) \in Cached,
           Orderly /\ at = "fill" => metadata[KeyOf(p)] # "none",
           Orderly => call[p].at \notin {"fill", "unmeta", "clear"} /\ (call[p].at \in {"stat", "meta"} => at \in {"stat", "meta"})
    PROVE  CacheIInv'
<1>1. CacheTypes /\ call[p] \in Calls
  BY CacheFacts DEF CacheIInv
<1>2. PICK c \in Calls : Go(p, c) /\ c.at = at /\ (at # "idle" => c.entries = call[p].entries)
  BY <1>1, MovedIs, IdleIs
<1>3. Acts(p, c)
  BY <1>1, <1>2, Acting
<1>4. calls' \in 0 .. cacheSetup.calls /\ news' = news /\ news' \in [CacheProcs -> SUBSET CacheKeys]
  BY <1>1 DEF CacheTypes
<1>5. Trim(c, Cached, news'[p]) /\ ExactCall(c, Cached, news'[p], older, cacheSetup.fails)
  BY <1>2, TrimIdle, ExactIdle
<1>6. Orderly => CallFits(c, Cached, metadata, Removes)
  BY <1>2 DEF CallFits, KeyOf
<1>7. \A ats \in {{"unmeta"}, {"stat", "meta"}, {"fill"}} :
          Orderly /\ call[p].at \in ats => c.at \in ats /\ Head(c.entries) = KeyOf(p)
  BY <1>2 DEF KeyOf
<1> QED
  BY <1>2, <1>3, <1>4, <1>5, <1>6, <1>7, Quietly

LEMMA CopiesIt ==
    ASSUME CacheIInv, NEW p \in CacheProcs, Copy(p)
    PROVE  CacheIInv'
<1>1. /\ call[p].at = "copy" /\ UNCHANGED <<cacheSetup, payload, metadata, older, calls, news>>
      /\ Go(p, Moved(call[p], "rename")) \/ Go(p, Idle)
  BY DEF Copy, At, Moved
<1>2. call[p].entries # <<>>
  BY <1>1, CacheFacts DEF CacheIInv
<1>3. "rename" \in Ats \ {"sort", "evict", "unmeta", "clear"} /\ "idle" \in Ats \ {"sort", "evict", "unmeta", "clear"}
  BY DEF Ats
<1> QED
  BY <1>1, <1>2, <1>3, MovesOn

LEMMA Dying ==
    ASSUME CacheIInv, NEW p \in CacheProcs, CacheDies(p)
    PROVE  CacheIInv'
<1>1. /\ call[p].at # "idle" /\ UNCHANGED <<cacheSetup, payload, metadata, older, calls, news>>
      /\ Go(p, Idle) /\ ~Orderly
  BY DEF CacheDies, At, Orderly
<1>2. "idle" \in Ats \ {"sort", "evict", "unmeta", "clear"}
  BY DEF Ats
<1> QED
  BY <1>1, <1>2, MovesOn

LEMMA EvictionEnds ==
    ASSUME CacheIInv, NEW p \in CacheProcs, Evicted(p)
    PROVE  CacheIInv'
<1>1. /\ call[p].at = "evict" /\ UNCHANGED <<cacheSetup, payload, metadata, older, calls, news>>
      /\ Go(p, Idle)
  BY DEF Evicted, At
<1>2. "idle" \in Ats \ {"sort", "evict", "unmeta", "clear"}
  BY DEF Ats
<1> QED
  BY <1>1, <1>2, MovesOn

LEMMA Statted ==
    ASSUME CacheIInv, NEW p \in CacheProcs, Stat(p)
    PROVE  CacheIInv'
<1>1. /\ call[p].at = "stat" /\ UNCHANGED <<cacheSetup, payload, metadata, older, calls, news>>
      /\ \/ KeyOf(p) \in Cached /\ Go(p, Moved(call[p], "meta"))
         \/ (KeyOf(p) \notin Cached \/ ~Orderly) /\ Go(p, Idle)
  BY DEF Stat, At, Moved, Orderly
<1>2. call[p].entries # <<>>
  BY <1>1, CacheFacts DEF CacheIInv
<1>3. "meta" \in Ats \ {"sort", "evict", "unmeta", "clear"} /\ "idle" \in Ats \ {"sort", "evict", "unmeta", "clear"}
  BY DEF Ats
<1>4. Orderly => KeyOf(p) \in Cached
  BY <1>1 DEF CacheIInv, MetaInv, CallFits, KeyOf
<1> QED
  BY <1>1, <1>2, <1>3, <1>4, MovesOn

\* An orderly process that evicts is alone, as is one that clears.
LEMMA AloneIs ==
    ASSUME CacheTypes, Orderly, cacheSetup.evicts \/ cacheSetup.clears, NEW p \in cacheSetup.procs,
           NEW q \in CacheProcs, call[q].at # "idle"
    PROVE  q = p
  BY OthersIdle DEF Orderly, Removes

LEMMA RenameRaises ==
    ASSUME CacheIInv, NEW p \in CacheProcs, Rename(p), Go(p, Idle) /\ UNCHANGED <<payload, older, news>>
    PROVE  CacheIInv'
<1>1. call[p].at = "rename" /\ UNCHANGED <<cacheSetup, payload, metadata, older, calls, news>>
  BY DEF Rename, At
<1>2. "idle" \in Ats \ {"sort", "evict", "unmeta", "clear"}
  BY DEF Ats
<1> QED
  BY <1>1, <1>2, MovesOn

LEMMA Appears ==
    ASSUME CacheIInv, NEW p \in CacheProcs, Rename(p)
    PROVE  CacheIInv'
<1>0. CASE Go(p, Idle) /\ UNCHANGED <<payload, older, news>>
  BY <1>0, RenameRaises
<1> SUFFICES ASSUME ~(Go(p, Idle) /\ UNCHANGED <<payload, older, news>>) PROVE CacheIInv'
  BY <1>0
<1> DEFINE k == KeyOf(p)  c == Moved(call[p], "stat")
<1>1. /\ call[p].at = "rename" /\ Go(p, c) /\ UNCHANGED <<cacheSetup, metadata, calls>>
      /\ payload' = [payload EXCEPT ![k] = "whole"]
      /\ news' = [q \in CacheProcs |-> news[q] \cup {k}]
  BY DEF Rename, At, Moved
<1>2. PICK before \in SUBSET (Cached \ {k}) :
        /\ \A pair \in Without(older, k) : pair[2] \in before => pair[1] \in before
        /\ older' = Without(older, k) \cup before \X {k} \cup {k} \X (Cached \ (before \cup {k}))
  BY DEF Rename, Placed, Others, Without
<1>3. CacheTypes /\ call[p] \in Calls /\ call[p].entries # <<>> /\ k \in CacheKeys
  BY <1>1, CacheFacts DEF CacheIInv
<1>4. /\ c \in Calls /\ c.at = "stat" /\ c.entries = call[p].entries /\ Head(c.entries) = k
  BY <1>3, MovedIs DEF Ats, KeyOf
<1> HIDE DEF c
<1>5. Acts(p, c)
  BY <1>1, <1>3, <1>4, Acting
<1>6. Cached' = Cached \cup {k}
  BY <1>1, <1>3 DEF CacheTypes, Cached
<1>7. payload' \in [CacheKeys -> {"none", "whole"}] /\ news' \in [CacheProcs -> SUBSET CacheKeys]
  BY <1>1, <1>3 DEF CacheTypes
<1>8. \A q \in CacheProcs : news'[q] = news[q] \cup {k}
  BY <1>1
<1> HIDE DEF k
<1>9. CacheTypes'
  BY <1>1, <1>3, <1>4, <1>5, <1>7, TypesStep DEF CacheTypes
<1>10. InOrder(older', Cached')
  BY <1>2, <1>6, PlacedIs DEF CacheIInv
<1>11. TrimInv'
  <2>1. \A q \in CacheProcs : Cached' \ news'[q] \subseteq Cached \ news[q]
    BY <1>6, <1>8
  <2> QED
    BY <1>4, <1>5, <2>1, TrimStep, TrimIdle DEF CacheIInv
<1>12. ExactInv'
  BY <1>3, <1>4, <1>5, ExactStep, ExactIdle
<1>13. MetaInv'
  <2> SUFFICES ASSUME Orderly
               PROVE  /\ \A j \in CacheKeys : KeyFits(j, Cached', metadata', call')
                      /\ CallFits(c, Cached', metadata', Removes)
                      /\ \A q \in CacheProcs : q # p => CallFits(call[q], Cached', metadata', Removes)
    BY <1>5, MetaStep
  <2>1. ASSUME NEW j \in CacheKeys PROVE KeyFits(j, Cached', metadata, call')
    <3>1. KeyFits(j, Cached, metadata, call)
      BY DEF CacheIInv, MetaInv
    <3>2. \A ats \in {{"unmeta"}, {"stat", "meta"}, {"fill"}} : Doing(call, ats, j) => Doing(call', ats, j)
      BY <1>1, <1>5, StillDoing
    <3>3. j = k => Doing(call', {"stat", "meta"}, j)
      BY <1>4, <1>5, NowDoing
    <3>4. Clearing(call) => Clearing(call')
      BY <1>1, <1>5, StillClearing
    <3> QED
      BY <1>6, <3>1, <3>2, <3>3, <3>4 DEF KeyFits
  <2>2. CallFits(c, Cached', metadata, Removes)
    BY <1>4, <1>6 DEF CallFits
  <2>3. ASSUME NEW q \in CacheProcs, q # p PROVE CallFits(call[q], Cached', metadata, Removes)
    <3>1. CallFits(call[q], Cached, metadata, Removes)
      BY DEF CacheIInv, MetaInv
    <3>2. call[q].at \notin {"unmeta", "clear"}
      BY <1>3, <1>5, <2>3, <3>1, AloneIs DEF CallFits, Acts, Removes
    <3> QED
      BY <1>6, <3>1, <3>2 DEF CallFits
  <2> QED
    BY <1>1, <2>1, <2>2, <2>3
<1> QED
  BY <1>9, <1>10, <1>11, <1>12, <1>13 DEF CacheIInv

\* A step of a put that writes the metadata of its key.
LEMMA Describes ==
    ASSUME CacheIInv, NEW p \in CacheProcs, NEW c \in Calls, Go(p, c), call[p].at \in {"meta", "fill"},
           UNCHANGED <<cacheSetup, payload, older, calls, news>>,
           NEW what \in Files, metadata' = [metadata EXCEPT ![KeyOf(p)] = what],
           c.at \in {"idle", "fill"}, c.at = "fill" => c.entries = call[p].entries,
           Orderly => what \in {"torn", "whole"}, Orderly /\ what = "torn" => c.at = "fill"
    PROVE  CacheIInv'
<1> DEFINE k == KeyOf(p)
<1>1. CacheTypes /\ call[p] \in Calls /\ call[p].entries # <<>> /\ k \in CacheKeys
  BY CacheFacts DEF CacheIInv
<1>2. Acts(p, c)
  BY <1>1, Acting
<1>3. Cached' = Cached /\ news' = news /\ older' = older
  BY DEF Cached
<1>4. metadata' \in [CacheKeys -> Files] /\ metadata'[k] = what
      /\ \A j \in CacheKeys : j # k => metadata'[j] = metadata[j]
  BY <1>1 DEF CacheTypes
<1> HIDE DEF k
<1>5. CacheTypes'
  BY <1>1, <1>2, <1>4, TypesStep DEF CacheTypes
<1>6. TrimInv' /\ ExactInv' /\ InOrder(older', Cached')
  BY <1>1, <1>2, <1>3, TrimStep, ExactStep, TrimIdle, ExactIdle DEF CacheIInv
<1>7. MetaInv'
  <2> SUFFICES ASSUME Orderly
               PROVE  /\ \A j \in CacheKeys : KeyFits(j, Cached', metadata', call')
                      /\ CallFits(c, Cached', metadata', Removes)
                      /\ \A q \in CacheProcs : q # p => CallFits(call[q], Cached', metadata', Removes)
    BY <1>2, MetaStep
  <2>1. k \in Cached
    BY DEF CacheIInv, MetaInv, CallFits, KeyOf, k
  <2>2. ASSUME NEW j \in CacheKeys PROVE KeyFits(j, Cached, metadata', call')
    <3>1. KeyFits(j, Cached, metadata, call)
      BY <2>2 DEF CacheIInv, MetaInv
    <3>2. CASE j # k
      <4>1. \A ats \in {{"unmeta"}, {"stat", "meta"}, {"fill"}} : Doing(call, ats, j) => Doing(call', ats, j)
        BY <1>2, <3>2, StillDoing DEF k
      <4>2. Clearing(call) => Clearing(call')
        BY <1>2, StillClearing
      <4> QED
        BY <1>4, <3>1, <3>2, <4>1, <4>2 DEF KeyFits
    <3>3. CASE j = k
      <4>1. c.at = "fill" => Doing(call', {"fill"}, k)
        BY <1>2, NowDoing DEF KeyOf, k
      <4> QED
        BY <1>4, <2>1, <3>3, <4>1 DEF KeyFits
    <3> QED
      BY <3>2, <3>3
  <2>3. CallFits(c, Cached, metadata', Removes)
    BY <1>4, <2>1 DEF CallFits, KeyOf, k
  <2>4. ASSUME NEW q \in CacheProcs, q # p PROVE CallFits(call[q], Cached, metadata', Removes)
    <3>1. CallFits(call[q], Cached, metadata, Removes)
      BY DEF CacheIInv, MetaInv
    <3>2. call[q].at = "fill" => Head(call[q].entries) \in CacheKeys
      BY <1>1, CacheFacts DEF KeyOf
    <3>3. call[q].at # "clear"
      BY <1>1, <1>2, <2>4, <3>1, AloneIs DEF CallFits, Acts, Removes
    <3> QED
      BY <1>4, <3>1, <3>2, <3>3 DEF CallFits
  <2> QED
    BY <1>3, <2>2, <2>3, <2>4
<1> QED
  BY <1>5, <1>6, <1>7 DEF CacheIInv

\* Metadata that cannot be written leave the put as it is.
LEMMA MetaFails ==
    ASSUME CacheIInv, NEW p \in CacheProcs, call[p].at \in {"meta", "fill"}, cacheSetup.fails, Go(p, Idle),
           UNCHANGED <<cacheSetup, payload, metadata, older, calls, news>>
    PROVE  CacheIInv'
<1>1. ~Orderly
  BY DEF Orderly
<1>2. "idle" \in Ats \ {"sort", "evict", "unmeta", "clear"}
  BY DEF Ats
<1> QED
  BY <1>1, <1>2, MovesOn

LEMMA OpensMeta ==
    ASSUME CacheIInv, NEW p \in CacheProcs, OpenMeta(p)
    PROVE  CacheIInv'
<1>0. CASE cacheSetup.fails /\ Go(p, Idle) /\ metadata' = metadata
  BY <1>0, MetaFails DEF OpenMeta, At
<1> SUFFICES ASSUME ~(cacheSetup.fails /\ Go(p, Idle) /\ metadata' = metadata) PROVE CacheIInv'
  BY <1>0
<1>1. /\ call[p].at = "meta" /\ Go(p, Moved(call[p], "fill")) /\ UNCHANGED <<cacheSetup, payload, older, calls, news>>
      /\ metadata' = [metadata EXCEPT ![KeyOf(p)] = "torn"]
  BY DEF OpenMeta, At, Moved
<1>2. Moved(call[p], "fill") \in Calls /\ Moved(call[p], "fill").at = "fill"
      /\ Moved(call[p], "fill").entries = call[p].entries
  BY CacheFacts, MovedIs DEF CacheIInv, Ats
<1>3. "torn" \in Files
  BY DEF Files
<1> QED
  BY <1>1, <1>2, <1>3, Describes

LEMMA FillsMeta ==
    ASSUME CacheIInv, NEW p \in CacheProcs, FillMeta(p)
    PROVE  CacheIInv'
<1>0. CASE cacheSetup.fails /\ metadata' = metadata
  BY <1>0, MetaFails DEF FillMeta, At
<1> SUFFICES ASSUME ~(cacheSetup.fails /\ metadata' = metadata) PROVE CacheIInv'
  BY <1>0
<1> DEFINE what == IF metadata[KeyOf(p)] = "torn" THEN "whole" ELSE metadata[KeyOf(p)]
<1>1. /\ call[p].at = "fill" /\ Go(p, Idle) /\ UNCHANGED <<cacheSetup, payload, older, calls, news>>
      /\ metadata' = [metadata EXCEPT ![KeyOf(p)] = what]
  BY DEF FillMeta, At
<1>2. CacheTypes /\ KeyOf(p) \in CacheKeys
  BY <1>1, CacheFacts DEF CacheIInv
<1>3. what \in Files
  BY <1>2 DEF CacheTypes, Files
<1>4. Orderly => metadata[KeyOf(p)] # "none"
  BY <1>1 DEF CacheIInv, MetaInv, CallFits, KeyOf
<1>5. what # "torn" /\ (Orderly => what \in {"torn", "whole"})
  BY <1>3, <1>4 DEF Files
<1> HIDE DEF what
<1> QED
  BY <1>1, <1>3, <1>5, IdleIs, Describes

-----------------------------------------------------------------------------
(* evict and clear *)

\* An orderly eviction finds every payload with its metadata.
LEMMA AllDescribed ==
    ASSUME CacheIInv, Orderly, cacheSetup.evicts, NEW p \in cacheSetup.procs, p \in CacheProcs, call[p].at = "idle"
    PROVE  Cached \subseteq Described
<1>1. CacheTypes
  BY DEF CacheIInv
<1>2. \A q \in CacheProcs : call[q].at = "idle"
  BY <1>1, AloneIs
<1>3. ASSUME NEW k \in Cached PROVE metadata[k] = "whole"
  <2>1. k \in CacheKeys
    BY DEF Cached
  <2>2. metadata[k] \in Files
    BY <1>1, <2>1 DEF CacheTypes
  <2>3. KeyFits(k, Cached, metadata, call)
    BY <2>1 DEF CacheIInv, MetaInv
  <2>4. ~Doing(call, {"stat", "meta"}, k) /\ ~Doing(call, {"fill"}, k) /\ ~Clearing(call)
    BY <1>2 DEF Doing, Clearing
  <2> QED
    BY <2>2, <2>3, <2>4 DEF KeyFits, Files
<1> QED
  BY <1>3 DEF Described

LEMMA Lists ==
    ASSUME CacheIInv, NEW p \in CacheProcs, List(p)
    PROVE  CacheIInv'
<1>1. PICK missed \in SUBSET Cached :
        /\ Begin(p) /\ cacheSetup.evicts /\ Go(p, ListedCall(Cached \ missed, Described))
        /\ missed = {} \/ cacheSetup.fails
        /\ news' = [news EXCEPT ![p] = missed] /\ UNCHANGED <<cacheSetup, payload, metadata, older>>
  BY DEF List, ListedCall
<1> DEFINE seen == Cached \ missed  c == ListedCall(seen, Described)
<1>2. Cached \in SUBSET CacheKeys /\ seen \in SUBSET CacheKeys /\ Described \in SUBSET CacheKeys
  BY DEF Cached, Described
<1>3. /\ c \in Calls /\ c.at = "sort" /\ c.listed = seen /\ c.described = Described
      /\ c.current = SizeOf(seen) /\ SizeOf(seen) \in Nat
  BY <1>2, ListedIs, UnitsFinite
<1> HIDE DEF c
<1>4. CacheTypes /\ call[p].at = "idle" /\ p \in cacheSetup.procs
  BY <1>1 DEF CacheIInv, Begin, At
<1>5. Acts(p, c)
  BY <1>1, <1>3, <1>4, BeginActing DEF c
<1>6. calls' \in 0 .. cacheSetup.calls
  BY <1>1, <1>4, CallsBegun
<1>7. /\ news' \in [CacheProcs -> SUBSET CacheKeys] /\ news'[p] = missed
      /\ \A q \in CacheProcs : q # p => news'[q] = news[q]
  BY <1>1, <1>2, <1>4 DEF CacheTypes
<1>8. Trim(c, Cached, news'[p]) /\ ExactCall(c, Cached, news'[p], older, cacheSetup.fails)
  <2>1. missed = {} => seen = Cached
    OBVIOUS
  <2> QED
    BY <1>1, <1>3, <1>7, <2>1 DEF Trim, ExactCall
<1>9. Orderly => CallFits(c, Cached, metadata, Removes)
  BY <1>1, <1>3, <1>4, AllDescribed DEF CallFits, Removes
<1>10. call[p].at \notin {"unmeta", "stat", "meta", "fill", "clear"}
  BY <1>4
<1>11. UNCHANGED <<payload, metadata, older>> /\ c.at = "sort"
  BY <1>1, <1>3
<1> HIDE DEF seen
<1> QED
  BY <1>5, <1>6, <1>7, <1>8, <1>9, <1>10, <1>11, Quietly

LEMMA Sorts ==
    ASSUME CacheIInv, NEW p \in CacheProcs, Sort(p)
    PROVE  CacheIInv'
<1>1. /\ call[p].at = "sort" /\ UNCHANGED <<cacheSetup, payload, metadata, older, calls, news>>
      /\ \/ \E list \in Sortings(call[p].listed) : Go(p, WithList(call[p], list))
         \/ Go(p, Idle)
  BY DEF Sort, At, WithList
<1>2. CacheTypes /\ call[p] \in Calls /\ call[p].listed \in SUBSET CacheKeys
  BY CacheFacts DEF CacheIInv
<1>3. CASE Go(p, Idle)
  <2>1. "idle" \in Ats \ {"sort", "evict", "unmeta", "clear"}
    BY DEF Ats
  <2> QED
    BY <1>1, <1>3, <2>1, MovesOn
<1>4. CASE \E list \in Sortings(call[p].listed) : Go(p, WithList(call[p], list))
  <2>1. PICK list \in Sortings(call[p].listed) : Go(p, WithList(call[p], list))
    BY <1>4
  <2> DEFINE c == WithList(call[p], list)
  <2>2. /\ list \in Seq(CacheKeys) /\ Once(list) /\ Keys(list) = call[p].listed
        /\ \A i, j \in DOMAIN list : i < j => ~LaterAccess(list[i], list[j])
    BY <1>2, SortingIs
  <2>3. /\ c \in Calls /\ c.at = "evict" /\ c.entries = list /\ c.described = call[p].described
        /\ c.current = call[p].current
    BY <1>2, <2>2, WithEntriesIs
  <2> HIDE DEF c
  <2>4. Acts(p, c)
    BY <1>1, <1>2, <2>1, <2>3, Acting DEF c
  <2>5. calls' \in 0 .. cacheSetup.calls /\ news' = news /\ news' \in [CacheProcs -> SUBSET CacheKeys]
    BY <1>1, <1>2 DEF CacheTypes
  <2>6. Trim(c, Cached, news[p])
    BY <1>1, <2>2, <2>3 DEF CacheIInv, TrimInv, Trim
  <2>7. ASSUME OneProcess PROVE ExactCall(c, Cached, news[p], older, cacheSetup.fails)
    <3>1. /\ call[p].listed = Cached \ news[p]
          /\ ~cacheSetup.fails => news[p] = {} /\ call[p].current = SizeOf(Cached)
      BY <1>1, <2>7 DEF CacheIInv, ExactInv, ExactCall
    <3>2. \A i \in DOMAIN list : list[i] \in Cached
      BY <2>2, <3>1 DEF Keys
    <3>3. Sorted(list, older)
      BY <2>2, <3>2 DEF Sorted, LaterAccess
    <3> QED
      BY <2>2, <2>3, <3>1, <3>3 DEF ExactCall
  <2>8. Orderly => CallFits(c, Cached, metadata, Removes)
    BY <1>1, <2>2, <2>3 DEF CacheIInv, MetaInv, CallFits
  <2> QED
    BY <1>1, <2>3, <2>4, <2>5, <2>6, <2>7, <2>8, Quietly
<1> QED
  BY <1>1, <1>3, <1>4

LEMMA SortedLess ==
    ASSUME NEW list, NEW rel, NEW less \in SUBSET rel, Sorted(list, rel)
    PROVE  Sorted(list, less)
  BY DEF Sorted

LEMMA Smaller == \A a, b, c, d \in Nat : a = b + c /\ a <= d => d - c \in Nat /\ b <= d - c
  OBVIOUS

\* A payload that cannot be unlinked is passed over.
LEMMA UnlinkFails ==
    ASSUME CacheIInv, NEW p \in CacheProcs, call[p].at = "evict", call[p].entries # <<>>, cacheSetup.fails,
           Go(p, PassedCall(call[p])), news' = [news EXCEPT ![p] = @ \cup {KeyOf(p)}],
           UNCHANGED <<cacheSetup, payload, metadata, older, calls>>
    PROVE  CacheIInv'
<1> DEFINE k == KeyOf(p)  c == PassedCall(call[p])
<1>1. /\ CacheTypes /\ call[p] \in Calls /\ call[p].entries \in Seq(CacheKeys) /\ k \in CacheKeys
      /\ call[p].current \in Nat /\ k = Head(call[p].entries)
  BY CacheFacts DEF CacheIInv, KeyOf
<1>2. /\ Keys(call[p].entries) = Keys(Tail(call[p].entries)) \cup {k}
      /\ Once(call[p].entries) => Once(Tail(call[p].entries)) /\ k \notin Keys(Tail(call[p].entries))
      /\ \A rel : Sorted(call[p].entries, rel) => Sorted(Tail(call[p].entries), rel)
      /\ Keys(call[p].entries) \in SUBSET CacheKeys
  BY <1>1, HeadAndTail, KeysOfList
<1>3. /\ c \in Calls /\ c.current = call[p].current /\ c.at = "evict" /\ c.entries = Tail(call[p].entries)
  BY <1>1, PassedIs
<1>4. /\ news' \in [CacheProcs -> SUBSET CacheKeys] /\ news'[p] = news[p] \cup {k}
      /\ \A q \in CacheProcs : q # p => news'[q] = news[q]
  BY <1>1 DEF CacheTypes
<1> HIDE DEF c, k
<1>5. Acts(p, c) /\ calls' \in 0 .. cacheSetup.calls
  BY <1>1, <1>3, Acting DEF c, CacheTypes
<1>6. /\ Once(call[p].entries) /\ Cached \ news[p] \subseteq Keys(call[p].entries)
      /\ SizeOf(Keys(call[p].entries)) <= call[p].current
  BY DEF CacheIInv, TrimInv, Trim
<1>7. Trim(c, Cached, news'[p])
  <2>1. SizeOf(Keys(Tail(call[p].entries))) <= SizeOf(Keys(call[p].entries))
    BY <1>2, SizeGrows
  <2>2. SizeOf(Keys(Tail(call[p].entries))) \in Nat /\ SizeOf(Keys(call[p].entries)) \in Nat
    BY <1>2, UnitsFinite
  <2>3. SizeOf(Keys(Tail(call[p].entries))) <= call[p].current
    BY <1>1, <1>6, <2>1, <2>2
  <2> QED
    BY <1>2, <1>3, <1>4, <1>6, <2>3 DEF Trim
<1>8. OneProcess => ExactCall(c, Cached, news'[p], older, cacheSetup.fails)
  <2> SUFFICES ASSUME OneProcess PROVE ExactCall(c, Cached, news'[p], older, cacheSetup.fails)
    OBVIOUS
  <2>1. Keys(call[p].entries) = Cached \ news[p] /\ Sorted(call[p].entries, older)
    BY DEF CacheIInv, ExactInv, ExactCall
  <2>2. Keys(Tail(call[p].entries)) = Cached \ news'[p] /\ Sorted(Tail(call[p].entries), older)
    BY <1>2, <1>4, <1>6, <2>1
  <2> QED
    BY <1>3, <2>2 DEF ExactCall
<1>9. ~Orderly
  BY DEF Orderly
<1> QED
  BY <1>3, <1>4, <1>5, <1>7, <1>8, <1>9, Quietly

LEMMA Unlinks ==
    ASSUME CacheIInv, NEW p \in CacheProcs, Unlink(p)
    PROVE  CacheIInv'
<1> DEFINE k == KeyOf(p)
           c == IF k \in Cached THEN Moved(call[p], "unmeta") ELSE PassedCall(call[p])
<1>0. CASE /\ cacheSetup.fails /\ Go(p, Passed(p))
           /\ news' = [news EXCEPT ![p] = @ \cup {k}] /\ UNCHANGED <<payload, older>>
  BY <1>0, UnlinkFails DEF Unlink, At, Enough, PassedCall, Passed
<1> SUFFICES ASSUME ~(/\ cacheSetup.fails /\ Go(p, Passed(p))
                      /\ news' = [news EXCEPT ![p] = @ \cup {k}] /\ UNCHANGED <<payload, older>>)
             PROVE  CacheIInv'
  BY <1>0
<1>1. /\ call[p].at = "evict" /\ call[p].entries # <<>> /\ Go(p, c)
      /\ payload' = [payload EXCEPT ![k] = "none"] /\ older' = Without(older, k)
      /\ UNCHANGED <<cacheSetup, metadata, calls, news>>
  BY DEF Unlink, At, Enough, Others, Without, Moved, PassedCall, Passed
<1>2. /\ CacheTypes /\ call[p] \in Calls /\ call[p].entries \in Seq(CacheKeys) /\ k \in CacheKeys
      /\ call[p].current \in Nat /\ k = Head(call[p].entries)
  BY <1>1, CacheFacts DEF CacheIInv, KeyOf
<1>3. /\ Keys(call[p].entries) = Keys(Tail(call[p].entries)) \cup {k}
      /\ Once(call[p].entries) => Once(Tail(call[p].entries)) /\ k \notin Keys(Tail(call[p].entries))
      /\ \A rel : Sorted(call[p].entries, rel) => Sorted(Tail(call[p].entries), rel)
      /\ Keys(call[p].entries) \in SUBSET CacheKeys
  BY <1>1, <1>2, HeadAndTail, KeysOfList
<1>4. /\ c \in Calls /\ c.described = call[p].described /\ c.current = call[p].current
      /\ k \in Cached => c.at = "unmeta" /\ c.entries = call[p].entries
      /\ k \notin Cached => c.at = "evict" /\ c.entries = Tail(call[p].entries)
  BY <1>1, <1>2, MovedIs, PassedIs DEF Ats
<1> HIDE DEF c, k
<1>5. Acts(p, c)
  BY <1>1, <1>2, <1>4, Acting
<1>6. Cached' = Cached \ {k} /\ payload' \in [CacheKeys -> {"none", "whole"}]
  BY <1>1, <1>2 DEF CacheTypes, Cached
<1>7. CacheTypes'
  BY <1>1, <1>2, <1>4, <1>5, <1>6, TypesStep DEF CacheTypes
<1>8. InOrder(older', Cached')
  BY <1>1, <1>6, Forgotten DEF CacheIInv
<1>9. /\ Once(call[p].entries) /\ Cached \ news[p] \subseteq Keys(call[p].entries)
      /\ SizeOf(Keys(call[p].entries)) <= call[p].current
  BY <1>1 DEF CacheIInv, TrimInv, Trim
<1>10. TrimInv'
  <2>1. CASE k \in Cached
    <3>1. Trim(c, Cached', news[p])
      BY <1>2, <1>4, <1>6, <1>9, <2>1 DEF Trim
    <3> QED
      BY <1>1, <1>5, <1>6, <3>1, TrimStep DEF CacheIInv
  <2>2. CASE k \notin Cached
    <3>1. SizeOf(Keys(Tail(call[p].entries))) <= SizeOf(Keys(call[p].entries))
      BY <1>3, SizeGrows
    <3>2. SizeOf(Keys(Tail(call[p].entries))) \in Nat /\ SizeOf(Keys(call[p].entries)) \in Nat
      BY <1>3, UnitsFinite
    <3>3. SizeOf(Keys(Tail(call[p].entries))) <= call[p].current
      BY <1>2, <1>9, <3>1, <3>2
    <3>4. Trim(c, Cached', news[p])
      BY <1>3, <1>4, <1>6, <1>9, <2>2, <3>3 DEF Trim
    <3> QED
      BY <1>1, <1>5, <1>6, <3>4, TrimStep DEF CacheIInv
  <2> QED
    BY <2>1, <2>2
<1>11. ExactInv'
  <2>1. ASSUME OneProcess PROVE ExactCall(c, Cached', news[p], older', cacheSetup.fails)
    <3>1. /\ Keys(call[p].entries) = Cached \ news[p] /\ Sorted(call[p].entries, older)
          /\ ~cacheSetup.fails => news[p] = {} /\ call[p].current = SizeOf(Cached)
      BY <1>1, <2>1 DEF CacheIInv, ExactInv, ExactCall
    <3>2. k \in Cached /\ Keys(Tail(call[p].entries)) = Cached' \ news[p]
      BY <1>3, <1>6, <1>9, <3>1
    <3>3. SizeOf(Cached) = SizeOf(Cached') + CacheBytes[k]
      BY <1>6, <3>2, SizeWithout DEF Cached
    <3>4. Sorted(Tail(call[p].entries), older')
      BY <1>1, <1>3, <3>1, SortedLess DEF Without
    <3> QED
      BY <1>2, <1>4, <3>1, <3>2, <3>3, <3>4 DEF ExactCall
  <2> QED
    BY <1>1, <1>2, <1>5, <2>1, ExactStep
<1>12. MetaInv'
  <2> SUFFICES ASSUME Orderly
               PROVE  /\ \A j \in CacheKeys : KeyFits(j, Cached', metadata', call')
                      /\ CallFits(c, Cached', metadata', Removes)
                      /\ \A q \in CacheProcs : q # p => CallFits(call[q], Cached', metadata', Removes)
    BY <1>5, MetaStep
  <2>1. Removes /\ Keys(call[p].entries) \subseteq call[p].described
    BY <1>1 DEF CacheIInv, MetaInv, CallFits
  <2>2. ASSUME NEW j \in CacheKeys PROVE KeyFits(j, Cached', metadata, call')
    <3>1. KeyFits(j, Cached, metadata, call)
      BY DEF CacheIInv, MetaInv
    <3>2. \A ats \in {{"unmeta"}, {"stat", "meta"}, {"fill"}} : Doing(call, ats, j) => Doing(call', ats, j)
      BY <1>1, <1>5, StillDoing
    <3>3. j = k /\ j \in Cached => Doing(call', {"unmeta"}, j)
      BY <1>2, <1>4, <1>5, NowDoing
    <3>4. Clearing(call) => Clearing(call')
      BY <1>1, <1>5, StillClearing
    <3> QED
      BY <1>6, <3>1, <3>2, <3>3, <3>4 DEF KeyFits
  <2>3. CallFits(c, Cached', metadata, Removes)
    BY <1>2, <1>3, <1>4, <1>6, <2>1 DEF CallFits
  <2>4. ASSUME NEW q \in CacheProcs, q # p PROVE CallFits(call[q], Cached', metadata, Removes)
    <3>1. call[q].at = "idle"
      BY <1>2, <1>5, <2>1, <2>4, AloneIs DEF Acts, Removes
    <3> QED
      BY <3>1 DEF CallFits
  <2> QED
    BY <1>1, <2>2, <2>3, <2>4
<1> QED
  BY <1>7, <1>8, <1>10, <1>11, <1>12 DEF CacheIInv

\* Metadata that cannot be unlinked are left, and their payload not counted.
LEMMA UnlinkMetaFails ==
    ASSUME CacheIInv, NEW p \in CacheProcs, call[p].at = "unmeta", cacheSetup.fails,
           Go(p, PassedCall(call[p])), UNCHANGED <<cacheSetup, payload, metadata, older, calls, news>>
    PROVE  CacheIInv'
<1> DEFINE k == KeyOf(p)  c == PassedCall(call[p])
<1>1. /\ CacheTypes /\ call[p] \in Calls /\ call[p].entries \in Seq(CacheKeys) /\ call[p].entries # <<>>
      /\ call[p].current \in Nat /\ k = Head(call[p].entries)
  BY CacheFacts DEF CacheIInv, KeyOf
<1>2. /\ Keys(call[p].entries) = Keys(Tail(call[p].entries)) \cup {k}
      /\ Once(call[p].entries) => Once(Tail(call[p].entries))
      /\ Keys(call[p].entries) \in SUBSET CacheKeys
  BY <1>1, HeadAndTail, KeysOfList
<1>3. /\ c \in Calls /\ c.current = call[p].current /\ c.at = "evict" /\ c.entries = Tail(call[p].entries)
  BY <1>1, PassedIs
<1> HIDE DEF c, k
<1>4. Acts(p, c) /\ calls' \in 0 .. cacheSetup.calls /\ news' = news /\ news' \in [CacheProcs -> SUBSET CacheKeys]
  BY <1>1, <1>3, Acting DEF c, CacheTypes
<1>5. /\ Once(call[p].entries) /\ Cached \ news[p] \subseteq Keys(call[p].entries)
      /\ SizeOf(Keys(call[p].entries)) <= call[p].current /\ k \notin Cached \ news[p]
  BY <1>1 DEF CacheIInv, TrimInv, Trim
<1>6. Trim(c, Cached, news[p])
  <2>1. SizeOf(Keys(Tail(call[p].entries))) <= SizeOf(Keys(call[p].entries))
    BY <1>2, SizeGrows
  <2>2. SizeOf(Keys(Tail(call[p].entries))) \in Nat /\ SizeOf(Keys(call[p].entries)) \in Nat
    BY <1>2, UnitsFinite
  <2>3. SizeOf(Keys(Tail(call[p].entries))) <= call[p].current
    BY <1>1, <1>5, <2>1, <2>2
  <2> QED
    BY <1>2, <1>3, <1>5, <2>3 DEF Trim
<1>7. OneProcess => ExactCall(c, Cached, news[p], older, cacheSetup.fails)
  BY <1>3 DEF CacheIInv, ExactInv, ExactCall
<1>8. ~Orderly
  BY DEF Orderly
<1> QED
  BY <1>3, <1>4, <1>6, <1>7, <1>8, Quietly

LEMMA UnlinksMeta ==
    ASSUME CacheIInv, NEW p \in CacheProcs, UnlinkMeta(p)
    PROVE  CacheIInv'
<1> DEFINE k == KeyOf(p)  c == CountedCall(call[p])
           meta == IF k \in call[p].described THEN [metadata EXCEPT ![k] = "none"] ELSE metadata
<1>0. CASE cacheSetup.fails /\ Go(p, Passed(p)) /\ metadata' = metadata
  BY <1>0, UnlinkMetaFails DEF UnlinkMeta, At, PassedCall, Passed
<1> SUFFICES ASSUME ~(cacheSetup.fails /\ Go(p, Passed(p)) /\ metadata' = metadata) PROVE CacheIInv'
  BY <1>0
<1>1. /\ call[p].at = "unmeta" /\ Go(p, c) /\ metadata' = meta
      /\ UNCHANGED <<cacheSetup, payload, older, calls, news>>
  BY DEF UnlinkMeta, At, CountedCall, Counted, PassedCall, Passed, KeyOf
<1>2. /\ CacheTypes /\ call[p] \in Calls /\ call[p].entries \in Seq(CacheKeys) /\ call[p].entries # <<>>
      /\ k \in CacheKeys /\ call[p].current \in Nat /\ k = Head(call[p].entries)
  BY <1>1, CacheFacts DEF CacheIInv, KeyOf
<1>3. /\ Keys(call[p].entries) = Keys(Tail(call[p].entries)) \cup {k}
      /\ Once(call[p].entries) => Once(Tail(call[p].entries)) /\ k \notin Keys(Tail(call[p].entries))
      /\ Keys(call[p].entries) \in SUBSET CacheKeys
  BY <1>2, HeadAndTail, KeysOfList
<1>4. /\ Once(call[p].entries) /\ Cached \ news[p] \subseteq Keys(call[p].entries)
      /\ SizeOf(Keys(call[p].entries)) <= call[p].current /\ k \notin Cached \ news[p]
  BY <1>1, <1>2 DEF CacheIInv, TrimInv, Trim
<1>5. /\ call[p].current - CacheBytes[k] \in Nat
      /\ SizeOf(Keys(Tail(call[p].entries))) <= call[p].current - CacheBytes[k]
  <2>1. Keys(Tail(call[p].entries)) = Keys(call[p].entries) \ {k}
    BY <1>3, <1>4
  <2>2. SizeOf(Keys(call[p].entries)) = SizeOf(Keys(Tail(call[p].entries))) + CacheBytes[k]
    BY <1>3, <2>1, SizeWithout
  <2>3. SizeOf(Keys(call[p].entries)) \in Nat /\ SizeOf(Keys(Tail(call[p].entries))) \in Nat
    BY <1>3, UnitsFinite
  <2>4. CacheBytes[k] \in Nat
    BY <1>2, BytesFinite
  <2> QED
    BY <1>2, <1>4, <2>2, <2>3, <2>4, Smaller
<1>6. /\ c \in Calls /\ c.at = "evict" /\ c.entries = Tail(call[p].entries)
      /\ c.described = call[p].described /\ c.current = call[p].current - CacheBytes[k]
  BY <1>2, <1>5, CountedIs
<1>7. metadata' \in [CacheKeys -> Files] /\ \A j \in CacheKeys : j # k => metadata'[j] = metadata[j]
  BY <1>1, <1>2 DEF CacheTypes, Files
<1>8. k \in call[p].described => metadata'[k] = "none"
  BY <1>1, <1>2 DEF CacheTypes
<1> HIDE DEF c, k, meta
<1>9. Acts(p, c)
  BY <1>1, <1>2, <1>6, Acting
<1>10. Cached' = Cached /\ older' = older /\ news' = news
  BY <1>1 DEF Cached
<1>11. CacheTypes'
  BY <1>1, <1>2, <1>6, <1>7, <1>9, TypesStep DEF CacheTypes
<1>12. TrimInv'
  <2>1. Trim(c, Cached, news[p])
    BY <1>3, <1>4, <1>5, <1>6 DEF Trim
  <2> QED
    BY <1>9, <1>10, <2>1, TrimStep DEF CacheIInv
<1>13. ExactInv'
  <2>1. ASSUME OneProcess PROVE ExactCall(c, Cached, news[p], older, cacheSetup.fails)
    <3>1. /\ Keys(Tail(call[p].entries)) = Cached \ news[p] /\ Sorted(Tail(call[p].entries), older)
          /\ ~cacheSetup.fails => news[p] = {} /\ call[p].current = SizeOf(Cached) + CacheBytes[k]
      BY <1>1, <1>2, <2>1 DEF CacheIInv, ExactInv, ExactCall
    <3>2. SizeOf(Cached) \in Nat /\ CacheBytes[k] \in Nat
      BY <1>2, UnitsFinite, BytesFinite DEF Cached
    <3>3. ~cacheSetup.fails => call[p].current - CacheBytes[k] = SizeOf(Cached)
      BY <3>1, <3>2
    <3> QED
      BY <1>6, <3>1, <3>3 DEF ExactCall
  <2> QED
    BY <1>2, <1>9, <1>10, <2>1, ExactStep
<1>14. MetaInv'
  <2> SUFFICES ASSUME Orderly
               PROVE  /\ \A j \in CacheKeys : KeyFits(j, Cached', metadata', call')
                      /\ CallFits(c, Cached', metadata', Removes)
                      /\ \A q \in CacheProcs : q # p => CallFits(call[q], Cached', metadata', Removes)
    BY <1>9, MetaStep
  <2>1. Removes /\ Keys(call[p].entries) \subseteq call[p].described /\ k \notin Cached
    BY <1>1, <1>2 DEF CacheIInv, MetaInv, CallFits
  <2>2. metadata'[k] = "none"
    BY <1>3, <1>8, <2>1
  <2>3. ASSUME NEW j \in CacheKeys PROVE KeyFits(j, Cached, metadata', call')
    <3>1. CASE j = k
      BY <2>1, <2>2, <3>1 DEF KeyFits
    <3>2. CASE j # k
      <4>1. KeyFits(j, Cached, metadata, call)
        BY DEF CacheIInv, MetaInv
      <4>2. \A ats \in {{"unmeta"}, {"stat", "meta"}, {"fill"}} : Doing(call, ats, j) => Doing(call', ats, j)
        BY <1>9, <3>2, StillDoing DEF k
      <4>3. Clearing(call) => Clearing(call')
        BY <1>1, <1>9, StillClearing
      <4> QED
        BY <1>7, <3>2, <4>1, <4>2, <4>3 DEF KeyFits
    <3> QED
      BY <3>1, <3>2
  <2>4. CallFits(c, Cached, metadata', Removes)
    BY <1>3, <1>6, <2>1 DEF CallFits
  <2>5. ASSUME NEW q \in CacheProcs, q # p PROVE CallFits(call[q], Cached, metadata', Removes)
    <3>1. call[q].at = "idle"
      BY <1>2, <1>9, <2>1, <2>5, AloneIs DEF Acts, Removes
    <3> QED
      BY <3>1 DEF CallFits
  <2> QED
    BY <1>10, <2>3, <2>4, <2>5
<1> QED
  BY <1>10, <1>11, <1>12, <1>13, <1>14 DEF CacheIInv

ClearCall(keys, described) == [Idle EXCEPT !.at = "clear", !.listed = keys, !.described = described]

LEMMA ClearIs ==
    ASSUME NEW keys \in SUBSET CacheKeys, NEW described \in SUBSET CacheKeys
    PROVE  /\ ClearCall(keys, described) \in Calls /\ ClearCall(keys, described).at = "clear"
           /\ ClearCall(keys, described).listed = keys /\ ClearCall(keys, described).described = described
  BY IdleIs DEF ClearCall, Calls, Ats

LEMMA Clears ==
    ASSUME CacheIInv, NEW p \in CacheProcs, Clear(p)
    PROVE  CacheIInv'
<1> DEFINE described == {k \in CacheKeys : metadata[k] # "none"}  c == ClearCall(Cached, described)
<1>1. /\ Begin(p) /\ cacheSetup.clears /\ Go(p, c) /\ UNCHANGED <<cacheSetup, payload, metadata, older, news>>
  BY DEF Clear, ClearCall
<1>2. Cached \in SUBSET CacheKeys /\ described \in SUBSET CacheKeys
  BY DEF Cached
<1>3. c \in Calls /\ c.at = "clear" /\ c.listed = Cached /\ c.described = described
  BY <1>2, ClearIs
<1>4. Orderly => CallFits(c, Cached, metadata, Removes)
  BY <1>1, <1>3 DEF CallFits, Removes
<1> HIDE DEF c, described
<1>5. CacheTypes /\ call[p].at = "idle"
  BY <1>1 DEF CacheIInv, Begin, At
<1>6. Acts(p, c)
  BY <1>1, <1>3, <1>5, BeginActing
<1>7. calls' \in 0 .. cacheSetup.calls
  BY <1>1, <1>5, CallsBegun
<1>8. news' = news /\ news' \in [CacheProcs -> SUBSET CacheKeys]
  BY <1>1, <1>5 DEF CacheTypes
<1>9. Trim(c, Cached, news'[p]) /\ ExactCall(c, Cached, news'[p], older, cacheSetup.fails)
  BY <1>3, TrimIdle, ExactIdle
<1>10. call[p].at \notin {"unmeta", "stat", "meta", "fill", "clear"}
  BY <1>5
<1> QED
  BY <1>1, <1>3, <1>4, <1>6, <1>7, <1>8, <1>9, <1>10, Quietly

\* One file is removed: what an orderly clear has before it is what is left.
LEMMA ClearsFile ==
    ASSUME CacheIInv, NEW p \in CacheProcs, ClearFile(p)
    PROVE  CacheIInv'
<1>1. CacheTypes /\ call[p].at = "clear" /\ UNCHANGED <<cacheSetup, calls, news>>
  BY DEF CacheIInv, ClearFile, At
<1>2. PICK k \in CacheKeys :
        \/ /\ payload' = [payload EXCEPT ![k] = "none"] /\ older' = Others(k) /\ metadata' = metadata
           /\ Go(p, [call[p] EXCEPT !.listed = @ \ {k}])
        \/ /\ metadata' = [metadata EXCEPT ![k] = "none"] /\ UNCHANGED <<payload, older>>
           /\ Go(p, [call[p] EXCEPT !.described = @ \ {k}])
  <2>1. call[p].listed \in SUBSET CacheKeys /\ call[p].described \in SUBSET CacheKeys
    BY <1>1, CacheFacts
  <2> QED
    BY <2>1 DEF ClearFile
<1> DEFINE files == {j \in CacheKeys : metadata[j] # "none"}
<1>3. PICK c \in Calls :
        /\ Go(p, c) /\ c.at = "clear"
        /\ \/ /\ Cached' = Cached \ {k} /\ older' = Without(older, k) /\ metadata' = metadata
              /\ c.listed = call[p].listed \ {k} /\ c.described = call[p].described
           \/ /\ Cached' = Cached /\ older' = older /\ metadata' = [metadata EXCEPT ![k] = "none"]
              /\ c.listed = call[p].listed /\ c.described = call[p].described \ {k}
  <2>1. call[p] \in Calls
    BY <1>1, CacheFacts
  <2>2. CASE /\ payload' = [payload EXCEPT ![k] = "none"] /\ older' = Others(k) /\ metadata' = metadata
             /\ Go(p, [call[p] EXCEPT !.listed = @ \ {k}])
    <3>1. Cached' = Cached \ {k} /\ older' = Without(older, k)
      BY <1>1, <2>2 DEF CacheTypes, Cached, Others, Without
    <3> DEFINE c == [call[p] EXCEPT !.listed = @ \ {k}]
    <3>2. c \in Calls /\ c.at = "clear" /\ c.listed = call[p].listed \ {k} /\ c.described = call[p].described
      BY <1>1, <2>1 DEF Calls
    <3> QED
      BY <2>2, <3>1, <3>2
  <2>3. CASE /\ metadata' = [metadata EXCEPT ![k] = "none"] /\ UNCHANGED <<payload, older>>
             /\ Go(p, [call[p] EXCEPT !.described = @ \ {k}])
    <3>1. Cached' = Cached
      BY <2>3 DEF Cached
    <3> DEFINE c == [call[p] EXCEPT !.described = @ \ {k}]
    <3>2. c \in Calls /\ c.at = "clear" /\ c.listed = call[p].listed /\ c.described = call[p].described \ {k}
      BY <1>1, <2>1 DEF Calls
    <3> QED
      BY <2>3, <3>1, <3>2
  <2> QED
    BY <1>2, <2>2, <2>3
<1>4. Acts(p, c)
  BY <1>1, <1>3, Acting
<1>5. Cached' \subseteq Cached /\ metadata' \in [CacheKeys -> Files]
      /\ payload' \in [CacheKeys -> {"none", "whole"}]
  BY <1>1, <1>2, <1>3 DEF CacheTypes, Files
<1>6. CacheTypes'
  BY <1>1, <1>3, <1>4, <1>5, TypesStep DEF CacheTypes
<1>7. InOrder(older', Cached')
  BY <1>3, Forgotten DEF CacheIInv
<1>8. TrimInv' /\ ExactInv'
  BY <1>1, <1>3, <1>4, <1>5, TrimStep, ExactStep, TrimIdle, ExactIdle DEF CacheIInv
<1>9. MetaInv'
  <2> SUFFICES ASSUME Orderly
               PROVE  /\ \A j \in CacheKeys : KeyFits(j, Cached', metadata', call')
                      /\ CallFits(c, Cached', metadata', Removes)
                      /\ \A q \in CacheProcs : q # p => CallFits(call[q], Cached', metadata', Removes)
    BY <1>4, MetaStep
  <2>1. Clearing(call')
    BY <1>3, <1>4 DEF Clearing, Acts
  <2>2. Removes /\ call[p].listed = Cached /\ call[p].described = files
    BY <1>1 DEF CacheIInv, MetaInv, CallFits
  <2>3. c.listed = Cached' /\ c.described = {j \in CacheKeys : metadata'[j] # "none"}
    <3>1. CASE /\ Cached' = Cached \ {k} /\ metadata' = metadata
               /\ c.listed = call[p].listed \ {k} /\ c.described = call[p].described
      BY <2>2, <3>1
    <3>2. CASE /\ Cached' = Cached /\ metadata' = [metadata EXCEPT ![k] = "none"]
               /\ c.listed = call[p].listed /\ c.described = call[p].described \ {k}
      <4>1. \A j \in CacheKeys : metadata'[j] = IF j = k THEN "none" ELSE metadata[j]
        BY <1>1, <3>2 DEF CacheTypes
      <4>2. files \ {k} = {j \in CacheKeys : metadata'[j] # "none"}
        BY <4>1
      <4> QED
        BY <2>2, <3>2, <4>2
    <3> QED
      BY <1>3, <3>1, <3>2
  <2>4. CallFits(c, Cached', metadata', Removes)
    BY <1>3, <2>2, <2>3 DEF CallFits
  <2>5. ASSUME NEW q \in CacheProcs, q # p PROVE CallFits(call[q], Cached', metadata', Removes)
    <3>1. call[q].at = "idle"
      BY <1>1, <1>4, <2>2, <2>5, AloneIs DEF Acts, Removes
    <3> QED
      BY <3>1 DEF CallFits
  <2> QED
    BY <2>1, <2>4, <2>5 DEF KeyFits
<1> QED
  BY <1>6, <1>7, <1>8, <1>9 DEF CacheIInv

\* An orderly clear leaves nothing.
LEMMA ClearEnds ==
    ASSUME CacheIInv, NEW p \in CacheProcs, Cleared(p)
    PROVE  CacheIInv'
<1>1. call[p].at = "clear" /\ Go(p, Idle) /\ UNCHANGED <<cacheSetup, payload, metadata, older, calls, news>>
  BY DEF Cleared, At
<1>2. CASE ~Orderly
  <2>1. "idle" \in Ats \ {"sort", "evict", "unmeta", "clear"}
    BY DEF Ats
  <2> QED
    BY <1>1, <1>2, <2>1, MovesOn
<1>3. CASE Orderly
  <2>1. CacheTypes
    BY DEF CacheIInv
  <2>2. Acts(p, Idle) /\ Idle.at = "idle"
    BY <1>1, <2>1, IdleIs, Acting
  <2>3. Cached' = Cached /\ metadata' = metadata /\ older' = older /\ news' = news
    BY <1>1 DEF Cached
  <2>4. CacheTypes' /\ InOrder(older', Cached')
    BY <1>1, <2>1, <2>2, <2>3, TypesStep DEF CacheIInv, CacheTypes
  <2>5. TrimInv' /\ ExactInv'
    BY <2>1, <2>2, <2>3, TrimStep, ExactStep, TrimIdle, ExactIdle DEF CacheIInv
  <2>6. call[p].listed = Cached /\ call[p].described = {k \in CacheKeys : metadata[k] # "none"}
    BY <1>1, <1>3 DEF CacheIInv, MetaInv, CallFits
  <2>7. Cached = {} /\ \A k \in CacheKeys : metadata[k] = "none"
    BY <1>3, <2>6 DEF Cleared, Orderly
  <2>8. \A k \in CacheKeys : KeyFits(k, Cached, metadata, call')
    BY <2>7 DEF KeyFits
  <2>9. CallFits(Idle, Cached, metadata, Removes)
    BY <2>2 DEF CallFits
  <2>10. MetaInv'
    BY <1>3, <2>2, <2>3, <2>8, <2>9, MetaStep DEF CacheIInv, MetaInv
  <2> QED
    BY <2>4, <2>5, <2>10 DEF CacheIInv
<1> QED
  BY <1>2, <1>3

-----------------------------------------------------------------------------
(* every step *)

LEMMA CacheInitially == ASSUME CacheInit PROVE CacheIInv
<1>1. PICK s \in CacheSetups : CacheStart(s)
  BY DEF CacheInit
<1>2. /\ cacheSetup = s /\ payload = [k \in CacheKeys |-> "none"] /\ metadata = payload
      /\ older = {} /\ calls = 0 /\ call = [p \in CacheProcs |-> Idle] /\ news = [p \in CacheProcs |-> {}]
  BY <1>1 DEF CacheStart
<1>3. Cached = {}
  BY <1>2 DEF Cached
<1>4. \A p \in CacheProcs : call[p] = Idle /\ call[p].at = "idle"
  BY <1>2, IdleIs
<1>5. s.calls \in Nat
  BY CacheAssumption DEF CacheAssumption
<1>6. CacheTypes
  <2>1. call \in [CacheProcs -> Calls]
    BY <1>2, IdleIs
  <2>2. calls \in 0 .. cacheSetup.calls
    BY <1>2, <1>5
  <2> QED
    BY <1>2, <1>4, <2>1, <2>2 DEF CacheTypes, Files
<1>7. InOrder(older, Cached)
  BY <1>2, <1>3 DEF InOrder
<1>8. TrimInv /\ ExactInv
  BY <1>4, TrimIdle, ExactIdle DEF TrimInv, ExactInv
<1>9. MetaInv
  BY <1>2, <1>3, <1>4 DEF MetaInv, KeyFits, CallFits
<1> QED
  BY <1>6, <1>7, <1>8, <1>9 DEF CacheIInv

LEMMA CacheStutters == ASSUME CacheIInv, UNCHANGED cacheVars PROVE CacheIInv'
<1>1. /\ cacheSetup' = cacheSetup /\ payload' = payload /\ metadata' = metadata /\ older' = older
      /\ call' = call /\ calls' = calls /\ news' = news /\ Cached' = Cached
  BY DEF cacheVars, Cached
<1>2. (OneProcess' <=> OneProcess) /\ (Orderly' <=> Orderly) /\ Removes' = Removes
  BY <1>1 DEF OneProcess, Orderly, Removes
<1> QED
  BY <1>1, <1>2 DEF CacheIInv, CacheTypes, TrimInv, ExactInv, MetaInv

LEMMA CacheStep == ASSUME CacheIInv, [CacheNext]_cacheVars PROVE CacheIInv'
<1>1. CASE UNCHANGED cacheVars
  BY <1>1, CacheStutters
<1>2. ASSUME NEW p \in CacheProcs, NEW k \in CacheKeys, Get(p, k) \/ Put(p, k) PROVE CacheIInv'
  BY <1>2, GotIt, PutsIt
<1>3. ASSUME NEW p \in CacheProcs, Copy(p) \/ Rename(p) \/ Stat(p) \/ OpenMeta(p) \/ FillMeta(p) PROVE CacheIInv'
  BY <1>3, CopiesIt, Appears, Statted, OpensMeta, FillsMeta
<1>4. ASSUME NEW p \in CacheProcs, List(p) \/ Sort(p) \/ Unlink(p) \/ UnlinkMeta(p) \/ Evicted(p)
      PROVE  CacheIInv'
  BY <1>4, Lists, Sorts, Unlinks, UnlinksMeta, EvictionEnds
<1>5. ASSUME NEW p \in CacheProcs, Clear(p) \/ ClearFile(p) \/ Cleared(p) \/ CacheDies(p) PROVE CacheIInv'
  BY <1>5, Clears, ClearsFile, ClearEnds, Dying
<1> QED
  BY <1>1, <1>2, <1>3, <1>4, <1>5 DEF CacheNext

\* Where nothing is removed, metadata are only written for payloads that stay.
SecondInv ==
    ~Removes => /\ \A k \in CacheKeys : metadata[k] # "none" => k \in Cached
                /\ \A p \in CacheProcs : call[p].at \notin {"sort", "evict", "unmeta", "clear"}
                /\ \A p \in CacheProcs : call[p].at \in {"stat", "meta", "fill"} => KeyOf(p) \in Cached

\* A step that leaves the metadata alone, or writes those of an entry.
LEMMA SecondStep ==
    ASSUME SecondInv, CacheTypes, NEW p \in CacheProcs, NEW c, Acts(p, c), Cached \subseteq Cached',
           ~Removes => c.at \notin {"sort", "evict", "unmeta", "clear"},
           ~Removes /\ c.at \in {"stat", "meta", "fill"} => Head(c.entries) \in Cached',
           ~Removes => \/ metadata' = metadata
                       \/ KeyOf(p) \in Cached /\ \E what : metadata' = [metadata EXCEPT ![KeyOf(p)] = what]
    PROVE  SecondInv'
<1>1. Removes' = Removes
  BY DEF Acts, Removes
<1> SUFFICES ASSUME ~Removes
             PROVE  /\ \A k \in CacheKeys : metadata'[k] # "none" => k \in Cached'
                    /\ \A q \in CacheProcs : call'[q].at \notin {"sort", "evict", "unmeta", "clear"}
                    /\ \A q \in CacheProcs : call'[q].at \in {"stat", "meta", "fill"}
                                             => Head(call'[q].entries) \in Cached'
  BY <1>1 DEF SecondInv, KeyOf
<1>2. ASSUME NEW k \in CacheKeys, metadata'[k] # "none" PROVE k \in Cached'
  BY <1>2 DEF SecondInv, CacheTypes
<1>3. ASSUME NEW q \in CacheProcs
      PROVE  /\ call'[q].at \notin {"sort", "evict", "unmeta", "clear"}
             /\ call'[q].at \in {"stat", "meta", "fill"} => Head(call'[q].entries) \in Cached'
  BY DEF SecondInv, Acts, KeyOf
<1> QED
  BY <1>2, <1>3

LEMMA SecondKept == ASSUME SecondInv, CacheTypes, [CacheNext]_cacheVars PROVE SecondInv'
<1>1. CASE UNCHANGED cacheVars
  BY <1>1 DEF cacheVars, SecondInv, Removes, Cached, KeyOf
<1>2. ASSUME NEW p \in CacheProcs, NEW k \in CacheKeys, Get(p, k) PROVE SecondInv'
  BY <1>2 DEF Get, SecondInv, Removes, Cached, KeyOf
<1>3. ASSUME NEW p \in CacheProcs, NEW k \in CacheKeys, Put(p, k) PROVE SecondInv'
  <2>1. Acts(p, CallOf("copy", k)) /\ CallOf("copy", k).at = "copy"
    BY <1>3, CallOfIs, BeginActing DEF Put
  <2> QED
    BY <1>3, <2>1, SecondStep DEF Put, Cached
<1>4. ASSUME NEW p \in CacheProcs, Copy(p) \/ Rename(p) \/ Stat(p) \/ OpenMeta(p) \/ FillMeta(p) \/ CacheDies(p)
      PROVE  SecondInv'
  <2>1. call[p].at # "idle" /\ call[p] \in Calls
    BY <1>4, CacheFacts DEF Copy, Rename, Stat, OpenMeta, FillMeta, CacheDies, At
  <2>2. PICK c \in Calls :
          /\ Go(p, c) /\ cacheSetup' = cacheSetup
          /\ c.at \in {"idle", "rename", "stat", "meta", "fill"}
          /\ c.at = "idle" \/ c.entries = call[p].entries
          /\ c.at \in {"stat", "meta", "fill"} => KeyOf(p) \in Cached' \/ call[p].at \in {"stat", "meta", "fill"}
    <3>1. \A at \in {"rename", "stat", "meta", "fill"} :
             /\ Moved(call[p], at) \in Calls /\ Moved(call[p], at).at = at
             /\ Moved(call[p], at).entries = call[p].entries
      BY <2>1, MovedIs DEF Ats
    <3>2. CASE Go(p, Idle)
      BY <1>4, <3>2, IdleIs DEF Copy, Rename, Stat, OpenMeta, FillMeta, CacheDies
    <3>3. CASE ~Go(p, Idle)
      <4>1. CASE Rename(p)
        <5>1. KeyOf(p) \in CacheKeys
          BY <2>1, <4>1, CacheFacts DEF Rename, At
        <5>2. payload' = [payload EXCEPT ![KeyOf(p)] = "whole"]
          BY <3>3, <4>1 DEF Rename
        <5>3. KeyOf(p) \in Cached'
          BY <5>1, <5>2 DEF CacheTypes, Cached
        <5> QED
          BY <3>1, <3>3, <4>1, <5>3 DEF Rename, Moved
      <4>2. CASE ~Rename(p)
        BY <1>4, <3>1, <3>3, <4>2 DEF Copy, Stat, OpenMeta, FillMeta, CacheDies, At, Moved
      <4> QED
        BY <4>1, <4>2
    <3> QED
      BY <3>2, <3>3
  <2>3. Acts(p, c)
    BY <2>1, <2>2, Acting
  <2>4. Cached \subseteq Cached'
    <3>1. payload' = payload \/ payload' = [payload EXCEPT ![KeyOf(p)] = "whole"]
      BY <1>4 DEF Copy, Rename, Stat, OpenMeta, FillMeta, CacheDies
    <3> QED
      BY <3>1 DEF CacheTypes, Cached
  <2>5. ~Removes /\ c.at \in {"stat", "meta", "fill"} => Head(c.entries) \in Cached'
    BY <2>2, <2>4 DEF SecondInv, KeyOf
  <2>6. \/ metadata' = metadata
        \/ /\ call[p].at \in {"meta", "fill"}
           /\ \E what : metadata' = [metadata EXCEPT ![KeyOf(p)] = what]
    BY <1>4 DEF Copy, Rename, Stat, OpenMeta, FillMeta, CacheDies, At
  <2>7. ~Removes => metadata' = metadata
                    \/ (KeyOf(p) \in Cached /\ \E what : metadata' = [metadata EXCEPT ![KeyOf(p)] = what])
    BY <2>6 DEF SecondInv
  <2> QED
    BY <2>2, <2>3, <2>4, <2>5, <2>7, SecondStep
<1>5. ASSUME NEW p \in CacheProcs, List(p) \/ Sort(p) \/ Unlink(p) \/ UnlinkMeta(p) \/ Evicted(p)
                                   \/ Clear(p) \/ ClearFile(p) \/ Cleared(p)
      PROVE  SecondInv'
  <2>1. Removes
    BY <1>5 DEF List, Sort, Unlink, UnlinkMeta, Evicted, Clear, ClearFile, Cleared, SecondInv, Removes, At
  <2>2. cacheSetup' = cacheSetup
    BY <1>5 DEF List, Sort, Unlink, UnlinkMeta, Evicted, Clear, ClearFile, Cleared
  <2> QED
    BY <2>1, <2>2 DEF SecondInv, Removes
<1> QED
  BY <1>1, <1>2, <1>3, <1>4, <1>5 DEF CacheNext

LEMMA CacheInvariant == CacheSpec => []CacheIInv
<1>1. CacheInit => CacheIInv
  BY CacheInitially
<1>2. CacheIInv /\ [CacheNext]_cacheVars => CacheIInv'
  BY CacheStep
<1> QED
  BY <1>1, <1>2, PTL DEF CacheSpec

-----------------------------------------------------------------------------

LEMMA SecondInvariant == CacheSpec => []SecondInv
<1>1. CacheInit => SecondInv
  BY IdleIs DEF CacheInit, CacheStart, SecondInv
<1>2. CacheIInv /\ SecondInv /\ [CacheNext]_cacheVars => SecondInv'
  BY SecondKept DEF CacheIInv
<1> QED
  BY <1>1, <1>2, CacheInvariant, PTL DEF CacheSpec

\* The cache has its type, and the payloads there are are in one order of use:
\* a step of one process never leaves a place in it to a key that has none.
THEOREM CacheType == CacheSpec => []CacheTypeOK
<1>1. ASSUME CacheIInv PROVE CacheTypeOK
  <2>1. CacheTypes /\ InOrder(older, Cached)
    BY <1>1 DEF CacheIInv
  <2>2. payload \in [CacheKeys -> Files]
    BY <2>1 DEF CacheTypes, Files
  <2> QED
    BY <2>1, <2>2, CacheFacts DEF CacheTypeOK, CacheTypes, InOrder, Ats
<1> QED
  BY <1>1, CacheInvariant, PTL

\* For any processes, keys, sizes, deaths and failing file operations: a payload
\* that is found is whole; an eviction that returns has brought what it could list
\* and unlink under target_bytes; metadata and payloads agree when nobody is in a
\* call, none has died, no file operation has failed and evictions have not met
\* puts; and where nothing is removed no metadata are without their payload
\* (cache.py:113-292).
THEOREM CacheSound == CacheSpec => []CacheIsSound
<1>1. ASSUME CacheIInv, SecondInv PROVE CacheIsSound
  <2>1. CacheTypes
    BY <1>1 DEF CacheIInv
  <2>2. PayloadIsWhole
    BY <2>1 DEF PayloadIsWhole, CacheTypes, Cached
  <2>3. ASSUME NEW p \in CacheProcs, At(p, "evict"), Enough(p)
        PROVE  SizeOf(Cached \ news[p]) <= cacheSetup.target
    <3>1. call[p].entries \in Seq(CacheKeys) /\ Keys(call[p].entries) \in SUBSET CacheKeys /\ call[p].current \in Nat
      BY <2>1, CacheFacts, KeysOfList
    <3>2. Cached \ news[p] \subseteq Keys(call[p].entries) /\ SizeOf(Keys(call[p].entries)) <= call[p].current
      BY <1>1, <2>3 DEF CacheIInv, TrimInv, Trim, At
    <3>3. SizeOf(Cached \ news[p]) <= SizeOf(Keys(call[p].entries))
      BY <3>1, <3>2, SizeGrows
    <3>4. SizeOf(Cached \ news[p]) \in Nat /\ SizeOf(Keys(call[p].entries)) \in Nat /\ cacheSetup.target \in Nat
      BY <2>1, <3>1, UnitsFinite, CacheAssumption DEF Cached, CacheTypes, CacheAssumption
    <3>5. CASE call[p].current <= cacheSetup.target
      BY <3>1, <3>2, <3>3, <3>4, <3>5
    <3>6. CASE call[p].entries = <<>>
      <4>1. Cached \ news[p] = {}
        BY <3>2, <3>6 DEF Keys
      <4>2. SizeOf(Cached \ news[p]) = 0
        BY <4>1, NothingHasNoSize
      <4> QED
        BY <3>4, <4>2
    <3> QED
      BY <2>3, <3>5, <3>6 DEF Enough
  <2>4. ASSUME Orderly, \A p \in CacheProcs : At(p, "idle"), NEW k \in CacheKeys
        PROVE  metadata[k] = (IF k \in Cached THEN "whole" ELSE "none")
    <3>1. KeyFits(k, Cached, metadata, call)
      BY <1>1, <2>4 DEF CacheIInv, MetaInv
    <3>2. /\ ~Doing(call, {"unmeta"}, k) /\ ~Doing(call, {"stat", "meta"}, k) /\ ~Doing(call, {"fill"}, k)
          /\ ~Clearing(call)
      BY <2>4 DEF Doing, Clearing, At
    <3>3. metadata[k] \in Files
      BY <2>1 DEF CacheTypes
    <3> QED
      BY <3>1, <3>2, <3>3 DEF KeyFits, Files
  <2>5. MetadataFollowPayload
    BY <2>4 DEF MetadataFollowPayload, Orderly, Removes
  <2>6. MetadataComeSecond
    BY <1>1 DEF SecondInv, MetadataComeSecond, Removes
  <2> QED
    BY <2>2, <2>3, <2>5, <2>6 DEF CacheIsSound, TrimmedToTarget
<1> QED
  BY <1>1, CacheInvariant, SecondInvariant, PTL

\* With one process, an eviction takes the entry used least recently of those that
\* it could list and unlink, and takes one only while the cache is over
\* target_bytes as long as no file operation fails (cache.py:252-273).
THEOREM OldestEvicted == CacheSpec => EvictsOldestWhenFull
<1>1. ASSUME CacheIInv, CacheIInv', CacheNext, Evicting, OneProcess
      PROVE  /\ \E k \in Cached : /\ payload' = [payload EXCEPT ![k] = "none"]
                                  /\ \A j \in Cached \ Stuck : <<j, k>> \notin older
             /\ cacheSetup.fails \/ SizeOf(Cached) > cacheSetup.target
  <2>1. CacheTypes
    BY <1>1 DEF CacheIInv
  <2>2. PICK p \in CacheProcs : call[p].at = "evict" /\ call'[p].at = "unmeta"
    BY <1>1 DEF Evicting, At
  <2>3. Unlink(p)
    <3>1. \A q \in CacheProcs : q # p => call[q].at = "idle"
      BY <1>1, <2>1, <2>2, CacheFacts, OthersIdle
    <3>2. PICK q \in CacheProcs :
            \/ \E j \in CacheKeys : Get(q, j) \/ Put(q, j)
            \/ Copy(q) \/ Rename(q) \/ Stat(q) \/ OpenMeta(q) \/ FillMeta(q)
            \/ List(q) \/ Sort(q) \/ Unlink(q) \/ UnlinkMeta(q) \/ Evicted(q)
            \/ Clear(q) \/ ClearFile(q) \/ Cleared(q) \/ CacheDies(q)
      BY <1>1 DEF CacheNext
    <3>3. p \in cacheSetup.procs
      BY <2>1, <2>2, CacheFacts
    <3>4. CASE Begin(q)
      <4>1. q = p
        BY <1>1, <3>3, <3>4 DEF OneProcess, Begin
      <4> QED
        BY <2>2, <3>4, <4>1 DEF Begin, At
    <3>5. CASE ~Begin(q)
      <4>1. \/ Copy(q) \/ Rename(q) \/ Stat(q) \/ OpenMeta(q) \/ FillMeta(q)
            \/ Sort(q) \/ Unlink(q) \/ UnlinkMeta(q) \/ Evicted(q)
            \/ ClearFile(q) \/ Cleared(q) \/ CacheDies(q)
        BY <3>2, <3>5 DEF Get, Put, List, Clear
      <4>2. call[q].at # "idle"
        BY <4>1 DEF Copy, Rename, Stat, OpenMeta, FillMeta, Sort, Unlink, UnlinkMeta, Evicted, ClearFile, Cleared,
                    CacheDies, At
      <4>3. q = p
        BY <3>1, <4>2
      <4>4. Unlink(p) \/ Evicted(p) \/ CacheDies(p)
        BY <2>2, <4>1, <4>3 DEF Copy, Rename, Stat, OpenMeta, FillMeta, Sort, UnlinkMeta, ClearFile, Cleared, At
      <4>5. ~Go(p, Idle)
        BY <2>1, <2>2, GoIs, IdleIs DEF CacheTypes
      <4> QED
        BY <4>4, <4>5 DEF Evicted, CacheDies
    <3> QED
      BY <3>4, <3>5
  <2> DEFINE k == KeyOf(p)  list == call[p].entries
  <2>4. /\ ~Enough(p) /\ payload' = [payload EXCEPT ![k] = "none"]
        /\ Go(p, IF k \in Cached THEN [call[p] EXCEPT !.at = "unmeta"] ELSE Passed(p))
    <3>1. ~Go(p, Passed(p))
      <4>1. list # <<>> /\ call[p] \in Calls
        BY <2>1, <2>3, CacheFacts DEF Unlink, Enough
      <4>2. Passed(p) \in Calls /\ Passed(p).at = "evict"
        BY <4>1, PassedIs DEF Passed, PassedCall
      <4> QED
        BY <2>1, <2>2, <4>2, GoIs DEF CacheTypes
    <3> QED
      BY <2>3, <3>1 DEF Unlink
  <2>5. /\ Keys(list) = Cached \ news[p] /\ Sorted(list, older)
        /\ cacheSetup.fails \/ call[p].current = SizeOf(Cached)
    BY <1>1, <2>2 DEF CacheIInv, ExactInv, ExactCall
  <2>6. list \in Seq(CacheKeys) /\ list # <<>> /\ call[p].current > cacheSetup.target
    <3>1. call[p].current \in Nat /\ cacheSetup.target \in Nat /\ list \in Seq(CacheKeys)
      BY <2>1, CacheFacts, CacheAssumption DEF CacheTypes, CacheAssumption
    <3> QED
      BY <2>4, <3>1 DEF Enough
  <2>7. /\ k = Head(list) /\ Keys(list) = Keys(Tail(list)) \cup {k}
        /\ \A j \in Keys(Tail(list)) : <<j, k>> \notin older
    BY <2>5, <2>6, HeadAndTail DEF KeyOf
  <2>8. k \in Cached /\ <<k, k>> \notin older
    BY <1>1, <2>5, <2>7 DEF CacheIInv, InOrder
  <2>9. Cached \ Stuck \subseteq Keys(list)
    BY <2>2, <2>5 DEF Stuck, At
  <2> HIDE DEF k, list
  <2> QED
    BY <2>4, <2>5, <2>6, <2>7, <2>8, <2>9
<1>2. CacheIInv /\ CacheIInv' /\ [CacheNext]_cacheVars
        => [Evicting /\ OneProcess
              => /\ \E k \in Cached : /\ payload' = [payload EXCEPT ![k] = "none"]
                                    /\ \A j \in Cached \ Stuck : <<j, k>> \notin older
                 /\ cacheSetup.fails \/ SizeOf(Cached) > cacheSetup.target]_cacheVars
  BY <1>1
<1> QED
  BY <1>2, CacheInvariant, PTL DEF CacheSpec, EvictsOldestWhenFull

-----------------------------------------------------------------------------
(* --- MCFiles ----------------------------------------------------------------- *)

\* A behaviour of the parts side by side is a behaviour of each.
LEMMA PartsApart == Spec => CacheSpec /\ RunSpec /\ SnapSpec /\ SchemaSpec
<1>1. Init => CacheInit /\ RunInit /\ SnapInit /\ SchemaInit
  <2>1. ASSUME NEW S, S # {} PROVE (CHOOSE s \in S : TRUE) \in S
    BY <2>1
  <2>2. /\ (CHOOSE s \in CacheSetups : TRUE) \in CacheSetups /\ (CHOOSE s \in RunSetups : TRUE) \in RunSetups
        /\ (CHOOSE s \in SnapSetups : TRUE) \in SnapSetups /\ (CHOOSE s \in SchemaSetups : TRUE) \in SchemaSetups
    BY <2>1, PartsAssumption DEF PartsAssumption
  <2> QED
    BY <2>2 DEF Init, CacheInit, RunInit, SnapInit, SchemaInit
<1>2. [Next]_vars => [CacheNext]_cacheVars /\ [RunNext]_runVars /\ [SnapNext]_snapVars /\ [SchemaNext]_schemaVars
  BY DEF Next, vars
<1> QED
  BY <1>1, <1>2, PTL DEF Spec, CacheSpec, RunSpec, SnapSpec, SchemaSpec

\* What is checked in one run, for any instances of the parts.
THEOREM FilesType == Spec => []FilesTypeOK
  BY PartsApart, CacheType, RunType, SnapType, SchemaTypes, PTL DEF FilesTypeOK
=============================================================================
