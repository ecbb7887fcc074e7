------------------------------- MODULE WrfRun -------------------------------
(***************************************************************************)
(* The step of the runner that couples WRF-SFIRE to the cube: extract,     *)
(* compute (engine/model_adapter.py: stage, run, parse, validate, clean    *)
(* up), update (engine/contracts.py), with the hooks of                    *)
(* models/wrf_sfire_adapter.py, under the retry policy of the engine.      *)
(*                                                                         *)
(* The grid is one row of cells, each Fmr cells of the fire mesh.  Times   *)
(* are in tenths of a second.  wrf.exe is external: it burns the cells     *)
(* ignited in its input, and others it decides on from its inputs alone.   *)
(***************************************************************************)
EXTENDS Integers, Sequences, FiniteSets, FiniteSetsExt

CONSTANTS WrfWidth, Fmr,   \* cells of the grid, fire_mesh_ratio
          IgnitionTimes,   \* the values of ignition_t0
          Spread,          \* the time at which spread reaches a cell
          Reaches,         \* the sets of fire cells that it may reach
          Unignited,       \* _UNIGNITED_SENTINEL_S
          MaxTries,        \* RetryPolicy.max_attempts
          WrfSetups

NaN == -2    \* also of no use: any other negative time

GridCells == 0 .. WrfWidth - 1
FireCells == 0 .. WrfWidth * Fmr - 1

ASSUME WrfAssumption ==
    /\ WrfWidth \in Nat \ {0} /\ Fmr \in Nat \ {0} /\ MaxTries \in Nat \ {0}
    /\ IgnitionTimes \subseteq Int /\ Spread \in Nat /\ Unignited \in Nat
    \* the sentinel is later than anything that burns
    /\ Spread < Unignited /\ \A t \in IgnitionTimes \cup {0} : t + 10 < Unignited
    /\ Reaches \subseteq SUBSET FireCells
    /\ WrfSetups \subseteq [real : {"unused", "empty", "files"}, \* real_cmd with a met_em_dir, and what is in it
                            wind : {"none", "aligned", "apart"}, \* the time axes of the wind
                            extra : BOOLEAN,       \* extra_outputs or smoke_outputs
                            refetch : BOOLEAN,     \* the inputs may change between two runs
                            keep : BOOLEAN, dies : BOOLEAN,
                            lingers : BOOLEAN,     \* a directory rmtree is to remove may stay
                            runs : Nat]            \* bound: steps begun

VARIABLES wrfSetup,
          ignition, burnable, \* ignition_t0 and nfuel_cat in 1..13, in the cube
          reached,            \* fire cells that spread reaches, given these inputs
          output,             \* what the cube holds of the producer's outputs
          wrfAt,              \* where the step is
          try,                \* the count of attempt_with_retry
          stage,              \* the files of the attempt's stage directory
          dirs,               \* stage directories there are
          todo,               \* outputs update has still to write
          fresh,              \* the step has succeeded since the inputs changed
          runs                \* steps begun

inputs == <<ignition, burnable, reached>>
wrfVars == <<wrfSetup, inputs, output, wrfAt, try, stage, dirs, todo, fresh, runs>>

NoStage == [tignInTime |-> 0, tignIn |-> <<>>, tignG |-> <<>>]
NoArray == [c \in GridCells |-> NaN]
Produces == <<"arrival_s", "fire_area">> \o (IF wrfSetup.extra THEN <<"diagnostics">> ELSE <<>>)
OutputNames == {"arrival_s", "fire_area", "diagnostics"}

-----------------------------------------------------------------------------
(* --- arrays -------------------------------------------------------------- *)

\* _block_replicate, and _block_reduce with the operation min; the mean of the
\* burned fraction is a count.
Block(c) == {f \in FireCells : f \div Fmr = c}
Replicate(a) == [f \in FireCells |-> a[f \div Fmr]]
ReduceMin(b) == [c \in GridCells |-> Min({b[f] : f \in Block(c)})]
Burned(b) == [c \in GridCells |-> Cardinality({f \in Block(c) : b[f] # Unignited})]

Valid(t) == t >= 0

\* The latest ignition and a second.
TignInTime == Max({0} \cup {t \in {ignition[c] : c \in GridCells} : Valid(t)}) + 10

\* Mutated form: fuel is not looked at.
TignInAnyFuel == [c \in GridCells |-> IF Valid(ignition[c]) THEN Min({ignition[c], TignInTime - 1}) ELSE Unignited]

\* _inject_sfire_inputs
TignIn == [c \in GridCells |-> IF Valid(ignition[c]) /\ burnable[c]
                           THEN Min({ignition[c], TignInTime - 1}) ELSE Unignited]

\* wrf.exe (external), on what was injected.
Burn == [f \in FireCells |->
            IF stage.tignIn[f] <= stage.tignInTime THEN stage.tignIn[f]
            ELSE IF f \in reached THEN Spread ELSE Unignited]

\* parse_outputs: no time is left where nothing burned.
Arrival(g) == [c \in GridCells |-> IF ReduceMin(g)[c] = Unignited THEN NaN ELSE ReduceMin(g)[c]]
Result(name) == CASE name = "arrival_s" -> Arrival(stage.tignG)
                  [] name = "fire_area" -> Burned(stage.tignG)
                  [] OTHER -> NoArray    \* of variables this wrf.exe does not write

\* Mutated form: the policy ACCUMULATE.
MergedAccumulating(name, new) ==
    [c \in GridCells |-> IF output[name][c] = NaN THEN new[c] ELSE output[name][c] + new[c]]

\* merge: MONOTONE_MIN for arrival_s, MONOTONE_MAX for the others; NaN gives way.
Merged(name, new) ==
    [c \in GridCells |->
        LET there == {output[name][c], new[c]} \ {NaN}
        IN  CASE there = {} -> NaN
              [] there # {} /\ name = "arrival_s" -> Min(there)
              [] OTHER -> Max(there)]

-----------------------------------------------------------------------------
(* --- the step ------------------------------------------------------------ *)

InputsAre(i, b, r) == ignition = i /\ burnable = b /\ reached = r
WrfStart(s) ==
    /\ wrfSetup = s
    /\ output = [n \in OutputNames |-> NoArray]
    /\ wrfAt = "idle" /\ try = 0 /\ stage = NoStage /\ dirs = 0
    /\ todo = <<>> /\ fresh = FALSE /\ runs = 0
WrfInit ==
    /\ \E s \in WrfSetups : WrfStart(s)
    /\ ignition \in [GridCells -> IgnitionTimes] /\ burnable \in [GridCells -> BOOLEAN]
    /\ reached \in Reaches

\* The user, or the producers before this one.
Refetch ==
    /\ wrfAt = "idle" /\ wrfSetup.refetch /\ fresh
    /\ ignition' \in [GridCells -> IgnitionTimes] /\ burnable' \in [GridCells -> BOOLEAN]
    /\ reached' \in Reaches
    /\ fresh' = FALSE
    /\ UNCHANGED <<wrfSetup, output, wrfAt, try, stage, dirs, todo, runs>>

\* run(): extract, and a new stage directory.
Attempt(n) ==
    /\ wrfAt' = "stage" /\ try' = n /\ stage' = NoStage
    /\ UNCHANGED <<wrfSetup, inputs, output, todo>>
Start ==
    /\ wrfAt = "idle" /\ runs < wrfSetup.runs
    /\ Attempt(1) /\ dirs' = dirs + 1 /\ runs' = runs + 1
    /\ UNCHANGED fresh

\* _patch_input_sounding_with_wind raises; and _make_wrfinput, if it is to run
\* real.exe.  Whether the wrfinput is by real.exe, by ideal.exe or, if neither left
\* one, a minimal one, the same is injected into it.
WindsApart == wrfSetup.wind = "apart"
NoMetEm == wrfSetup.real = "empty"

\* stage_inputs
StageInputs ==
    /\ wrfAt = "stage" /\ ~WindsApart /\ ~NoMetEm
    /\ wrfAt' = "run"
    /\ stage' = [NoStage EXCEPT !.tignInTime = TignInTime, !.tignIn = Replicate(TignIn)]
    /\ UNCHANGED <<wrfSetup, inputs, output, try, dirs, todo, fresh, runs>>

RunModel ==
    /\ wrfAt = "run" /\ wrfAt' = "parse"
    /\ stage' = [stage EXCEPT !.tignG = Burn]
    /\ UNCHANGED <<wrfSetup, inputs, output, try, dirs, todo, fresh, runs>>

\* Mutated form: the directory is removed only if the model has run.
RemoveIfParsed == dirs' = IF wrfSetup.keep \/ wrfAt # "parse" THEN dirs ELSE dirs - 1

\* The finally clause of compute; rmtree ignores that it cannot remove a file.
RemoveStage ==
    \/ ~wrfSetup.keep /\ dirs' = dirs - 1
    \/ (wrfSetup.keep \/ wrfSetup.lingers) /\ dirs' = dirs

\* parse_outputs and _validate_outputs; the stage directory goes, the arrays
\* stay in memory.
ParseOutputs ==
    /\ wrfAt = "parse" /\ wrfAt' = "update"
    /\ RemoveStage /\ todo' = Produces
    /\ UNCHANGED <<wrfSetup, inputs, output, try, stage, fresh, runs>>

\* A template, a met_em file or a wrfout is missing, the wind's axes differ, or
\* a command exits with an error: the directory goes here as well.
ComputeFails ==
    /\ wrfAt \in {"stage", "run", "parse"} /\ wrfAt' = "failed"
    /\ RemoveStage
    /\ UNCHANGED <<wrfSetup, inputs, output, try, stage, todo, fresh, runs>>

\* update, one output after the other.
UpdateOutput ==
    /\ wrfAt = "update" /\ todo # <<>>
    /\ output' = [output EXCEPT ![Head(todo)] = Merged(Head(todo), Result(Head(todo)))]
    /\ todo' = Tail(todo)
    /\ UNCHANGED <<wrfSetup, inputs, wrfAt, try, stage, dirs, fresh, runs>>

UpdateFails ==
    /\ wrfAt = "update" /\ todo # <<>>
    /\ wrfAt' = "failed" /\ todo' = <<>>
    /\ UNCHANGED <<wrfSetup, inputs, output, try, stage, dirs, fresh, runs>>

\* Mutated form: one attempt more.
RetryOnceMore ==
    /\ wrfAt = "failed" /\ try <= MaxTries
    /\ Attempt(try + 1) /\ dirs' = dirs + 1
    /\ UNCHANGED <<fresh, runs>>

\* attempt_with_retry runs all of run() again, or gives up.
Retry ==
    /\ wrfAt = "failed" /\ try < MaxTries
    /\ Attempt(try + 1) /\ dirs' = dirs + 1
    /\ UNCHANGED <<fresh, runs>>
End(ok) ==
    /\ wrfAt' = "idle" /\ stage' = NoStage /\ try' = 0 /\ fresh' = (fresh \/ ok)
    /\ UNCHANGED <<wrfSetup, inputs, output, dirs, runs>>
Succeed == wrfAt = "update" /\ todo = <<>> /\ End(TRUE) /\ UNCHANGED todo
StepGivesUp == wrfAt = "failed" /\ try = MaxTries /\ End(FALSE) /\ UNCHANGED todo
WrfDies == wrfSetup.dies /\ wrfAt # "idle" /\ End(FALSE) /\ todo' = <<>>

WrfNext ==
    \/ Refetch \/ Start \/ StageInputs \/ RunModel \/ ParseOutputs \/ ComputeFails
    \/ UpdateOutput \/ UpdateFails \/ Retry \/ Succeed \/ StepGivesUp \/ WrfDies

WrfSpec == WrfInit /\ [][WrfNext]_wrfVars

-----------------------------------------------------------------------------
(* --- properties ---------------------------------------------------------- *)

\* Types; an attempt is counted while a step is under way, and no step makes more
\* stage directories than it makes attempts.
WrfTypeOK ==
    /\ wrfAt \in {"idle", "stage", "run", "parse", "update", "failed"}
    /\ try \in 0 .. MaxTries /\ (wrfAt = "idle") = (try = 0)
    /\ dirs \in 0 .. MaxTries * wrfSetup.runs
    /\ \A n \in OutputNames : output[n] \in [GridCells -> Int]
    /\ wrfAt \in {"run", "parse", "update"} => stage.tignIn \in [FireCells -> Int]

\* wrf.exe finds ignited exactly the fire cells of the cells that have a time in
\* ignition_t0 and fuel that burns, with that time.
PreIgnitedExactly ==
    wrfAt \in {"run", "parse"} =>
        \A f \in FireCells :
            LET c == f \div Fmr
                ignited == Valid(ignition[c]) /\ burnable[c]
            IN  /\ (stage.tignIn[f] <= stage.tignInTime) = ignited
                /\ ignited => stage.tignIn[f] = ignition[c]

\* What the inputs of the cube make of a cell, read off without the stage.
Expected(c) ==
    CASE Valid(ignition[c]) /\ burnable[c] -> ignition[c]
      [] ~(Valid(ignition[c]) /\ burnable[c]) /\ Block(c) \cap reached # {} -> Spread
      [] OTHER -> NaN
ExpectedArea(c) == IF Valid(ignition[c]) /\ burnable[c] THEN Fmr ELSE Cardinality(Block(c) \cap reached)
OutputsAreExpected ==
    \A c \in GridCells : output["arrival_s"][c] = Expected(c) /\ output["fire_area"][c] = ExpectedArea(c)

\* A step that succeeds leaves in the cube what the model makes of the inputs,
\* cell by cell, though attempts before it failed or died between two outputs
\* and their halves are merged with: as long as the inputs never change.
OutputsAreTheModels == fresh /\ ~wrfSetup.refetch => OutputsAreExpected

\* No stage directory outlives its attempt, failed or not, but where the user
\* keeps them, one cannot be removed or the process dies.
StagesAreRemoved ==
    wrfAt \in {"idle", "failed", "update"} /\ ~wrfSetup.keep /\ ~wrfSetup.lingers /\ ~wrfSetup.dies => dirs = 0

\* The model is given what the cube has, the cube gets what the model makes of it,
\* and nothing is left behind, through failures, retries and deaths
\* (model_adapter.py:118-139, wrf_sfire_adapter.py:244-368).
WrfStepIsSound == PreIgnitedExactly /\ OutputsAreTheModels /\ StagesAreRemoved

\* A step run again because its inputs were fetched again leaves in the cube
\* what the model makes of the new inputs.
RerunReplacesOutputs == fresh /\ wrfAt = "idle" => OutputsAreExpected
=============================================================================
