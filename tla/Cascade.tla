------------------------------- MODULE Cascade -------------------------------
(***************************************************************************)
(* The command line run (scripts/run_cascade.py, with models/catalog.py    *)
(* and the same steps in scripts/run_fire_dallas.py): a scenario from the  *)
(* command line or a YAML file becomes the configuration of the cube and,  *)
(* apart from it, of WRF; WRF and its meteorology are built when asked     *)
(* for; then the wind and the targets are resolved into the cube.  It is   *)
(* invoked again and again on one --out directory.                         *)
(*                                                                         *)
(* The steps it calls are models of their own (Bootstrap, WpsChain,        *)
(* PipelineBuilder, CubeFreshness, WrfRun); here each succeeds or fails,   *)
(* and the wind is the days its array has (the catalog rows that stay when *)
(* it is rewritten are in TimeWindows and DataResolve).  --met-em-dir and  *)
(* --real, which hand WRF a directory somebody else made, are left out.    *)
(***************************************************************************)
EXTENDS Integers, FiniteSets

CONSTANTS CascadeSetups, WindDays, DefaultPulse

Scenario == [start : Nat, days : Nat, mesh : Nat, build : BOOLEAN, pulse : Nat]

ASSUME CascadeAssumption ==
    /\ WindDays \in Nat /\ DefaultPulse \in Nat
    /\ \A s \in CascadeSetups :   \* the invocations there may be, and how many
         /\ \A i \in s.invocations :
              /\ i.cli \in Scenario /\ i.yaml \in SUBSET Scenario
              /\ \A y, z \in i.yaml : y = z   \* one scenario file, or none
              /\ i.dry \in BOOLEAN /\ i.bootstrap \in BOOLEAN
         /\ s.times \in Nat

VARIABLES cascadeSetup, calls,
          at,          \* the step main() is at
          call,        \* the invocation
          args, config, adapter,   \* of the command line, the cube, and WRF
          installed, metEm,        \* the compiled stack; the period met_em is for
          thermal, wind, arrival,  \* the cube: {}, or what each is of
          stale,       \* an input was written after the arrival times
          exit, scenarios  \* the exit code; the scenarios this cube was run for

cubeFiles == <<thermal, wind, arrival, stale>>
files == <<installed, metEm, cubeFiles>>
settings == <<args, config, adapter>>
cascadeVars == <<cascadeSetup, calls, at, call, settings, files, exit, scenarios>>

CascadeStart(s) ==
    /\ cascadeSetup = s /\ calls = 0 /\ at = "out" /\ exit = "" /\ scenarios = {}
    /\ call = CHOOSE i \in s.invocations : TRUE   \* not looked at before the first call
    /\ args = call.cli /\ config = args /\ adapter = args
    /\ installed = FALSE /\ metEm = {}
    /\ thermal = {} /\ wind = {} /\ arrival = {} /\ stale = FALSE
CascadeInit == \E s \in CascadeSetups : CascadeStart(s)

-----------------------------------------------------------------------------
Go(step) == at' = step /\ UNCHANGED <<cascadeSetup, calls, call>>
Return(code) == exit' = code /\ Go("out")

Main(i) ==
    /\ at = "out" /\ calls < cascadeSetup.times
    /\ calls' = calls + 1 /\ at' = "load" /\ call' = i /\ args' = i.cli /\ exit' = ""
    /\ UNCHANGED <<cascadeSetup, config, adapter, files, scenarios>>

\* Mutated form: the mesh ratio stays that of the command line.
AppliedLess(a, y) == [y EXCEPT !.pulse = a.pulse, !.mesh = a.mesh]

\* _apply_loaded_scenario: all but the pulse, which no configuration is given.
Applied(a, y) == [y EXCEPT !.pulse = a.pulse]
Load ==
    /\ at = "load"
    /\ LET a == IF call.yaml = {} THEN args ELSE CHOOSE r \in {Applied(args, y) : y \in call.yaml} : TRUE
       IN  /\ args' = a
           /\ config' = [a EXCEPT !.pulse = DefaultPulse]
    /\ Go("kml")
    /\ UNCHANGED <<adapter, files, exit, scenarios>>
KmlNotFound == at = "kml" /\ Return("2") /\ UNCHANGED <<settings, files, scenarios>>

\* bootstrap(dry_run=...) only makes its plan in a dry run.
Install ==
    /\ at = "kml"
    /\ installed' = (installed \/ (call.bootstrap /\ ~call.dry))
    /\ Go("met_em") /\ UNCHANGED <<settings, metEm, cubeFiles, exit, scenarios>>

\* Mutated form: also in a dry run.
BuildsAlways == args.build

BuildsMetEm == args.build /\ ~call.dry
MetEm ==
    /\ at = "met_em"
    /\ metEm' = IF BuildsMetEm THEN {[start |-> config.start, days |-> config.days]} ELSE metEm
    /\ Go("resolve") /\ UNCHANGED <<settings, installed, cubeFiles, exit, scenarios>>

\* build_wrf_sfire takes its period and mesh from the WRF scenario if there is one.
Resolve ==
    /\ at = "resolve"
    /\ adapter' = IF call.yaml = {} THEN config ELSE CHOOSE y \in call.yaml : TRUE
    /\ IF call.dry THEN Return("0") /\ UNCHANGED scenarios
       ELSE Go("wind") /\ scenarios' = scenarios \cup {config} /\ UNCHANGED exit
    /\ UNCHANGED <<args, config, files>>

\* Any of these calls may raise, out of main().
Raises ==
    /\ at \in {"load", "kml", "met_em", "resolve", "wind"} /\ Return("raised")
    /\ UNCHANGED <<settings, files, scenarios>>

Covers(from, to) == \E w \in wind : w.from <= from /\ w.to >= to
WindFor(from, to) == {[from |-> from, to |-> to]}

\* What the wind run reports is not looked at: it may have written some of its days.
Wind ==
    /\ at = "wind"
    /\ LET to == config.start + WindDays IN
       \/ Covers(config.start, to) /\ UNCHANGED cubeFiles
       \/ ~Covers(config.start, to) /\ stale' = TRUE /\ UNCHANGED <<thermal, arrival>>
          /\ \E t \in config.start..to : wind' = WindFor(config.start, t)
       \/ UNCHANGED cubeFiles
    /\ Go("inputs") /\ UNCHANGED <<settings, installed, metEm, exit, scenarios>>

\* Mutated form: a window is only ever extended.
ExtendsWind == wind # {} /\ ~Covers(config.start, config.start + config.days)

NeedsWind == ~Covers(config.start, config.start + config.days)

Thermal == IF thermal = {} THEN {config.pulse} ELSE thermal

\* The run of the targets: what the cube satisfies is skipped, each of the others is
\* made, or fails; a failure of a step leaves those behind it undone.
Inputs ==
    /\ at = "inputs"
    /\ LET to == config.start + config.days IN
       /\ thermal' = Thermal
       /\ wind' = IF NeedsWind THEN WindFor(config.start, to) ELSE wind
       /\ stale' = (stale \/ NeedsWind \/ thermal = {})
    /\ Go("targets") /\ UNCHANGED <<settings, installed, metEm, arrival, exit, scenarios>>

Satisfied == arrival # {} /\ ~stale
Targets ==
    /\ at = "targets"
    /\ \/ Satisfied /\ UNCHANGED <<arrival, stale>>
       \/ /\ ~Satisfied /\ (adapter.build => metEm # {})
          /\ arrival' = {[adapter EXCEPT !.pulse = p] : p \in thermal} /\ stale' = FALSE
    /\ Return("0") /\ UNCHANGED <<settings, installed, metEm, thermal, wind, scenarios>>

\* Mutated form: what the run of the targets reports is not looked at either.
NotLookedAt == "0"

ExitOfFailure == "1"
StepFails ==
    /\ at \in {"inputs", "targets"} /\ \E code \in {ExitOfFailure, "raised"} : Return(code)
    /\ \/ UNCHANGED cubeFiles
       \/ /\ at = "inputs" /\ thermal = {}
          /\ thermal' = Thermal /\ stale' = TRUE /\ UNCHANGED <<wind, arrival>>
       \/ /\ at = "inputs" /\ NeedsWind
          /\ \E t \in config.start..(config.start + config.days) : wind' = WindFor(config.start, t)
          /\ thermal' \in {thermal, Thermal} /\ stale' = TRUE /\ UNCHANGED arrival
    /\ UNCHANGED <<settings, installed, metEm, scenarios>>

CascadeNext ==
    \/ \E i \in cascadeSetup.invocations : Main(i)
    \/ Load \/ KmlNotFound \/ Install \/ MetEm \/ Resolve \/ Raises
    \/ Wind \/ Inputs \/ Targets \/ StepFails

CascadeSpec == CascadeInit /\ [][CascadeNext]_cascadeVars

-----------------------------------------------------------------------------
\* The type of the state; a program that has returned has an exit code.
CascadeTypeOK ==
    /\ at \in {"out", "load", "kml", "met_em", "resolve", "wind", "inputs", "targets"}
    /\ exit \in {"", "0", "1", "2", "raised"} /\ (at = "out" /\ calls > 0 => exit # "")
    /\ at \notin {"out", "load"} => config \in Scenario
    /\ installed \in BOOLEAN /\ stale \in BOOLEAN
    /\ arrival # {} => thermal # {} /\ wind # {}

\* WRF runs for the period and on the mesh that the cube is configured for, whether
\* they came from the command line or the YAML file, and meteorology built for
\* the run is for that period.
OneScenario ==
    at \in {"wind", "inputs", "targets"} =>
        /\ \A field \in {"start", "days", "mesh"} : adapter[field] = config[field]
        /\ args.build => metEm = {[start |-> config.start, days |-> config.days]}

\* A run that exits with 0 leaves the arrival times of its scenario, also after runs
\* that failed anywhere, as long as its --out directory is not that of another.
\* (If it is, what that one left is reused, since no scenario is stored with it.)
DoneIsOfTheScenario ==
    /\ at = "out" /\ exit = "0" /\ ~call.dry /\ Cardinality(scenarios) = 1
    => /\ arrival = {[adapter EXCEPT !.pulse = config.pulse]}
       /\ Covers(config.start, config.start + config.days)

\* A command line run is one of its scenario from the settings to the outputs
\* (run_cascade.py:160-358).
CascadeIsSound == OneScenario /\ DoneIsOfTheScenario

\* A dry run leaves the installed stack, met_em and the cube as they were (it still
\* makes the directories of the cache and the log).
DryRunLeavesAll == [][call.dry /\ at # "out" => UNCHANGED files]_cascadeVars
=============================================================================
