---------------------------- MODULE ChainProofs -----------------------------
(***************************************************************************)
(* Proofs about what comes before a run of WRF-SFIRE.                      *)
(*                                                                         *)
(* Cascade, for any call of the command line: the settings of one source,  *)
(* the cube of the run, no change by a dry run.                            *)
(*                                                                         *)
(* DataResolve, for any needs, producers and sources: what resolve reports *)
(* stays so while it goes on, fetch serves it as far as the array has the  *)
(* days that have rows, and an asset comes from the source of the highest  *)
(* rank.                                                                   *)
(*                                                                         *)
(* MCCascade, whose one run checks the parts of the chain side by side: it *)
(* is each of them, and keeps the types of all.                            *)
(***************************************************************************)
EXTENDS MCCascade, WrfProofs, PipelineBuilderProofs, FiniteSetTheorems, TLAPS

-----------------------------------------------------------------------------
(* --- Cascade --------------------------------------------------------------- *)

MainSteps == {"out", "load", "kml", "met_em", "resolve", "wind", "inputs", "targets"}
Resolves == {"wind", "inputs", "targets"}
AsConfigured(conf) == [conf EXCEPT !.pulse = DefaultPulse]
Ran == at = "out" /\ exit = "0" /\ ~call.dry

CascadeTypes ==
    /\ cascadeSetup \in CascadeSetups /\ calls \in Nat
    /\ at \in MainSteps /\ exit \in {"", "0", "1", "2", "raised"}
    /\ at # "out" => call \in cascadeSetup.invocations /\ args \in Scenario
    /\ installed \in BOOLEAN /\ stale \in BOOLEAN
    /\ at = "out" /\ calls > 0 => exit # ""
    /\ at # "out" => exit = ""

\* The settings of the cube are those of the command line or of the scenario file,
\* and so are, once resolved, those of WRF.
OneSetting ==
    /\ at = "load" => args = call.cli
    /\ at \notin {"out", "load"} =>
          /\ config = AsConfigured(args) /\ config \in Scenario
          /\ \A y \in call.yaml : config = AsConfigured(y)
    /\ at \in Resolves \/ Ran =>
          /\ config \in Scenario /\ adapter \in Scenario /\ AsConfigured(adapter) = config
    /\ at \in {"resolve"} \cup Resolves /\ args.build /\ ~call.dry
          => metEm = {[start |-> config.start, days |-> config.days]}

\* What the cube holds is of a scenario it was run for.
CubeIsOfRuns ==
    /\ IsFiniteSet(scenarios)
    /\ thermal \in {{}, {DefaultPulse}}
    /\ arrival # {} => thermal # {} /\ wind # {} /\ \E c \in scenarios : arrival = {c}
    /\ at \in Resolves => ~call.dry
    /\ at \in Resolves \/ Ran => config \in scenarios
    /\ at = "targets" => thermal # {}
    /\ at = "targets" \/ Ran => Covers(config.start, config.start + config.days)
    /\ Ran => arrival # {}

CascadeIInv == CascadeTypes /\ OneSetting /\ CubeIsOfRuns

LEMMA Configuring ==
    ASSUME NEW a \in Scenario
    PROVE  /\ AsConfigured(a) \in Scenario
           /\ AsConfigured(a).pulse = DefaultPulse /\ AsConfigured(a).start = a.start
           /\ AsConfigured(a).days = a.days /\ AsConfigured(a).mesh = a.mesh /\ AsConfigured(a).build = a.build
           /\ \A p \in Nat : AsConfigured([a EXCEPT !.pulse = p]) = AsConfigured(a)
           /\ \A p \in Nat : [a EXCEPT !.pulse = p] \in Scenario
           /\ AsConfigured(AsConfigured(a)) = AsConfigured(a)
  BY CascadeAssumption DEF CascadeAssumption, Scenario, AsConfigured

LEMMA Invocations ==
    ASSUME NEW s \in CascadeSetups, NEW i \in s.invocations
    PROVE  /\ i.cli \in Scenario /\ i.dry \in BOOLEAN /\ i.bootstrap \in BOOLEAN
           /\ \A y \in i.yaml : y \in Scenario
           /\ \A y, z \in i.yaml : y = z
  BY CascadeAssumption DEF CascadeAssumption

LEMMA FetchedCovers ==
    ASSUME NEW a \in Nat, NEW b \in Nat
    PROVE  \E w \in WindFor(a, b) : w.from <= a /\ w.to >= b
<1>1. [from |-> a, to |-> b] \in WindFor(a, b) /\ a <= a /\ b >= b
  BY DEF WindFor
<1> QED
  BY <1>1

LEMMA OneMore == \A n \in Nat : n + 1 \in Nat
  OBVIOUS

LEMMA CascadeInitially == CascadeInit => CascadeIInv
<1> SUFFICES ASSUME NEW s \in CascadeSetups, CascadeStart(s) PROVE CascadeIInv
  BY DEF CascadeInit
<1>1. IsFiniteSet(scenarios)
  BY FS_EmptySet DEF CascadeStart
<1>2. CascadeTypes
  <2>1. calls = 0 /\ calls \in Nat
    BY DEF CascadeStart
  <2>3. ~(calls > 0)
    BY <2>1
  <2>2. installed \in BOOLEAN /\ stale \in BOOLEAN
    BY DEF CascadeStart
  <2> QED
    BY <2>1, <2>2, <2>3 DEF CascadeStart, CascadeTypes, MainSteps
<1>3. OneSetting
  BY DEF CascadeStart, OneSetting, Resolves, Ran
<1>4. CubeIsOfRuns
  BY <1>1 DEF CascadeStart, CubeIsOfRuns, Resolves, Ran
<1> QED
  BY <1>2, <1>3, <1>4 DEF CascadeIInv

\* MainSteps that only move main() on, or end it.
LEMMA MainMoves ==
    ASSUME CascadeIInv, NEW step \in MainSteps, Go(step), UNCHANGED <<settings, files, scenarios>>,
           exit' \in {"", "1", "2", "raised"}, at # "out",
           step = "out" <=> exit' # "",
           step \notin {"load", "targets"},
           step # "out" => at \notin {"out", "load"},
           step = "resolve" => FALSE,
           step \in Resolves => at \in Resolves
    PROVE  CascadeIInv'
<1> USE DEF CascadeIInv, Go, settings, files, cubeFiles
<1>1. CascadeTypes'
  BY DEF CascadeTypes, MainSteps
<1>2. OneSetting'
  BY DEF CascadeTypes, OneSetting, MainSteps, Resolves, Ran
<1>3. CubeIsOfRuns'
  BY DEF CubeIsOfRuns, Resolves, Ran, Covers
<1> QED
  BY <1>1, <1>2, <1>3

LEMMA CascadeInductive == CascadeIInv /\ [CascadeNext]_cascadeVars => CascadeIInv'
<1> SUFFICES ASSUME CascadeIInv, [CascadeNext]_cascadeVars PROVE CascadeIInv'
  OBVIOUS
<1> USE DEF CascadeIInv
<1>i. at # "out" => /\ call.cli \in Scenario /\ call.dry \in BOOLEAN /\ call.bootstrap \in BOOLEAN
                    /\ \A y \in call.yaml : y \in Scenario
                    /\ \A y, z \in call.yaml : y = z
  BY Invocations DEF CascadeTypes
<1>1. CASE UNCHANGED cascadeVars
  BY <1>1 DEF cascadeVars, settings, files, cubeFiles, CascadeTypes, OneSetting, CubeIsOfRuns, Ran, Covers
<1>2. ASSUME NEW i \in cascadeSetup.invocations, Main(i) PROVE CascadeIInv'
  <2> USE <1>2 DEF Main, files, cubeFiles
  <2>0. i.cli \in Scenario
    BY Invocations DEF CascadeTypes
  <2>n. calls + 1 \in Nat
    <3>1. calls \in Nat
      BY DEF CascadeTypes
    <3> QED
      BY <3>1, OneMore
  <2>1. CascadeTypes'
    <3>1. installed' \in BOOLEAN /\ stale' \in BOOLEAN
      BY Zenon DEF CascadeTypes
    <3>n. calls' \in Nat
      BY <2>n
    <3>2. at' = "load" /\ cascadeSetup' = cascadeSetup /\ call' = i /\ args' \in Scenario /\ exit' = ""
      BY <2>0
    <3> QED
      BY <3>1, <3>n, <3>2 DEF CascadeTypes, MainSteps
  <2>2. OneSetting'
    BY DEF OneSetting, Resolves, Ran
  <2>3. CubeIsOfRuns'
    BY DEF CubeIsOfRuns, Resolves, Ran
  <2> QED
    BY <2>1, <2>2, <2>3
<1>3. CASE Load
  <2> USE <1>3 DEF Load, Go, files, cubeFiles
  <2>0. args \in Scenario /\ args.pulse \in Nat /\ call \in cascadeSetup.invocations
    BY DEF CascadeTypes, Scenario
  <2>1. args' \in Scenario /\ config' = AsConfigured(args') /\ \A y \in call.yaml : AsConfigured(args') = AsConfigured(y)
    <3>1. ASSUME call.yaml = {} PROVE <2>1
      <4>1. args' = args /\ config' = AsConfigured(args')
        BY <3>1 DEF AsConfigured
      <4> QED
        BY <2>0, <3>1, <4>1
    <3>2. ASSUME NEW y \in call.yaml PROVE args' = [y EXCEPT !.pulse = args.pulse] /\ config' = AsConfigured(args')
      <4>1. {Applied(args, z) : z \in call.yaml} = {Applied(args, y)}
        BY <1>i, <3>2
      <4> QED
        BY <4>1 DEF Applied, AsConfigured
    <3>3. ASSUME NEW y \in call.yaml PROVE args' \in Scenario /\ config' = AsConfigured(args')
      <4>1. y \in Scenario
        BY <1>i, <2>0
      <4>2. [y EXCEPT !.pulse = args.pulse] \in Scenario
        BY <2>0, <4>1, Configuring
      <4> QED
        BY <3>2, <4>2
    <3>4. ASSUME NEW y \in call.yaml PROVE AsConfigured(args') = AsConfigured(y)
      BY <1>i, <3>2, <2>0, Configuring
    <3> QED
      BY <3>1, <3>3, <3>4
  <2>2. config' \in Scenario
    BY <2>1, Configuring
  <2>3. CascadeTypes'
    BY <2>0, <2>1 DEF CascadeTypes, MainSteps
  <2>4. OneSetting'
    BY <2>1, <2>2 DEF OneSetting, Resolves, Ran
  <2>5. CubeIsOfRuns'
    BY DEF CubeIsOfRuns, Resolves, Ran
  <2> QED
    BY <2>3, <2>4, <2>5
<1>4. CASE KmlNotFound
  BY <1>4, MainMoves DEF KmlNotFound, Return, MainSteps, Resolves
<1>5. CASE Install
  <2> USE <1>5 DEF Install, Go, settings, cubeFiles
  <2>1. CascadeTypes'
    BY DEF CascadeTypes, MainSteps
  <2>2. OneSetting'
    BY DEF OneSetting, Resolves, Ran
  <2>3. CubeIsOfRuns'
    BY DEF CubeIsOfRuns, Resolves, Ran
  <2> QED
    BY <2>1, <2>2, <2>3
<1>6. CASE MetEm
  <2> USE <1>6 DEF MetEm, Go, settings, cubeFiles
  <2>1. CascadeTypes'
    BY DEF CascadeTypes, MainSteps
  <2>2. OneSetting'
    BY DEF OneSetting, Resolves, Ran, BuildsMetEm
  <2>3. CubeIsOfRuns'
    BY DEF CubeIsOfRuns, Resolves, Ran
  <2> QED
    BY <2>1, <2>2, <2>3
<1>7. CASE Resolve
  <2> USE <1>7 DEF Resolve, files, cubeFiles
  <2>0. /\ config = AsConfigured(args) /\ config \in Scenario /\ args \in Scenario
        /\ \A y \in call.yaml : config = AsConfigured(y)
    BY DEF OneSetting, CascadeTypes
  <2>1. adapter' \in Scenario /\ AsConfigured(adapter') = config
    <3>1. CASE call.yaml = {}
      BY <2>0, <3>1, Configuring
    <3>2. CASE call.yaml # {}
      BY <1>i, <2>0, <3>2
    <3> QED
      BY <3>1, <3>2
  <2>2. IsFiniteSet(scenarios')
    BY FS_AddElement DEF CubeIsOfRuns, Return
  <2>3. \/ call.dry /\ at' = "out" /\ exit' = "0" /\ scenarios' = scenarios
        \/ ~call.dry /\ at' = "wind" /\ exit' = exit /\ scenarios' = scenarios \cup {config}
    BY DEF Return, Go
  <2>4. UNCHANGED <<cascadeSetup, calls, call>>
    BY DEF Return, Go
  <2>5. CascadeTypes'
    BY <2>3, <2>4 DEF CascadeTypes, MainSteps
  <2>6. OneSetting'
    BY <2>0, <2>1, <2>3, <2>4 DEF OneSetting, Resolves, Ran
  <2>7. CubeIsOfRuns'
    BY <2>2, <2>3, <2>4 DEF CubeIsOfRuns, Resolves, Ran, Covers
  <2> QED
    BY <2>5, <2>6, <2>7
<1>8. CASE Raises
  BY <1>8, MainMoves DEF Raises, Return, MainSteps, Resolves
<1>9. CASE Wind
  <2> USE <1>9 DEF Wind, Go, settings
  <2>1. CascadeTypes'
    BY DEF CascadeTypes, MainSteps, cubeFiles
  <2>2. OneSetting'
    BY DEF OneSetting, Resolves, Ran
  <2>3. thermal' = thermal /\ arrival' = arrival /\ (wind # {} => wind' # {})
    BY DEF cubeFiles, WindFor
  <2>4. CubeIsOfRuns'
    BY <2>3 DEF CubeIsOfRuns, Resolves, Ran
  <2> QED
    BY <2>1, <2>2, <2>4
<1>10. CASE Inputs
  <2> USE <1>10 DEF Inputs, Go, settings
  <2>0. config \in Scenario /\ config.pulse = DefaultPulse /\ call.dry \in BOOLEAN
    BY <1>i, Configuring DEF OneSetting, Resolves, CascadeTypes
  <2>1. CascadeTypes'
    BY DEF CascadeTypes, MainSteps
  <2>2. OneSetting'
    BY DEF OneSetting, Resolves, Ran
  <2>3. thermal' = {DefaultPulse} /\ wind' # {}
    BY <2>0 DEF CubeIsOfRuns, NeedsWind, Covers, WindFor, Thermal
  <2>4. Covers(config.start, config.start + config.days)'
    <3>1. CASE NeedsWind
      <4>1. wind' = WindFor(config.start, config.start + config.days)
        BY <3>1
      <4>2. config.start \in Nat /\ config.days \in Nat
        BY <2>0 DEF Scenario
      <4>3. config.start + config.days \in Nat
        BY <4>2
      <4>4. \E w \in wind' : w.from <= config.start /\ w.to >= config.start + config.days
        BY <4>1, <4>2, <4>3, FetchedCovers
      <4> QED
        BY <4>4 DEF Covers
    <3>2. CASE ~NeedsWind
      BY <3>2 DEF NeedsWind, Covers
    <3> QED
      BY <3>1, <3>2
  <2>5. CubeIsOfRuns'
    BY <2>3, <2>4 DEF CubeIsOfRuns, Resolves, Ran, CascadeTypes
  <2> QED
    BY <2>1, <2>2, <2>5
<1>11. CASE Targets
  <2> USE <1>11 DEF Targets, Return, Go, settings
  <2>0. at = "targets" /\ at' = "out" /\ exit' = "0" /\ at # "out"
    OBVIOUS
  <2>1. adapter \in Scenario /\ AsConfigured(adapter) = config /\ config \in scenarios
    BY DEF OneSetting, CubeIsOfRuns, Resolves
  <2>2. thermal = {DefaultPulse} /\ ~call.dry /\ Covers(config.start, config.start + config.days)
    BY DEF CubeIsOfRuns, Resolves
  <2>3. \/ arrival # {} /\ arrival' = arrival
        \/ arrival' = {config}
    BY <2>1, <2>2 DEF Satisfied, AsConfigured
  <2>4. CascadeTypes'
    BY DEF CascadeTypes, MainSteps
  <2>5. OneSetting'
    BY DEF OneSetting, Resolves, Ran
  <2>6. wind # {}
    BY <2>2 DEF Covers
  <2>7. CubeIsOfRuns'
    BY <2>1, <2>2, <2>3, <2>6 DEF CubeIsOfRuns, Resolves, Ran, Covers
  <2> QED
    BY <2>4, <2>5, <2>7
<1>12. CASE StepFails
  <2> USE <1>12 DEF StepFails, Return, Go, settings
  <2>0. at \in {"inputs", "targets"} /\ at' = "out" /\ exit' \in {"1", "raised"}
    BY DEF ExitOfFailure
  <2>1. CASE UNCHANGED cubeFiles
    BY <2>0, <2>1, MainMoves DEF files, MainSteps, Resolves
  <2>2. ASSUME at = "inputs", thermal' \in {thermal, Thermal}, wind # {} => wind' # {},
               stale' = TRUE, arrival' = arrival
        PROVE  CascadeIInv'
    <3>1. config.pulse = DefaultPulse
      BY <1>i, <2>2, Configuring DEF OneSetting, Resolves, CascadeTypes
    <3>2. CascadeTypes'
      BY <2>0, <2>2 DEF CascadeTypes, MainSteps
    <3>3. OneSetting'
      BY <2>0 DEF OneSetting, Resolves, Ran
    <3>4. CubeIsOfRuns'
      BY <2>0, <2>2, <3>1 DEF CubeIsOfRuns, Resolves, Ran, Thermal
    <3> QED
      BY <3>2, <3>3, <3>4
  <2>3. CASE ~UNCHANGED cubeFiles
    <3>1. /\ at = "inputs" /\ thermal' \in {thermal, Thermal} /\ stale' = TRUE /\ arrival' = arrival
          /\ wind' = wind \/ \E t : wind' = WindFor(config.start, t)
      BY <2>3
    <3>2. wind # {} => wind' # {}
      BY <3>1 DEF WindFor
    <3> QED
      BY <2>2, <3>1, <3>2
  <2> QED
    BY <2>1, <2>3
<1> QED
  BY <1>1, <1>2, <1>3, <1>4, <1>5, <1>6, <1>7, <1>8, <1>9, <1>10, <1>11, <1>12 DEF CascadeNext

LEMMA CascadeInvariant == CascadeSpec => []CascadeIInv
  BY CascadeInitially, CascadeInductive, PTL DEF CascadeSpec

\* The command line keeps to its steps, and a program that has returned has an exit
\* code.
THEOREM CascadeType == CascadeSpec => []CascadeTypeOK
<1>1. CascadeIInv => CascadeTypeOK
  BY DEF CascadeIInv, CascadeTypes, OneSetting, CubeIsOfRuns, CascadeTypeOK, MainSteps
<1> QED
  BY <1>1, CascadeInvariant, PTL

LEMMA OneScenarioHolds == CascadeIInv => OneScenario
<1> SUFFICES ASSUME CascadeIInv, at \in Resolves PROVE OneScenario
  BY DEF OneScenario, Resolves
<1>1. adapter \in Scenario /\ AsConfigured(adapter) = config
  BY DEF CascadeIInv, OneSetting
<1>2. \A field \in {"start", "days", "mesh"} : adapter[field] = config[field]
  BY <1>1, Configuring
<1>3. ~call.dry
  BY DEF CascadeIInv, CubeIsOfRuns
<1>4. args.build => metEm = {[start |-> config.start, days |-> config.days]}
  BY <1>3 DEF CascadeIInv, OneSetting
<1> QED
  BY <1>2, <1>4 DEF OneScenario

LEMMA DoneHolds == CascadeIInv => DoneIsOfTheScenario
<1> SUFFICES ASSUME CascadeIInv, Ran, Cardinality(scenarios) = 1
             PROVE  /\ arrival = {[adapter EXCEPT !.pulse = config.pulse]}
                    /\ Covers(config.start, config.start + config.days)
  BY DEF DoneIsOfTheScenario, Ran
<1>1. PICK c : scenarios = {c}
  BY FS_Singleton DEF CascadeIInv, CubeIsOfRuns
<1>2. config = c /\ arrival = {config}
  BY <1>1 DEF CascadeIInv, CubeIsOfRuns
<1>3. adapter \in Scenario /\ AsConfigured(adapter) = config
  BY DEF CascadeIInv, OneSetting
<1>4. [adapter EXCEPT !.pulse = config.pulse] = config
  <2>1. config.pulse = DefaultPulse
    BY <1>3, Configuring
  <2> QED
    BY <1>3, <2>1 DEF AsConfigured
<1>5. Covers(config.start, config.start + config.days)
  BY DEF CascadeIInv, CubeIsOfRuns
<1> QED
  BY <1>2, <1>4, <1>5

\* A command line run is of one scenario from the settings to the outputs, for any
\* scenarios and invocations and whatever step of those before failed.
THEOREM CascadeSound == CascadeSpec => []CascadeIsSound
<1>1. CascadeIInv => CascadeIsSound
  BY OneScenarioHolds, DoneHolds DEF CascadeIsSound
<1> QED
  BY <1>1, CascadeInvariant, PTL

\* A dry run changes nothing of the installed stack, met_em and the cube
\* (run_cascade.py, --dry-run), whatever was there before.
THEOREM DryRunIsDry == CascadeSpec => DryRunLeavesAll
<1>1. ASSUME CascadeIInv, [CascadeNext]_cascadeVars PROVE [call.dry /\ at # "out" => UNCHANGED files]_cascadeVars
  <2> SUFFICES ASSUME CascadeNext, call.dry, at # "out" PROVE UNCHANGED files
    BY <1>1
  <2>1. at \notin Resolves /\ installed \in BOOLEAN
    BY <1>1 DEF CascadeIInv, CubeIsOfRuns, CascadeTypes
  <2> QED
    BY <2>1 DEF CascadeNext, Main, Load, KmlNotFound, Install, MetEm, BuildsMetEm, Resolve, Raises, Wind, Inputs,
       Targets, StepFails, files, cubeFiles, Resolves
<1> QED
  BY <1>1, CascadeInvariant, PTL DEF CascadeSpec, DryRunLeavesAll

-----------------------------------------------------------------------------
(* --- DataResolve ----------------------------------------------------------- *)

NeedType == [name : NeedVars, kind : {"static", "time"}, cap : Nat, required : BOOLEAN]
Done == {"cube", "producer"}
Reports == Done \cup {"no_producer", "producer_failed", "producer_ran_but_not_satisfied"}
Served == {"resolved", "fetched", "fetch raised"}

\* Meets, for a request.
MeetsFor(c, n, window) ==
    /\ c.kind = n.kind
    /\ n.cap > 0 => HasRows(c) /\ \A res \in c.fixed \cup {r[2] : r \in c.rows} : res <= n.cap
    /\ n.kind = "static" => c.fixed # {}
    /\ n.kind = "time" => \E d \in RowDays(c) : d <= window.from /\ \E e \in RowDays(c) : e >= window.to - 1
Serves(n) == MeetsFor(dataCube[n.name], n, dataSetup.request)

\* Cut, for a request.
Cuts == [kind : {"none", "static", "time"}, res : Nat, days : SUBSET Nat]
CutFor(c, n, window) ==
    [kind |-> IF HasRows(c) THEN c.kind ELSE "none", res |-> c.res,
     days |-> IF n.kind = "time" THEN c.axis \cap window.from .. window.to ELSE c.axis]

DataTypes ==
    /\ dataSetup \in DataSetups /\ dataCube \in [NeedVars -> Contents]
    /\ dataPhase \in {"refused", "resolving", "rechecking", "raised", "resolved", "fetched", "fetch raised"}
    /\ need \in 1 .. Len(dataSetup.needs) + 1
    /\ report \in Seq(Reports) /\ fetched \in Seq(Cuts)
    /\ dataPhase \in {"resolving", "rechecking", "raised"} => Len(report) = need - 1
    /\ dataPhase \in {"resolving", "rechecking"} => fetched = <<>>
    /\ dataPhase = "rechecking" => need <= Len(dataSetup.needs)
    /\ dataPhase \in Served => Len(report) = Len(dataSetup.needs)
    /\ dataPhase \in {"resolved", "fetched"} => Len(fetched) = need - 1
    /\ dataPhase = "fetched" => need = Len(dataSetup.needs) + 1

\* What is reported as satisfied is, but for what a producer that has yet to be
\* rechecked wrote; and what is required is reported as satisfied.
ReportsTrue ==
    MadeAlike => \A i \in DOMAIN report :
        /\ Needs[i].required => report[i] \in Done
        /\ report[i] \in Done =>
              \/ dataPhase \in {"refused", "raised"}
              \/ Serves(Needs[i])
              \/ dataPhase = "rechecking" /\ This.required /\ (Serves(This) => Serves(Needs[i]))

FetchedAsStored ==
    /\ \A i \in DOMAIN fetched :
          i <= Len(Needs) /\ fetched[i] = CutFor(dataCube[Needs[i].name], Needs[i], dataSetup.request)
    /\ dataPhase = "fetch raised" /\ MadeAlike => \E i \in DOMAIN Needs :
          ~Needs[i].required /\ dataCube[Needs[i].name].kind # Needs[i].kind

\* The sources are in order of rank, those of a rank as they were registered; and
\* who was asked was the first with something.
SourcesRanked ==
    /\ added \in Seq(Sources) /\ ranked \in Seq(Sources)
    /\ \A i, j \in DOMAIN added : added[i] = added[j] => i = j
    /\ \A s \in Sources : (\E i \in DOMAIN added : added[i] = s) <=> (\E i \in DOMAIN ranked : ranked[i] = s)
    /\ \A i, j \in DOMAIN ranked : i < j =>
          \/ Rank(ranked[j]) < Rank(ranked[i])
          \/ Rank(ranked[j]) = Rank(ranked[i]) /\ Before(ranked[i], ranked[j])
    /\ asked.found # {} => BestSource

DataIInv == DataTypes /\ ReportsTrue /\ FetchedAsStored /\ SourcesRanked

-----------------------------------------------------------------------------
LEMMA SetupFacts ==
    ASSUME NEW s \in DataSetups
    PROVE  /\ s.needs \in Seq(NeedType) /\ s.request.from \in Nat /\ s.request.to \in Nat
           /\ s.makers \in [NeedVars -> SUBSET NeedVars] /\ s.cached \in [NeedVars -> Contents]
           /\ s.kinds \in [NeedVars -> {"static", "time"}] /\ s.resolution \in Nat
           /\ \A v \in NeedVars : Registered(s.cached[v])
           /\ s.sources \in [Sources -> [rank : Int, name : STRING]]
  BY DataAssumption DEF DataAssumption, NeedType, Window

LEMMA MeetsIs == \A n : Met(n) <=> Serves(n)
  BY DEF Met, Meets, Serves, MeetsFor, FirstDay, LastDay

LEMMA NeedFacts ==
    ASSUME dataSetup \in DataSetups, NEW i \in 1 .. Len(Needs)
    PROVE  /\ Needs[i] \in NeedType /\ Needs[i].name \in NeedVars /\ Needs[i].kind \in {"static", "time"}
           /\ Needs[i].required \in BOOLEAN /\ Needs[i].cap \in Nat
           /\ Needs \in Seq(NeedType) /\ Len(Needs) \in Nat /\ DOMAIN Needs = 1 .. Len(Needs)
<1>1. Needs \in Seq(NeedType)
  BY SetupFacts DEF Needs
<1>2. Needs[i] \in NeedType
  BY <1>1
<1> QED
  BY <1>1, <1>2 DEF NeedType

LEMMA RewrittenType ==
    ASSUME dataSetup \in DataSetups, dataCube \in [NeedVars -> Contents], NEW v \in NeedVars, NEW days \in SUBSET Nat
    PROVE  Rewritten(v, days) \in Contents
<1> DEFINE c == dataCube[v]
<1>1. c \in Contents /\ dataSetup.kinds[v] \in {"static", "time"} /\ dataSetup.resolution \in Nat
  BY SetupFacts
<1> HIDE DEF c
<1>2. /\ c.kind \in {"none", "static", "time"} /\ c.res \in Nat /\ c.axis \in SUBSET Nat
      /\ c.fixed \in SUBSET Nat /\ c.rows \in SUBSET (Nat \X Nat)
      /\ c = [kind |-> c.kind, res |-> c.res, axis |-> c.axis, fixed |-> c.fixed, rows |-> c.rows]
  BY <1>1 DEF Contents
<1>3. [c EXCEPT !.kind = "static", !.res = dataSetup.resolution, !.axis = {}, !.fixed = {dataSetup.resolution}]
      \in Contents
  BY <1>1, <1>2 DEF Contents
<1>4. {r \in c.rows : r[1] \notin days} \cup (days \X {dataSetup.resolution}) \in SUBSET (Nat \X Nat)
  BY <1>1, <1>2
<1>5. [c EXCEPT !.kind = "time", !.res = dataSetup.resolution, !.axis = days,
                !.rows = {r \in @ : r[1] \notin days} \cup (days \X {dataSetup.resolution})] \in Contents
  BY <1>1, <1>2, <1>4 DEF Contents
<1> QED
  BY <1>3, <1>5 DEF Rewritten, c

\* What an array is when it has been written anew, and its rows.
LEMMA RewrittenFacts ==
    ASSUME dataSetup \in DataSetups, dataCube \in [NeedVars -> Contents], NEW v \in NeedVars, NEW days \in SUBSET Nat,
           NEW c, c = Rewritten(v, days)
    PROVE  /\ c.kind = dataSetup.kinds[v] /\ c.res = dataSetup.resolution
           /\ c.kind = "static" =>
                c.axis = {} /\ c.fixed = {dataSetup.resolution} /\ c.rows = dataCube[v].rows
           /\ c.kind = "time" =>
                /\ c.axis = days /\ c.fixed = dataCube[v].fixed
                /\ c.rows = {r \in dataCube[v].rows : r[1] \notin days} \cup (days \X {dataSetup.resolution})
<1> DEFINE old == dataCube[v]
<1>1. old \in Contents /\ dataSetup.kinds[v] \in {"static", "time"}
  BY SetupFacts
<1>2. c = IF dataSetup.kinds[v] = "static"
          THEN [old EXCEPT !.kind = "static", !.res = dataSetup.resolution, !.axis = {}, !.fixed = {dataSetup.resolution}]
          ELSE [old EXCEPT !.kind = "time", !.res = dataSetup.resolution, !.axis = days,
                       !.rows = {r \in @ : r[1] \notin days} \cup (days \X {dataSetup.resolution})]
  BY DEF Rewritten
<1> HIDE DEF old
<1>3. old = [kind |-> old.kind, res |-> old.res, axis |-> old.axis, fixed |-> old.fixed, rows |-> old.rows]
  BY <1>1 DEF Contents
<1>4. CASE dataSetup.kinds[v] = "static"
  <2>1. c = [kind |-> "static", res |-> dataSetup.resolution, axis |-> {}, fixed |-> {dataSetup.resolution}, rows |-> old.rows]
    BY <1>2, <1>3, <1>4
  <2> QED
    BY <1>4, <2>1 DEF old
<1>5. CASE dataSetup.kinds[v] = "time"
  <2>1. c = [kind |-> "time", res |-> dataSetup.resolution, axis |-> days, fixed |-> old.fixed,
             rows |-> {r \in old.rows : r[1] \notin days} \cup (days \X {dataSetup.resolution})]
    BY <1>2, <1>3, <1>5
  <2> QED
    BY <1>5, <2>1 DEF old
<1> QED
  BY <1>1, <1>4, <1>5

LEMMA WrittenType ==
    ASSUME dataSetup \in DataSetups, dataCube \in [NeedVars -> Contents], NEW vs, NEW days \in SUBSET Nat
    PROVE  /\ Written(vs, days) \in [NeedVars -> Contents]
           /\ \A v \in NeedVars \ vs : Written(vs, days)[v] = dataCube[v]
           /\ \A v \in NeedVars \cap vs : Written(vs, days)[v] = Rewritten(v, days)
<1>1. \A v \in NeedVars : Rewritten(v, days) \in Contents
  BY RewrittenType
<1> QED
  BY <1>1 DEF Written

LEMMA WindowNat == ASSUME dataSetup \in DataSetups PROVE WindowDays \in SUBSET Nat
<1>1. FirstDay \in Nat /\ LastDay \in Int
  BY SetupFacts DEF FirstDay, LastDay
<1> QED
  BY <1>1 DEF WindowDays

LEMMA DataInitially == DataInit => DataIInv
<1> SUFFICES ASSUME NEW s \in DataSetups, DataStart(s) PROVE DataIInv
  BY DEF DataInit
<1>1. s.needs \in Seq(NeedType) /\ s.cached \in [NeedVars -> Contents] /\ Len(s.needs) \in Nat
  BY SetupFacts
<1>2. DataTypes
  BY <1>1 DEF DataStart, DataTypes, Served
<1>3. ReportsTrue /\ FetchedAsStored
  BY DEF DataStart, ReportsTrue, FetchedAsStored
<1>4. SourcesRanked
  BY DEF DataStart, SourcesRanked
<1> QED
  BY <1>2, <1>3, <1>4 DEF DataIInv

-----------------------------------------------------------------------------
(* resolve and fetch *)

ResolveIInv == DataTypes /\ ReportsTrue /\ FetchedAsStored
ServedIn(cube, n) == MeetsFor(cube[n.name], n, dataSetup.request)

LEMMA ServesIs == \A n : Serves(n) <=> ServedIn(dataCube, n)
  BY DEF Serves, ServedIn

\* A need is done with: it is reported, and the next one is looked at.
LEMMA Recorded ==
    ASSUME ResolveIInv, dataPhase \in {"resolving", "rechecking"}, need <= Len(Needs),
           NEW what \in Reports, Record(what), dataPhase' = "resolving", UNCHANGED <<dataSetup, fetched>>,
           dataCube' \in [NeedVars -> Contents],
           MadeAlike => \A i \in DOMAIN report : report[i] \in Done => ServedIn(dataCube', Needs[i]),
           what \in Done => ServedIn(dataCube', This),
           This.required => what \in Done
    PROVE  ResolveIInv'
<1>0. /\ report' = Append(report, what) /\ need' = need + 1 /\ Len(report) = need - 1
      /\ report \in Seq(Reports) /\ need \in 1 .. Len(Needs) + 1 /\ fetched = <<>> /\ dataSetup \in DataSetups
  BY DEF Record, ResolveIInv, DataTypes, Needs
<1>1. Len(Needs) \in Nat /\ need \in Nat /\ Needs' = Needs /\ (MadeAlike' <=> MadeAlike)
  BY <1>0, SetupFacts DEF Needs, MadeAlike
<1>2. /\ report' \in Seq(Reports) /\ Len(report') = need /\ DOMAIN report' = 1 .. need
      /\ report'[need] = what /\ \A i \in 1 .. need - 1 : report'[i] = report[i]
      /\ DOMAIN report = 1 .. need - 1
  BY <1>0, <1>1
<1>3. need' \in 1 .. Len(Needs) + 1 /\ need' - 1 = need
  BY <1>0, <1>1
<1>4. DataTypes'
  BY <1>0, <1>2, <1>3 DEF ResolveIInv, DataTypes, Needs, Served
<1>5. ReportsTrue'
  <2>1. SUFFICES ASSUME MadeAlike, NEW i \in 1 .. need
        PROVE  /\ Needs[i].required => report'[i] \in Done
               /\ report'[i] \in Done => ServedIn(dataCube', Needs[i])
    BY <1>1, <1>2 DEF ReportsTrue, Serves, ServedIn
  <2>3. CASE i = need
    BY <1>2, <2>3 DEF This
  <2>4. CASE i # need
    <3>1. i \in 1 .. need - 1 /\ i \in DOMAIN report
      BY <1>1, <1>2, <2>4
    <3>2. Needs[i].required => report[i] \in Done
      BY <2>1, <3>1 DEF ResolveIInv, ReportsTrue
    <3> QED
      BY <1>2, <2>1, <3>1, <3>2
  <2> QED
    BY <2>3, <2>4
<1>6. FetchedAsStored'
  BY <1>0 DEF FetchedAsStored
<1> QED
  BY <1>4, <1>5, <1>6 DEF ResolveIInv

\* resolve raises.
LEMMA Raising ==
    ASSUME ResolveIInv, dataPhase \in {"resolving", "rechecking"}, dataPhase' = "raised",
           UNCHANGED <<dataSetup, need, report, fetched>>, dataCube' \in [NeedVars -> Contents]
    PROVE  ResolveIInv'
<1>a. fetched = <<>>
  BY DEF ResolveIInv, DataTypes
<1>b. Needs' = Needs /\ (MadeAlike' <=> MadeAlike)
  BY DEF Needs, MadeAlike
<1>0. fetched = <<>> /\ Needs' = Needs /\ (MadeAlike' <=> MadeAlike)
  BY <1>a, <1>b
<1>1. DataTypes'
  BY DEF ResolveIInv, DataTypes, Served
<1>2. ReportsTrue'
  BY <1>0 DEF ResolveIInv, ReportsTrue
<1>3. FetchedAsStored'
  BY <1>0 DEF FetchedAsStored
<1> QED
  BY <1>1, <1>2, <1>3 DEF ResolveIInv

LEMMA GivingUp ==
    ASSUME ResolveIInv, dataPhase \in {"resolving", "rechecking"}, need <= Len(Needs),
           NEW error \in Reports \ Done, GiveUp(error), UNCHANGED <<dataSetup, fetched>>,
           dataCube' \in [NeedVars -> Contents],
           ~This.required /\ MadeAlike =>
               \A i \in DOMAIN report : report[i] \in Done => ServedIn(dataCube', Needs[i])
    PROVE  ResolveIInv'
<1>1. CASE This.required
  BY <1>1, Raising DEF GiveUp
<1>2. CASE ~This.required
  BY <1>2, Recorded DEF GiveUp
<1> QED
  BY <1>1, <1>2

LEMMA ServedSoFar ==
    ASSUME ResolveIInv, dataPhase \in {"resolving", "rechecking"}, MadeAlike, NEW i \in DOMAIN report,
           report[i] \in Done
    PROVE  \/ ServedIn(dataCube, Needs[i])
           \/ dataPhase = "rechecking" /\ This.required /\ (ServedIn(dataCube, This) => ServedIn(dataCube, Needs[i]))
  BY ServesIs DEF ResolveIInv, ReportsTrue

\* A producer whose writing of one variable serves a need leaves one that another
\* served, if they are alike: rows stay but for the days it writes.
LEMMA RewrittenMeets ==
    ASSUME dataSetup \in DataSetups, dataCube \in [NeedVars -> Contents], NEW u \in NeedVars, NEW v \in NeedVars,
           NEW days \in SUBSET Nat, NEW m \in NeedType, NEW n \in NeedType, NEW window,
           dataSetup.kinds[u] = dataSetup.kinds[v], m.kind = n.kind, m.cap = n.cap,
           MeetsFor(dataCube[u], n, window), MeetsFor(Rewritten(v, days), m, window)
    PROVE  MeetsFor(Rewritten(u, days), n, window)
<1> DEFINE a == dataCube[u]  b == Rewritten(v, days)  c == Rewritten(u, days)
<1>1. a \in Contents /\ b \in Contents /\ c \in Contents
  BY RewrittenType
<1>2. /\ n.kind \in {"static", "time"} /\ n.cap \in Nat /\ dataSetup.kinds[u] \in {"static", "time"}
      /\ dataSetup.resolution \in Nat
  BY SetupFacts DEF NeedType
<1>3. /\ c.kind = dataSetup.kinds[u] /\ b.kind = dataSetup.kinds[u]
      /\ c.kind = "static" => c.fixed = {dataSetup.resolution} /\ c.rows = a.rows
      /\ c.kind = "time" =>
           c.fixed = a.fixed /\ c.rows = {r \in a.rows : r[1] \notin days} \cup (days \X {dataSetup.resolution})
      /\ c.kind = "static" => b.fixed = {dataSetup.resolution}
      /\ c.kind = "time" => days \X {dataSetup.resolution} \subseteq b.rows
  BY RewrittenFacts
<1>4. MeetsFor(a, n, window) /\ MeetsFor(b, m, window)
  OBVIOUS
<1> HIDE DEF a, b, c
<1>5. c.kind = n.kind /\ a.kind = n.kind
  BY <1>3, <1>4 DEF MeetsFor
<1>6. c.kind = "time" => RowDays(a) \subseteq RowDays(c)
  <2> SUFFICES ASSUME c.kind = "time", NEW r \in a.rows PROVE \E q \in c.rows : q[1] = r[1]
    BY DEF RowDays
  <2>1. CASE r[1] \in days
    <3>1. <<r[1], dataSetup.resolution>> \in c.rows
      BY <1>3, <2>1
    <3> QED
      BY <3>1
  <2>2. CASE r[1] \notin days
    BY <1>3, <2>2
  <2> QED
    BY <2>1, <2>2
<1>7. n.kind = "time" => \E d \in RowDays(c) : d <= window.from /\ \E e \in RowDays(c) : e >= window.to - 1
  BY <1>4, <1>5, <1>6 DEF MeetsFor
<1>8. n.kind = "static" => c.fixed # {}
  BY <1>3, <1>5
<1>9. HasRows(c)
  <2>1. n.kind = "time" => c.rows # {}
    BY <1>7 DEF RowDays
  <2> QED
    BY <1>2, <1>8, <2>1 DEF HasRows
<1>10. ASSUME n.cap > 0, NEW res \in c.fixed \cup {r[2] : r \in c.rows} PROVE res <= n.cap
  <2>1. /\ \A x \in a.fixed : x <= n.cap
        /\ \A r \in a.rows : r[2] <= n.cap
        /\ \A x \in b.fixed : x <= n.cap
        /\ \A r \in b.rows : r[2] <= n.cap
    BY <1>4, <1>10 DEF MeetsFor
  <2>2. CASE c.kind = "static"
    <3>1. res = dataSetup.resolution \/ \E r \in a.rows : res = r[2]
      BY <1>3, <1>10, <2>2
    <3>2. dataSetup.resolution \in b.fixed
      BY <1>3, <2>2
    <3> QED
      BY <2>1, <3>1, <3>2
  <2>3. CASE c.kind = "time"
    <3>1. res \in a.fixed \/ (\E r \in a.rows : res = r[2]) \/ \E r \in days \X {dataSetup.resolution} : res = r[2]
      BY <1>3, <1>10, <2>3
    <3> QED
      BY <1>3, <2>1, <2>3, <3>1
  <2> QED
    BY <1>2, <1>5, <2>2, <2>3
<1> QED
  BY <1>5, <1>7, <1>8, <1>9, <1>10 DEF MeetsFor, c

\* The needs that a producer run for this one could disturb are like it.
LEMMA Written1 ==
    ASSUME ResolveIInv, dataPhase = "resolving", need <= Len(Needs), MadeAlike, NEW i \in DOMAIN report,
           NEW vs \in SUBSET dataSetup.makers[This.name], NEW days \in SUBSET Nat, NEW cube,
           cube = Written(vs, days), report[i] \in Done, ~ServedIn(dataCube, This)
    PROVE  \/ ServedIn(cube, Needs[i])
           \/ This.required /\ vs = dataSetup.makers[This.name] /\ (ServedIn(cube, This) => ServedIn(cube, Needs[i]))
           \/ This.required /\ vs # dataSetup.makers[This.name]
<1>0. /\ dataSetup \in DataSetups /\ dataCube \in [NeedVars -> Contents]
      /\ need \in 1 .. Len(Needs) + 1 /\ Len(report) = need - 1 /\ report \in Seq(Reports)
  BY DEF ResolveIInv, DataTypes, Needs
<1>1. Len(Needs) \in Nat /\ need \in 1 .. Len(Needs) /\ i \in 1 .. need - 1 /\ i \in 1 .. Len(Needs) /\ i # need
  BY <1>0, SetupFacts DEF Needs
<1>2. Needs[i].name \in NeedVars /\ This.name \in NeedVars /\ DOMAIN Needs = 1 .. Len(Needs)
  BY <1>0, <1>1, NeedFacts DEF This
<1>3. ServedIn(dataCube, Needs[i])
  BY ServedSoFar
<1>4. CASE Needs[i].name \notin vs
  BY <1>0, <1>2, <1>3, <1>4, WrittenType DEF ServedIn
<1>5. CASE Needs[i].name \in vs
  <2>1. /\ This.required /\ Needs[i].kind = This.kind /\ Needs[i].cap = This.cap
        /\ dataSetup.kinds[Needs[i].name] = dataSetup.kinds[This.name]
    BY <1>1, <1>2, <1>5 DEF MadeAlike, This
  <2>2. ASSUME vs = dataSetup.makers[This.name], ServedIn(cube, This) PROVE ServedIn(cube, Needs[i])
    <3>1. CASE This.name \in vs
      <4>1. cube[Needs[i].name] = Rewritten(Needs[i].name, days) /\ cube[This.name] = Rewritten(This.name, days)
        BY <1>0, <1>2, <1>5, <3>1, WrittenType
      <4>2. MeetsFor(Rewritten(This.name, days), This, dataSetup.request)
        BY <2>2, <4>1 DEF ServedIn
      <4>3. MeetsFor(dataCube[Needs[i].name], Needs[i], dataSetup.request)
        BY <1>3 DEF ServedIn
      <4>4. This \in NeedType /\ Needs[i] \in NeedType
        BY <1>0, <1>1, NeedFacts DEF This
      <4>5. MeetsFor(Rewritten(Needs[i].name, days), Needs[i], dataSetup.request)
        BY <1>0, <1>2, <2>1, <4>2, <4>3, <4>4, RewrittenMeets
      <4> QED
        BY <4>1, <4>5 DEF ServedIn
    <3>2. CASE This.name \notin vs  \* it would not be served
      <4>1. cube[This.name] = dataCube[This.name]
        BY <1>0, <1>2, <3>2, WrittenType
      <4> QED
        BY <2>2, <4>1 DEF ServedIn
    <3> QED
      BY <3>1, <3>2
  <2> QED
    BY <2>1, <2>2
<1> QED
  BY <1>4, <1>5

LEMMA ResolveTyped ==
    ASSUME ResolveIInv
    PROVE  /\ dataSetup \in DataSetups /\ dataCube \in [NeedVars -> Contents] /\ need \in 1 .. Len(Needs) + 1
           /\ Len(Needs) \in Nat /\ report \in Seq(Reports) /\ fetched \in Seq(Cuts)
           /\ dataPhase \in {"resolving", "rechecking"} => Len(report) = need - 1
           /\ dataPhase \in Served => Len(report) = Len(Needs)
           /\ dataPhase = "rechecking" => need <= Len(Needs)
<1>1. dataSetup \in DataSetups
  BY DEF ResolveIInv, DataTypes
<1>2. Len(dataSetup.needs) \in Nat
  BY <1>1, SetupFacts
<1> QED
  BY <1>2 DEF ResolveIInv, DataTypes, Needs

LEMMA LookedUp == ResolveIInv /\ InCube => ResolveIInv'
<1> SUFFICES ASSUME ResolveIInv, InCube PROVE ResolveIInv'
  OBVIOUS
<1>1. /\ dataPhase = "resolving" /\ dataPhase' = "resolving" /\ need <= Len(Needs) /\ Record("cube")
      /\ UNCHANGED <<dataSetup, fetched>> /\ dataCube' = dataCube /\ ServedIn(dataCube, This)
  BY MeetsIs, ServesIs DEF InCube
<1>2. MadeAlike => \A i \in DOMAIN report : report[i] \in Done => ServedIn(dataCube', Needs[i])
  BY <1>1, ServedSoFar
<1>3. "cube" \in Done /\ "cube" \in Reports
  BY DEF Done, Reports
<1>4. dataCube' \in [NeedVars -> Contents]
  BY <1>1, ResolveTyped
<1> QED
  BY <1>1, <1>2, <1>3, <1>4, Recorded

LEMMA NobodyMakesIt == ResolveIInv /\ NoProducer => ResolveIInv'
<1> SUFFICES ASSUME ResolveIInv, NoProducer PROVE ResolveIInv'
  OBVIOUS
<1>1. /\ dataPhase = "resolving" /\ need <= Len(Needs) /\ GiveUp("no_producer")
      /\ UNCHANGED <<dataSetup, fetched>> /\ dataCube' = dataCube
  BY DEF NoProducer
<1>2. MadeAlike => \A i \in DOMAIN report : report[i] \in Done => ServedIn(dataCube', Needs[i])
  BY <1>1, ServedSoFar
<1>3. "no_producer" \in Reports \ Done
  BY DEF Done, Reports
<1>4. dataCube' \in [NeedVars -> Contents]
  BY <1>1, ResolveTyped
<1> QED
  BY <1>1, <1>2, <1>3, <1>4, GivingUp

\* The producer of a need that was looked for in vain.
LEMMA Invoked ==
    ASSUME ResolveIInv, NEW days \in SUBSET Nat, InvokeProducer(days)
    PROVE  ResolveIInv'
<1>1. /\ dataPhase = "resolving" /\ dataPhase' = "rechecking" /\ need <= Len(Needs)
      /\ dataCube' = Written(dataSetup.makers[This.name], days)
      /\ UNCHANGED <<dataSetup, need, report, fetched>> /\ ~ServedIn(dataCube, This)
  BY MeetsIs, ServesIs DEF InvokeProducer
<1>2. Needs' = Needs /\ This' = This /\ (MadeAlike' <=> MadeAlike)
  BY <1>1 DEF Needs, This, MadeAlike
<1>3. dataCube' \in [NeedVars -> Contents]
  BY <1>1, ResolveTyped, WrittenType
<1>4. DataTypes'
  BY <1>1, <1>3 DEF ResolveIInv, DataTypes, Needs, Served
<1>5. ReportsTrue'
  <2>1. SUFFICES ASSUME MadeAlike, NEW i \in DOMAIN report
        PROVE  /\ Needs[i].required => report[i] \in Done
               /\ report[i] \in Done =>
                     \/ ServedIn(dataCube', Needs[i])
                     \/ This.required /\ (ServedIn(dataCube', This) => ServedIn(dataCube', Needs[i]))
    BY <1>1, <1>2 DEF ReportsTrue, Serves, ServedIn
  <2>2. Needs[i].required => report[i] \in Done
    BY <2>1 DEF ResolveIInv, ReportsTrue
  <2>3. ASSUME report[i] \in Done
        PROVE  \/ ServedIn(dataCube', Needs[i])
               \/ This.required /\ (ServedIn(dataCube', This) => ServedIn(dataCube', Needs[i]))
    <3>1. dataSetup.makers[This.name] \in SUBSET dataSetup.makers[This.name]
      OBVIOUS
    <3> QED
      BY <1>1, <2>1, <2>3, <3>1, Written1
  <2> QED
    BY <2>2, <2>3
<1>6. FetchedAsStored'
  <2>1. fetched = <<>>
    BY <1>1 DEF ResolveIInv, DataTypes
  <2> QED
    BY <1>1, <2>1 DEF FetchedAsStored
<1> QED
  BY <1>4, <1>5, <1>6 DEF ResolveIInv

LEMMA Raised == ResolveIInv /\ ProducerRaises => ResolveIInv'
<1> SUFFICES ASSUME ResolveIInv, ProducerRaises PROVE ResolveIInv'
  OBVIOUS
<1>1. PICK vs \in SUBSET dataSetup.makers[This.name] : dataCube' = Written(vs, WindowDays)
  BY DEF ProducerRaises
<1>2. /\ dataPhase = "resolving" /\ need <= Len(Needs) /\ GiveUp("producer_failed")
      /\ UNCHANGED <<dataSetup, fetched>> /\ ~ServedIn(dataCube, This)
  BY MeetsIs, ServesIs DEF ProducerRaises
<1>3. WindowDays \in SUBSET Nat
  BY ResolveTyped, WindowNat
<1>4. ~This.required /\ MadeAlike =>
          \A i \in DOMAIN report : report[i] \in Done => ServedIn(dataCube', Needs[i])
  BY <1>1, <1>2, <1>3, Written1
<1>5. "producer_failed" \in Reports \ Done
  BY DEF Done, Reports
<1>6. dataCube' \in [NeedVars -> Contents]
  BY <1>1, <1>3, ResolveTyped, WrittenType
<1> QED
  BY <1>2, <1>4, <1>5, <1>6, GivingUp

LEMMA Rechecked == ResolveIInv /\ Recheck => ResolveIInv'
<1> SUFFICES ASSUME ResolveIInv, Recheck PROVE ResolveIInv'
  OBVIOUS
<1>1. /\ dataPhase = "rechecking" /\ need <= Len(Needs)
      /\ UNCHANGED <<dataSetup, fetched>> /\ dataCube' = dataCube /\ dataCube' \in [NeedVars -> Contents]
  BY ResolveTyped DEF Recheck
<1>2. CASE Met(This)
  <2>1. dataPhase' = "resolving" /\ Record("producer") /\ ServedIn(dataCube', This)
    BY <1>1, <1>2, MeetsIs, ServesIs DEF Recheck
  <2>2. MadeAlike => \A i \in DOMAIN report : report[i] \in Done => ServedIn(dataCube', Needs[i])
    BY <1>1, <2>1, ServedSoFar
  <2>3. "producer" \in Reports /\ "producer" \in Done
    BY DEF Done, Reports
  <2> QED
    BY <1>1, <2>1, <2>2, <2>3, Recorded
<1>3. CASE ~Met(This)
  <2>1. GiveUp("producer_ran_but_not_satisfied")
    BY <1>3 DEF Recheck
  <2>2. ~This.required /\ MadeAlike =>
            \A i \in DOMAIN report : report[i] \in Done => ServedIn(dataCube', Needs[i])
    BY <1>1, ServedSoFar
  <2>3. "producer_ran_but_not_satisfied" \in Reports \ Done
    BY DEF Done, Reports
  <2> QED
    BY <1>1, <2>1, <2>2, <2>3, GivingUp
<1> QED
  BY <1>2, <1>3

LEMMA Resolving == ResolveIInv /\ Resolved => ResolveIInv'
<1> SUFFICES ASSUME ResolveIInv, Resolved PROVE ResolveIInv'
  OBVIOUS
<1>1. /\ dataPhase = "resolving" /\ dataPhase' = "resolved" /\ need > Len(Needs) /\ need' = 1
      /\ UNCHANGED <<dataSetup, dataCube, report, fetched>>
  BY DEF Resolved
<1>2. /\ need \in 1 .. Len(Needs) + 1 /\ Len(Needs) \in Nat /\ Len(report) = need - 1
  BY <1>1, ResolveTyped
<1>3. fetched = <<>> /\ Len(fetched) = 0
  BY <1>1 DEF ResolveIInv, DataTypes
<1>4. Len(report) = Len(Needs) /\ 1 \in 1 .. Len(Needs) + 1 /\ 1 - 1 = 0
  BY <1>1, <1>2
<1>5. Needs' = Needs /\ (MadeAlike' <=> MadeAlike)
  BY <1>1 DEF Needs, MadeAlike
<1>6. DataTypes'
  BY <1>1, <1>3, <1>4 DEF ResolveIInv, DataTypes, Needs
<1>7. ReportsTrue'
  BY <1>1, <1>5 DEF ResolveIInv, ReportsTrue, Serves
<1>8. FetchedAsStored'
  BY <1>1, <1>3 DEF FetchedAsStored
<1> QED
  BY <1>6, <1>7, <1>8 DEF ResolveIInv

LEMMA CutType ==
    ASSUME NEW c \in Contents, NEW n, NEW window
    PROVE  CutFor(c, n, window) \in Cuts
<1>1. c.kind \in {"none", "static", "time"} /\ c.res \in Nat /\ c.axis \in SUBSET Nat
  BY DEF Contents
<1> QED
  BY <1>1 DEF CutFor, Cuts

\* Once resolve has returned, a required need is served.
LEMMA RequiredIsServed ==
    ASSUME ResolveIInv, dataPhase \in Served, MadeAlike, NEW i \in DOMAIN Needs, Needs[i].required
    PROVE  ServedIn(dataCube, Needs[i])
<1>1. Len(report) = Len(Needs) /\ report \in Seq(Reports) /\ Len(Needs) \in Nat
  BY ResolveTyped
<1>2. DOMAIN Needs = 1 .. Len(Needs)
  BY SetupFacts, ResolveTyped DEF Needs
<1>3. i \in DOMAIN report
  BY <1>1, <1>2
<1>4. dataPhase \notin {"refused", "raised", "rechecking"}
  BY DEF Served
<1> QED
  BY <1>3, <1>4, ServesIs DEF ResolveIInv, ReportsTrue

LEMMA FetchedOne == ResolveIInv /\ FetchNeed => ResolveIInv'
<1> SUFFICES ASSUME ResolveIInv, FetchNeed PROVE ResolveIInv'
  OBVIOUS
<1> DEFINE c == dataCube[This.name]
           refuses == Refused(c, This)
<1>1. /\ dataPhase = "resolved" /\ need <= Len(Needs)
      /\ UNCHANGED <<dataSetup, dataCube, report>>
  BY DEF FetchNeed
<1>2. /\ need \in 1 .. Len(Needs) /\ Len(Needs) \in Nat /\ Len(report) = Len(Needs)
      /\ fetched \in Seq(Cuts) /\ dataSetup \in DataSetups /\ dataCube \in [NeedVars -> Contents]
  BY <1>1, ResolveTyped DEF Served
<1>3. /\ This.name \in NeedVars /\ This.kind \in {"static", "time"} /\ need \in DOMAIN Needs
  BY <1>2, NeedFacts DEF This
<1>4. c \in Contents /\ c.kind \in {"none", "static", "time"}
  BY <1>2, <1>3 DEF Contents
<1>5. Needs' = Needs /\ (MadeAlike' <=> MadeAlike)
  BY <1>1 DEF Needs, MadeAlike
<1>6. Len(fetched) = need - 1
  BY <1>1 DEF ResolveIInv, DataTypes
<1>7. CASE refuses
  <2>1. dataPhase' = "fetch raised" /\ UNCHANGED <<fetched, need>>
    BY <1>7 DEF FetchNeed
  <2>2. DataTypes'
    BY <1>1, <1>2, <2>1 DEF ResolveIInv, DataTypes, Served, Needs
  <2>3. ReportsTrue'
    BY <1>1, <1>5, <2>1 DEF ResolveIInv, ReportsTrue, Serves
  <2>4. FetchedAsStored'
    <3>1. \A i \in DOMAIN fetched :
             i <= Len(Needs) /\ fetched[i] = CutFor(dataCube[Needs[i].name], Needs[i], dataSetup.request)
      BY DEF ResolveIInv, FetchedAsStored
    <3>2. ASSUME MadeAlike PROVE ~This.required /\ c.kind # This.kind
      <4>1. This.required => MeetsFor(c, This, dataSetup.request)
        BY <1>1, <1>3, <3>2, RequiredIsServed DEF ServedIn, This, Served
      <4>2. This.required => c.kind = This.kind /\ HasRows(c)
        <5>1. RowDays(c) # {} => c.rows # {}
          BY DEF RowDays
        <5> QED
          BY <1>3, <4>1, <5>1 DEF MeetsFor, HasRows
      <4> QED
        BY <1>3, <1>7, <4>2 DEF Refused
    <3>3. MadeAlike => \E i \in DOMAIN Needs :
             ~Needs[i].required /\ dataCube[Needs[i].name].kind # Needs[i].kind
      BY <1>3, <3>2 DEF This
    <3> QED
      BY <1>1, <1>5, <2>1, <3>1, <3>3 DEF FetchedAsStored
  <2> QED
    BY <2>2, <2>3, <2>4 DEF ResolveIInv
<1>8. CASE ~refuses
  <2>1. /\ dataPhase' = dataPhase /\ need' = need + 1
        /\ fetched' = Append(fetched, CutFor(c, This, dataSetup.request))
    BY <1>8 DEF FetchNeed, Cut, CutFor, FirstDay
  <2>2. CutFor(c, This, dataSetup.request) \in Cuts
    BY <1>4, CutType
  <2>3. /\ fetched' \in Seq(Cuts) /\ Len(fetched') = need /\ DOMAIN fetched' = 1 .. need
        /\ fetched'[need] = CutFor(c, This, dataSetup.request)
        /\ \A i \in 1 .. need - 1 : fetched'[i] = fetched[i]
        /\ DOMAIN fetched = 1 .. need - 1
    <3> HIDE DEF c
    <3> QED
      BY <1>2, <1>6, <2>1, <2>2
  <2>4. need + 1 \in 1 .. Len(Needs) + 1 /\ (need + 1) - 1 = need
    BY <1>2
  <2>5. DataTypes'
    BY <1>1, <1>2, <2>1, <2>3, <2>4 DEF ResolveIInv, DataTypes, Served, Needs
  <2>6. ReportsTrue'
    BY <1>1, <1>5, <2>1 DEF ResolveIInv, ReportsTrue, Serves
  <2>7. FetchedAsStored'
    <3>1. ASSUME NEW i \in 1 .. need
          PROVE  /\ i <= Len(Needs)
                 /\ fetched'[i] = CutFor(dataCube[Needs[i].name], Needs[i], dataSetup.request)
      <4>1. CASE i = need
        BY <1>1, <2>3, <4>1 DEF This
      <4>2. CASE i # need
        <5>1. i \in 1 .. need - 1
          BY <1>2, <4>2
        <5> QED
          BY <2>3, <5>1 DEF ResolveIInv, FetchedAsStored
      <4> QED
        BY <4>1, <4>2
    <3> QED
      BY <1>1, <1>5, <2>1, <2>3, <3>1 DEF FetchedAsStored
  <2> QED
    BY <2>5, <2>6, <2>7 DEF ResolveIInv
<1> QED
  BY <1>7, <1>8

LEMMA AllFetched == ResolveIInv /\ Fetched => ResolveIInv'
<1> SUFFICES ASSUME ResolveIInv, Fetched PROVE ResolveIInv'
  OBVIOUS
<1>1. /\ dataPhase = "resolved" /\ dataPhase' = "fetched" /\ need > Len(Needs)
      /\ UNCHANGED <<dataSetup, dataCube, need, report, fetched>>
  BY DEF Fetched
<1>2. need \in 1 .. Len(Needs) + 1 /\ Len(Needs) \in Nat
  BY ResolveTyped
<1>3. need = Len(Needs) + 1
  BY <1>1, <1>2
<1>4. Needs' = Needs /\ (MadeAlike' <=> MadeAlike)
  BY <1>1 DEF Needs, MadeAlike
<1>5. DataTypes'
  BY <1>1, <1>3 DEF ResolveIInv, DataTypes, Served, Needs
<1>6. ReportsTrue'
  BY <1>1, <1>4 DEF ResolveIInv, ReportsTrue, Serves
<1>7. FetchedAsStored'
  BY <1>1, <1>4 DEF ResolveIInv, FetchedAsStored
<1> QED
  BY <1>5, <1>6, <1>7 DEF ResolveIInv

-----------------------------------------------------------------------------
(* Sources *)

\* Before, for a list.
BeforeIn(list, s, t) == \E i, j \in DOMAIN list : i < j /\ list[i] = s /\ list[j] = t

LEMMA SourceFacts ==
    ASSUME dataSetup \in DataSetups, NEW s \in Sources
    PROVE  Rank(s) \in Int
  BY SetupFacts DEF Rank

\* A source is put after those of its rank and above.
LEMMA SourceAdded ==
    ASSUME dataSetup \in DataSetups, SourcesRanked, NEW s \in Sources, AddSource(s)
    PROVE  SourcesRanked'
<1>0. /\ added \in Seq(Sources) /\ ranked \in Seq(Sources) /\ asked' = asked /\ asked.found = {}
      /\ added' = Append(added, s) /\ dataSetup' = dataSetup
      /\ \A i \in DOMAIN added : added[i] # s
  BY DEF SourcesRanked, AddSource, resolveVars
<1> DEFINE n == Len(ranked)  m == Len(added)
<1>1. n \in Nat /\ m \in Nat /\ DOMAIN ranked = 1 .. n /\ DOMAIN added = 1 .. m
  BY <1>0
<1>2. PICK p \in 1 .. n + 1 :
         /\ \A i \in 1 .. n : i < p <=> Rank(ranked[i]) >= Rank(s)
         /\ ranked' = [i \in 1 .. n + 1 |-> IF i < p THEN ranked[i] ELSE IF i = p THEN s ELSE ranked[i - 1]]
  BY <1>1 DEF AddSource, Place
<1>3. /\ added' \in Seq(Sources) /\ DOMAIN added' = 1 .. m + 1 /\ added'[m + 1] = s
      /\ \A i \in 1 .. m : added'[i] = added[i]
  BY <1>0, <1>1
<1>4. \A i \in 1 .. n + 1 : /\ i < p => i \in 1 .. n
                            /\ i > p => i - 1 \in 1 .. n /\ i - 1 >= p
                            /\ ranked'[i] \in Sources
  <2> HIDE DEF n, m
  <2> TAKE i \in 1 .. n + 1
  <2>1. i < p => i \in 1 .. n
    BY <1>1
  <2>2. i > p => i - 1 \in 1 .. n /\ i - 1 >= p
    BY <1>1
  <2>3. \A k \in 1 .. n : ranked[k] \in Sources
    BY <1>0, <1>1 DEF n
  <2>4. i < p \/ i = p \/ i > p
    BY <1>1
  <2> QED
    BY <1>2, <2>1, <2>2, <2>3, <2>4
<1>14. /\ DOMAIN ranked' = 1 .. n + 1 /\ ranked' = [i \in DOMAIN ranked' |-> ranked'[i]]
       /\ \A i \in 1 .. n + 1 : /\ i < p => ranked'[i] = ranked[i]
                                /\ i = p => ranked'[i] = s
                                /\ ~(i < p) /\ i # p => ranked'[i] = ranked[i - 1]
  <2> HIDE DEF n
  <2>1. ranked' = [i \in 1 .. n + 1 |-> IF i < p THEN ranked[i] ELSE IF i = p THEN s ELSE ranked[i - 1]]
    BY <1>2
  <2>2. DOMAIN ranked' = 1 .. n + 1 /\ ranked' = [i \in DOMAIN ranked' |-> ranked'[i]]
    BY <2>1
  <2>3. \A i \in 1 .. n + 1 : ranked'[i] = IF i < p THEN ranked[i] ELSE IF i = p THEN s ELSE ranked[i - 1]
    BY <2>1, Zenon
  <2>4. \A i \in 1 .. n + 1 : i = p => ~(i < p)
    BY <1>1
  <2> QED
    BY <2>2, <2>3, <2>4, Zenon
<1>5. ranked' \in Seq(Sources) /\ DOMAIN ranked' = 1 .. n + 1
  <2>1. n + 1 \in Nat /\ DOMAIN ranked' = 1 .. n + 1 /\ ranked' \in [1 .. n + 1 -> Sources]
    <3> HIDE DEF n
    <3>1. \A i \in 1 .. n + 1 : ranked'[i] \in Sources
      BY <1>4
    <3>2. n + 1 \in Nat
      BY <1>1
    <3> QED
      BY <1>14, <3>1, <3>2
  <2> QED
    BY <2>1
<1>6. \A i, j \in DOMAIN added' : added'[i] = added'[j] => i = j
  <2> HIDE DEF n, m
  <2>1. \A i \in 1 .. m + 1 : i = m + 1 \/ i \in 1 .. m
    BY <1>1
  <2> QED
    BY <1>0, <1>1, <1>3, <2>1 DEF SourcesRanked
<1>7. \A t \in Sources : (\E i \in DOMAIN added' : added'[i] = t) <=> (\E i \in DOMAIN ranked' : ranked'[i] = t)
  <2> HIDE DEF n, m
  <2> TAKE t \in Sources
  <2>1. (\E i \in 1 .. m + 1 : added'[i] = t) <=> t = s \/ \E i \in 1 .. m : added[i] = t
    <3>1. \A i \in 1 .. m + 1 : i = m + 1 \/ i \in 1 .. m
      BY <1>1
    <3>2. m + 1 \in 1 .. m + 1 /\ \A i \in 1 .. m : i \in 1 .. m + 1
      BY <1>1
    <3> QED
      BY <1>3, <3>1, <3>2
  <2>2. (\E i \in 1 .. n + 1 : ranked'[i] = t) <=> t = s \/ \E i \in 1 .. n : ranked[i] = t
    <3>1. ASSUME NEW i \in 1 .. n + 1, ranked'[i] = t PROVE t = s \/ \E k \in 1 .. n : ranked[k] = t
      <4>1. CASE i < p
        <5>1. i \in 1 .. n /\ ranked'[i] = ranked[i]
          BY <1>4, <1>14, <4>1
        <5> QED
          BY <3>1, <5>1
      <4>2. CASE i = p
        BY <1>2, <3>1, <4>2
      <4>3. CASE i > p
        <5>1. ~(i < p) /\ i # p
          BY <1>1, <4>3
        <5> QED
          BY <1>2, <1>4, <3>1, <4>3, <5>1
      <4> QED
        BY <1>1, <4>1, <4>2, <4>3
    <3>2. ranked'[p] = s
      BY <1>1, <1>2
    <3>3. ASSUME NEW i \in 1 .. n, ranked[i] = t PROVE \E k \in 1 .. n + 1 : ranked'[k] = t
      <4>1. CASE i < p
        <5>1. i \in 1 .. n + 1
          BY <1>1
        <5> QED
          BY <1>2, <3>3, <4>1, <5>1
      <4>2. CASE ~(i < p)
        <5>1. i + 1 \in 1 .. n + 1 /\ ~(i + 1 < p) /\ i + 1 # p /\ (i + 1) - 1 = i
          BY <1>1, <4>2
        <5> QED
          BY <1>2, <3>3, <5>1
      <4> QED
        BY <4>1, <4>2
    <3> QED
      BY <1>2, <3>1, <3>2, <3>3
  <2> QED
    BY <1>1, <1>3, <1>5, <2>1, <2>2 DEF SourcesRanked
<1>8. \A t, u : BeforeIn(added, t, u) => BeforeIn(added', t, u)
  <2> HIDE DEF n, m
  <2>1. \A i \in 1 .. m : i \in 1 .. m + 1
    BY <1>1
  <2> QED
    BY <1>1, <1>3, <2>1 DEF BeforeIn
<1>9. \A i \in 1 .. n : BeforeIn(added', ranked[i], s)
  <2> HIDE DEF n, m
  <2> TAKE i \in 1 .. n
  <2>1. ranked[i] \in Sources
    BY <1>0, <1>1
  <2>2. PICK k \in 1 .. m : added[k] = ranked[i]
    BY <1>1, <2>1 DEF SourcesRanked
  <2>3. k < m + 1 /\ k \in 1 .. m + 1 /\ m + 1 \in 1 .. m + 1
    BY <1>1
  <2> QED
    BY <1>3, <2>2, <2>3 DEF BeforeIn
<1>10. ASSUME NEW i \in 1 .. n + 1, NEW j \in 1 .. n + 1, i < j
       PROVE  \/ Rank(ranked'[j]) < Rank(ranked'[i])
              \/ Rank(ranked'[j]) = Rank(ranked'[i]) /\ BeforeIn(added', ranked'[i], ranked'[j])
  <2> HIDE DEF n, m
  <2> DEFINE old(k) == IF k < p THEN k ELSE k - 1
  <2>1. ASSUME NEW k \in 1 .. n + 1, k # p
        PROVE  old(k) \in 1 .. n /\ ranked'[k] = ranked[old(k)]
    <3>1. CASE k < p
      BY <1>4, <1>14, <3>1
    <3>2. CASE k > p /\ ~(k < p)
      BY <1>4, <1>14, <2>1, <3>2
    <3>3. k < p \/ (k > p /\ ~(k < p))
      BY <1>1, <2>1
    <3> QED
      BY <3>1, <3>2, <3>3
  <2>2. ranked'[p] = s
    BY <1>1, <1>2
  <2>3. \A k \in 1 .. n : Rank(ranked[k]) \in Int
    BY <1>0, <1>1, SourceFacts
  <2>4. Rank(s) \in Int
    BY SourceFacts
  <2>5. CASE i # p /\ j # p
    <3>1. old(i) \in 1 .. n /\ old(j) \in 1 .. n /\ ranked'[i] = ranked[old(i)] /\ ranked'[j] = ranked[old(j)]
      BY <2>1, <2>5
    <3>2. old(i) < old(j)
      BY <1>1, <1>10, <2>5
    <3>3. \/ Rank(ranked[old(j)]) < Rank(ranked[old(i)])
          \/ Rank(ranked[old(j)]) = Rank(ranked[old(i)]) /\ BeforeIn(added, ranked[old(i)], ranked[old(j)])
      <4> HIDE DEF old
      <4> QED
        BY <1>1, <3>1, <3>2 DEF SourcesRanked, Before, BeforeIn
    <3> HIDE DEF old
    <3>4. BeforeIn(added, ranked[old(i)], ranked[old(j)]) => BeforeIn(added', ranked'[i], ranked'[j])
      BY <1>8, <3>1
    <3> QED
      BY <3>1, <3>3, <3>4
  <2>6. CASE j = p
    <3>1. i \in 1 .. n /\ i < p /\ ranked'[i] = ranked[i]
      BY <1>1, <1>2, <1>4, <1>10, <2>6
    <3>2. Rank(ranked[i]) >= Rank(s) /\ Rank(ranked[i]) \in Int
      BY <1>2, <2>3, <3>1
    <3>3. Rank(s) < Rank(ranked[i]) \/ Rank(s) = Rank(ranked[i])
      BY <2>4, <3>2
    <3>4. BeforeIn(added', ranked'[i], ranked'[j])
      BY <1>9, <2>2, <2>6, <3>1
    <3> QED
      BY <2>2, <2>6, <3>1, <3>3, <3>4
  <2>7. CASE i = p
    <3>1. j > p /\ j # p
      BY <1>1, <1>10, <2>7
    <3>2. j - 1 \in 1 .. n /\ j - 1 >= p /\ ~(j < p) /\ ranked'[j] = ranked[j - 1]
      BY <1>1, <1>2, <1>4, <3>1
    <3>3. ~(j - 1 < p)
      BY <1>1, <3>2
    <3>4. Rank(ranked[j - 1]) < Rank(s)
      BY <1>2, <2>3, <2>4, <3>2, <3>3
    <3> QED
      BY <2>2, <2>7, <3>2, <3>4
  <2> QED
    BY <2>5, <2>6, <2>7
<1> HIDE DEF n, m
<1>11. asked'.found = {}
  BY <1>0
<1>12. \A i, j \in DOMAIN ranked' : i < j =>
          \/ Rank(ranked[j])' < Rank(ranked[i])'
          \/ Rank(ranked[j])' = Rank(ranked[i])' /\ Before(ranked[i], ranked[j])'
  BY <1>0, <1>5, <1>10 DEF Rank, Before, BeforeIn
<1> QED
  BY <1>3, <1>5, <1>6, <1>7, <1>11, <1>12 DEF SourcesRanked

\* With names that differ, the asset is read by the source that has it.
LEMMA ReadByName ==
    ASSUME SourcesRanked, NEW s \in Sources, \E k \in DOMAIN added : added[k] = s,
           \A t, u \in Sources : t # u => NameOf(t) # NameOf(u)
    PROVE  {added[k] : k \in {m \in DOMAIN added :
                                 /\ NameOf(added[m]) = NameOf(s)
                                 /\ \A l \in 1..(m - 1) : NameOf(added[l]) # NameOf(s)}} = {s}
<1>0. /\ added \in Seq(Sources) /\ Len(added) \in Nat /\ DOMAIN added = 1 .. Len(added)
      /\ \A i, j \in DOMAIN added : added[i] = added[j] => i = j
  BY DEF SourcesRanked
<1>1. \A m \in DOMAIN added : added[m] \in Sources
  BY <1>0
<1>2. PICK k \in DOMAIN added : added[k] = s
  OBVIOUS
<1>3. \A m \in DOMAIN added : NameOf(added[m]) = NameOf(s) => added[m] = s
  BY <1>1
<1>4. \A l \in 1 .. k - 1 : l \in DOMAIN added /\ l # k
  BY <1>0
<1>5. \A l \in 1 .. k - 1 : NameOf(added[l]) # NameOf(s)
  BY <1>0, <1>2, <1>3, <1>4
<1> QED
  BY <1>2, <1>3, <1>5

LEMMA AskedFirst ==
    ASSUME dataSetup \in DataSetups, SourcesRanked, NEW empty \in SUBSET Sources, FirstHit(empty)
    PROVE  SourcesRanked'
<1>0. /\ added' = added /\ ranked' = ranked /\ dataSetup' = dataSetup
      /\ ranked \in Seq(Sources) /\ added \in Seq(Sources)
  BY DEF FirstHit, resolveVars, SourcesRanked
<1>1. PICK i \in DOMAIN ranked :
         /\ ranked[i] \notin empty /\ \A j \in 1..(i - 1) : ranked[j] \in empty
         /\ asked' = [found |-> {ranked[i]}, empty |-> empty,
                      read |-> {added[k] : k \in {m \in DOMAIN added :
                                 /\ NameOf(added[m]) = NameOf(ranked[i])
                                 /\ \A l \in 1..(m - 1) : NameOf(added[l]) # NameOf(ranked[i])}}]
  BY DEF FirstHit
<1> DEFINE s == ranked[i]
<1>2. /\ Len(ranked) \in Nat /\ DOMAIN ranked = 1 .. Len(ranked) /\ i \in 1 .. Len(ranked)
      /\ s \in Sources
  BY <1>0, <1>1
<1>3. asked'.found = {s} /\ asked'.empty = empty
  BY <1>1
<1>4. ASSUME NEW t \in {added[k] : k \in DOMAIN added} \ (empty \cup {s})
      PROVE  Rank(t) < Rank(s) \/ (Rank(t) = Rank(s) /\ Before(s, t))
  <2>1. t \in Sources /\ \E k \in DOMAIN added : added[k] = t
    BY <1>0, <1>4
  <2>2. PICK j \in DOMAIN ranked : ranked[j] = t
    BY <2>1 DEF SourcesRanked
  <2>3. j # i /\ ~(j \in 1 .. i - 1)
    BY <1>1, <1>4, <2>2
  <2>4. i < j
    BY <1>2, <2>2, <2>3
  <2> QED
    BY <1>1, <2>2, <2>4 DEF SourcesRanked
<1>5. ASSUME \A t, u \in Sources : t # u => NameOf(t) # NameOf(u) PROVE asked'.read = {s}
  <2>1. \E k \in DOMAIN added : added[k] = s
    BY <1>1, <1>2 DEF SourcesRanked
  <2> QED
    BY <1>1, <1>2, <1>5, <2>1, ReadByName
<1>6. BestSource'
  <2> HIDE DEF s
  <2>1. \A t : Rank(t)' = Rank(t) /\ NameOf(t)' = NameOf(t)
    BY <1>0 DEF Rank, NameOf
  <2>2. \A t, u : Before(t, u)' <=> Before(t, u)
    BY <1>0 DEF Before
  <2> QED
    BY <1>0, <1>3, <1>4, <1>5, <2>1, <2>2 DEF BestSource
<1> QED
  BY <1>0, <1>6 DEF SourcesRanked, Rank, Before

\* Needs do not disturb the sources, nor sources the needs.
LEMMA SourcesAlone == SourcesRanked /\ UNCHANGED <<dataSetup, sourceVars>> => SourcesRanked'
<1> SUFFICES ASSUME SourcesRanked, UNCHANGED <<dataSetup, sourceVars>> PROVE SourcesRanked'
  OBVIOUS
<1>1. dataSetup' = dataSetup /\ ranked' = ranked /\ added' = added /\ asked' = asked
  BY DEF sourceVars
<1>2. BestSource' <=> BestSource
  BY <1>1 DEF BestSource, Rank, NameOf, Before
<1> QED
  BY <1>1, <1>2 DEF SourcesRanked, Rank, Before

LEMMA NeedsAlone == ResolveIInv /\ UNCHANGED <<dataSetup, resolveVars>> => ResolveIInv'
<1> SUFFICES ASSUME ResolveIInv, UNCHANGED <<dataSetup, resolveVars>> PROVE ResolveIInv'
  OBVIOUS
<1>1. /\ dataSetup' = dataSetup /\ need' = need /\ dataPhase' = dataPhase /\ report' = report
      /\ fetched' = fetched /\ dataCube' = dataCube
  BY DEF resolveVars
<1>2. DataTypes'
  BY <1>1 DEF ResolveIInv, DataTypes
<1>3. ReportsTrue'
  BY <1>1 DEF ResolveIInv, ReportsTrue, MadeAlike, Needs, This, Serves
<1>4. FetchedAsStored'
  <2>1. Needs' = Needs /\ (MadeAlike' <=> MadeAlike)
    BY <1>1 DEF Needs, MadeAlike
  <2> QED
    BY <1>1, <2>1 DEF ResolveIInv, FetchedAsStored
<1> QED
  BY <1>2, <1>3, <1>4 DEF ResolveIInv

LEMMA DataStep == DataIInv /\ [DataNext]_dataVars => DataIInv'
<1> SUFFICES ASSUME DataIInv, [DataNext]_dataVars PROVE DataIInv'
  OBVIOUS
<1>0. ResolveIInv /\ SourcesRanked /\ dataSetup \in DataSetups
  BY DEF DataIInv, ResolveIInv, DataTypes
<1> SUFFICES ResolveIInv' /\ SourcesRanked'
  BY DEF DataIInv, ResolveIInv
<1>1. CASE InCube
  BY <1>0, <1>1, LookedUp, SourcesAlone DEF InCube
<1>2. CASE NoProducer
  BY <1>0, <1>2, NobodyMakesIt, SourcesAlone DEF NoProducer
<1>3. CASE ProducerRaises
  BY <1>0, <1>3, Raised, SourcesAlone DEF ProducerRaises
<1>4. CASE Recheck
  BY <1>0, <1>4, Rechecked, SourcesAlone DEF Recheck
<1>5. CASE Resolved
  BY <1>0, <1>5, Resolving, SourcesAlone DEF Resolved
<1>6. CASE FetchNeed
  BY <1>0, <1>6, FetchedOne, SourcesAlone DEF FetchNeed
<1>7. CASE Fetched
  BY <1>0, <1>7, AllFetched, SourcesAlone DEF Fetched
<1>8. CASE \E days \in {WindowDays, WindowDays \ {LastDay}} : InvokeProducer(days)
  <2>1. PICK days \in {WindowDays, WindowDays \ {LastDay}} : InvokeProducer(days)
    BY <1>8
  <2>2. days \in SUBSET Nat
    BY <1>0, <2>1, WindowNat
  <2>3. UNCHANGED <<dataSetup, sourceVars>>
    BY <2>1 DEF InvokeProducer
  <2> QED
    BY <1>0, <2>1, <2>2, <2>3, Invoked, SourcesAlone
<1>9. CASE \E s \in Sources : AddSource(s)
  BY <1>0, <1>9, SourceAdded, NeedsAlone DEF AddSource
<1>10. CASE \E empty \in SUBSET Sources : FirstHit(empty)
  BY <1>0, <1>10, AskedFirst, NeedsAlone DEF FirstHit
<1>11. CASE UNCHANGED dataVars
  BY <1>0, <1>11, NeedsAlone, SourcesAlone DEF dataVars
<1> QED
  BY <1>1, <1>2, <1>3, <1>4, <1>5, <1>6, <1>7, <1>8, <1>9, <1>10, <1>11 DEF DataNext

LEMMA DataInvariant == DataSpec => []DataIInv
<1> QED
  BY DataInitially, DataStep, PTL DEF DataSpec

\* The type of the state of an adapter and its sources; a report has one entry per
\* need that is done with.
THEOREM DataType == DataSpec => []DataTypeOK
<1>1. DataIInv => DataTypeOK
  BY DEF DataIInv, DataTypes, DataTypeOK, Served, Needs
<1> QED
  BY <1>1, DataInvariant, PTL

\* A stored run of days without a gap that starts and ends outside the window
\* covers it.
LEMMA CoversWindow ==
    ASSUME NEW days \in SUBSET Nat, Gapless(days), NEW from \in Nat, NEW to \in Nat,
           NEW d \in days, d <= from, NEW e \in days, e >= to - 1
    PROVE  from .. to - 1 \subseteq days \cap (from .. to)
<1>1. d .. e \subseteq days
  BY DEF Gapless
<1>2. ASSUME NEW w \in from .. to - 1 PROVE w \in d .. e /\ w \in from .. to
  OBVIOUS
<1> QED
  BY <1>1, <1>2

-----------------------------------------------------------------------------
(* Arrays and rows *)

\* The needs that no other need's producer makes, and those of a resolve that no
\* producer was run for yet.
Alone(i) == \A j \in DOMAIN Needs \ {i} : Needs[i].name \notin dataSetup.makers[Needs[j].name]
Ahead(i) == dataPhase \in {"resolving", "rechecking"} /\ (i > need \/ (i = need /\ dataPhase = "resolving"))

\* What is in an array has its rows; and rows that are for none of its days were
\* there before.
CubeInv ==
    /\ \A v \in NeedVars : Registered(dataCube[v])
    /\ dataPhase # "refused" => \A i \in DOMAIN Needs : Alone(i) =>
          LET c == dataCube[Needs[i].name]
              old == dataSetup.cached[Needs[i].name]
          IN  RowDays(c) \ c.axis \subseteq RowDays(old) /\ (Ahead(i) => c = old)

LEMMA CubeInitially == DataInit => CubeInv
<1> SUFFICES ASSUME NEW s \in DataSetups, DataStart(s) PROVE CubeInv
  BY DEF DataInit
<1>1. dataCube = dataSetup.cached /\ dataSetup = s /\ \A v \in NeedVars : Registered(s.cached[v])
  BY SetupFacts DEF DataStart
<1> QED
  BY <1>1 DEF CubeInv

LEMMA RewrittenRows ==
    ASSUME dataSetup \in DataSetups, dataCube \in [NeedVars -> Contents], NEW v \in NeedVars, NEW days \in SUBSET Nat
    PROVE  /\ Registered(Rewritten(v, days))
           /\ RowDays(Rewritten(v, days)) \ Rewritten(v, days).axis \subseteq RowDays(dataCube[v])
<1>1. PICK c : c = Rewritten(v, days)
  OBVIOUS
<1>2. /\ c.kind \in {"static", "time"} /\ c.res = dataSetup.resolution
      /\ c.kind = "static" =>
           c.axis = {} /\ c.fixed = {dataSetup.resolution} /\ c.rows = dataCube[v].rows
      /\ c.kind = "time" =>
           /\ c.axis = days
           /\ c.rows = {r \in dataCube[v].rows : r[1] \notin days} \cup (days \X {dataSetup.resolution})
  BY <1>1, RewrittenFacts, SetupFacts
<1>3. Registered(c)
  BY <1>2 DEF Registered
<1>4. ASSUME NEW r \in c.rows, r[1] \notin c.axis PROVE r \in dataCube[v].rows
  <2>1. CASE c.kind = "static"
    BY <1>2, <2>1
  <2>2. CASE c.kind = "time"
    BY <1>2, <1>4, <2>2
  <2> QED
    BY <1>2, <2>1, <2>2
<1>5. RowDays(c) \ c.axis \subseteq RowDays(dataCube[v])
  BY <1>4 DEF RowDays
<1> QED
  BY <1>1, <1>3, <1>5

\* Steps that leave the cube alone, and look at no earlier need.
LEMMA CubeKept ==
    ASSUME CubeInv, UNCHANGED <<dataSetup, dataCube>>, dataPhase' # "refused" => dataPhase # "refused",
           \A i \in DOMAIN Needs : Ahead(i)' => Ahead(i)
    PROVE  CubeInv'
<1>1. Needs' = Needs /\ \A i : Alone(i)' <=> Alone(i)
  BY DEF Needs, Alone
<1> QED
  BY <1>1 DEF CubeInv

\* A producer writes for the need that is looked at.
LEMMA CubeWritten ==
    ASSUME DataTypes, CubeInv, dataPhase = "resolving", need <= Len(Needs), dataSetup' = dataSetup,
           NEW vs \in SUBSET dataSetup.makers[This.name], NEW days \in SUBSET Nat, dataCube' = Written(vs, days),
           \A i \in DOMAIN Needs : Ahead(i)' => Ahead(i) /\ i # need
    PROVE  CubeInv'
<1>0. /\ dataSetup \in DataSetups /\ dataCube \in [NeedVars -> Contents] /\ need \in 1 .. Len(Needs)
      /\ Len(Needs) \in Nat
  BY SetupFacts DEF DataTypes, Needs
<1>1. Needs' = Needs /\ \A i : Alone(i)' <=> Alone(i)
  BY DEF Needs, Alone
<1>2. /\ \A v \in NeedVars \ vs : dataCube'[v] = dataCube[v]
      /\ \A v \in NeedVars \cap vs : dataCube'[v] = Rewritten(v, days)
  BY <1>0, WrittenType
<1>3. \A v \in NeedVars : Registered(dataCube'[v])
  BY <1>0, <1>2, RewrittenRows DEF CubeInv
<1>4. ASSUME NEW i \in DOMAIN Needs, Alone(i)
      PROVE  LET c == dataCube'[Needs[i].name]
                 old == dataSetup.cached[Needs[i].name]
             IN  RowDays(c) \ c.axis \subseteq RowDays(old) /\ (Ahead(i)' => c = old)
  <2> DEFINE v == Needs[i].name
  <2>1. v \in NeedVars /\ DOMAIN Needs = 1 .. Len(Needs)
    BY <1>0, <1>4, NeedFacts, SetupFacts DEF Needs
  <2>2. /\ RowDays(dataCube[v]) \ dataCube[v].axis \subseteq RowDays(dataSetup.cached[v])
        /\ Ahead(i) => dataCube[v] = dataSetup.cached[v]
    BY <1>4 DEF CubeInv
  <2>3. CASE i # need
    <3>1. v \notin vs
      BY <1>0, <1>4, <2>1, <2>3 DEF Alone, This
    <3> QED
      BY <1>2, <2>1, <2>2, <3>1
  <2>4. CASE i = need
    <3>1. Ahead(i) /\ ~Ahead(i)'
      BY <2>4 DEF Ahead
    <3>2. dataCube[v] = dataSetup.cached[v]
      BY <2>2, <3>1
    <3>3. CASE v \in vs
      BY <1>0, <1>2, <2>1, <3>1, <3>2, <3>3, RewrittenRows
    <3>4. CASE v \notin vs
      BY <1>2, <2>1, <2>2, <3>1, <3>4
    <3> QED
      BY <3>3, <3>4
  <2> QED
    BY <2>3, <2>4
<1> QED
  BY <1>1, <1>3, <1>4 DEF CubeInv

\* After an answer the next need is looked at, or none.
LEMMA GivenUp ==
    ASSUME DataTypes, need <= Len(Needs), NEW error, GiveUp(error), NEW i \in DOMAIN Needs, Ahead(i)',
           dataPhase \in {"resolving", "rechecking"}
    PROVE  Ahead(i) /\ i # need
<1>0. dataSetup \in DataSetups /\ need \in 1 .. Len(Needs) + 1
  BY DEF DataTypes, Needs
<1>a. Needs \in Seq(NeedType)
  BY <1>0, SetupFacts DEF Needs
<1>1. need \in Nat /\ i \in Nat
  BY <1>0, <1>a
<1>2. dataPhase' = "raised" \/ (dataPhase' = "resolving" /\ need' = need + 1)
  BY DEF GiveUp, Record
<1> QED
  BY <1>1, <1>2 DEF Ahead

LEMMA CubeStep == DataTypes /\ CubeInv /\ [DataNext]_dataVars => CubeInv'
<1> SUFFICES ASSUME DataTypes, CubeInv, [DataNext]_dataVars PROVE CubeInv'
  OBVIOUS
<1>a. /\ dataSetup \in DataSetups /\ need \in 1 .. Len(Needs) + 1
      /\ dataPhase = "rechecking" => need <= Len(Needs)
  BY DEF DataTypes, Needs
<1>b. Needs \in Seq(NeedType)
  BY <1>a, SetupFacts DEF Needs
<1>0. /\ dataSetup \in DataSetups /\ need \in Nat /\ DOMAIN Needs \subseteq Nat /\ Len(Needs) \in Nat
      /\ dataPhase = "rechecking" => need <= Len(Needs)
  BY <1>a, <1>b
<1>1. CASE InCube
  <2>1. /\ dataPhase = "resolving" /\ dataPhase' = "resolving" /\ need' = need + 1
        /\ dataSetup' = dataSetup /\ dataCube' = dataCube
    BY <1>1 DEF InCube, Record
  <2> QED
    BY <1>0, <2>1, CubeKept DEF Ahead
<1>2. CASE NoProducer
  <2>1. /\ dataPhase = "resolving" /\ need <= Len(Needs) /\ GiveUp("no_producer")
        /\ dataSetup' = dataSetup /\ dataCube' = dataCube
    BY <1>2 DEF NoProducer
  <2> QED
    BY <2>1, CubeKept, GivenUp
<1>3. CASE ProducerRaises
  <2>1. PICK vs \in SUBSET dataSetup.makers[This.name] : dataCube' = Written(vs, WindowDays)
    BY <1>3 DEF ProducerRaises
  <2>2. /\ dataPhase = "resolving" /\ need <= Len(Needs) /\ GiveUp("producer_failed") /\ dataSetup' = dataSetup
    BY <1>3 DEF ProducerRaises
  <2>3. WindowDays \in SUBSET Nat
    BY <1>0, WindowNat
  <2>4. \A i \in DOMAIN Needs : Ahead(i)' => Ahead(i) /\ i # need
    BY <2>2, GivenUp
  <2> QED
    BY <2>1, <2>2, <2>3, <2>4, CubeWritten
<1>4. CASE Recheck
  <2>1. dataPhase = "rechecking" /\ dataSetup' = dataSetup /\ dataCube' = dataCube
    BY <1>4 DEF Recheck
  <2>2. CASE Met(This)
    <3>1. dataPhase' = "resolving" /\ need' = need + 1
      BY <1>4, <2>2 DEF Recheck, Record
    <3> QED
      BY <1>0, <2>1, <3>1, CubeKept DEF Ahead
  <2>3. CASE ~Met(This)
    <3>1. GiveUp("producer_ran_but_not_satisfied")
      BY <1>4, <2>3 DEF Recheck
    <3> QED
      BY <1>0, <2>1, <3>1, CubeKept, GivenUp
  <2> QED
    BY <2>2, <2>3
<1>5. CASE Resolved
  <2>1. dataPhase = "resolving" /\ dataPhase' = "resolved" /\ dataSetup' = dataSetup /\ dataCube' = dataCube
    BY <1>5 DEF Resolved
  <2> QED
    BY <2>1, CubeKept DEF Ahead
<1>6. CASE FetchNeed
  <2>1. /\ dataPhase = "resolved" /\ dataPhase' \in {"resolved", "fetch raised"}
        /\ dataSetup' = dataSetup /\ dataCube' = dataCube
    BY <1>6 DEF FetchNeed
  <2> QED
    BY <2>1, CubeKept DEF Ahead
<1>7. CASE Fetched
  <2>1. dataPhase = "resolved" /\ dataPhase' = "fetched" /\ dataSetup' = dataSetup /\ dataCube' = dataCube
    BY <1>7 DEF Fetched
  <2> QED
    BY <2>1, CubeKept DEF Ahead
<1>8. CASE \E days \in {WindowDays, WindowDays \ {LastDay}} : InvokeProducer(days)
  <2>1. PICK days \in {WindowDays, WindowDays \ {LastDay}} : InvokeProducer(days)
    BY <1>8
  <2>2. days \in SUBSET Nat
    BY <1>0, <2>1, WindowNat
  <2>3. /\ dataPhase = "resolving" /\ dataPhase' = "rechecking" /\ need <= Len(Needs) /\ need' = need
        /\ dataSetup' = dataSetup /\ dataCube' = Written(dataSetup.makers[This.name], days)
    BY <2>1 DEF InvokeProducer
  <2>4. \A i \in DOMAIN Needs : Ahead(i)' => Ahead(i) /\ i # need
    BY <1>0, <2>3 DEF Ahead
  <2> QED
    BY <2>2, <2>3, <2>4, CubeWritten
<1>9. CASE \/ \E s \in Sources : AddSource(s)
           \/ \E empty \in SUBSET Sources : FirstHit(empty)
           \/ UNCHANGED dataVars
  <2>1. /\ dataSetup' = dataSetup /\ dataCube' = dataCube /\ dataPhase' = dataPhase /\ need' = need
    BY <1>9 DEF AddSource, FirstHit, dataVars, resolveVars
  <2> QED
    BY <2>1, CubeKept DEF Ahead
<1> QED
  BY <1>1, <1>2, <1>3, <1>4, <1>5, <1>6, <1>7, <1>8, <1>9 DEF DataNext

LEMMA CubeInvariant == DataSpec => []CubeInv
<1>1. DataIInv => DataTypes
  BY DEF DataIInv
<1> QED
  BY <1>1, CubeInitially, CubeStep, DataInvariant, PTL DEF DataSpec

\* What a resolve reports is so when it returns, though producers ran in between;
\* what fetch returns serves the required needs, for the window as far as the array
\* has the days that have rows; rows it has no days for were there before, and an
\* asset comes from the best source.
THEOREM NeedsServed == DataSpec => []NeedsAreServed
<1> SUFFICES ASSUME DataIInv, CubeInv PROVE NeedsAreServed
  BY DataInvariant, CubeInvariant, PTL
<1>0. ResolveIInv /\ SourcesRanked
  BY DEF DataIInv, ResolveIInv
<1>1. /\ dataSetup \in DataSetups /\ dataCube \in [NeedVars -> Contents]
      /\ Len(Needs) \in Nat /\ report \in Seq(Reports) /\ fetched \in Seq(Cuts)
      /\ need \in 1 .. Len(Needs) + 1
  BY <1>0, ResolveTyped
<1>2. DOMAIN Needs = 1 .. Len(Needs)
  BY <1>1, SetupFacts DEF Needs
<1>3. ReportHolds
  <2> SUFFICES ASSUME dataPhase \in {"resolved", "fetched"}, MadeAlike, NEW i \in DOMAIN Needs,
                      report[i] \in {"cube", "producer"}
               PROVE  Met(Needs[i])
    BY DEF ReportHolds
  <2>1. Len(report) = Len(Needs)
    BY <1>0, ResolveTyped DEF Served
  <2>2. i \in DOMAIN report
    BY <1>1, <1>2, <2>1
  <2>3. Serves(Needs[i])
    BY <1>0, <2>2 DEF ResolveIInv, ReportsTrue, Done
  <2> QED
    BY <2>3, MeetsIs
<1>4. FetchServesNeeds
  <2> SUFFICES ASSUME MadeAlike PROVE FetchServesNeeds
    BY DEF FetchServesNeeds
  <2>1. ASSUME dataPhase = "fetched", NEW i \in DOMAIN Needs, Needs[i].required
        PROVE  LET c == dataCube[Needs[i].name] IN
               /\ fetched[i].kind = Needs[i].kind
               /\ Needs[i].kind = "time" /\ Gapless(c.axis) /\ RowDays(c) \subseteq c.axis =>
                    WindowDays \subseteq fetched[i].days
               /\ Needs[i].cap > 0 /\ (Needs[i].kind = "static" \/ fetched[i].days # {}) =>
                    fetched[i].res <= Needs[i].cap
    <3> DEFINE c == dataCube[Needs[i].name]  n == Needs[i]  window == dataSetup.request
    <3>1. n.name \in NeedVars /\ n.kind \in {"static", "time"} /\ n.cap \in Nat
      BY <1>1, <1>2, NeedFacts
    <3>2. c \in Contents /\ window.from \in Nat /\ window.to \in Nat /\ Registered(c)
      BY <1>1, <3>1, SetupFacts DEF CubeInv
    <3>3. c.axis \in SUBSET Nat /\ c.res \in Nat
      BY <3>2 DEF Contents
    <3>4. MeetsFor(c, n, window)
      BY <1>0, <2>1, RequiredIsServed DEF ServedIn, Served
    <3>5. fetched[i] = CutFor(c, n, window)
      <4>1. Len(fetched) = need - 1 /\ need = Len(Needs) + 1
        BY <1>0, <2>1 DEF ResolveIInv, DataTypes, Needs
      <4>2. i \in DOMAIN fetched
        BY <1>1, <1>2, <4>1
      <4> QED
        BY <1>0, <4>2 DEF ResolveIInv, FetchedAsStored
    <3> HIDE DEF c, n, window
    <3>6. HasRows(c)
      BY <3>1, <3>4 DEF MeetsFor, HasRows, RowDays
    <3>7. /\ fetched[i].kind = n.kind /\ fetched[i].res = c.res
          /\ n.kind = "time" => fetched[i].days = c.axis \cap (window.from .. window.to)
      BY <3>4, <3>5, <3>6 DEF CutFor, MeetsFor
    <3>8. ASSUME n.kind = "time", Gapless(c.axis), RowDays(c) \subseteq c.axis
          PROVE  WindowDays \subseteq fetched[i].days
      <4>1. PICK d \in RowDays(c) : d <= window.from /\ \E e \in RowDays(c) : e >= window.to - 1
        BY <3>4, <3>8 DEF MeetsFor
      <4>2. PICK e \in RowDays(c) : e >= window.to - 1
        BY <4>1
      <4>3. window.from .. window.to - 1 \subseteq c.axis \cap (window.from .. window.to)
        BY <3>2, <3>3, <3>8, <4>1, <4>2, CoversWindow
      <4>4. WindowDays = window.from .. window.to - 1
        BY DEF WindowDays, FirstDay, LastDay, window
      <4> QED
        BY <3>7, <3>8, <4>3, <4>4
    <3>9. ASSUME n.cap > 0, n.kind = "static" \/ fetched[i].days # {} PROVE c.res <= n.cap
      <4>1. /\ c.kind = n.kind /\ \A x \in c.fixed : x <= n.cap
            /\ \A r \in c.rows : r[2] <= n.cap
        BY <3>4, <3>9 DEF MeetsFor
      <4>2. CASE n.kind = "static"
        BY <3>2, <4>1, <4>2 DEF Registered
      <4>3. CASE n.kind = "time"
        <5>1. PICK d \in c.axis : TRUE
          BY <3>7, <3>9, <4>3
        <5>2. <<d, c.res>> \in c.rows
          BY <3>2, <4>1, <4>3, <5>1 DEF Registered
        <5> QED
          BY <4>1, <5>2
      <4> QED
        BY <3>1, <4>2, <4>3
    <3> QED
      BY <3>7, <3>8, <3>9 DEF c, n
  <2>2. dataPhase = "fetch raised" => \E i \in DOMAIN Needs :
          ~Needs[i].required /\ dataCube[Needs[i].name].kind # Needs[i].kind
    BY <1>0 DEF ResolveIInv, FetchedAsStored
  <2> QED
    BY <2>1, <2>2 DEF FetchServesNeeds
<1>5. StaleRowsAreOld
  BY DEF StaleRowsAreOld, CubeInv, Alone
<1>6. BestSource
  <2>1. asked.found = {} => BestSource
    BY DEF BestSource
  <2> QED
    BY <1>0, <2>1 DEF SourcesRanked
<1> QED
  BY <1>3, <1>4, <1>5, <1>6 DEF NeedsAreServed

-----------------------------------------------------------------------------
(* --- MCCascade --------------------------------------------------------------- *)

\* A behaviour of the parts side by side is a behaviour of each.
LEMMA ChainApart ==
    Spec => /\ WrfSpec /\ WpsSpec /\ BootSpec /\ PlanSpec
            /\ NestSpec /\ DataSpec /\ JobSpec /\ CascadeSpec
<1>s. ASSUME NEW S, S # {} PROVE (CHOOSE s \in S : TRUE) \in S
  BY <1>s
<1>1. Init => WrfInit
  <2>1. /\ (CHOOSE s \in WrfSetups : TRUE) \in WrfSetups
        /\ (CHOOSE t \in IgnitionTimes : TRUE) \in IgnitionTimes /\ (CHOOSE r \in Reaches : TRUE) \in Reaches
    BY <1>s, PartsAssumption DEF PartsAssumption
  <2> QED
    BY <2>1 DEF Init, WrfInit, WrfRests, InputsAre
<1>2. Init => WpsInit /\ BootInit /\ PlanInit /\ NestInit
  <2>1. /\ (CHOOSE s \in WpsSetups : TRUE) \in WpsSetups /\ (CHOOSE s \in BootSetups : TRUE) \in BootSetups
        /\ (CHOOSE s \in PlanSetups : TRUE) \in PlanSetups /\ (CHOOSE s \in Scenarios : TRUE) \in Scenarios
    BY <1>s, PartsAssumption DEF PartsAssumption
  <2> QED
    BY <2>1 DEF Init, WpsInit, BootInit, PlanInit, NestInit, WpsRests, BootRests, PlanRests, NestRests
<1>3. Init => DataInit /\ JobInit /\ CascadeInit
  <2>1. /\ (CHOOSE s \in DataSetups : TRUE) \in DataSetups /\ (CHOOSE s \in JobSetups : TRUE) \in JobSetups
        /\ (CHOOSE s \in CascadeSetups : TRUE) \in CascadeSetups
    BY <1>s, PartsAssumption DEF PartsAssumption
  <2> QED
    BY <2>1 DEF Init, DataInit, JobInit, CascadeInit, DataRests, JobRests, CascadeRests
<1>4. [Next]_vars => /\ [WrfNext]_wrfVars /\ [WpsNext]_wpsVars /\ [BootNext]_bootVars /\ [PlanNext]_planVars
                     /\ [NestNext]_nestVars /\ [DataNext]_dataVars /\ [JobNext]_jobVars
                     /\ [CascadeNext]_cascadeVars
  BY DEF Next, vars, parts
<1> QED
  BY <1>1, <1>2, <1>3, <1>4, PTL
     DEF Spec, WrfSpec, WpsSpec, BootSpec, PlanSpec, NestSpec, DataSpec, JobSpec, CascadeSpec

\* What is checked in one run, for any instances of the parts.
THEOREM ChainType == Spec => []ChainTypeOK
  BY ChainApart, WrfType, WpsType, BootType, PlanType, NestType, DataType, JobType, CascadeType, PTL
     DEF ChainTypeOK
=============================================================================
