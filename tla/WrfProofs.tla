----------------------------- MODULE WrfProofs ------------------------------
(***************************************************************************)
(* Proofs about the WRF-SFIRE adapter and what it stands on.               *)
(*                                                                         *)
(* Bootstrap, for any builds and whatever is skipped: the executables of   *)
(* WRF are of the configured build, and a call that returns leaves         *)
(* everything installed, though calls before it failed at any command.     *)
(*                                                                         *)
(* NestGeometry, for any extent, resolutions, mesh and period: nests lie   *)
(* inside their parents, centred, and tile with them; the period is that   *)
(* of WPS.                                                                 *)
(*                                                                         *)
(* WpsChain, for any windows, skipped steps and failures: when run() has   *)
(* returned, met_em/ is complete for its window, and has of other calls    *)
(* only what was there before.                                             *)
(*                                                                         *)
(* SlurmJob, for any polls and deadline: wait() returns the job's end.     *)
(*                                                                         *)
(* WrfRun, for any inputs, grid, reach of the fire and failures: what a    *)
(* step hands on is right for its ignition or is said to be missing.       *)
(***************************************************************************)
EXTENDS WrfRun, Bootstrap, NestGeometry, WpsChain, SlurmJob, FiniteSetTheorems, TLAPS

-----------------------------------------------------------------------------
(* --- Bootstrap ------------------------------------------------------------- *)

Copies == {"none", "part", "whole"}
Clones == {"wrf", "wps"}

BootTypes ==
    /\ bootSetup \in BootSetups
    /\ build \in Builds \cup {NoBuild} /\ configured \in Builds \cup {NoBuild}
    /\ objects \in Builds \cup {NoBuild} /\ exes \in [Exes -> Builds \cup {NoBuild}]
    /\ bootAt \in BootSteps /\ source \in [Clones -> Copies]
    /\ archive \in Copies /\ geog \in Copies
    /\ bootAt # "out" => build \in Builds

\* Nothing of an earlier build is left when ./configure runs, and the compiler
\* then finds only its own objects.
OneBuild ==
    /\ objects \in {NoBuild, configured}
    /\ \A e \in WrfExes : exes[e] \in {NoBuild, configured}
    /\ \A e \in WrfExes : exes[e] # NoBuild => objects # NoBuild
    /\ bootAt = "configure" => configured = NoBuild
    /\ bootAt \in {"em_fire", "em_real"} => configured # NoBuild

\* What a call has made by the step it is at, if no call dies half-way.
DoneSoFar ==
    /\ bootSetup.dies = {} => /\ archive # "part" /\ geog # "part"
                              /\ \A c \in Clones : source[c] # "part"
    /\ bootAt = "em_real" => Built({"wrf.exe", "ideal.exe"})
    /\ bootAt \in {"wps", "compileWps", "geog", "extract", "returned"} /\ "wrf" \notin bootSetup.skip
         => Built(WrfExes)
    /\ bootAt \in {"geog", "extract", "returned"} /\ "wps" \notin bootSetup.skip => Built({"wps"})
    /\ bootAt = "extract" => "geog" \notin bootSetup.skip
    /\ bootSetup.dies = {} /\ bootAt = "returned" /\ "geog" \notin bootSetup.skip => geog = "whole"

BootIInv == BootTypes /\ OneBuild /\ DoneSoFar

LEMMA BootInitially == BootInit => BootIInv
<1> SUFFICES ASSUME NEW s \in BootSetups, BootStart(s) PROVE BootIInv
  BY DEF BootInit
<1>1. BootTypes
  BY DEF BootStart, BootTypes, BootSteps, Copies, Clones
<1>2. OneBuild
  BY DEF BootStart, OneBuild, WrfExes, Exes
<1>3. DoneSoFar
  BY DEF BootStart, DoneSoFar, Clones
<1> QED
  BY <1>1, <1>2, <1>3 DEF BootIInv

\* Steps that only move the call on, or end it.
LEMMA OnlyMoves ==
    ASSUME BootIInv, NEW step \in BootSteps, To(step), UNCHANGED <<bootTree, geogFiles>>,
           bootAt # "out", step \notin {"configure", "em_fire", "em_real", "extract"},
           step = "wps" => "wrf" \in bootSetup.skip \/ Built(WrfExes),
           step = "compileWps" => bootAt = "wps",
           step = "geog" => bootAt = "wps" /\ ("wps" \in bootSetup.skip \/ Built({"wps"})),
           step = "returned" => bootAt = "geog" /\ ("geog" \in bootSetup.skip \/ geog # "none")
    PROVE  BootIInv'
<1>1. BootTypes'
  BY DEF BootIInv, BootTypes, To, bootTree, geogFiles
<1>2. OneBuild'
  BY DEF BootIInv, OneBuild, To, bootTree, geogFiles
<1>3. DoneSoFar'
  BY DEF BootIInv, BootTypes, DoneSoFar, Built, To, bootTree, geogFiles, Copies, BootSteps
<1> QED
  BY <1>1, <1>2, <1>3 DEF BootIInv

LEMMA BootInductive == BootIInv /\ [BootNext]_bootVars => BootIInv'
<1> SUFFICES ASSUME BootIInv, [BootNext]_bootVars PROVE BootIInv'
  OBVIOUS
<1> USE DEF BootIInv
<1>1. CASE UNCHANGED bootVars
  BY <1>1 DEF BootTypes, OneBuild, DoneSoFar, Built, bootVars
<1>2. ASSUME NEW b \in Builds, BootCall(b) PROVE BootIInv'
  <2>1. BootTypes'
    BY <1>2 DEF BootCall, BootTypes, bootTree, geogFiles, BootSteps
  <2>2. OneBuild' /\ DoneSoFar'
    BY <1>2 DEF BootCall, OneBuild, DoneSoFar, Built, bootTree, geogFiles
  <2> QED
    BY <2>1, <2>2
<1>3. ASSUME NEW c \in Clones, Clone(c) PROVE BootIInv'
  <2>1. BootTypes'
    BY <1>3 DEF Clone, BootTypes, geogFiles, Copies, Clones
  <2>2. OneBuild'
    BY <1>3 DEF Clone, OneBuild
  <2>3. DoneSoFar'
    BY <1>3 DEF Clone, BootTypes, DoneSoFar, Built, geogFiles
  <2> QED
    BY <2>1, <2>2, <2>3
<1>4. CASE SkipWrf
  BY <1>4, OnlyMoves DEF SkipWrf, Needed, BootSteps
<1>5. CASE MakeWrf
  BY <1>5, OnlyMoves DEF MakeWrf, BootSteps
<1>6. CASE Clean
  <2>1. BootTypes'
    BY <1>6 DEF Clean, To, BootTypes, bootTree, geogFiles, BootSteps
  <2>2. OneBuild'
    BY <1>6 DEF Clean, To, BootTypes, OneBuild, bootTree, WrfExes, Exes
  <2>3. DoneSoFar'
    BY <1>6 DEF Clean, To, DoneSoFar, Built, bootTree, geogFiles
  <2> QED
    BY <2>1, <2>2, <2>3
<1>7. CASE Configure
  <2>1. BootTypes'
    BY <1>7 DEF Configure, To, BootTypes, geogFiles, BootSteps
  <2>2. OneBuild'
    BY <1>7, BootAssumption DEF Configure, To, BootTypes, OneBuild, WrfExes, Exes
  <2>3. DoneSoFar'
    BY <1>7 DEF Configure, To, DoneSoFar, Built, geogFiles
  <2> QED
    BY <2>1, <2>2, <2>3
<1>8. ASSUME NEW case \in {"em_fire", "em_real"}, Compile(case) PROVE BootIInv'
  <2>0. ObjectsOf = configured /\ configured # NoBuild /\ objects' = configured
    BY <1>8 DEF Compile, OneBuild, ObjectsOf
  <2>1. BootTypes'
    BY <1>8, <2>0 DEF Compile, To, BootTypes, geogFiles, BootSteps
  <2>2. OneBuild'
    BY <1>8, <2>0 DEF Compile, To, BootTypes, OneBuild, WrfExes, Exes
  <2>3. \A e \in Exes : exes'[e] = IF e \in CompileMakes(case) THEN configured ELSE exes[e]
    BY <1>8, <2>0 DEF Compile
  <2>4. bootSetup' = bootSetup /\ source' = source /\ archive' = archive /\ geog' = geog
    BY <1>8 DEF Compile, To, geogFiles
  <2>5. CASE case = "em_fire"
    <3>1. bootAt' = "em_real"
      BY <1>8, <2>5 DEF Compile, To
    <3>2. exes'["wrf.exe"] # NoBuild /\ exes'["ideal.exe"] # NoBuild
      BY <2>0, <2>3, <2>5 DEF CompileMakes, WrfExes, Exes
    <3> QED
      BY <2>1, <2>2, <2>4, <3>1, <3>2 DEF DoneSoFar, Built
  <2>6. CASE case = "em_real"
    <3>1. bootAt' = "wps" /\ bootAt = "em_real"
      BY <1>8, <2>6 DEF Compile, To
    <3>2. exes'["wrf.exe"] # NoBuild /\ exes'["real.exe"] # NoBuild /\ exes'["ideal.exe"] = exes["ideal.exe"]
      BY <2>0, <2>3, <2>6 DEF CompileMakes, WrfExes, Exes
    <3>3. Built(WrfExes)'
      BY <3>1, <3>2 DEF DoneSoFar, Built, WrfExes
    <3> QED
      BY <2>1, <2>2, <2>4, <3>1, <3>3 DEF DoneSoFar
  <2> QED
    BY <2>5, <2>6
<1>9. CASE SkipWps
  BY <1>9, OnlyMoves DEF SkipWps, BootSteps
<1>10. CASE MakeWps
  BY <1>10, OnlyMoves DEF MakeWps, BootSteps
<1>11. CASE CompileWps
  <2>0. \A e \in WrfExes : exes'[e] = exes[e]
    BY <1>11 DEF CompileWps, BootTypes, WrfExes, Exes
  <2>1. BootTypes'
    BY <1>11 DEF CompileWps, To, BootTypes, geogFiles, BootSteps
  <2>2. OneBuild'
    BY <1>11, <2>0 DEF CompileWps, To, OneBuild
  <2>3. DoneSoFar'
    BY <1>11, <2>0, BootAssumption DEF CompileWps, To, BootTypes, DoneSoFar, Built, geogFiles, Exes
  <2> QED
    BY <2>1, <2>2, <2>3
<1>12. CASE SkipGeog
  BY <1>12, OnlyMoves DEF SkipGeog, BootSteps
<1>13. CASE DownloadGeog
  <2>1. BootTypes'
    BY <1>13 DEF DownloadGeog, To, BootTypes, bootTree, BootSteps, Copies
  <2>2. OneBuild'
    BY <1>13 DEF DownloadGeog, To, OneBuild, bootTree
  <2>3. DoneSoFar'
    BY <1>13 DEF DownloadGeog, To, DoneSoFar, Built, bootTree
  <2> QED
    BY <2>1, <2>2, <2>3
<1>14. CASE Extract
  <2>1. BootTypes'
    BY <1>14 DEF Extract, To, BootTypes, bootTree, BootSteps, Copies
  <2>2. OneBuild'
    BY <1>14 DEF Extract, To, OneBuild, bootTree
  <2>3. DoneSoFar'
    BY <1>14 DEF Extract, To, DoneSoFar, Built, bootTree
  <2> QED
    BY <2>1, <2>2, <2>3
<1>15. CASE CompileFails
  <2>0. ObjectsOf = configured /\ configured # NoBuild /\ objects' = configured
    BY <1>15 DEF CompileFails, OneBuild, ObjectsOf
  <2>1. BootTypes'
    BY <1>15, <2>0 DEF CompileFails, To, BootTypes, geogFiles, BootSteps
  <2>2. OneBuild'
    BY <1>15, <2>0 DEF CompileFails, To, BootTypes, OneBuild, WrfExes, Exes
  <2>3. DoneSoFar'
    BY <1>15 DEF CompileFails, To, DoneSoFar, geogFiles
  <2> QED
    BY <2>1, <2>2, <2>3
<1>16. CASE CommandFails
  BY <1>16, OnlyMoves DEF CommandFails, BootSteps
<1>17. CASE BootDies
  <2>0. bootSetup' = bootSetup /\ build' = build /\ bootAt' = "out" /\ bootSetup.dies # {}
    BY <1>17 DEF BootDies, DiesAt, To, DoneSoFar
  <2>1. configured' = configured /\ objects' = objects /\ exes' = exes
    BY <1>17 DEF BootDies, DiesAt, To, bootTree
  <2>2. archive' \in Copies /\ geog' \in Copies /\ source' \in [Clones -> Copies]
    BY <1>17 DEF BootDies, DiesAt, bootTree, geogFiles, BootTypes, Copies, Clones
  <2> QED
    BY <2>0, <2>1, <2>2 DEF BootTypes, OneBuild, DoneSoFar, BootSteps
<1> QED
  BY <1>1, <1>2, <1>3, <1>4, <1>5, <1>6, <1>7, <1>8, <1>9, <1>10, <1>11, <1>12, <1>13, <1>14, <1>15,
     <1>16, <1>17 DEF BootNext, Clones

LEMMA BootInvariant == BootSpec => []BootIInv
  BY BootInitially, BootInductive, PTL DEF BootSpec

\* bootstrap_wrf_sfire_stack keeps to its steps and its files.
THEOREM BootType == BootSpec => []BootTypeOK
<1>1. BootIInv => BootTypeOK
  BY DEF BootIInv, BootTypes, OneBuild, BootTypeOK, Copies, Clones
<1> QED
  BY <1>1, BootInvariant, PTL

\* A call that returns has installed what it was asked for, for any builds and
\* whatever calls before it failed; if none of them was killed while it cloned,
\* downloaded or extracted.
THEOREM BootInstalls == BootSpec => []ReturnedIsInstalled
<1>1. BootIInv => ReturnedIsInstalled
  BY DEF BootIInv, DoneSoFar, ReturnedIsInstalled
<1> QED
  BY <1>1, BootInvariant, PTL

\* ./clean -a before ./configure (wrf_sfire_bootstrap.py:250) is what keeps the
\* executables to one build.
THEOREM BootOneBuild == BootSpec => []ExesMatchConfiguration
<1>1. BootIInv => ExesMatchConfiguration
  BY DEF BootIInv, OneBuild, ExesMatchConfiguration
<1> QED
  BY <1>1, BootInvariant, PTL

\* The installation is whole and of one build, for any sequence of calls.
THEOREM InstallSound == BootSpec => []InstallIsSound
  BY BootInstalls, BootOneBuild, PTL DEF InstallIsSound

-----------------------------------------------------------------------------
(* --- NestGeometry ---------------------------------------------------------- *)

Domain == [dx : Positive, parent : Positive, ratio : Positive, start : Positive, nx : Nat, sr : Nat]
Nested == scenario.fraction <= 100

\* A nest p, made of whole cells of its parent q.
Fits(p, q) == \E cells \in Nat :
    /\ p.nx = cells * p.ratio /\ p.ratio >= 2 /\ p.ratio * p.dx = q.dx
    /\ Nested => cells <= q.nx /\ p.start = StartOf(q.nx, cells)

NestIInv ==
    /\ scenario \in Scenarios
    /\ nestAt \in {"solve", "render", "done", "raised"}
    /\ domains \in Seq(Domain) /\ Len(domains) <= Len(Resolutions)
    /\ \A i \in DOMAIN domains : domains[i].nx >= 4
    /\ \A i \in DOMAIN domains : i > 1 => Fits(domains[i], domains[i - 1])
    /\ nestAt \in {"render", "done"} => domains # <<>> /\ Len(domains) = Len(Resolutions)
    /\ nestAt = "done" => Len(namelists) = 1 /\ RunMatchesPeriod

-----------------------------------------------------------------------------
(* --- arithmetic ---------------------------------------------------------- *)

\* A multiple of r is that many times r, without a rest.
LEMMA Multiple ==
    ASSUME NEW c \in Nat, NEW r \in Positive
    PROVE  (c * r) \div r = c /\ (c * r) % r = 0
  BY DEF Positive

LEMMA RoundedNat ==
    ASSUME NEW n \in Nat, NEW d \in Positive
    PROVE  Rounded(n, d) \in Nat
<1>1. n \div d \in Nat
  BY DEF Positive
<1> QED
  BY <1>1 DEF Rounded

\* Rounding to even does not go past a whole bound.
LEMMA RoundedAtMost ==
    ASSUME NEW n \in Nat, NEW k \in Nat, n <= 100 * k
    PROVE  Rounded(n, 100) <= k
  BY DEF Rounded

\* From a whole hour s, days and hours add up to the last whole hour.
LEMMA WholeHours ==
    ASSUME NEW s \in Nat, NEW d \in Nat, s % 60 = 0
    PROVE  /\ (s \div 60) * 60 = s
           /\ s + (d \div 1440) * 1440 + ((d % 1440) \div 60) * 60 = ((s + d) \div 60) * 60
           /\ ((s + d) \div 60) * 60 <= s + d /\ s + d < ((s + d) \div 60) * 60 + 60
<1>1. (s \div 60) * 60 = s
  OBVIOUS
<1>2. s + (d \div 1440) * 1440 + ((d % 1440) \div 60) * 60 = ((s + d) \div 60) * 60
  OBVIOUS
<1>3. ((s + d) \div 60) * 60 <= s + d /\ s + d < ((s + d) \div 60) * 60 + 60
  OBVIOUS
<1> QED
  BY <1>1, <1>2, <1>3

\* cells of a parent of nx, in the middle of it.
LEMMA Centred ==
    ASSUME NEW nx \in Nat, NEW cells \in Nat, cells <= nx
    PROVE  LET west == StartOf(nx, cells) - 1
               east == nx - west - cells
           IN  west \in Nat /\ east \in Nat /\ east - west \in {0, 1}
  BY DEF StartOf, AtLeast

\* A nest has at least 4 of its parent's cells, and with a fraction of at most 1
\* no more than there are.
LEMMA CellsFit ==
    ASSUME NEW nx \in Nat, scenario.fraction \in Nat
    PROVE  /\ CellsOf(nx) \in Nat /\ CellsOf(nx) >= 4
           /\ nx >= 4 /\ Nested => CellsOf(nx) <= nx
<1>1. scenario.fraction * nx \in Nat
  OBVIOUS
<1>2. Rounded(scenario.fraction * nx, 100) \in Nat
  BY <1>1, RoundedNat DEF Positive
<1>3. Nested => Rounded(scenario.fraction * nx, 100) <= nx
  <2> SUFFICES ASSUME Nested PROVE Rounded(scenario.fraction * nx, 100) <= nx
    OBVIOUS
  <2>1. scenario.fraction * nx <= 100 * nx
    BY DEF Nested
  <2> QED
    BY <1>1, <2>1, RoundedAtMost
<1> QED
  BY <1>2, <1>3 DEF CellsOf, AtLeast

\* What the assumption says of a scenario.
LEMMA ScenarioType ==
    ASSUME scenario \in Scenarios
    PROVE  /\ scenario.extent \in Nat /\ scenario.fraction \in Nat /\ scenario.mesh \in Nat
           /\ scenario.start \in Nat /\ scenario.duration \in Nat
           /\ Resolutions \in Seq(Positive) /\ Len(Resolutions) >= 1
<1>1. /\ scenario.resolutions \in Seq(Positive) /\ scenario.km \in Positive
      /\ scenario.extent \in Nat /\ scenario.fraction \in Nat /\ scenario.mesh \in Nat
      /\ scenario.start \in Nat /\ scenario.duration \in Nat
  BY ScenarioAssumption
<1>2. 3 * scenario.km \in Positive
  BY <1>1 DEF Positive
<1>3. CASE scenario.resolutions = <<>>
  BY <1>1, <1>2, <1>3 DEF Resolutions
<1>4. CASE scenario.resolutions # <<>>
  BY <1>1, <1>4 DEF Resolutions
<1> QED
  BY <1>1, <1>3, <1>4

-----------------------------------------------------------------------------
LEMMA NestInitially == NestInit => NestIInv
<1> SUFFICES ASSUME NEW s \in Scenarios, NestStart(s) PROVE NestIInv
  BY DEF NestInit
<1>1. scenario \in Scenarios /\ nestAt = "solve" /\ domains = <<>>
  BY DEF NestStart
<1>2. Len(Resolutions) >= 1 /\ Resolutions \in Seq(Positive)
  BY <1>1, ScenarioType
<1> QED
  BY <1>1, <1>2 DEF NestIInv

LEMMA NestInductive == NestIInv /\ [NestNext]_nestVars => NestIInv'
<1> SUFFICES ASSUME NestIInv, [NestNext]_nestVars PROVE NestIInv'
  OBVIOUS
<1>t. /\ scenario \in Scenarios /\ domains \in Seq(Domain) /\ Len(domains) <= Len(Resolutions)
      /\ scenario.extent \in Nat /\ scenario.fraction \in Nat /\ scenario.mesh \in Nat
      /\ scenario.start \in Nat /\ scenario.duration \in Nat
      /\ Resolutions \in Seq(Positive) /\ Len(Resolutions) >= 1
      /\ \A i \in DOMAIN domains : domains[i].nx >= 4
      /\ \A i \in DOMAIN domains : i > 1 => Fits(domains[i], domains[i - 1])
  BY ScenarioType DEF NestIInv
<1>u. scenario' = scenario => Resolutions' = Resolutions /\ (Nested' <=> Nested)
  BY DEF Resolutions, Nested
<1>1. CASE UNCHANGED nestVars
  BY <1>1, <1>u DEF NestIInv, nestVars, Fits, RunMatchesPeriod
<1>2. CASE Coarsest
  <2> DEFINE dx == Resolutions[1]
             nx == AtLeast(20, Rounded(scenario.extent, dx))
             d == [dx |-> dx, parent |-> 1, ratio |-> 1, start |-> 1, sr |-> 0, nx |-> nx]
  <2>1. nestAt' = "solve" /\ scenario' = scenario /\ domains' = <<d>>
    BY <1>2 DEF Coarsest
  <2>2. dx \in Positive
    BY <1>t
  <2>r. Rounded(scenario.extent, dx) \in Nat
    BY <1>t, <2>2, RoundedNat
  <2>3. nx \in Nat /\ nx >= 4
    BY <2>r DEF AtLeast
  <2>4. d \in Domain
    BY <2>2, <2>3 DEF Domain, Positive
  <2> HIDE DEF d
  <2>5. /\ domains' \in Seq(Domain) /\ Len(domains') = 1 /\ DOMAIN domains' = {1} /\ domains'[1] = d
    BY <2>1, <2>4
  <2>6. d.nx >= 4
    BY <2>3 DEF d
  <2> QED
    BY <1>t, <1>u, <2>1, <2>5, <2>6 DEF NestIInv
<1>3. CASE Nest
  <2> DEFINE q == domains[Len(domains)]
             dx == Resolutions[Len(domains) + 1]
             ratio == Rounded(q.dx, dx)
             cells == CellsOf(q.nx)
             d == [dx |-> dx, parent |-> Len(domains), ratio |-> ratio, sr |-> 0,
                   start |-> StartOf(q.nx, cells), nx |-> cells * ratio]
  <2>1. /\ nestAt' = "solve" /\ scenario' = scenario /\ domains' = Append(domains, d)
        /\ Len(domains) \in 1 .. (Len(Resolutions) - 1)
        /\ ratio >= 2 /\ ratio * dx = q.dx
    BY <1>3 DEF Nest, Level, Parent, Refines
  <2>i. Len(domains) \in DOMAIN domains /\ Len(domains) + 1 \in DOMAIN Resolutions
    BY <1>t, <2>1
  <2>q. q \in Domain /\ q.nx >= 4 /\ dx \in Positive
    BY <1>t, <2>i
  <2>2. dx \in Positive /\ q \in Domain /\ q.nx >= 4 /\ q.nx \in Nat /\ q.dx \in Positive
    BY <2>q DEF Domain
  <2>3. ratio \in Nat /\ ratio \in Positive
    <3>1. q.dx \in Nat
      BY <2>2 DEF Positive
    <3>2. Rounded(q.dx, dx) \in Nat
      BY <2>2, <3>1, RoundedNat
    <3> HIDE DEF q, dx
    <3> QED
      BY <2>1, <3>2 DEF Positive
  <2>4. cells \in Nat /\ cells >= 4 /\ (Nested => cells <= q.nx)
    BY <1>t, <2>2, CellsFit
  <2>5. StartOf(q.nx, cells) \in Positive
    BY <2>2, <2>4 DEF StartOf, AtLeast, Positive
  <2> HIDE DEF cells, ratio, dx
  <2>6. cells * ratio \in Nat /\ cells * ratio >= 4
    BY <2>1, <2>3, <2>4
  <2>7. d \in Domain /\ d.nx >= 4
    BY <2>1, <2>2, <2>3, <2>5, <2>6 DEF Domain, Positive
  <2>8. Fits(d, q)
    BY <2>1, <2>4 DEF Fits
  <2> HIDE DEF d, q
  <2>9. /\ domains' \in Seq(Domain) /\ Len(domains') = Len(domains) + 1
        /\ domains'[Len(domains) + 1] = d /\ \A i \in DOMAIN domains : domains'[i] = domains[i]
        /\ DOMAIN domains' = 1 .. (Len(domains) + 1) /\ DOMAIN domains = 1 .. Len(domains)
        /\ domains'[Len(domains)] = q
    BY <1>t, <2>1, <2>7 DEF q
  <2>10. \A i \in DOMAIN domains' : i > 1 => Fits(domains'[i], domains'[i - 1])
    BY <1>t, <2>8, <2>9
  <2>11. \A i \in DOMAIN domains' : domains'[i].nx >= 4
    BY <1>t, <2>7, <2>9
  <2>12. \A p, r : Fits(p, r)' <=> Fits(p, r)
    BY <1>u, <2>1 DEF Fits
  <2>13. Len(domains') <= Len(Resolutions)
    BY <1>t, <2>1, <2>9
  <2> QED
    BY <1>t, <1>u, <2>1, <2>9, <2>10, <2>11, <2>12, <2>13 DEF NestIInv
<1>4. CASE NotARefinement
  BY <1>4, <1>u DEF NotARefinement, NestIInv, Fits
<1>5. CASE Solved
  <2>1. /\ nestAt' = "render" /\ scenario' = scenario /\ domains # <<>> /\ Len(domains) = Len(Resolutions)
        /\ domains' = [domains EXCEPT ![Len(domains)].sr = scenario.mesh]
    BY <1>5 DEF Solved, Level
  <2>2. Len(domains) \in DOMAIN domains
    BY <1>t, <2>1
  <2>3. domains[Len(domains)] \in Domain
    BY <1>t, <2>2
  <2>4. [domains[Len(domains)] EXCEPT !.sr = scenario.mesh] \in Domain
    BY <1>t, <2>3 DEF Domain
  <2>5. domains' \in Seq(Domain) /\ Len(domains') = Len(domains) /\ DOMAIN domains' = DOMAIN domains
    BY <1>t, <2>1, <2>2, <2>4
  <2>6. \A i \in DOMAIN domains : /\ domains'[i].nx = domains[i].nx /\ domains'[i].dx = domains[i].dx
                                  /\ domains'[i].ratio = domains[i].ratio
                                  /\ domains'[i].start = domains[i].start
    <3> TAKE i \in DOMAIN domains
    <3>1. domains[i] \in Domain
      BY <1>t
    <3>2. CASE i = Len(domains)
      <4>1. domains'[i] = [domains[i] EXCEPT !.sr = scenario.mesh]
        BY <1>t, <2>1, <2>2, <3>2
      <4> QED
        BY <3>1, <4>1 DEF Domain
    <3>3. CASE i # Len(domains)
      BY <1>t, <2>1, <3>3
    <3> QED
      BY <3>2, <3>3
  <2>7. ASSUME NEW i \in DOMAIN domains', i > 1 PROVE Fits(domains'[i], domains'[i - 1])
    <3>1. i \in DOMAIN domains /\ i - 1 \in DOMAIN domains /\ Fits(domains[i], domains[i - 1])
      BY <1>t, <2>5, <2>7
    <3> QED
      BY <2>6, <3>1 DEF Fits
  <2>10. \A p, r : Fits(p, r)' <=> Fits(p, r)
    BY <1>u, <2>1 DEF Fits
  <2>8. \A i \in DOMAIN domains' : domains'[i].nx >= 4
    BY <1>t, <2>5, <2>6
  <2>9. domains' # <<>>
    BY <1>t, <2>1, <2>5
  <2> QED
    BY <1>t, <1>u, <2>1, <2>5, <2>7, <2>8, <2>9, <2>10 DEF NestIInv
<1>6. CASE Render
  <2>1. nestAt = "render" /\ nestAt' = "done" /\ scenario' = scenario /\ domains' = domains
    BY <1>6 DEF Render
  <2>2. Len(namelists') = 1
    BY <1>6 DEF Render
  <2>3. RunMatchesPeriod'
    <3> SUFFICES ASSUME scenario.start % 60 = 0 PROVE RunMatchesPeriod'
      BY <2>1 DEF RunMatchesPeriod, HourMinutes
    <3> DEFINE s == scenario.start
               d == scenario.duration
               n == namelists'[1]
    <3>0. s \in Nat /\ d \in Nat /\ s % 60 = 0
      BY <1>t
    <3>1. /\ n.days = d \div 1440 /\ n.hours = (d % 1440) \div 60
          /\ n.start = (s \div 60) * 60 /\ n.end = ((s + d) \div 60) * 60
          /\ n.from = s /\ n.to = s + d
      BY <1>6 DEF Render, RunHours, HourMinutes, DayMinutes
    <3>2. /\ (s \div 60) * 60 = s
          /\ s + (d \div 1440) * 1440 + ((d % 1440) \div 60) * 60 = ((s + d) \div 60) * 60
          /\ ((s + d) \div 60) * 60 <= s + d /\ s + d < ((s + d) \div 60) * 60 + 60
      <4> HIDE DEF s, d
      <4> QED
        BY <3>0, WholeHours
    <3> QED
      BY <3>1, <3>2 DEF RunMatchesPeriod, HourMinutes, DayMinutes
  <2> QED
    BY <1>u, <2>1, <2>2, <2>3 DEF NestIInv, Fits
<1> QED
  BY <1>1, <1>2, <1>3, <1>4, <1>5, <1>6 DEF NestNext

LEMMA NestInvariant == NestSpec => []NestIInv
  BY NestInitially, NestInductive, PTL DEF NestSpec

-----------------------------------------------------------------------------
\* The parts of the invariant for one nest.
LEMMA NestParts ==
    ASSUME NestIInv, NEW i \in DOMAIN domains, i > 1
    PROVE  /\ ParentCells(i) \in Nat /\ domains[i].nx = ParentCells(i) * domains[i].ratio
           /\ domains[i].nx % domains[i].ratio = 0
           /\ domains[i].ratio \in Nat /\ domains[i].ratio >= 2
           /\ domains[i].dx \in Nat /\ domains[i].ratio * domains[i].dx = domains[i - 1].dx
           /\ domains[i - 1].nx \in Nat
           /\ Nested => /\ ParentCells(i) <= domains[i - 1].nx
                        /\ domains[i].start = StartOf(domains[i - 1].nx, ParentCells(i))
<1>1. /\ domains[i] \in Domain /\ i - 1 \in DOMAIN domains /\ domains[i - 1] \in Domain
      /\ Fits(domains[i], domains[i - 1])
  BY DEF NestIInv
<1>2. PICK cells \in Nat :
        /\ domains[i].nx = cells * domains[i].ratio /\ domains[i].ratio >= 2
        /\ domains[i].ratio * domains[i].dx = domains[i - 1].dx
        /\ Nested => cells <= domains[i - 1].nx /\ domains[i].start = StartOf(domains[i - 1].nx, cells)
  BY <1>1 DEF Fits
<1>3. domains[i].ratio \in Positive /\ domains[i].dx \in Positive /\ domains[i - 1].nx \in Nat
  BY <1>1 DEF Domain
<1>4. ParentCells(i) = cells /\ domains[i].nx % domains[i].ratio = 0
  BY <1>2, <1>3, Multiple DEF ParentCells
<1> QED
  BY <1>2, <1>3, <1>4 DEF Positive

\* _build_centered_nests makes as many domains as there are resolutions.
THEOREM NestType == NestSpec => []NestTypeOK
<1>1. NestIInv => NestTypeOK
  BY DEF NestIInv, NestTypeOK, Domain
<1> QED
  BY <1>1, NestInvariant, PTL

\* With a nest fraction of at most 1, wrf_config.py:218-236 puts every nest inside
\* its parent: for any extent and any resolutions that refine one another.
THEOREM NestsInside == NestSpec => []NestsInsideParents
<1>1. ASSUME NestIInv PROVE NestsInsideParents
  <2> SUFFICES ASSUME Nested, NEW i \in DOMAIN domains, i > 1
               PROVE  /\ domains[i].nx % domains[i].ratio = 0
                      /\ domains[i].start + ParentCells(i) - 1 <= domains[i - 1].nx
    BY DEF NestsInsideParents, Nested
  <2> QED
    BY <1>1, NestParts, Centred DEF StartOf, AtLeast
<1> QED
  BY <1>1, NestInvariant, PTL

\* and in its middle, to a cell.
THEOREM NestsInMiddle == NestSpec => []NestsCentred
<1>1. ASSUME NestIInv PROVE NestsCentred
  <2> SUFFICES ASSUME Nested, NEW i \in DOMAIN domains, i > 1
               PROVE  domains[i - 1].nx - (domains[i].start - 1) - ParentCells(i) - (domains[i].start - 1)
                        \in {0, 1}
    BY DEF NestsCentred, Nested
  <2> QED
    BY <1>1, NestParts, Centred
<1> QED
  BY <1>1, NestInvariant, PTL

\* Lengths agree through the whole stack of domains.
THEOREM NestsTile == NestSpec => []CellsNestExactly
<1>1. ASSUME NestIInv PROVE CellsNestExactly
  <2> SUFFICES ASSUME NEW i \in DOMAIN domains, i > 1
               PROVE  /\ domains[i].ratio >= 2
                      /\ domains[i].nx * domains[i].dx = ParentCells(i) * domains[i - 1].dx
    BY DEF CellsNestExactly
  <2>1. \A c, r, x \in Nat : (c * r) * x = c * (r * x)
    OBVIOUS
  <2> QED
    BY <1>1, <2>1, NestParts
<1> QED
  BY <1>1, NestInvariant, PTL

\* WRF runs for the period WPS prepares, when it starts on the hour.
THEOREM RunIsPrepared == NestSpec => []RunMatchesPeriod
<1>1. NestIInv => RunMatchesPeriod
  BY DEF NestIInv, RunMatchesPeriod
<1> QED
  BY <1>1, NestInvariant, PTL

\* The domains and their period, for every scenario.
THEOREM NestsSound == NestSpec => []NestsAreSound
  BY NestsInside, NestsInMiddle, NestsTile, RunIsPrepared, PTL DEF NestsAreSound

-----------------------------------------------------------------------------
(* --- WpsChain -------------------------------------------------------------- *)

Requests == [window : Windows, place : Places, skip : BOOLEAN]
GribHours == 0 .. 8 * MonthDays - 1

WpsTypes ==
    /\ wpsSetup \in WpsSetups /\ wpsAt \in {0, 1, 2, 3, 4, 5, 6, 7, 8, 9}
    /\ wpsAt # 0 => Req \in Requests /\ Req.place \in wpsSetup.places
    /\ exists \subseteq Gribs
    /\ grib \in [Gribs -> [place : SUBSET Places, hours : SUBSET GribHours]]
    /\ geo = {} \/ \E p \in wpsSetup.places : geo = {p}
    /\ made \subseteq Hours \X wpsSetup.places
    /\ metFiles \subseteq Hours \X wpsSetup.places
    /\ patched \subseteq metFiles

\* Of an hour there is one file, where metgrid makes it and in met_em/.
OneFileAnHour ==
    /\ \A f, g \in made : f[1] = g[1] => f = g
    /\ \A f, g \in metFiles : f[1] = g[1] => f = g

\* A file this call has made, or found beside met_em/ for an hour it does not make.
Known(f) == f \in Period(Req) \X {Req.place} \/ (f \in found.made /\ f[1] \notin Period(Req))

\* What run() has by the step it is at.
RunSoFar ==
    /\ wpsAt = 2 /\ ~Req.skip => grib["pressure"].hours = Asked(Req)
    /\ wpsAt = 3 /\ ~Req.skip => \A x \in Gribs : grib[x].hours = Asked(Req)
    /\ wpsAt \in {4, 5, 6, 7, 8, 9} => geo = {Req.place}
    /\ wpsAt \in {1, 2, 3, 4, 5, 6} => made = found.made /\ metFiles = found.met
    /\ wpsAt = 7 => /\ \A t \in Period(Req) : <<t, Req.place>> \in made \/ \E g \in metFiles : g[1] = t
                    /\ \A f \in made : Known(f)
    /\ wpsAt \in {7, 8, 9} => \A f \in metFiles : f \in found.met \/ Known(f)
    /\ wpsAt \in {8, 9} => \A t \in Period(Req) : \E g \in metFiles : g[1] = t
    /\ wpsAt = 9 /\ wpsSetup.nco => patched = metFiles

WpsIInv == WpsTypes /\ OneFileAnHour /\ RunSoFar

LEMMA StepNumbers ==
    /\ Len(Steps) = 9
    /\ Steps[1] = "pressure" /\ Steps[2] = "surface" /\ Steps[3] = "geogrid" /\ Steps[4] = "ungribPressure"
    /\ Steps[5] = "ungribSurface" /\ Steps[6] = "metgrid" /\ Steps[7] = "move" /\ Steps[8] = "patch"
    /\ Steps[9] = "returned"
  BY DEF Steps

LEMMA StepNames ==
    ASSUME wpsAt \in {0, 1, 2, 3, 4, 5, 6, 7, 8, 9}
    PROVE  /\ At("pressure") <=> wpsAt = 1
           /\ At("surface") <=> wpsAt = 2
           /\ At("geogrid") <=> wpsAt = 3
           /\ At("ungribPressure") <=> wpsAt = 4
           /\ At("ungribSurface") <=> wpsAt = 5
           /\ At("metgrid") <=> wpsAt = 6
           /\ At("move") <=> wpsAt = 7
           /\ At("patch") <=> wpsAt = 8
           /\ At("returned") <=> wpsAt = 9
  BY StepNumbers DEF At

LEMMA WpsSetupFacts ==
    ASSUME NEW s \in WpsSetups
    PROVE  s.windows \subseteq Windows /\ s.places \subseteq Places
  BY WpsAssumption DEF WpsAssumption

LEMMA PeriodInHours ==
    ASSUME NEW r \in Requests
    PROVE  /\ Period(r) \subseteq Hours /\ r.window.start \in Nat /\ r.window.end \in Nat
           /\ r.window.start <= r.window.end /\ r.window.start \in Hours /\ r.window.end \in Hours
<1>1. r.window \in [start : Hours, end : Hours] /\ r.window.start <= r.window.end
  BY DEF Requests, Windows
<1>2. WpsHorizon \in Nat
  BY WpsAssumption DEF WpsAssumption
<1>3. r.window.start \in Hours /\ r.window.end \in Hours
  BY <1>1
<1>4. r.window.start \in Nat /\ r.window.end \in Nat
  BY <1>2, <1>3 DEF Hours
<1>5. Period(r) \subseteq Hours
  BY <1>2, <1>3, <1>4 DEF Period, Hours
<1> QED
  BY <1>1, <1>3, <1>4, <1>5

-----------------------------------------------------------------------------
\* Whole numbers of days and months.
LEMMA Quotient ==
    ASSUME NEW a \in Nat, NEW n \in Nat \ {0}
    PROVE  a \div n \in Nat /\ a % n \in Nat /\ a % n < n /\ a = n * (a \div n) + (a % n)
<1>1. n \in Nat /\ n > 0
  OBVIOUS
<1>2. a = n * (a \div n) + (a % n) /\ a \div n \in Nat
  BY <1>1
<1>3. a % n \in Nat /\ a % n < n
  BY <1>1
<1> QED
  BY <1>2, <1>3

LEMMA QuotientGrows ==
    ASSUME NEW a \in Nat, NEW b \in Nat, a <= b, NEW n \in Nat \ {0}
    PROVE  a \div n <= b \div n
<1> DEFINE x == a \div n
           y == b \div n
           k == x - y - 1
<1>1. /\ x \in Nat /\ y \in Nat /\ a = n * x + (a % n) /\ b = n * y + (b % n)
      /\ a % n \in Nat /\ b % n \in Nat /\ b % n < n
  BY Quotient
<1>2. SUFFICES ASSUME x > y PROVE FALSE
  BY <1>1
<1>3. k \in Nat /\ x = y + 1 + k
  BY <1>1, <1>2
<1> HIDE DEF k, x, y
<1>4. n * x = n * y + n + n * k
  BY <1>1, <1>3
<1>5. n * k \in Nat /\ n * y \in Nat
  BY <1>1, <1>3
<1> QED
  BY <1>1, <1>4, <1>5

LEMMA QuotientBelow ==
    ASSUME NEW a \in Nat, NEW m \in Nat, a \div 4 < 2 * m
    PROVE  a < 8 * m
<1>1. a \div 4 \in Nat /\ a % 4 \in Nat /\ a % 4 < 4 /\ a = 4 * (a \div 4) + (a % 4)
  BY Quotient
<1> QED
  BY <1>1

\* The days of a window within a month are asked for in that month.
LEMMA MonthIsAsked ==
    ASSUME NEW r \in Requests, OneMonth(r)
    PROVE  Period(r) \subseteq Asked(r)
<1>1. /\ Period(r) \subseteq Hours /\ r.window.start \in Nat /\ r.window.end \in Nat
      /\ r.window.start <= r.window.end
  BY PeriodInHours
<1>2. WpsHorizon \in Nat /\ MonthDays \in Nat \ {0} /\ WpsHorizon \div 4 < 2 * MonthDays
  BY WpsAssumption DEF WpsAssumption
<1>3. SUFFICES ASSUME NEW t \in Period(r)
      PROVE  t \in 0 .. 8 * MonthDays - 1 /\ Month(t) = Month(r.window.start)
  BY <1>3 DEF Asked
<1>4. t \in Nat /\ r.window.start <= t /\ t <= r.window.end /\ t <= WpsHorizon
  BY <1>1, <1>2 DEF Period, Hours
<1>5. t \in 0 .. 8 * MonthDays - 1
  <2>1. WpsHorizon < 8 * MonthDays
    BY <1>2, QuotientBelow
  <2> QED
    BY <1>2, <1>4, <2>1
<1>6. ASSUME NEW a \in Nat, NEW b \in Nat, a <= b PROVE Month(a) <= Month(b) /\ Month(a) \in Nat
  <2>1. DayOf(a) \in Nat /\ DayOf(b) \in Nat
    BY Quotient DEF DayOf
  <2>2. DayOf(a) <= DayOf(b)
    BY <1>6, QuotientGrows DEF DayOf
  <2> QED
    BY <1>2, <2>1, <2>2, Quotient, QuotientGrows DEF Month
<1>7. Month(r.window.start) <= Month(t) /\ Month(t) <= Month(r.window.end)
  BY <1>1, <1>4, <1>6
<1>8. Month(r.window.start) \in Nat /\ Month(t) \in Nat
  BY <1>1, <1>4, <1>6
<1> QED
  BY <1>5, <1>7, <1>8 DEF OneMonth

-----------------------------------------------------------------------------
LEMMA WpsInitially == WpsInit => WpsIInv
<1> SUFFICES ASSUME NEW s \in WpsSetups, WpsStart(s) PROVE WpsIInv
  BY DEF WpsInit
<1>1. NoGrib \in [place : SUBSET Places, hours : SUBSET GribHours]
  BY DEF NoGrib
<1> QED
  BY <1>1 DEF WpsStart, WpsIInv, WpsTypes, OneFileAnHour, RunSoFar

LEMMA WpsInductive == WpsIInv /\ [WpsNext]_wpsVars => WpsIInv'
<1> SUFFICES ASSUME WpsIInv, [WpsNext]_wpsVars PROVE WpsIInv'
  OBVIOUS
<1> USE DEF WpsIInv
<1>n. wpsAt \in {0, 1, 2, 3, 4, 5, 6, 7, 8, 9}
  BY DEF WpsTypes
<1>k. UNCHANGED request => Req' = Req
  BY DEF Req
<1>l. UNCHANGED <<request, found>> => \A f : Known(f)' = Known(f)
  BY <1>k DEF Known, Period
<1>1. CASE UNCHANGED wpsVars
  BY <1>1, <1>k DEF wpsVars, WpsTypes, OneFileAnHour, RunSoFar, Known
<1>2. ASSUME NEW w \in Windows, NEW p \in Places, NEW skip \in BOOLEAN, Run(w, p, skip) PROVE WpsIInv'
  <2>1. Req' = [window |-> w, place |-> p, skip |-> skip]
    BY <1>2 DEF Run, Req
  <2>2. Req' \in Requests /\ Req'.place \in wpsSetup.places
    BY <1>2, <2>1 DEF Run, Requests
  <2>3. WpsTypes'
    BY <1>2, <2>2 DEF Run, WpsTypes
  <2>4. OneFileAnHour' /\ RunSoFar'
    BY <1>2 DEF Run, OneFileAnHour, RunSoFar
  <2> QED
    BY <2>3, <2>4
<1>3. ASSUME NEW x \in Gribs, FetchEra5(x) PROVE WpsIInv'
  <2> USE <1>3, <1>k, <1>l DEF FetchEra5
  <2>1. (x = "pressure" /\ wpsAt = 1) \/ (x = "surface" /\ wpsAt = 2)
    BY <1>n, StepNames DEF Gribs
  <2>2. Req.place \in Places /\ Req \in Requests
    BY <2>1, WpsSetupFacts DEF WpsTypes, Requests
  <2>3. \/ /\ wpsAt' = wpsAt + 1
           /\ grib' = [grib EXCEPT ![x] = [place |-> {Req.place}, hours |-> Asked(Req)]]
        \/ wpsAt' = 0 /\ grib' = [grib EXCEPT ![x] = NoGrib]
    BY DEF Proceed
  <2>4. Asked(Req) \subseteq GribHours
    BY DEF Asked, GribHours
  <2>5. grib' \in [Gribs -> [place : SUBSET Places, hours : SUBSET GribHours]]
    <3>1. NoGrib \in [place : SUBSET Places, hours : SUBSET GribHours]
      BY DEF NoGrib
    <3>2. [place |-> {Req.place}, hours |-> Asked(Req)] \in [place : SUBSET Places, hours : SUBSET GribHours]
      BY <2>2, <2>4
    <3> QED
      BY <2>3, <3>1, <3>2 DEF WpsTypes
  <2>6. wpsAt' \in {0, 2, 3}
    BY <2>1, <2>3
  <2>7. WpsTypes'
    BY <2>1, <2>5, <2>6 DEF WpsTypes
  <2>8. RunSoFar'
    <3>1. CASE wpsAt' = 0
      BY <3>1 DEF RunSoFar
    <3>2. CASE wpsAt' = wpsAt + 1 /\ grib' = [grib EXCEPT ![x] = [place |-> {Req.place}, hours |-> Asked(Req)]]
      <4>1. grib'[x].hours = Asked(Req) /\ \A y \in Gribs \ {x} : grib'[y] = grib[y]
        BY <3>2 DEF WpsTypes
      <4>2. CASE x = "pressure" /\ wpsAt = 1
        BY <3>2, <4>1, <4>2 DEF RunSoFar
      <4>3. CASE x = "surface" /\ wpsAt = 2
        <5>1. wpsAt' = 3
          BY <3>2, <4>3
        <5>2. ~Req.skip => grib'["pressure"].hours = Asked(Req)
          BY <4>1, <4>3 DEF RunSoFar, Gribs
        <5> QED
          BY <4>1, <4>3, <5>1, <5>2 DEF RunSoFar, Gribs
      <4> QED
        BY <2>1, <4>2, <4>3
    <3> QED
      BY <2>3, <3>1, <3>2
  <2> QED
    BY <2>7, <2>8 DEF OneFileAnHour
<1>4. ASSUME NEW x \in Gribs, SkipDownload(x) PROVE WpsIInv'
  <2>1. wpsAt \in {1, 2} /\ wpsAt' = wpsAt + 1
    BY <1>4, <1>n, StepNames DEF SkipDownload, Gribs, Proceed
  <2>2. wpsAt' \in {2, 3}
    BY <2>1
  <2>3. WpsTypes'
    BY <1>4, <1>k, <2>1, <2>2 DEF SkipDownload, WpsTypes
  <2>4. RunSoFar'
    BY <1>4, <1>k, <1>l, <2>1, <2>2 DEF SkipDownload, RunSoFar
  <2> QED
    BY <1>4, <2>3, <2>4 DEF SkipDownload, OneFileAnHour
<1>5. CASE Geogrid
  <2>1. wpsAt = 3 /\ wpsAt' = 4
    BY <1>5, <1>n, StepNames DEF Geogrid, Proceed
  <2>2. WpsTypes'
    BY <1>5, <1>k, <2>1 DEF Geogrid, WpsTypes
  <2> QED
    BY <1>5, <1>k, <1>l, <2>1, <2>2 DEF Geogrid, OneFileAnHour, RunSoFar
<1>6. ASSUME NEW x \in Gribs, Ungrib(x) PROVE WpsIInv'
  <2>1. wpsAt \in {4, 5} /\ wpsAt' = wpsAt + 1
    <3>1. UngribStep["pressure"] = "ungribPressure" /\ UngribStep["surface"] = "ungribSurface"
      BY DEF UngribStep
    <3> QED
      BY <1>6, <1>n, <3>1, StepNames DEF Ungrib, Gribs, Proceed
  <2>2. wpsAt' \in {5, 6}
    BY <2>1
  <2>3. UNCHANGED <<wpsSetup, request, grib, exists, geo, made, metFiles, patched, found>>
    BY <1>6 DEF Ungrib
  <2> QED
    BY <1>k, <1>l, <2>1, <2>2, <2>3 DEF WpsTypes, OneFileAnHour, RunSoFar
<1>7. CASE Metgrid
  <2> USE <1>7, <1>k DEF Metgrid
  <2>1. wpsAt = 6 /\ wpsAt' = 7
    BY <1>n, StepNames DEF Proceed
  <2>2. Req \in Requests /\ Req.place \in wpsSetup.places /\ geo = {Req.place} /\ Period(Req) \subseteq Hours
    BY <2>1, PeriodInHours DEF WpsTypes, RunSoFar
  <2>3. made' = {f \in made : f[1] \notin Period(Req)} \cup (Period(Req) \X {Req.place})
    BY <2>2
  <2>4. WpsTypes'
    BY <2>1, <2>2, <2>3 DEF WpsTypes
  <2>5. OneFileAnHour'
    BY <2>3 DEF OneFileAnHour
  <2>6. made = found.made /\ metFiles = found.met
    BY <2>1 DEF RunSoFar
  <2>7. (\A t \in Period(Req) : <<t, Req.place>> \in made') /\ \A f \in made' : Known(f)
    BY <2>3, <2>6 DEF Known
  <2>8. RunSoFar'
    BY <1>l, <2>1, <2>2, <2>6, <2>7 DEF RunSoFar
  <2> QED
    BY <2>4, <2>5, <2>8
<1>8. CASE Move
  <2>1. wpsAt = 7 /\ (wpsAt' = 7 \/ wpsAt' = 8)
    BY <1>8, <1>n, StepNames DEF Move, Proceed
  <2>2. UNCHANGED <<wpsSetup, request, grib, exists, geo, ungribbed, patched, found>> /\ Req' = Req
    BY <1>8, <1>k DEF Move
  <2>3. CASE wpsAt' = 7
    <3>1. PICK f \in Moved : metFiles' = metFiles \cup {f} /\ made' = made \ {f}
      BY <1>8, <2>1, <2>3 DEF Move, Proceed
    <3>2. f \in made /\ \A g \in metFiles : g[1] # f[1]
      BY <3>1 DEF Moved
    <3>3. WpsTypes'
      <4>1. made' \subseteq Hours \X wpsSetup.places /\ metFiles' \subseteq Hours \X wpsSetup.places
            /\ patched \subseteq metFiles'
        BY <3>1, <3>2 DEF WpsTypes
      <4>2. wpsAt' \in {0, 1, 2, 3, 4, 5, 6, 7, 8, 9} /\ wpsAt # 0
        BY <2>1, <2>3
      <4> QED
        BY <2>2, <4>1, <4>2 DEF WpsTypes
    <3>4. OneFileAnHour'
      BY <3>1, <3>2 DEF OneFileAnHour
    <3>5. \A t \in Period(Req) : <<t, Req.place>> \in made' \/ \E g \in metFiles' : g[1] = t
      <4>1. SUFFICES ASSUME NEW t \in Period(Req), <<t, Req.place>> \notin made'
            PROVE  \E g \in metFiles' : g[1] = t
        OBVIOUS
      <4>2. CASE f = <<t, Req.place>>
        <5>1. f \in metFiles' /\ f[1] = t
          BY <3>1, <4>2
        <5> QED
          BY <5>1
      <4>3. CASE f # <<t, Req.place>>
        BY <2>1, <3>1, <4>1, <4>3 DEF RunSoFar
      <4> QED
        BY <4>2, <4>3
    <3>6. RunSoFar'
      BY <1>l, <2>1, <2>2, <2>3, <3>1, <3>2, <3>5 DEF RunSoFar
    <3> QED
      BY <3>3, <3>4, <3>6
  <2>4. CASE wpsAt' = 8
    <3>1. Moved = {} /\ UNCHANGED <<made, metFiles>>
      <4>1. wpsAt' # wpsAt
        BY <2>1, <2>4
      <4> QED
        BY <1>8, <4>1 DEF Move
    <3>2. WpsTypes' /\ OneFileAnHour'
      <4>1. wpsAt' \in {0, 1, 2, 3, 4, 5, 6, 7, 8, 9} /\ wpsAt # 0
        BY <2>1, <2>4
      <4> QED
        BY <2>2, <3>1, <4>1 DEF WpsTypes, OneFileAnHour
    <3>3. \A t \in Period(Req) : \E g \in metFiles : g[1] = t
      <4>1. SUFFICES ASSUME NEW t \in Period(Req) PROVE \E g \in metFiles : g[1] = t
        OBVIOUS
      <4>2. \A f \in made : \E g \in metFiles : g[1] = f[1]
        BY <3>1 DEF Moved
      <4>3. <<t, Req.place>>[1] = t
        OBVIOUS
      <4> QED
        BY <2>1, <4>2, <4>3 DEF RunSoFar
    <3>4. RunSoFar'
      BY <1>l, <2>1, <2>2, <2>4, <3>1, <3>3 DEF RunSoFar
    <3> QED
      BY <3>2, <3>4
  <2> QED
    BY <2>1, <2>3, <2>4
<1>9. CASE Patch
  <2>1. wpsAt = 8 /\ wpsAt' = 9
    BY <1>9, <1>n, StepNames DEF Patch, Proceed
  <2>2. WpsTypes'
    BY <1>9, <1>k, <2>1 DEF Patch, WpsTypes
  <2>3. RunSoFar'
    BY <1>9, <1>k, <1>l, <2>1 DEF Patch, RunSoFar
  <2> QED
    BY <1>9, <2>2, <2>3 DEF Patch, OneFileAnHour
<1>10. CASE WpsFails
  BY <1>10 DEF WpsFails, WpsTypes, OneFileAnHour, RunSoFar
<1> QED
  BY <1>1, <1>2, <1>3, <1>4, <1>5, <1>6, <1>7, <1>8, <1>9, <1>10 DEF WpsNext

LEMMA WpsInvariant == WpsSpec => []WpsIInv
  BY WpsInitially, WpsInductive, PTL DEF WpsSpec

\* The files of a work directory are of the hours and places there are, and
\* met_em/ has one of each hour, after any runs that failed anywhere.
THEOREM WpsType == WpsSpec => []WpsTypeOK
<1>1. ASSUME WpsIInv PROVE WpsTypeOK
  <2> USE <1>1 DEF WpsIInv
  <2>1. wpsSetup.places \subseteq Places
    BY WpsSetupFacts DEF WpsTypes
  <2>2. wpsAt \in 0 .. Len(Steps)
    BY StepNumbers DEF WpsTypes
  <2>3. geo \subseteq Places /\ made \subseteq Hours \X Places /\ metFiles \subseteq Hours \X Places
    BY <2>1 DEF WpsTypes
  <2>4. \A x \in Gribs : grib[x].place \subseteq Places /\ grib[x].hours \subseteq 0 .. 8 * MonthDays - 1
    BY DEF WpsTypes, GribHours
  <2> QED
    BY <2>2, <2>3, <2>4 DEF WpsTypeOK, WpsTypes, OneFileAnHour
<1> QED
  BY <1>1, WpsInvariant, PTL

\* When run() returns, met_em/ is complete for its window, whatever earlier runs
\* left in the directory; what is not of this call's hours and place was there before;
\* and what is downloaded for a window within a month covers it
\* (wps_meteo.py:131-316).
THEOREM WpsSound == WpsSpec => []WpsIsSound
<1>1. ASSUME WpsIInv PROVE WpsIsSound
  <2> USE <1>1 DEF WpsIInv
  <2>n. wpsAt \in {0, 1, 2, 3, 4, 5, 6, 7, 8, 9}
    BY DEF WpsTypes
  <2>1. ReturnedIsComplete
    <3>1. SUFFICES ASSUME At("returned"), NEW t \in Period(Req)
          PROVE  \E f \in metFiles : f[1] = t /\ (wpsSetup.nco => f \in patched)
      BY DEF ReturnedIsComplete
    <3>2. wpsAt = 9
      BY <2>n, <3>1, StepNames
    <3>3. PICK g \in metFiles : g[1] = t
      BY <3>2 DEF RunSoFar
    <3> QED
      BY <3>2, <3>3 DEF RunSoFar
  <2>3. OnlyWhatWasThereIsAnothers
    <3>1. At("returned") => wpsAt = 9
      BY <2>n, StepNames
    <3> QED
      BY <3>1 DEF OnlyWhatWasThereIsAnothers, RunSoFar, Known
  <2>2. DownloadCoversMonth
    <3>1. SUFFICES ASSUME At("geogrid"), ~Req.skip, OneMonth(Req), NEW x \in Gribs
          PROVE  Period(Req) \subseteq grib[x].hours
      BY DEF DownloadCoversMonth, Downloaded
    <3>2. wpsAt = 3
      BY <2>n, <3>1, StepNames
    <3>3. Req \in Requests /\ grib[x].hours = Asked(Req)
      BY <3>1, <3>2 DEF WpsTypes, RunSoFar
    <3> QED
      BY <3>1, <3>3, MonthIsAsked
  <2> QED
    BY <2>1, <2>2, <2>3 DEF WpsIsSound
<1> QED
  BY <1>1, WpsInvariant, PTL

-----------------------------------------------------------------------------
(* --- SlurmJob -------------------------------------------------------------- *)

JobStates == Going \cup Ended \cup {"none", "SUSPENDED"}

JobTypes ==
    /\ jobSetup \in JobSetups /\ job \in JobStates /\ shown \in (JobStates \ {"none"}) \cup {""}
    /\ wrf \in {"none", "running", "0", "1"}
    /\ caller \in {"new", "waiting", "returned", "timeout", "raised"}

\* The caller stops polling at its deadline.
PollsToDeadline ==
    /\ time \in 0..(jobSetup.timeout + jobSetup.poll)
    /\ caller = "new" => job = "none"

\* COMPLETED is the end of a wrf.exe that exited with 0, for good; nothing else
\* is told as COMPLETED.
CompletedIsDone ==
    /\ job = "COMPLETING" => wrf \in {"0", "1"}
    /\ job = "COMPLETED" => wrf = "0"
    /\ shown = "COMPLETED" => job = "COMPLETED"
    /\ caller = "returned" /\ answer = "COMPLETED" => job = "COMPLETED"

\* The accounting may lag behind the job, but not be ahead of it: an end it shows
\* is the end of the job, unless SLURM queued the job again.
EndsAreFinal ==
    /\ ~jobSetup.suspends => job # "SUSPENDED" /\ shown # "SUSPENDED"
    /\ ~jobSetup.requeues /\ shown \in Ended => job = shown
    /\ caller = "returned" => /\ answer \in Ended \cup {"SUSPENDED"}
                              /\ ~jobSetup.suspends => answer \in Ended
                              /\ ~jobSetup.requeues /\ answer \in Ended => job = answer

JobIInv == JobTypes /\ PollsToDeadline /\ CompletedIsDone /\ EndsAreFinal

LEMMA JobNumbers ==
    ASSUME NEW s \in JobSetups
    PROVE  s.timeout \in Nat /\ s.poll \in Nat /\ s.poll > 0
  BY JobAssumption DEF JobAssumption

LEMMA WithinDeadline ==
    ASSUME NEW t, NEW deadline \in Nat, NEW interval \in Nat, t \in 0..(deadline + interval), t < deadline
    PROVE  t + interval \in 0..(deadline + interval)
  OBVIOUS

LEMMA JobInitially == JobInit => JobIInv
<1> SUFFICES ASSUME NEW s \in JobSetups, JobStart(s) PROVE JobIInv
  BY DEF JobInit
<1>1. s.timeout \in Nat /\ s.poll \in Nat
  BY JobNumbers
<1>2. 0 \in 0..(s.timeout + s.poll)
  BY <1>1
<1> QED
  BY <1>2 DEF JobStart, JobIInv, JobTypes, JobStates, Going, Ended, PollsToDeadline,
     CompletedIsDone, EndsAreFinal

\* A step of SLURM: the job goes to another state, and its accounting shows that
\* one or still the one before.
LEMMA JobMoves ==
    ASSUME JobIInv, NEW state \in JobStates \ {"none"}, Shows(state), UNCHANGED <<jobSetup, answer, time>>,
           wrf' \in {"none", "running", "0", "1"}, job = "COMPLETED" => FALSE,
           caller' \in {"new", "waiting", "returned", "timeout", "raised"}, caller' # "new",
           caller' = "returned" => caller = "returned",
           job \in Ended => jobSetup.requeues,
           state = "COMPLETING" => wrf' \in {"0", "1"},
           state = "COMPLETED" => wrf' = "0",
           state = "SUSPENDED" => jobSetup.suspends
    PROVE  JobIInv'
<1> USE DEF JobIInv, JobTypes, JobStates, Going, Ended
<1>1. job' = state /\ (shown' = state \/ shown' = shown)
  BY DEF Shows
<1>2. JobTypes'
  BY <1>1
<1>3. PollsToDeadline'
  BY DEF PollsToDeadline
<1>4. CompletedIsDone'
  BY <1>1 DEF CompletedIsDone
<1>5. EndsAreFinal'
  BY <1>1, JobAssumption DEF JobAssumption, EndsAreFinal
<1> QED
  BY <1>2, <1>3, <1>4, <1>5

LEMMA JobInductive == JobIInv /\ [JobNext]_jobVars => JobIInv'
<1> SUFFICES ASSUME JobIInv, [JobNext]_jobVars PROVE JobIInv'
  OBVIOUS
<1> USE DEF JobIInv
<1>n. job # "none" => caller # "new"
  BY DEF PollsToDeadline
<1>1. CASE UNCHANGED jobVars
  BY <1>1 DEF jobVars, JobTypes, PollsToDeadline, CompletedIsDone, EndsAreFinal
<1>2. CASE Accounting
  BY <1>2 DEF Accounting, JobTypes, JobStates, Going, Ended, PollsToDeadline, CompletedIsDone, EndsAreFinal
<1>3. CASE Schedule
  BY <1>3, <1>n, JobMoves DEF Schedule, JobTypes, JobStates, Going, Ended
<1>4. CASE ScriptEnds
  BY <1>4, <1>n, JobMoves DEF ScriptEnds, JobTypes, JobStates, Going, Ended
<1>5. CASE Ends
  BY <1>5, <1>n, JobMoves DEF Ends, ExitOfScript, JobTypes, JobStates, Going, Ended, CompletedIsDone
<1>6. CASE Suspend
  BY <1>6, <1>n, JobMoves DEF Suspend, JobTypes, JobStates, Going, Ended
<1>7. CASE Resume
  BY <1>7, <1>n, JobMoves DEF Resume, JobTypes, JobStates, Going, Ended
<1>8. CASE Requeue
  BY <1>8, <1>n, JobMoves DEF Requeue, JobTypes, JobStates, Going, Ended
<1>9. ASSUME NEW state \in {"CANCELLED", "TIMEOUT", "NODE_FAIL"}, Kill(state) PROVE JobIInv'
  BY <1>9, <1>n, JobMoves DEF Kill, JobTypes, JobStates, Going, Ended
<1>10. ASSUME NEW code \in {"0", "1"}, WrfExits(code) PROVE JobIInv'
  BY <1>10 DEF WrfExits, JobTypes, JobStates, Going, Ended, PollsToDeadline, CompletedIsDone, EndsAreFinal
<1>11. CASE Submit
  <2>1. CASE job' = job /\ shown' = shown /\ caller' = "raised"
    BY <1>11, <2>1 DEF Submit, JobTypes, PollsToDeadline, CompletedIsDone, EndsAreFinal
  <2>2. CASE Shows("PENDING") /\ caller' \in {"waiting", "raised"}
    <3>1. job = "none" /\ caller = "new"
      BY <1>11 DEF Submit, PollsToDeadline
    <3> QED
      BY <1>11, <2>2, <3>1, JobMoves DEF Submit, JobTypes, JobStates, Going, Ended
  <2> QED
    BY <1>11, <2>1, <2>2 DEF Submit
<1>12. ASSUME NEW state \in {shown, ""}, Poll(state) PROVE JobIInv'
  <2> USE <1>12 DEF Poll, slurm
  <2>n. jobSetup.timeout \in Nat /\ jobSetup.poll \in Nat /\ jobSetup.poll > 0
    BY JobNumbers DEF JobTypes
  <2>t. time' = time \/ (time < jobSetup.timeout /\ time' = time + jobSetup.poll)
    OBVIOUS
  <2>1. JobTypes'
    BY <2>n, <2>t DEF JobTypes
  <2>2. PollsToDeadline'
    <3>1. time' \in 0..(jobSetup.timeout + jobSetup.poll)
      BY <2>n, <2>t, WithinDeadline DEF PollsToDeadline
    <3> QED
      BY <3>1 DEF PollsToDeadline
  <2>3. CompletedIsDone'
    BY DEF CompletedIsDone
  <2>4. EndsAreFinal'
    BY JobAssumption DEF JobAssumption, JobTypes, JobStates, EndsAreFinal, Going, Ended
  <2> QED
    BY <2>1, <2>2, <2>3, <2>4
<1>13. CASE WaitTimesOut
  BY <1>13 DEF WaitTimesOut, slurm, JobTypes, PollsToDeadline, CompletedIsDone, EndsAreFinal
<1> QED
  BY <1>1, <1>2, <1>3, <1>4, <1>5, <1>6, <1>7, <1>8, <1>9, <1>10, <1>11, <1>12, <1>13 DEF JobNext, Cancel

LEMMA JobInvariant == JobSpec => []JobIInv
  BY JobInitially, JobInductive, PTL DEF JobSpec

\* A job is in one of SLURM's states, and wait() polls no longer than its timeout.
THEOREM JobType == JobSpec => []JobTypeOK
<1>1. ASSUME JobIInv PROVE JobTypeOK
  <2> QED
    BY <1>1 DEF PollsToDeadline, JobIInv, JobTypes, JobStates, EndsAreFinal, JobTypeOK
<1> QED
  BY <1>1, JobInvariant, PTL

\* wait() returns the end of the job, for any timeout, interval and lag of the
\* accounting, and COMPLETED only for a wrf.exe that exited with 0 (hpc/slurm.py).
THEOREM WaitIsRight == JobSpec => []WaitReturnsTheEnd
<1>1. JobIInv => WaitReturnsTheEnd
  BY DEF JobIInv, CompletedIsDone, EndsAreFinal, WaitReturnsTheEnd
<1> QED
  BY <1>1, JobInvariant, PTL

-----------------------------------------------------------------------------
(* --- WrfRun ------------------------------------------------------------------ *)

\* A finite set of integers has a least and a greatest: of the sets of those
\* beyond one of them, one is smallest.
LEMMA SmallestSet ==
    ASSUME NEW S, IsFiniteSet(S), NEW Sets, Sets \subseteq SUBSET S, Sets # {}
    PROVE  \E X \in Sets : \A Y \in Sets : ~(Y \subseteq X /\ Y # X)
<1>1. IsWellFoundedOn(StrictSubsetOrdering(S), SUBSET S)
  BY FS_StrictSubsetOrderingWellFounded, FS_FiniteSubsetsOfFinite
<1>2. PICK X \in Sets : \A Y \in Sets : <<Y, X>> \notin StrictSubsetOrdering(S)
  BY <1>1, WFMin
<1> QED
  BY <1>2 DEF StrictSubsetOrdering

LEMMA GreatestIs ==
    ASSUME NEW S, S \subseteq Int, IsFiniteSet(S), S # {}
    PROVE  Max(S) \in S /\ \A x \in S : x <= Max(S)
<1> DEFINE Above(x) == {y \in S : y > x}  Sets == {Above(x) : x \in S}
<1>1. Sets \subseteq SUBSET S /\ Sets # {}
  OBVIOUS
<1>2. PICK X \in Sets : \A Y \in Sets : ~(Y \subseteq X /\ Y # X)
  <2> HIDE DEF Sets
  <2> QED
    BY ONLY <1>1, IsFiniteSet(S), SmallestSet
<1>3. PICK x \in S : X = Above(x)
  OBVIOUS
<1>4. ASSUME NEW y \in S, y > x PROVE FALSE
  <2>1. Above(y) \in Sets
    OBVIOUS
  <2>2. y \in X /\ y \notin Above(y)
    BY <1>3, <1>4
  <2>3. \A z \in Above(y) : z \in Above(x)
    BY <1>4
  <2> QED
    BY <1>2, <1>3, <2>1, <2>2, <2>3
<1>5. \A y \in S : x >= y
  BY <1>4
<1>6. \E z \in S : \A y \in S : z >= y
  BY <1>5
<1>7. Max(S) \in S /\ \A y \in S : Max(S) >= y
  BY <1>6 DEF Max
<1> QED
  BY <1>7

LEMMA LeastIs ==
    ASSUME NEW S, S \subseteq Int, IsFiniteSet(S), S # {}
    PROVE  Min(S) \in S /\ \A x \in S : Min(S) <= x
<1> DEFINE Below(x) == {y \in S : y < x}  Sets == {Below(x) : x \in S}
<1>1. Sets \subseteq SUBSET S /\ Sets # {}
  OBVIOUS
<1>2. PICK X \in Sets : \A Y \in Sets : ~(Y \subseteq X /\ Y # X)
  <2> HIDE DEF Sets
  <2> QED
    BY ONLY <1>1, IsFiniteSet(S), SmallestSet
<1>3. PICK x \in S : X = Below(x)
  OBVIOUS
<1>4. ASSUME NEW y \in S, y < x PROVE FALSE
  <2>1. Below(y) \in Sets
    OBVIOUS
  <2>2. y \in X /\ y \notin Below(y)
    BY <1>3, <1>4
  <2>3. \A z \in Below(y) : z \in Below(x)
    BY <1>4
  <2> QED
    BY <1>2, <1>3, <2>1, <2>2, <2>3
<1>5. \A y \in S : x =< y
  BY <1>4
<1>6. \E z \in S : \A y \in S : z =< y
  BY <1>5
<1> QED
  BY <1>6 DEF Min

LEMMA PairFinite == \A a, b : IsFiniteSet({a, b})
<1> SUFFICES ASSUME NEW a, NEW b PROVE IsFiniteSet({a, b})
  OBVIOUS
<1>1. IsFiniteSet({a}) /\ {a, b} = {a} \cup {b}
  BY FS_Singleton
<1> QED
  BY <1>1, FS_AddElement

LEMMA LesserOfTwo == \A a, b \in Int : Min({a, b}) = IF a <= b THEN a ELSE b
<1> SUFFICES ASSUME NEW a \in Int, NEW b \in Int PROVE Min({a, b}) = IF a <= b THEN a ELSE b
  OBVIOUS
<1> DEFINE S == {a, b}
<1>1. S \in SUBSET Int /\ IsFiniteSet(S) /\ S # {}
  BY PairFinite
<1>2. Min(S) \in S /\ \A x \in S : Min(S) <= x
  <2> HIDE DEF S
  <2> QED
    BY <1>1, LeastIs
<1> QED
  BY <1>2

LEMMA OnlyOne == \A a \in Int : Min({a}) = a /\ Max({a}) = a
<1> SUFFICES ASSUME NEW a \in Int PROVE Min({a}) = a /\ Max({a}) = a
  OBVIOUS
<1> DEFINE S == {a}
<1>1. S \in SUBSET Int /\ IsFiniteSet(S) /\ S # {}
  BY FS_Singleton
<1>2. Min(S) \in S /\ Max(S) \in S
  <2> HIDE DEF S
  <2> QED
    BY <1>1, LeastIs, GreatestIs
<1> QED
  BY <1>2

-----------------------------------------------------------------------------
(* the fire mesh *)

LEMMA WrfNumbers ==
    /\ WrfWidth \in Nat /\ WrfWidth >= 1 /\ Fmr \in Nat /\ Fmr >= 1 /\ MaxTries \in Nat /\ MaxTries >= 1
    /\ WrfWidth * Fmr \in Nat
  BY WrfAssumption DEF WrfAssumption

LEMMA Quotients ==
    ASSUME NEW a \in Nat, NEW n \in Nat, n >= 1, NEW q \in Nat
    PROVE  a \div n = q <=> n * q <= a /\ a <= n * q + n - 1
<1> DEFINE x == a \div n  r == a % n
<1>1. a = n * x + r /\ x \in Nat /\ r \in Nat /\ r < n
  <2>1. a = n * x + r /\ x \in Nat
    OBVIOUS
  <2>2. r \in Nat /\ r < n
    OBVIOUS
  <2> QED
    BY <2>1, <2>2
<1> HIDE DEF x, r
<1>2. x = q => n * q <= a /\ a <= n * q + n - 1
  BY <1>1
<1>3. ASSUME x < q PROVE a < n * q
  <2> DEFINE k == q - x - 1
  <2>1. k \in Nat /\ q = x + 1 + k
    BY <1>1, <1>3
  <2> HIDE DEF k
  <2>2. n * q = n * x + n + n * k /\ n * k \in Nat /\ n * x \in Nat
    BY <1>1, <2>1
  <2> QED
    BY <1>1, <2>2
<1>4. ASSUME q < x PROVE a > n * q + n - 1
  <2> DEFINE k == x - q - 1
  <2>1. k \in Nat /\ x = q + 1 + k
    BY <1>1, <1>4
  <2> HIDE DEF k
  <2>2. n * x = n * q + n + n * k /\ n * k \in Nat /\ n * q \in Nat
    BY <1>1, <2>1
  <2> QED
    BY <1>1, <2>2
<1>5. n * q \in Nat
  OBVIOUS
<1>6. x < q \/ x = q \/ q < x
  BY <1>1
<1> QED
  BY <1>2, <1>3, <1>4, <1>5, <1>6 DEF x

LEMMA CellOfFireCell ==
    ASSUME NEW f \in FireCells
    PROVE  f \div Fmr \in GridCells
<1> DEFINE q == f \div Fmr
<1>1. f \in Nat /\ f <= WrfWidth * Fmr - 1
  BY WrfNumbers DEF FireCells
<1>2. q \in Nat
  BY <1>1, WrfNumbers
<1> HIDE DEF q
<1>3. Fmr * q <= f
  BY <1>1, <1>2, WrfNumbers, Quotients DEF q
<1>4. ASSUME q >= WrfWidth PROVE FALSE
  <2> DEFINE k == q - WrfWidth
  <2>1. k \in Nat /\ q = WrfWidth + k
    BY <1>2, <1>4, WrfNumbers
  <2> HIDE DEF k
  <2>2. Fmr * q = WrfWidth * Fmr + Fmr * k /\ Fmr * k \in Nat
    BY <1>2, <2>1, WrfNumbers
  <2> QED
    BY <1>1, <1>3, <2>2, WrfNumbers
<1>5. q \in GridCells
  BY <1>2, <1>4, WrfNumbers DEF GridCells
<1> QED
  BY <1>5 DEF q

LEMMA BlockIs ==
    ASSUME NEW c \in GridCells
    PROVE  /\ Block(c) \subseteq FireCells /\ \A f \in Block(c) : f \div Fmr = c
           /\ IsFiniteSet(Block(c)) /\ Cardinality(Block(c)) = Fmr /\ Block(c) # {}
<1>1. c \in Nat /\ c <= WrfWidth - 1 /\ Fmr * c \in Nat
  BY WrfNumbers DEF GridCells
<1>2. Fmr * c + Fmr <= WrfWidth * Fmr
  <2> DEFINE k == WrfWidth - 1 - c
  <2>1. k \in Nat /\ WrfWidth = c + 1 + k
    BY <1>1, WrfNumbers
  <2> HIDE DEF k
  <2>2. WrfWidth * Fmr = Fmr * c + Fmr + Fmr * k /\ Fmr * k \in Nat
    BY <1>1, <2>1, WrfNumbers
  <2> QED
    BY <1>1, <2>2, WrfNumbers
<1> DEFINE a == Fmr * c  b == Fmr * c + Fmr - 1
<1>3. a \in Int /\ b \in Int /\ a <= b /\ b - a + 1 = Fmr /\ a \in Nat /\ b <= WrfWidth * Fmr - 1
  BY <1>1, <1>2, WrfNumbers
<1>4. ASSUME NEW f \in FireCells PROVE f \div Fmr = c <=> f \in a .. b
  <2>1. f \in Nat
    BY WrfNumbers DEF FireCells
  <2>2. f \div Fmr = c <=> Fmr * c <= f /\ f <= Fmr * c + Fmr - 1
    BY <1>1, <2>1, WrfNumbers, Quotients
  <2> QED
    BY <1>3, <2>1, <2>2
<1> HIDE DEF a, b
<1>5. a .. b \subseteq FireCells
  BY <1>3, WrfNumbers DEF FireCells
<1>6. Block(c) = a .. b
  BY <1>4, <1>5 DEF Block
<1>7. IsFiniteSet(a .. b) /\ Cardinality(a .. b) = Fmr
  BY <1>3, FS_Interval
<1>8. a \in a .. b
  BY <1>3
<1> QED
  BY <1>6, <1>7, <1>8 DEF Block

-----------------------------------------------------------------------------
(* what goes to the model, and what comes back *)

InputTypes ==
    /\ ignition \in [GridCells -> IgnitionTimes] /\ burnable \in [GridCells -> BOOLEAN]
    /\ reached \in SUBSET FireCells

Ignited(c) == Valid(ignition[c]) /\ burnable[c]
Injected == stage.tignInTime = TignInTime /\ stage.tignIn = Replicate(TignIn)

LEMMA TimesAre ==
    /\ Spread \in Nat /\ Unignited \in Nat /\ Spread < Unignited /\ 10 < Unignited
    /\ \A t \in IgnitionTimes : t \in Int /\ t + 10 < Unignited
<1>1. 0 + 10 < Unignited
  BY WrfAssumption DEF WrfAssumption
<1> QED
  BY <1>1, WrfAssumption DEF WrfAssumption

LEMMA InTimeIs ==
    ASSUME InputTypes
    PROVE  /\ TignInTime \in Nat /\ TignInTime < Unignited /\ TignInTime >= 10
           /\ \A c \in GridCells : Valid(ignition[c]) => ignition[c] + 10 <= TignInTime
<1> DEFINE Times == {ignition[c] : c \in GridCells}
           S == {0} \cup {t \in Times : Valid(t)}
<1>1. IsFiniteSet(S)
  <2>1. IsFiniteSet(GridCells)
    BY FS_Interval, WrfNumbers DEF GridCells
  <2>2. ignition \in Surjection(GridCells, Times)
    BY DEF InputTypes, Surjection
  <2>3. IsFiniteSet(Times)
    <3> HIDE DEF Times
    <3> QED
      BY <2>1, <2>2, FS_Surjection
  <2>4. IsFiniteSet({t \in Times : Valid(t)})
    <3> HIDE DEF Times
    <3> QED
      BY <2>3, FS_Subset
  <2>5. IsFiniteSet({t \in Times : Valid(t)} \cup {0})
    BY <2>4, FS_AddElement
  <2> QED
    BY <2>5
<1>2. \A t \in S : t \in Nat /\ t + 10 < Unignited
  BY TimesAre DEF InputTypes, Valid
<1>3. 0 \in S /\ \A c \in GridCells : Valid(ignition[c]) => ignition[c] \in S
  OBVIOUS
<1>4. TignInTime = Max(S) + 10
  BY DEF TignInTime
<1> HIDE DEF S
<1>5. Max(S) \in S /\ \A t \in S : t <= Max(S)
  <2>1. S \subseteq Int /\ S # {}
    BY <1>2, <1>3
  <2> QED
    BY <1>1, <2>1, GreatestIs
<1>6. Max(S) \in Nat /\ Max(S) + 10 < Unignited
  BY <1>2, <1>5
<1>7. \A c \in GridCells : Valid(ignition[c]) => ignition[c] \in Int /\ ignition[c] <= Max(S)
  BY <1>3, <1>5, TimesAre DEF InputTypes
<1> QED
  BY <1>4, <1>6, <1>7, TimesAre

LEMMA TignIs ==
    ASSUME InputTypes
    PROVE  /\ TignIn \in [GridCells -> Int]
           /\ \A c \in GridCells : TignIn[c] = IF Ignited(c) THEN ignition[c] ELSE Unignited
<1>1. ASSUME NEW c \in GridCells
      PROVE  /\ TignIn[c] = (IF Ignited(c) THEN ignition[c] ELSE Unignited)
             /\ TignIn[c] \in Int
  <2>1. ignition[c] \in Int
    BY TimesAre DEF InputTypes
  <2>2. TignIn[c] = IF Ignited(c) THEN Min({ignition[c], TignInTime - 1}) ELSE Unignited
    BY DEF TignIn, Ignited
  <2>3. Ignited(c) => ignition[c] <= TignInTime - 1 /\ TignInTime - 1 \in Int
    BY <2>1, InTimeIs DEF Ignited
  <2>4. Ignited(c) => Min({ignition[c], TignInTime - 1}) = ignition[c]
    BY <2>1, <2>3, LesserOfTwo
  <2> QED
    BY <2>1, <2>2, <2>4, TimesAre
<1>2. TignIn = [c \in GridCells |-> TignIn[c]]
  BY DEF TignIn
<1> QED
  BY <1>1, <1>2

LEMMA ReplicatedIs ==
    ASSUME InputTypes
    PROVE  /\ Replicate(TignIn) \in [FireCells -> Int]
           /\ \A f \in FireCells : Replicate(TignIn)[f]
                 = IF Ignited(f \div Fmr) THEN ignition[f \div Fmr] ELSE Unignited
  BY TignIs, CellOfFireCell DEF Replicate

\* wrf.exe finds ignited what is, at its time.
LEMMA InjectedIs ==
    ASSUME InputTypes, Injected, NEW f \in FireCells
    PROVE  /\ stage.tignIn[f] <= stage.tignInTime <=> Ignited(f \div Fmr)
           /\ Ignited(f \div Fmr) => stage.tignIn[f] = ignition[f \div Fmr]
<1> DEFINE c == f \div Fmr
<1>1. c \in GridCells
  BY CellOfFireCell
<1> HIDE DEF c
<1>2. stage.tignIn[f] = (IF Ignited(c) THEN ignition[c] ELSE Unignited) /\ stage.tignInTime = TignInTime
  BY ReplicatedIs DEF Injected, c
<1>3. ignition[c] \in Int
  BY <1>1, TimesAre DEF InputTypes
<1>4. CASE Ignited(c)
  <2>1. ignition[c] <= TignInTime
    BY <1>1, <1>3, <1>4, InTimeIs DEF Ignited
  <2> QED
    BY <1>2, <1>4, <2>1 DEF c
<1>5. CASE ~Ignited(c)
  <2>1. ~(Unignited <= TignInTime)
    BY InTimeIs, TimesAre
  <2> QED
    BY <1>2, <1>5, <2>1 DEF c
<1> QED
  BY <1>4, <1>5

LEMMA BurnIs ==
    ASSUME InputTypes, Injected
    PROVE  /\ Burn \in [FireCells -> Int]
           /\ \A f \in FireCells :
                Burn[f] = IF Ignited(f \div Fmr) THEN ignition[f \div Fmr]
                          ELSE IF f \in reached THEN Spread ELSE Unignited
<1>1. ASSUME NEW f \in FireCells
      PROVE  /\ Burn[f] = IF Ignited(f \div Fmr) THEN ignition[f \div Fmr]
                          ELSE IF f \in reached THEN Spread ELSE Unignited
             /\ Burn[f] \in Int
  <2>1. Burn[f] = IF stage.tignIn[f] <= stage.tignInTime THEN stage.tignIn[f]
                  ELSE IF f \in reached THEN Spread ELSE Unignited
    BY DEF Burn
  <2>2. ignition[f \div Fmr] \in Int
    BY CellOfFireCell, TimesAre DEF InputTypes
  <2>3. /\ stage.tignIn[f] <= stage.tignInTime <=> Ignited(f \div Fmr)
        /\ Ignited(f \div Fmr) => stage.tignIn[f] = ignition[f \div Fmr]
    BY InjectedIs
  <2>4. Burn[f] = IF Ignited(f \div Fmr) THEN ignition[f \div Fmr]
                  ELSE IF f \in reached THEN Spread ELSE Unignited
    BY <2>1, <2>3
  <2>5. Spread \in Int /\ Unignited \in Int
    BY TimesAre
  <2> QED
    BY <2>2, <2>4, <2>5
<1>2. Burn = [f \in FireCells |-> Burn[f]]
  BY DEF Burn
<1> QED
  BY <1>1, <1>2

LEMMA ReducedIs ==
    ASSUME InputTypes, Injected, NEW c \in GridCells
    PROVE  ReduceMin(Burn)[c] = IF Ignited(c) THEN ignition[c]
                                ELSE IF Block(c) \cap reached # {} THEN Spread ELSE Unignited
<1> DEFINE S == {Burn[f] : f \in Block(c)}
<1>1. \A f \in Block(c) :
        Burn[f] = IF Ignited(c) THEN ignition[c] ELSE IF f \in reached THEN Spread ELSE Unignited
  BY BlockIs, BurnIs
<1>2. ReduceMin(Burn)[c] = Min(S)
  BY DEF ReduceMin
<1>3. ignition[c] \in Int
  BY TimesAre DEF InputTypes
<1>4. CASE Ignited(c)
  <2>1. S = {ignition[c]}
    BY <1>1, <1>4, BlockIs
  <2> QED
    BY <1>2, <1>3, <1>4, <2>1, OnlyOne
<1>5. CASE ~Ignited(c) /\ Block(c) \cap reached = {}
  <2>1. S = {Unignited}
    BY <1>1, <1>5, BlockIs
  <2> QED
    BY <1>2, <1>5, <2>1, OnlyOne, TimesAre
<1>6. CASE ~Ignited(c) /\ Block(c) \cap reached # {} /\ Block(c) \subseteq reached
  <2>1. S = {Spread}
    BY <1>1, <1>6, BlockIs
  <2> QED
    BY <1>2, <1>6, <2>1, OnlyOne, TimesAre
<1>7. CASE ~Ignited(c) /\ Block(c) \cap reached # {} /\ ~(Block(c) \subseteq reached)
  <2>1. S = {Spread, Unignited}
    BY <1>1, <1>7, BlockIs
  <2>2. Min({Spread, Unignited}) = Spread
    BY LesserOfTwo, TimesAre
  <2> QED
    BY <1>2, <1>7, <2>1, <2>2
<1> QED
  BY <1>4, <1>5, <1>6, <1>7

Target(name, c) == IF name = "arrival_s" THEN Expected(c) ELSE ExpectedArea(c)
Results == {"arrival_s", "fire_area"}

LEMMA ArrivalIs ==
    ASSUME InputTypes, Injected, NEW c \in GridCells
    PROVE  Arrival(Burn)[c] = Expected(c) /\ Expected(c) \in Int
<1>1. Arrival(Burn)[c] = IF ReduceMin(Burn)[c] = Unignited THEN NaN ELSE ReduceMin(Burn)[c]
  BY DEF Arrival
<1>2. Expected(c) = IF Ignited(c) THEN ignition[c] ELSE IF Block(c) \cap reached # {} THEN Spread ELSE NaN
  BY DEF Expected, Ignited
<1>3. ignition[c] \in Int /\ ignition[c] < Unignited
  BY TimesAre DEF InputTypes
<1> QED
  BY <1>1, <1>2, <1>3, ReducedIs, TimesAre DEF NaN

LEMMA AreaIs ==
    ASSUME InputTypes, Injected, NEW c \in GridCells
    PROVE  Burned(Burn)[c] = ExpectedArea(c) /\ ExpectedArea(c) \in Nat
<1> DEFINE S == {f \in Block(c) : Burn[f] # Unignited}
<1>1. \A f \in Block(c) :
        Burn[f] = IF Ignited(c) THEN ignition[c] ELSE IF f \in reached THEN Spread ELSE Unignited
  BY BlockIs, BurnIs
<1>2. Burned(Burn)[c] = Cardinality(S)
  BY DEF Burned
<1>3. ExpectedArea(c) = IF Ignited(c) THEN Fmr ELSE Cardinality(Block(c) \cap reached)
  BY DEF ExpectedArea, Ignited
<1>4. ignition[c] \in Int /\ ignition[c] # Unignited /\ Spread # Unignited
  BY TimesAre DEF InputTypes
<1>5. S = IF Ignited(c) THEN Block(c) ELSE Block(c) \cap reached
  BY <1>1, <1>4
<1>6. IsFiniteSet(S) /\ Cardinality(S) \in Nat
  BY BlockIs, FS_Subset, FS_CardinalityType
<1> HIDE DEF S
<1> QED
  BY <1>2, <1>3, <1>5, <1>6, BlockIs, WrfNumbers

LEMMA MergedTypes ==
    ASSUME NEW name \in OutputNames, output[name] \in [GridCells -> Int], NEW new \in [GridCells -> Int]
    PROVE  Merged(name, new) \in [GridCells -> Int]
<1>1. ASSUME NEW c \in GridCells PROVE Merged(name, new)[c] \in Int
  <2> DEFINE a == output[name][c]  b == new[c]  there == {a, b} \ {NaN}
  <2>1. there \subseteq Int /\ IsFiniteSet(there)
    <3>1. a \in Int /\ b \in Int /\ IsFiniteSet({a, b})
      BY PairFinite
    <3> QED
      BY <3>1, FS_Subset
  <2>2. Merged(name, new)[c] = CASE there = {} -> NaN
                                 [] there # {} /\ name = "arrival_s" -> Min(there)
                                 [] OTHER -> Max(there)
    BY DEF Merged
  <2> HIDE DEF there
  <2>3. there # {} => Min(there) \in Int /\ Max(there) \in Int
    BY <2>1, LeastIs, GreatestIs
  <2> QED
    BY <2>2, <2>3 DEF NaN
<1>2. Merged(name, new) = [c \in GridCells |-> Merged(name, new)[c]]
  BY DEF Merged
<1> QED
  BY <1>1, <1>2

\* A half-written output gives way to the whole one.
LEMMA MergedIs ==
    ASSUME NEW name, NEW new, NEW c \in GridCells, NEW e \in Int,
           output[name][c] \in {NaN, e}, new[c] = e
    PROVE  Merged(name, new)[c] = e
<1> DEFINE there == {output[name][c], new[c]} \ {NaN}
<1>1. Merged(name, new)[c] = CASE there = {} -> NaN
                               [] there # {} /\ name = "arrival_s" -> Min(there)
                               [] OTHER -> Max(there)
  BY DEF Merged
<1>2. CASE e = NaN
  <2>1. there = {}
    BY <1>2
  <2> QED
    BY <1>1, <1>2, <2>1
<1>3. CASE e # NaN
  <2>1. there = {e}
    BY <1>3
  <2> HIDE DEF there
  <2>2. Min(there) = e /\ Max(there) = e /\ there # {}
    BY <2>1, OnlyOne
  <2> QED
    BY <1>1, <2>2
<1> QED
  BY <1>2, <1>3

LEMMA ResultIs ==
    ASSUME InputTypes, Injected, stage.tignG = Burn, NEW name \in OutputNames
    PROVE  /\ Result(name) \in [GridCells -> Int]
           /\ \A c \in GridCells : name \in Results => Result(name)[c] = Target(name, c) /\ Target(name, c) \in Int
<1>1. CASE name = "arrival_s"
  <2>1. Result(name) = Arrival(Burn)
    BY <1>1 DEF Result
  <2>2. \A c \in GridCells : Arrival(Burn)[c] = Target(name, c) /\ Target(name, c) \in Int
    BY <1>1, ArrivalIs DEF Target
  <2>3. Arrival(Burn) = [c \in GridCells |-> Arrival(Burn)[c]]
    BY DEF Arrival
  <2> QED
    BY <2>1, <2>2, <2>3
<1>2. CASE name = "fire_area"
  <2>1. Result(name) = Burned(Burn)
    BY <1>2 DEF Result
  <2>2. \A c \in GridCells : Burned(Burn)[c] = Target(name, c) /\ Target(name, c) \in Int
    BY <1>2, AreaIs DEF Target
  <2>3. Burned(Burn) = [c \in GridCells |-> Burned(Burn)[c]]
    BY DEF Burned
  <2> QED
    BY <2>1, <2>2, <2>3
<1>3. CASE name = "diagnostics"
  <2>1. Result(name) = NoArray
    BY <1>3 DEF Result
  <2> QED
    BY <1>3, <2>1 DEF NoArray, NaN, Results
<1> QED
  BY <1>1, <1>2, <1>3 DEF OutputNames

-----------------------------------------------------------------------------
(* the step *)

Using == wrfAt \in {"stage", "run", "parse"}
IsWritten(name) == \A i \in DOMAIN todo : todo[i] # name
Allowed(n) == MaxTries * n

WrfTypes ==
    /\ wrfSetup \in WrfSetups /\ InputTypes
    /\ output \in [OutputNames -> [GridCells -> Int]]
    /\ wrfAt \in {"idle", "stage", "run", "parse", "update", "failed"}
    /\ try \in 0 .. MaxTries /\ (wrfAt = "idle" <=> try = 0)
    /\ runs \in Nat /\ runs <= wrfSetup.runs /\ fresh \in BOOLEAN
    /\ todo \in Seq(OutputNames)
    /\ DOMAIN stage = DOMAIN NoStage

\* The stage holds what is injected for the inputs there are, and what they burn.
StageInv ==
    /\ wrfAt \in {"run", "parse", "update"} => Injected
    /\ wrfAt \in {"parse", "update"} => stage.tignG = Burn

\* The attempts still allowed are counted in.
DirsInv ==
    /\ dirs \in Nat /\ dirs + (IF wrfAt = "idle" THEN 0 ELSE MaxTries - try) <= Allowed(runs)
    /\ Using => dirs >= 1
    /\ ~wrfSetup.keep /\ ~wrfSetup.lingers /\ ~wrfSetup.dies => dirs = IF Using THEN 1 ELSE 0

\* Nothing else than the result of these inputs is ever merged with.
OutputInv ==
    ~wrfSetup.refetch =>
        \A name \in Results : \A c \in GridCells :
            /\ output[name][c] \in {NaN, Target(name, c)}
            /\ fresh \/ (wrfAt = "update" /\ IsWritten(name)) => output[name][c] = Target(name, c)

WrfIInv == WrfTypes /\ StageInv /\ DirsInv /\ OutputInv

LEMMA AllowedIs ==
    ASSUME NEW n \in Nat
    PROVE  Allowed(n) \in Nat /\ Allowed(n + 1) = Allowed(n) + MaxTries
  BY WrfNumbers DEF Allowed

LEMMA AllowedGrows ==
    ASSUME NEW n \in Nat, NEW m \in Nat, n <= m
    PROVE  Allowed(n) <= Allowed(m)
<1> DEFINE k == m - n
<1>1. k \in Nat /\ m = n + k
  OBVIOUS
<1> HIDE DEF k
<1>2. MaxTries * m = MaxTries * n + MaxTries * k /\ MaxTries * k \in Nat /\ MaxTries * n \in Nat
  BY <1>1, WrfNumbers
<1> QED
  BY <1>2 DEF Allowed

LEMMA SameInputs ==
    ASSUME UNCHANGED inputs
    PROVE  /\ TignInTime' = TignInTime /\ TignIn' = TignIn /\ (InputTypes' <=> InputTypes)
           /\ reached' = reached
           /\ \A name, c : Target(name, c)' = Target(name, c)
<1>1. ignition' = ignition /\ burnable' = burnable /\ reached' = reached
  BY DEF inputs
<1>2. TignInTime' = TignInTime
  BY <1>1 DEF TignInTime
<1>3. TignIn' = TignIn
  BY <1>1, <1>2 DEF TignIn
<1>4. \A name, c : Target(name, c)' = Target(name, c)
  BY <1>1 DEF Target, Expected, ExpectedArea
<1> QED
  BY <1>1, <1>2, <1>3, <1>4 DEF InputTypes

LEMMA SameStage ==
    ASSUME UNCHANGED inputs, UNCHANGED stage
    PROVE  (Injected' <=> Injected) /\ Burn' = Burn
  BY SameInputs DEF Injected, Burn, Replicate

\* A step that leaves the inputs, the cube and what succeeded alone.
LEMMA OutputsKept ==
    ASSUME OutputInv, UNCHANGED <<wrfSetup, inputs, output, fresh>>, UNCHANGED todo \/ wrfAt' # "update",
           wrfAt' = "update" => wrfAt = "update"
    PROVE  OutputInv'
<1> SUFFICES ASSUME ~wrfSetup.refetch, NEW name \in Results, NEW c \in GridCells
             PROVE  /\ output[name][c] \in {NaN, Target(name, c)}
                    /\ fresh \/ (wrfAt' = "update" /\ IsWritten(name)') => output[name][c] = Target(name, c)
  BY SameInputs DEF OutputInv
<1>1. wrfAt' = "update" /\ IsWritten(name)' => wrfAt = "update" /\ IsWritten(name)
  BY DEF IsWritten
<1> QED
  BY <1>1 DEF OutputInv

LEMMA Refetches == ASSUME WrfIInv, Refetch PROVE WrfIInv'
<1>1. /\ wrfAt = "idle" /\ wrfSetup.refetch /\ fresh' = FALSE
      /\ ignition' \in [GridCells -> IgnitionTimes] /\ burnable' \in [GridCells -> BOOLEAN] /\ reached' \in Reaches
      /\ UNCHANGED <<wrfSetup, output, wrfAt, try, stage, dirs, todo, runs>>
  BY DEF Refetch
<1>2. WrfTypes'
  BY <1>1, WrfAssumption DEF WrfAssumption, WrfIInv, WrfTypes, InputTypes
<1>3. StageInv' /\ DirsInv' /\ OutputInv'
  BY <1>1 DEF WrfIInv, StageInv, DirsInv, OutputInv, Using
<1> QED
  BY <1>2, <1>3 DEF WrfIInv

LEMMA Attempts ==
    ASSUME WrfIInv, NEW n \in 1 .. MaxTries, Attempt(n), dirs' = dirs + 1, UNCHANGED fresh,
           \/ wrfAt = "idle" /\ n = 1 /\ runs' = runs + 1 /\ runs < wrfSetup.runs
           \/ wrfAt = "failed" /\ n = try + 1 /\ runs' = runs
    PROVE  WrfIInv'
<1>1. /\ wrfAt' = "stage" /\ try' = n /\ stage' = NoStage /\ UNCHANGED <<wrfSetup, inputs, output, todo>>
  BY DEF Attempt
<1>2. WrfTypes /\ wrfSetup.runs \in Nat
  BY WrfAssumption DEF WrfAssumption, WrfIInv, WrfTypes
<1>3. WrfTypes'
  BY <1>1, <1>2, SameInputs, WrfNumbers DEF WrfTypes
<1>4. StageInv'
  BY <1>1 DEF StageInv
<1>5. DirsInv'
  <2>1. Allowed(runs) \in Nat /\ Allowed(runs + 1) = Allowed(runs) + MaxTries
    BY <1>2, AllowedIs DEF WrfTypes
  <2>2. dirs \in Nat /\ dirs + 1 + (MaxTries - n) <= Allowed(runs')
    BY <1>2, <2>1, WrfNumbers DEF WrfIInv, DirsInv, WrfTypes
  <2> QED
    BY <1>1, <2>2 DEF WrfIInv, DirsInv, Using
<1>6. OutputInv'
  BY <1>1, OutputsKept DEF WrfIInv
<1> QED
  BY <1>3, <1>4, <1>5, <1>6 DEF WrfIInv

LEMMA Starts == ASSUME WrfIInv, Start PROVE WrfIInv'
  BY Attempts, WrfNumbers DEF Start

LEMMA Retries == ASSUME WrfIInv, Retry PROVE WrfIInv'
<1>1. /\ wrfAt = "failed" /\ try < MaxTries /\ Attempt(try + 1) /\ dirs' = dirs + 1 /\ UNCHANGED <<fresh, runs>>
  BY DEF Retry
<1>2. try + 1 \in 1 .. MaxTries
  BY <1>1, WrfNumbers DEF WrfIInv, WrfTypes
<1> QED
  BY <1>1, <1>2, Attempts

LEMMA Stages == ASSUME WrfIInv, StageInputs PROVE WrfIInv'
<1>1. /\ wrfAt = "stage" /\ wrfAt' = "run"
      /\ stage' = [NoStage EXCEPT !.tignInTime = TignInTime, !.tignIn = Replicate(TignIn)]
      /\ UNCHANGED <<wrfSetup, inputs, output, try, dirs, todo, fresh, runs>>
  BY DEF StageInputs
<1>2. /\ DOMAIN stage' = DOMAIN NoStage /\ stage'.tignInTime = TignInTime /\ stage'.tignIn = Replicate(TignIn)
  BY <1>1 DEF NoStage
<1>3. WrfTypes'
  BY <1>1, <1>2, SameInputs DEF WrfIInv, WrfTypes
<1>4. StageInv'
  BY <1>1, <1>2, SameInputs DEF StageInv, Injected, Replicate
<1>5. DirsInv'
  BY <1>1 DEF WrfIInv, DirsInv, Using
<1>6. OutputInv'
  BY <1>1, OutputsKept DEF WrfIInv
<1> QED
  BY <1>3, <1>4, <1>5, <1>6 DEF WrfIInv

LEMMA RunsModel == ASSUME WrfIInv, RunModel PROVE WrfIInv'
<1>1. /\ wrfAt = "run" /\ wrfAt' = "parse" /\ stage' = [stage EXCEPT !.tignG = Burn]
      /\ UNCHANGED <<wrfSetup, inputs, output, try, dirs, todo, fresh, runs>>
  BY DEF RunModel
<1>2. DOMAIN stage = {"tignInTime", "tignIn", "tignG"} /\ DOMAIN NoStage = DOMAIN stage
  BY DEF WrfIInv, WrfTypes, NoStage
<1>3. /\ DOMAIN stage' = DOMAIN NoStage /\ stage'.tignInTime = stage.tignInTime
      /\ stage'.tignIn = stage.tignIn /\ stage'.tignG = Burn
  BY <1>1, <1>2
<1>4. WrfTypes'
  BY <1>1, <1>3, SameInputs DEF WrfIInv, WrfTypes
<1>5. StageInv'
  <2>1. Injected'
    BY <1>1, <1>3, SameInputs DEF WrfIInv, StageInv, Injected, Replicate
  <2>2. Burn' = Burn
    BY <1>1, <1>3, SameInputs DEF Burn
  <2> QED
    BY <1>3, <2>1, <2>2 DEF StageInv
<1>6. DirsInv'
  BY <1>1 DEF WrfIInv, DirsInv, Using
<1>7. OutputInv'
  BY <1>1, OutputsKept DEF WrfIInv
<1> QED
  BY <1>4, <1>5, <1>6, <1>7 DEF WrfIInv

\* A step that leaves the inputs and the stage alone.
LEMMA StageKept ==
    ASSUME StageInv, UNCHANGED <<inputs, stage>>, wrfAt' \in {"update", "failed"}, wrfAt \in {"parse", "update"} \/ wrfAt' = "failed"
    PROVE  StageInv'
  BY SameStage DEF StageInv

LEMMA Joined ==
    ASSUME NEW names, NEW p \in Seq(names), NEW d \in Seq(names)
    PROVE  /\ p \o d \in Seq(names) /\ Len(p \o d) = Len(p) + Len(d)
           /\ \A i \in 1 .. Len(p) : (p \o d)[i] = p[i]
  OBVIOUS

LEMMA ProducesIs ==
    /\ Produces \in Seq(OutputNames)
    /\ \A name \in Results : \E i \in DOMAIN Produces : Produces[i] = name
<1>1. CASE wrfSetup.extra
  <2> DEFINE p == <<"arrival_s", "fire_area">>  d == <<"diagnostics">>
  <2>1. Produces = p \o d
    BY <1>1 DEF Produces
  <2>2. /\ p \in Seq(OutputNames) /\ Len(p) = 2 /\ p[1] = "arrival_s" /\ p[2] = "fire_area"
        /\ d \in Seq(OutputNames) /\ Len(d) = 1
    BY DEF OutputNames
  <2> HIDE DEF p, d
  <2>3. /\ p \o d \in Seq(OutputNames) /\ DOMAIN (p \o d) = 1 .. 3
        /\ (p \o d)[1] = "arrival_s" /\ (p \o d)[2] = "fire_area"
    <3>1. /\ p \o d \in Seq(OutputNames) /\ Len(p \o d) = Len(p) + Len(d)
          /\ \A i \in 1 .. Len(p) : (p \o d)[i] = p[i]
      BY <2>2, Joined
    <3>2. Len(p \o d) = 3 /\ 1 \in 1 .. Len(p) /\ 2 \in 1 .. Len(p)
      BY <2>2, <3>1
    <3> QED
      BY <2>2, <3>1, <3>2
  <2> QED
    BY <2>1, <2>3 DEF Results
<1>2. CASE ~wrfSetup.extra
  <2> DEFINE p == <<"arrival_s", "fire_area">>
  <2>1. Produces = p
    BY <1>2 DEF Produces
  <2>2. p \in Seq(OutputNames) /\ DOMAIN p = 1 .. 2 /\ p[1] = "arrival_s" /\ p[2] = "fire_area"
    BY DEF OutputNames
  <2> QED
    BY <2>1, <2>2 DEF Results
<1> QED
  BY <1>1, <1>2

\* The attempt's directory goes.
LEMMA DirsGo ==
    ASSUME WrfTypes, DirsInv, Using, RemoveStage, wrfAt' \in {"update", "failed"}, UNCHANGED <<wrfSetup, try, runs>>
    PROVE  DirsInv'
<1>1. /\ dirs' \in {dirs - 1, dirs} /\ dirs \in Nat /\ dirs >= 1
      /\ ~wrfSetup.keep /\ ~wrfSetup.lingers => dirs' = dirs - 1
  BY DEF RemoveStage, DirsInv
<1>2. dirs' \in Nat /\ dirs' <= dirs
  BY <1>1
<1>3. wrfAt # "idle" /\ try \in Nat /\ Allowed(runs) \in Nat
  <2>1. runs \in Nat /\ try \in 0 .. MaxTries /\ wrfAt # "idle"
    BY DEF Using, WrfTypes
  <2> QED
    BY <2>1, AllowedIs, WrfNumbers
<1>4. dirs + (MaxTries - try) <= Allowed(runs)
  BY <1>3 DEF DirsInv
<1>5. dirs' + (MaxTries - try) <= Allowed(runs)
  BY <1>1, <1>2, <1>3, <1>4, WrfNumbers
<1>6. ~wrfSetup.keep /\ ~wrfSetup.lingers /\ ~wrfSetup.dies => dirs' = 0
  BY <1>1 DEF DirsInv
<1> QED
  BY <1>2, <1>5, <1>6 DEF DirsInv, Using

LEMMA Parses == ASSUME WrfIInv, ParseOutputs PROVE WrfIInv'
<1>1. /\ wrfAt = "parse" /\ wrfAt' = "update" /\ RemoveStage /\ todo' = Produces
      /\ UNCHANGED <<wrfSetup, inputs, output, try, stage, fresh, runs>>
  BY DEF ParseOutputs
<1>2. WrfTypes'
  BY <1>1, SameInputs, ProducesIs DEF WrfIInv, WrfTypes
<1>3. StageInv'
  BY <1>1, StageKept DEF WrfIInv
<1>4. DirsInv'
  BY <1>1, DirsGo DEF WrfIInv, Using
<1>5. OutputInv'
  <2> SUFFICES ASSUME ~wrfSetup.refetch, NEW name \in Results, NEW c \in GridCells
               PROVE  /\ output[name][c] \in {NaN, Target(name, c)}
                      /\ fresh \/ IsWritten(name)' => output[name][c] = Target(name, c)
    BY <1>1, SameInputs DEF OutputInv
  <2>1. ~IsWritten(name)'
    BY <1>1, ProducesIs DEF IsWritten
  <2> QED
    BY <2>1 DEF WrfIInv, OutputInv
<1> QED
  BY <1>2, <1>3, <1>4, <1>5 DEF WrfIInv

LEMMA FailsToCompute == ASSUME WrfIInv, ComputeFails PROVE WrfIInv'
<1>1. /\ Using /\ wrfAt' = "failed" /\ RemoveStage
      /\ UNCHANGED <<wrfSetup, inputs, output, try, stage, todo, fresh, runs>>
  BY DEF ComputeFails, Using
<1>2. WrfTypes'
  BY <1>1, SameInputs DEF WrfIInv, WrfTypes, Using
<1>3. StageInv' /\ DirsInv' /\ OutputInv'
  BY <1>1, StageKept, DirsGo, OutputsKept DEF WrfIInv
<1> QED
  BY <1>2, <1>3 DEF WrfIInv

LEMMA HeadIsWritten ==
    ASSUME NEW list \in Seq(OutputNames), list # <<>>
    PROVE  /\ Head(list) \in OutputNames /\ Tail(list) \in Seq(OutputNames)
           /\ \A name : (\A i \in DOMAIN Tail(list) : Tail(list)[i] # name)
                          => Head(list) = name \/ \A i \in DOMAIN list : list[i] # name
<1> DEFINE n == Len(list)  tail == Tail(list)
<1>1. n \in Nat \ {0} /\ DOMAIN list = 1 .. n /\ list[1] \in OutputNames
  OBVIOUS
<1>2. Head(list) = list[1] /\ tail \in Seq(OutputNames) /\ DOMAIN tail = 1 .. n - 1
      /\ \A i \in 1 .. n - 1 : tail[i] = list[i + 1]
  OBVIOUS
<1> HIDE DEF n, tail
<1>3. \A i \in 1 .. n : i # 1 => i - 1 \in 1 .. n - 1 /\ (i - 1) + 1 = i
  BY <1>1
<1>4. \A i \in 1 .. n : i # 1 => tail[i - 1] = list[i]
  BY <1>2, <1>3
<1> QED
  BY <1>1, <1>2, <1>3, <1>4 DEF tail

LEMMA Updates == ASSUME WrfIInv, UpdateOutput PROVE WrfIInv'
<1> DEFINE h == Head(todo)
<1>1. /\ wrfAt = "update" /\ wrfAt' = "update" /\ todo # <<>> /\ todo' = Tail(todo)
      /\ output' = [output EXCEPT ![h] = Merged(h, Result(h))]
      /\ UNCHANGED <<wrfSetup, inputs, try, stage, dirs, fresh, runs>>
  BY DEF UpdateOutput
<1>2. WrfTypes /\ InputTypes /\ Injected /\ stage.tignG = Burn /\ output \in [OutputNames -> [GridCells -> Int]]
  BY <1>1 DEF WrfIInv, WrfTypes, StageInv
<1>3. /\ h \in OutputNames /\ todo' \in Seq(OutputNames)
      /\ \A name : IsWritten(name)' => h = name \/ IsWritten(name)
  BY <1>1, <1>2, HeadIsWritten DEF WrfTypes, IsWritten
<1> HIDE DEF h
<1>4. /\ Result(h) \in [GridCells -> Int]
      /\ \A c \in GridCells : h \in Results => Result(h)[c] = Target(h, c) /\ Target(h, c) \in Int
  BY <1>2, <1>3, ResultIs
<1>5. Merged(h, Result(h)) \in [GridCells -> Int]
  BY <1>2, <1>3, <1>4, MergedTypes
<1>6. /\ output' \in [OutputNames -> [GridCells -> Int]] /\ output'[h] = Merged(h, Result(h))
      /\ \A name \in OutputNames : name # h => output'[name] = output[name]
  BY <1>1, <1>2, <1>3, <1>5
<1>7. WrfTypes'
  BY <1>1, <1>2, <1>3, <1>6, SameInputs DEF WrfTypes
<1>8. StageInv' /\ DirsInv'
  BY <1>1, StageKept DEF WrfIInv, DirsInv, Using
<1>9. OutputInv'
  <2> SUFFICES ASSUME ~wrfSetup.refetch, NEW name \in Results, NEW c \in GridCells
               PROVE  /\ output'[name][c] \in {NaN, Target(name, c)}
                      /\ fresh \/ IsWritten(name)' => output'[name][c] = Target(name, c)
    BY <1>1, SameInputs DEF OutputInv
  <2>1. /\ output[name][c] \in {NaN, Target(name, c)}
        /\ fresh \/ IsWritten(name) => output[name][c] = Target(name, c)
    BY <1>1 DEF WrfIInv, OutputInv
  <2>2. CASE name = h
    <3>1. Merged(h, Result(h))[c] = Target(h, c)
      BY <1>4, <2>1, <2>2, MergedIs
    <3> QED
      BY <1>6, <2>2, <3>1
  <2>3. CASE name # h
    <3>1. output'[name] = output[name]
      BY <1>6, <2>3 DEF Results, OutputNames
    <3> QED
      BY <1>3, <2>1, <2>3, <3>1
  <2> QED
    BY <2>2, <2>3
<1> QED
  BY <1>7, <1>8, <1>9 DEF WrfIInv

LEMMA FailsToUpdate == ASSUME WrfIInv, UpdateFails PROVE WrfIInv'
<1>1. /\ wrfAt = "update" /\ wrfAt' = "failed" /\ todo' = <<>>
      /\ UNCHANGED <<wrfSetup, inputs, output, try, stage, dirs, fresh, runs>>
  BY DEF UpdateFails
<1>2. <<>> \in Seq(OutputNames)
  OBVIOUS
<1>3. WrfTypes'
  BY <1>1, <1>2, SameInputs DEF WrfIInv, WrfTypes
<1>4. StageInv' /\ DirsInv' /\ OutputInv'
  BY <1>1, StageKept, OutputsKept DEF WrfIInv, DirsInv, Using
<1> QED
  BY <1>3, <1>4 DEF WrfIInv

LEMMA EndsTheStep ==
    ASSUME WrfIInv, wrfAt # "idle", NEW ok \in BOOLEAN, End(ok), todo' \in Seq(OutputNames),
           ok => wrfAt = "update" /\ todo = <<>>, wrfSetup.dies \/ ~Using
    PROVE  WrfIInv'
<1>1. /\ wrfAt' = "idle" /\ stage' = NoStage /\ try' = 0 /\ fresh' = (fresh \/ ok)
      /\ UNCHANGED <<wrfSetup, inputs, output, dirs, runs>>
  BY DEF End
<1>2. WrfTypes'
  BY <1>1, SameInputs, WrfNumbers DEF WrfIInv, WrfTypes
<1>3. StageInv'
  BY <1>1 DEF StageInv
<1>4. DirsInv'
  <2>1. dirs \in Nat /\ dirs + (MaxTries - try) <= Allowed(runs) /\ try \in 0 .. MaxTries /\ Allowed(runs) \in Nat
    BY AllowedIs DEF WrfIInv, WrfTypes, DirsInv
  <2>2. dirs <= Allowed(runs)
    BY <2>1, WrfNumbers
  <2> QED
    BY <1>1, <2>1, <2>2 DEF WrfIInv, DirsInv, Using
<1>5. OutputInv'
  <2> SUFFICES ASSUME ~wrfSetup.refetch, NEW name \in Results, NEW c \in GridCells
               PROVE  /\ output[name][c] \in {NaN, Target(name, c)}
                      /\ fresh \/ ok => output[name][c] = Target(name, c)
    BY <1>1, SameInputs DEF OutputInv
  <2>1. ok => wrfAt = "update" /\ IsWritten(name)
    BY DEF IsWritten
  <2> QED
    BY <2>1 DEF WrfIInv, OutputInv
<1> QED
  BY <1>2, <1>3, <1>4, <1>5 DEF WrfIInv

LEMMA WrfInitially == ASSUME WrfInit PROVE WrfIInv
<1>1. PICK s \in WrfSetups : WrfStart(s)
  BY DEF WrfInit
<1>2. /\ wrfSetup = s /\ output = [n \in OutputNames |-> NoArray] /\ wrfAt = "idle" /\ try = 0
      /\ stage = NoStage /\ dirs = 0 /\ todo = <<>> /\ fresh = FALSE /\ runs = 0
  BY <1>1 DEF WrfStart
<1>3. InputTypes
  BY WrfAssumption DEF WrfInit, InputTypes, WrfAssumption
<1>4. output \in [OutputNames -> [GridCells -> Int]]
  BY <1>2 DEF NoArray, NaN
<1>5. wrfSetup.runs \in Nat /\ <<>> \in Seq(OutputNames)
  BY <1>2, WrfAssumption DEF WrfAssumption
<1>6. WrfTypes
  <2>1. try \in 0 .. MaxTries /\ runs <= wrfSetup.runs /\ DOMAIN stage = DOMAIN NoStage
    BY <1>2, <1>5, WrfNumbers
  <2> QED
    BY <1>2, <1>3, <1>4, <1>5, <2>1 DEF WrfTypes
<1>7. StageInv
  BY <1>2 DEF StageInv
<1>8. DirsInv
  BY <1>2, AllowedIs DEF DirsInv, Using
<1>9. OutputInv
  BY <1>2 DEF OutputInv, NoArray, Results, OutputNames
<1> QED
  BY <1>6, <1>7, <1>8, <1>9 DEF WrfIInv

LEMMA WrfInductive == ASSUME WrfIInv, [WrfNext]_wrfVars PROVE WrfIInv'
<1>1. CASE UNCHANGED wrfVars
  <2>1. /\ UNCHANGED <<wrfSetup, inputs, output, wrfAt, try, stage, dirs, todo, fresh, runs>>
        /\ UNCHANGED inputs /\ UNCHANGED stage
    BY <1>1 DEF wrfVars
  <2>2. WrfTypes'
    BY <2>1, SameInputs DEF WrfIInv, WrfTypes
  <2>3. StageInv' /\ DirsInv'
    BY <2>1, SameStage DEF WrfIInv, StageInv, DirsInv, Using
  <2>4. OutputInv'
    BY <2>1, OutputsKept DEF WrfIInv
  <2> QED
    BY <2>2, <2>3, <2>4 DEF WrfIInv
<1>2. CASE Succeed
  BY <1>2, EndsTheStep DEF Succeed, Using, WrfIInv, WrfTypes
<1>3. CASE StepGivesUp
  BY <1>3, EndsTheStep DEF StepGivesUp, Using, WrfIInv, WrfTypes
<1>4. CASE WrfDies
  <2>1. <<>> \in Seq(OutputNames)
    OBVIOUS
  <2> QED
    BY <1>4, <2>1, EndsTheStep DEF WrfDies
<1> QED
  BY <1>1, <1>2, <1>3, <1>4, Refetches, Starts, Retries, Stages, RunsModel, Parses, FailsToCompute, Updates,
     FailsToUpdate DEF WrfNext

LEMMA WrfInvariant == WrfSpec => []WrfIInv
<1>1. WrfInit => WrfIInv
  BY WrfInitially
<1>2. WrfIInv /\ [WrfNext]_wrfVars => WrfIInv'
  BY WrfInductive
<1> QED
  BY <1>1, <1>2, PTL DEF WrfSpec

\* The step has its types, and makes no more stage directories than attempts.
THEOREM WrfType == WrfSpec => []WrfTypeOK
<1>1. ASSUME WrfIInv PROVE WrfTypeOK
  <2>1. WrfTypes /\ wrfSetup.runs \in Nat
    BY <1>1, WrfAssumption DEF WrfIInv, WrfTypes, WrfAssumption
  <2>2. (wrfAt = "idle") = (try = 0)
    BY <2>1 DEF WrfTypes
  <2>3. dirs \in 0 .. MaxTries * wrfSetup.runs
    <3>1. /\ dirs \in Nat /\ dirs + (IF wrfAt = "idle" THEN 0 ELSE MaxTries - try) <= Allowed(runs)
          /\ try \in 0 .. MaxTries /\ Allowed(runs) \in Nat /\ Allowed(wrfSetup.runs) \in Nat
      BY <1>1, <2>1, AllowedIs DEF WrfIInv, DirsInv, WrfTypes
    <3>2. dirs <= Allowed(runs)
      BY <3>1, WrfNumbers
    <3>3. Allowed(runs) <= Allowed(wrfSetup.runs)
      BY <2>1, AllowedGrows DEF WrfTypes
    <3>4. dirs <= Allowed(wrfSetup.runs)
      BY <3>1, <3>2, <3>3
    <3> QED
      BY <3>1, <3>4 DEF Allowed
  <2>4. wrfAt \in {"run", "parse", "update"} => stage.tignIn \in [FireCells -> Int]
    BY <1>1, <2>1, ReplicatedIs DEF WrfIInv, WrfTypes, StageInv, Injected
  <2> QED
    BY <2>1, <2>2, <2>3, <2>4 DEF WrfTypes, WrfTypeOK
<1> QED
  BY <1>1, WrfInvariant, PTL

\* For any grid, mesh, inputs and number of attempts: the model is given the
\* ignition the cube has, a step that succeeds leaves in the cube what the model
\* makes of it, whatever failed halfway before, and no stage directory stays that
\* could be removed.
THEOREM WrfSound == WrfSpec => []WrfStepIsSound
<1>1. ASSUME WrfIInv PROVE WrfStepIsSound
  <2>1. WrfTypes /\ InputTypes
    BY <1>1 DEF WrfIInv, WrfTypes
  <2>2. PreIgnitedExactly
    <3> SUFFICES ASSUME wrfAt \in {"run", "parse"}, NEW f \in FireCells
                 PROVE  /\ (stage.tignIn[f] <= stage.tignInTime) = (Valid(ignition[f \div Fmr]) /\ burnable[f \div Fmr])
                        /\ Valid(ignition[f \div Fmr]) /\ burnable[f \div Fmr]
                             => stage.tignIn[f] = ignition[f \div Fmr]
      BY DEF PreIgnitedExactly
    <3>1. Injected
      BY <1>1 DEF WrfIInv, StageInv
    <3>2. /\ stage.tignIn[f] <= stage.tignInTime <=> Ignited(f \div Fmr)
          /\ Ignited(f \div Fmr) => stage.tignIn[f] = ignition[f \div Fmr]
      BY <2>1, <3>1, InjectedIs
    <3>3. burnable[f \div Fmr] \in BOOLEAN
      BY <2>1, CellOfFireCell DEF InputTypes
    <3> QED
      BY <3>2, <3>3 DEF Ignited, Valid
  <2>3. OutputsAreTheModels
    BY <1>1 DEF WrfIInv, OutputInv, OutputsAreTheModels, OutputsAreExpected, Target, Results
  <2>4. StagesAreRemoved
    BY <1>1 DEF WrfIInv, DirsInv, StagesAreRemoved, Using
  <2> QED
    BY <2>2, <2>3, <2>4 DEF WrfStepIsSound
<1> QED
  BY <1>1, WrfInvariant, PTL
=============================================================================
