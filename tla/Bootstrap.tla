------------------------------ MODULE Bootstrap ------------------------------
(***************************************************************************)
(* bootstrap_wrf_sfire_stack (models/wrf_sfire_bootstrap.py): clone and    *)
(* compile WRF-SFIRE and WPS, download and extract WPS_GEOG, each only if  *)
(* it seems to be missing.  It is called again, perhaps for another build, *)
(* after it returned, failed or died.                                      *)
(*                                                                         *)
(* A build stands for the answers to ./configure and the environment (MPI, *)
(* chemistry).  git, the compilers and tar are external: they do their     *)
(* work, reusing the objects they find, or exit with an error.             *)
(***************************************************************************)
EXTENDS Integers, Sequences, FiniteSets

CONSTANTS Builds, NoBuild, BootSetups

WrfExes == {"wrf.exe", "ideal.exe", "real.exe"}
Exes == WrfExes \cup {"wps"}    \* geogrid.exe, ungrib.exe and metgrid.exe
Parts == {"wrf", "wps", "geog"}
Heavy == {"clone", "download", "extract"}

ASSUME BootAssumption ==
    /\ NoBuild \notin Builds
    /\ BootSetups \subseteq [builds : SUBSET Builds, skip : SUBSET Parts,
                             dies : SUBSET Heavy]   \* where the process may die

VARIABLES bootSetup,
          build,       \* the build asked for
          bootAt,      \* the step the call is at
          source,      \* "wrf", "wps" -> the clone: none, part or whole
          configured,  \* the build in configure.wrf, or NoBuild
          objects,     \* the build of WRF's object files, or NoBuild
          exes,        \* executable -> the build it is of, or NoBuild
          archive,     \* WPS_GEOG.tbz: none, part or whole
          geog         \* WPS_GEOG/: none, part or whole

bootVars == <<bootSetup, build, bootAt, source, configured, objects, exes, archive, geog>>
bootTree == <<source, configured, objects, exes>>
geogFiles == <<archive, geog>>

BootSteps == {"out", "wrf", "clean", "configure", "em_fire", "em_real", "wps", "compileWps",
              "geog", "extract", "returned"}

BootStart(s) ==
    /\ bootSetup = s /\ build = NoBuild /\ bootAt = "out"
    /\ source = [c \in {"wrf", "wps"} |-> "none"] /\ configured = NoBuild /\ objects = NoBuild
    /\ exes = [e \in Exes |-> NoBuild] /\ archive = "none" /\ geog = "none"
BootInit == \E s \in BootSetups : BootStart(s)

Built(es) == \A e \in es : exes[e] # NoBuild
To(step) == bootAt' = step /\ UNCHANGED <<bootSetup, build>>

-----------------------------------------------------------------------------
BootCall(b) ==
    /\ bootAt \in {"out", "returned"} /\ b \in bootSetup.builds
    /\ bootAt' = "wrf" /\ build' = b
    /\ UNCHANGED <<bootSetup, bootTree, geogFiles>>

\* The clone of either, when there is no directory of its name.
Clone(c) ==
    /\ bootAt = c /\ c \notin bootSetup.skip /\ source[c] = "none"
    /\ source' = [source EXCEPT ![c] = "whole"]
    /\ UNCHANGED <<bootSetup, build, bootAt, configured, objects, exes, geogFiles>>

\* Mutated form: two executables are enough.
NeededFew == WrfExes \ {"real.exe"}

Needed == WrfExes

\* With all binaries there, whatever their build, the rest is skipped.
SkipWrf ==
    /\ bootAt = "wrf"
    /\ "wrf" \in bootSetup.skip \/ (source["wrf"] # "none" /\ Built(Needed))
    /\ To("wps") /\ UNCHANGED <<bootTree, geogFiles>>

MakeWrf ==
    /\ bootAt = "wrf" /\ "wrf" \notin bootSetup.skip /\ source["wrf"] # "none" /\ ~Built(Needed)
    /\ To("clean") /\ UNCHANGED <<bootTree, geogFiles>>

\* Mutated form: an earlier compilation goes on.
NoClean == bootAt = "clean" /\ To("configure") /\ UNCHANGED <<bootTree, geogFiles>>

\* Mutated form: ./clean without -a leaves the executables in main/.
CleanObjects ==
    /\ bootAt = "clean" /\ To("configure")
    /\ objects' = NoBuild /\ configured' = NoBuild
    /\ UNCHANGED <<source, exes, geogFiles>>

\* ./clean -a takes objects, executables and configure.wrf.
Clean ==
    /\ bootAt = "clean" /\ To("configure")
    /\ IF configured = NoBuild THEN UNCHANGED bootTree
       ELSE /\ configured' = NoBuild /\ objects' = NoBuild
            /\ exes' = [e \in Exes |-> IF e \in WrfExes THEN NoBuild ELSE exes[e]]
            /\ UNCHANGED source
    /\ UNCHANGED geogFiles

\* Part of a clone cannot be configured.
Configure ==
    /\ bootAt = "configure" /\ source["wrf"] = "whole" /\ To("em_fire")
    /\ configured' = build
    /\ UNCHANGED <<source, objects, exes, geogFiles>>

CompileMakes(case) == IF case = "em_fire" THEN {"wrf.exe", "ideal.exe"} ELSE {"wrf.exe", "real.exe"}
ObjectsOf == IF objects = NoBuild THEN configured ELSE objects
Compile(case) ==
    /\ bootAt = case /\ To(IF case = "em_fire" THEN "em_real" ELSE "wps")
    /\ objects' = ObjectsOf
    /\ exes' = [e \in Exes |-> IF e \in CompileMakes(case) THEN objects' ELSE exes[e]]
    /\ UNCHANGED <<source, configured, geogFiles>>

SkipWps ==
    /\ bootAt = "wps"
    /\ "wps" \in bootSetup.skip \/ (source["wps"] # "none" /\ Built({"wps"}))
    /\ To("geog") /\ UNCHANGED <<bootTree, geogFiles>>

\* Configured against WRF, and compiled.
MakeWps ==
    /\ bootAt = "wps" /\ "wps" \notin bootSetup.skip /\ source["wps"] # "none" /\ ~Built({"wps"})
    /\ To("compileWps") /\ UNCHANGED <<bootTree, geogFiles>>
CompileWps ==
    /\ bootAt = "compileWps" /\ source["wps"] = "whole" /\ To("geog")
    /\ exes' = [exes EXCEPT !["wps"] = build]
    /\ UNCHANGED <<source, configured, objects, geogFiles>>

\* A directory that is not empty is taken for the data.
SkipGeog ==
    /\ bootAt = "geog" /\ ("geog" \in bootSetup.skip \/ geog # "none")
    /\ To("returned") /\ UNCHANGED <<bootTree, geogFiles>>

\* Any file of the archive's name is taken for it.
DownloadGeog ==
    /\ bootAt = "geog" /\ "geog" \notin bootSetup.skip /\ geog = "none"
    /\ archive' = IF archive = "none" THEN "whole" ELSE archive
    /\ To("extract") /\ UNCHANGED <<bootTree, geog>>
Extract ==
    /\ bootAt = "extract" /\ archive = "whole"
    /\ geog' = "whole"
    /\ To("returned") /\ UNCHANGED <<bootTree, archive>>

\* A command exits with an error, having made some of its executables or none.
CompileFails ==
    /\ bootAt \in {"em_fire", "em_real"} /\ To("out")
    /\ objects' = ObjectsOf
    /\ \E es \in SUBSET CompileMakes(bootAt) :
          exes' = [e \in Exes |-> IF e \in es THEN objects' ELSE exes[e]]
    /\ UNCHANGED <<source, configured, geogFiles>>
CommandFails ==
    /\ bootAt \in BootSteps \ {"out", "returned"} /\ To("out")
    /\ UNCHANGED <<bootTree, geogFiles>>

\* The process is killed, or its connection lost, while it clones, downloads or
\* extracts; part of an archive can only be extracted in part.
DiesAt(what, step) == what \in bootSetup.dies /\ bootAt = step /\ To("out")
BootDies ==
    \/ \E c \in {"wrf", "wps"} :
         DiesAt("clone", c) /\ source[c] = "none" /\ source' = [source EXCEPT ![c] = "part"]
         /\ UNCHANGED <<configured, objects, exes, geogFiles>>
    \/ DiesAt("download", "geog") /\ geog = "none" /\ archive = "none" /\ archive' = "part"
       /\ UNCHANGED <<bootTree, geog>>
    \/ bootAt = "extract" /\ ("extract" \in bootSetup.dies \/ archive = "part") /\ To("out")
       /\ geog' = "part" /\ UNCHANGED <<bootTree, archive>>

BootNext ==
    \/ \E b \in Builds : BootCall(b)
    \/ \E c \in {"wrf", "wps"} : Clone(c)
    \/ SkipWrf \/ MakeWrf \/ Clean \/ Configure \/ Compile("em_fire") \/ Compile("em_real")
    \/ SkipWps \/ MakeWps \/ CompileWps \/ SkipGeog \/ DownloadGeog \/ Extract
    \/ CompileFails \/ CommandFails \/ BootDies

BootSpec == BootInit /\ [][BootNext]_bootVars

-----------------------------------------------------------------------------
\* The type of the state; where there are executables there are objects.
BootTypeOK ==
    /\ build \in Builds \cup {NoBuild} /\ configured \in Builds \cup {NoBuild}
    /\ objects \in Builds \cup {NoBuild} /\ exes \in [Exes -> Builds \cup {NoBuild}]
    /\ bootAt \in BootSteps /\ archive \in {"none", "part", "whole"} /\ geog \in {"none", "part", "whole"}
    /\ \A c \in {"wrf", "wps"} : source[c] \in {"none", "part", "whole"}
    /\ \A e \in WrfExes : exes[e] # NoBuild => objects # NoBuild

\* A call that returns has left everything installed that it was not told to
\* skip, also when calls before it failed anywhere or died in a compilation; a
\* call that dies while it clones, downloads or extracts is another matter.
ReturnedIsInstalled ==
    bootAt = "returned" /\ bootSetup.dies = {} =>
        /\ "wrf" \notin bootSetup.skip => Built(WrfExes)
        /\ "wps" \notin bootSetup.skip => Built({"wps"})
        /\ "geog" \notin bootSetup.skip => geog = "whole"

\* The executables of WRF are of the build in configure.wrf, never a mixture with
\* the objects of an earlier one that was interrupted.
ExesMatchConfiguration == \A e \in WrfExes : exes[e] \in {NoBuild, configured}

\* The installation is complete when a call returns, and of one build at any time
\* (wrf_sfire_bootstrap.py:181-380).
InstallIsSound == ReturnedIsInstalled /\ ExesMatchConfiguration
=============================================================================
