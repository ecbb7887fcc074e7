------------------------------ MODULE WpsChain ------------------------------
(***************************************************************************)
(* Meteorology for real.exe (drivers/wps_meteo.py): run() downloads ERA5   *)
(* into two GRIB files, lets geogrid, ungrib (twice) and metgrid work in   *)
(* one directory, moves what metgrid made into met_em and patches it.  It  *)
(* is called again, for the same or another request, in the same           *)
(* directory, after it ended, failed or died.                              *)
(*                                                                         *)
(* Time is counted in the six hours between two fields, from the first     *)
(* hour of a month; two months of MonthDays days are modelled.  CDS and    *)
(* the executables are external: they do what they are asked, or fail.     *)
(***************************************************************************)
EXTENDS Integers, Sequences

CONSTANTS WpsHorizon, MonthDays,
          Places,        \* centre and size of the domain
          WpsSetups

Hours == 0 .. WpsHorizon
Windows == {w \in [start : Hours, end : Hours] : w.start <= w.end}

ASSUME WpsAssumption ==
    /\ WpsHorizon \in Nat /\ MonthDays \in Nat \ {0}
    /\ WpsHorizon \div 4 < 2 * MonthDays
    /\ WpsSetups \subseteq [windows : SUBSET Windows, places : SUBSET Places,
                            skips : BOOLEAN,   \* skip_download may be set
                            nco : BOOLEAN]     \* ncap2 is installed

VARIABLES wpsSetup,
          request,   \* the arguments of run(), while it runs
          wpsAt,     \* its step, as an index of Steps; 0: not running
          grib,      \* GRIB file -> the place and the hours in it, if it is whole
          exists,    \* GRIB files there are
          geo,       \* geo_em.d01.nc: the place, if it exists
          ungribbed, \* GRIB file -> <<hour, place>> of the intermediate files
          made,      \* <<hour, place>> of met_em files beside met_em/
          metFiles,  \* <<hour, place>> of the files in met_em/
          patched,   \* those of them that are patched
          found      \* made and metFiles when run() was called

wpsVars == <<wpsSetup, request, wpsAt, grib, exists, geo, ungribbed, made, metFiles, patched, found>>

Gribs == {"pressure", "surface"}
DayOf(t) == t \div 4
Month(t) == DayOf(t) \div MonthDays
DayOfMonth(t) == DayOf(t) % MonthDays
Steps == <<"pressure", "surface", "geogrid", "ungribPressure", "ungribSurface", "metgrid", "move", "patch", "returned">>
UngribStep == [pressure |-> "ungribPressure", surface |-> "ungribSurface"]
NoGrib == [place |-> {}, hours |-> {}]
Period(r) == r.window.start .. r.window.end
OneMonth(r) == Month(r.window.start) = Month(r.window.end)

\* Mutated form: the last day is left out.
AskedShort(r) ==
    LET days == {DayOfMonth(t) : t \in r.window.start .. r.window.end - 1}
    IN  {t \in 0 .. 8 * MonthDays - 1 : Month(t) = Month(r.window.start) /\ DayOfMonth(t) \in days}

\* The hours of the request to CDS: the numbers of all days, in the month of the
\* start.
Asked(r) ==
    LET days == {DayOfMonth(t) : t \in Period(r)}
    IN  {t \in 0 .. 8 * MonthDays - 1 : Month(t) = Month(r.window.start) /\ DayOfMonth(t) \in days}

WpsStart(s) ==
    /\ wpsSetup = s /\ request = {} /\ wpsAt = 0
    /\ grib = [x \in Gribs |-> NoGrib] /\ exists = {} /\ geo = {}
    /\ ungribbed = [x \in Gribs |-> {}] /\ made = {} /\ metFiles = {} /\ patched = {}
    /\ found = [made |-> {}, met |-> {}]
WpsInit == \E s \in WpsSetups : WpsStart(s)

-----------------------------------------------------------------------------
Run(w, place, skip) ==
    /\ wpsAt \in {0, Len(Steps)} /\ w \in wpsSetup.windows /\ place \in wpsSetup.places /\ (skip => wpsSetup.skips)
    /\ request' = {[window |-> w, place |-> place, skip |-> skip]}
    /\ wpsAt' = 1 /\ found' = [made |-> made, met |-> metFiles]
    /\ UNCHANGED <<wpsSetup, grib, exists, geo, ungribbed, made, metFiles, patched>>

Req == CHOOSE r \in request : TRUE
At(name) == wpsAt # 0 /\ Steps[wpsAt] = name
Proceed == wpsAt' = wpsAt + 1

\* _download_era5 writes the file in place: while it does, and if it fails,
\* there is part of a file.
FetchEra5(x) ==
    /\ At(x) /\ ~(Req.skip /\ x \in exists)
    /\ exists' = exists \cup {x}
    /\ \/ Proceed /\ grib' = [grib EXCEPT ![x] = [place |-> {Req.place}, hours |-> Asked(Req)]]
       \/ wpsAt' = 0 /\ grib' = [grib EXCEPT ![x] = NoGrib]
    /\ UNCHANGED <<wpsSetup, request, geo, ungribbed, made, metFiles, patched, found>>

SkipDownload(x) ==
    /\ At(x) /\ Req.skip /\ x \in exists /\ Proceed
    /\ UNCHANGED <<wpsSetup, request, grib, exists, geo, ungribbed, made, metFiles, patched, found>>

Geogrid ==
    /\ At("geogrid") /\ Proceed /\ geo' = {Req.place}
    /\ UNCHANGED <<wpsSetup, request, grib, exists, ungribbed, made, metFiles, patched, found>>

\* Of the window in the namelist; intermediate files of earlier runs stay.
Ungrib(x) ==
    /\ At(UngribStep[x]) /\ grib[x] # NoGrib /\ Proceed
    /\ ungribbed' = [ungribbed EXCEPT ![x] =
           LET hours == grib[x].hours \cap Period(Req)
           IN  {f \in @ : f[1] \notin hours} \cup (hours \X grib[x].place)]
    /\ UNCHANGED <<wpsSetup, request, grib, exists, geo, made, metFiles, patched, found>>

\* metgrid.exe needs every hour of the window in both.
Metgrid ==
    /\ At("metgrid") /\ Proceed
    /\ \A x \in Gribs : \A t \in Period(Req) : \E p \in Places : <<t, p>> \in ungribbed[x]
    /\ made' = {f \in made : f[1] \notin Period(Req)} \cup (Period(Req) \X geo)
    /\ UNCHANGED <<wpsSetup, request, grib, exists, geo, ungribbed, metFiles, patched, found>>

\* Mutated form: a file in met_em/ does not keep the new one out.
MovedAll == made

\* What is in met_em/ already stays, and its successor where it was made; the
\* others are moved one by one.
Moved == {f \in made : \A g \in metFiles : g[1] # f[1]}
Move ==
    /\ At("move")
    /\ \/ /\ \E f \in Moved : /\ \A g \in Moved : f[1] <= g[1]
                              /\ metFiles' = metFiles \cup {f} /\ made' = made \ {f}
          /\ wpsAt' = wpsAt
       \/ Moved = {} /\ Proceed /\ UNCHANGED <<made, metFiles>>
    /\ UNCHANGED <<wpsSetup, request, grib, exists, geo, ungribbed, patched, found>>

\* Mutated form: the first file only.
PatchFirst ==
    /\ At("patch") /\ Proceed
    /\ patched' = IF wpsSetup.nco THEN patched \cup {f \in metFiles : f[1] = Req.window.start} ELSE patched
    /\ UNCHANGED <<wpsSetup, request, grib, exists, geo, ungribbed, made, metFiles, found>>

\* All files in met_em/; run() returns.
Patch ==
    /\ At("patch") /\ Proceed
    /\ patched' = IF wpsSetup.nco THEN metFiles ELSE patched
    /\ UNCHANGED <<wpsSetup, request, grib, exists, geo, ungribbed, made, metFiles, found>>

\* An executable fails, or the process dies.
WpsFails ==
    /\ wpsAt \in 1 .. Len(Steps) - 1 /\ wpsAt' = 0
    /\ UNCHANGED <<wpsSetup, request, grib, exists, geo, ungribbed, made, metFiles, patched, found>>

WpsNext ==
    \/ \E w \in Windows, p \in Places, skip \in BOOLEAN : Run(w, p, skip)
    \/ \E x \in Gribs : FetchEra5(x) \/ SkipDownload(x) \/ Ungrib(x)
    \/ Geogrid \/ Metgrid \/ Move \/ Patch \/ WpsFails

WpsSpec == WpsInit /\ [][WpsNext]_wpsVars

-----------------------------------------------------------------------------
\* Types; of an hour there is one file in met_em/, and only such are patched.
WpsTypeOK ==
    /\ wpsAt \in 0 .. Len(Steps) /\ exists \subseteq Gribs /\ geo \subseteq Places
    /\ \A x \in Gribs : grib[x].place \subseteq Places /\ grib[x].hours \subseteq 0 .. 8 * MonthDays - 1
    /\ made \subseteq Hours \X Places /\ metFiles \subseteq Hours \X Places /\ patched \subseteq metFiles
    /\ \A f, g \in metFiles : f[1] = g[1] => f = g

\* When run() returns, met_em/ holds a file of every six hours asked for, patched
\* if ncap2 is installed: whatever earlier runs left when they failed or died, torn
\* GRIB files that skip_download accepts included.
ReturnedIsComplete ==
    At("returned") =>
        \A t \in Period(Req) : \E f \in metFiles : f[1] = t /\ (wpsSetup.nco => f \in patched)

\* A file that was in met_em/ before stays, and a file of another hour that a run
\* that died had left beside it is moved there with the others; every other file
\* is of the hours and the place asked for.  In particular, of an hour that was not
\* there before the file is of the right place, and runs for one place return it.
OnlyWhatWasThereIsAnothers ==
    At("returned") =>
        \A f \in metFiles : \/ f \in found.met
                            \/ f \in Period(Req) \X {Req.place}
                            \/ f \in found.made /\ f[1] \notin Period(Req)

Downloaded == At("geogrid") /\ ~Req.skip

\* A request within one month gets every six hours of its window.
DownloadCoversMonth ==
    Downloaded /\ OneMonth(Req) => \A x \in Gribs : Period(Req) \subseteq grib[x].hours

\* met_em/ has all that run() was asked for, and of other calls only what they left
\* there (wps_meteo.py:131-270); a window within a month is downloaded whole
\* (wps_meteo.py:287-316).
WpsIsSound == ReturnedIsComplete /\ OnlyWhatWasThereIsAnothers /\ DownloadCoversMonth

\* The days asked for are those of the range.
DownloadCoversWindow ==
    Downloaded => \A x \in Gribs : Period(Req) \subseteq grib[x].hours
=============================================================================
