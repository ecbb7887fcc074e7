---------------------------- MODULE NestGeometry ----------------------------
(***************************************************************************)
(* models/wrf_config.py: from a scenario's extent, resolutions and nest    *)
(* fraction to the nested domains, and from those and its period to what   *)
(* namelist.input and namelist.wps tell WRF.                               *)
(*                                                                         *)
(* Lengths are whole multiples of a unit as fine as one likes, the nest    *)
(* fraction is in percent, times are in minutes from a midnight.  The      *)
(* sections of the namelists that hold constants of the physics are left   *)
(* out.                                                                    *)
(***************************************************************************)
EXTENDS Integers, Sequences

CONSTANT Scenarios   \* what load_scenario_yaml or a caller may ask for

Positive == Nat \ {0}
ASSUME ScenarioAssumption ==
    \A s \in Scenarios :
        /\ s.extent \in Nat /\ s.resolutions \in Seq(Positive)   \* coarsest first
        /\ s.fraction \in Nat /\ s.mesh \in Nat                   \* nest_fraction, fire_mesh_ratio
        /\ s.start \in Nat /\ s.duration \in Nat
        /\ s.step \in Nat /\ s.km \in Positive   \* time_step_s (0: none), units in a kilometre

VARIABLES scenario,
          nestAt,     \* "solve", "render", "done" or "raised"
          domains,    \* the DomainSpecs so far, coarsest first
          namelists   \* what was written: none, or a record

nestVars == <<scenario, nestAt, domains, namelists>>

NestStart(s) == scenario = s /\ nestAt = "solve" /\ domains = <<>> /\ namelists = <<>>
NestInit == \E s \in Scenarios : NestStart(s)

-----------------------------------------------------------------------------
\* Mutated form: no floor.
AsComputed(floor, n) == n

AtLeast(floor, n) == IF n < floor THEN floor ELSE n

\* Python's round of n / d: halves go to the even neighbour.
Rounded(n, d) ==
    LET down == n \div d
        twice == 2 * (n % d)
    IN  IF twice > d \/ (twice = d /\ down % 2 = 1) THEN down + 1 ELSE down

\* from_simple: 3 km when no resolution is given.
Resolutions == IF scenario.resolutions = <<>> THEN <<3 * scenario.km>> ELSE scenario.resolutions
Level == Len(domains)
Parent == domains[Level]

Coarsest ==
    /\ nestAt = "solve" /\ domains = <<>>
    /\ domains' = <<[dx |-> Resolutions[1], parent |-> 1, ratio |-> 1, start |-> 1, sr |-> 0,
                     nx |-> AtLeast(20, Rounded(scenario.extent, Resolutions[1]))]>>
    /\ UNCHANGED <<scenario, nestAt, namelists>>

\* Mutated form: the nest is placed by its parent's cells alone.
StartAtHalf(nx, cells) == AtLeast(1, nx \div 2 + 1)
\* Mutated form: the remaining cells are all to its west.
StartFlush(nx, cells) == AtLeast(1, nx - cells + 1)

StartOf(nx, cells) == AtLeast(1, ((nx - cells) \div 2) + 1)
CellsOf(nx) == AtLeast(4, Rounded(scenario.fraction * nx, 100))

\* Mutated form: the ratio need not be exact.
RefinesRoughly(dx) == Rounded(Parent.dx, dx) >= 2

Refines(dx) == LET ratio == Rounded(Parent.dx, dx) IN ratio >= 2 /\ ratio * dx = Parent.dx
Nest ==
    /\ nestAt = "solve" /\ Level \in 1..(Len(Resolutions) - 1)
    /\ LET dx == Resolutions[Level + 1]
           ratio == Rounded(Parent.dx, dx)
           cells == CellsOf(Parent.nx)
       IN  /\ Refines(dx)
           /\ domains' = Append(domains, [dx |-> dx, parent |-> Level, ratio |-> ratio, sr |-> 0,
                                          start |-> StartOf(Parent.nx, cells), nx |-> cells * ratio])
    /\ UNCHANGED <<scenario, nestAt, namelists>>

NotARefinement ==
    /\ nestAt = "solve"
    /\ Level \in 1..(Len(Resolutions) - 1) /\ ~Refines(Resolutions[Level + 1])
    /\ nestAt' = "raised"
    /\ UNCHANGED <<scenario, domains, namelists>>

\* from_simple: the fire mesh is on the innermost domain.
Solved ==
    /\ nestAt = "solve" /\ domains # <<>> /\ Level = Len(Resolutions)
    /\ domains' = [domains EXCEPT ![Level].sr = scenario.mesh]
    /\ nestAt' = "render"
    /\ UNCHANGED <<scenario, namelists>>

\* The last domain with a fire mesh, or the last.
FireDomain ==
    LET meshed == {i \in DOMAIN domains : domains[i].sr > 0}
    IN  IF meshed = {} THEN Len(domains) ELSE CHOOSE i \in meshed : \A j \in meshed : j <= i

\* Six seconds per kilometre of the coarsest domain, unless it is given.
TimeStep == IF scenario.step > 0 THEN scenario.step ELSE AtLeast(1, Rounded(6 * domains[1].dx, scenario.km))

HourMinutes == 60
DayMinutes == 24 * HourMinutes

\* Mutated form: the hours of whole days are counted twice.
RunHoursAll(minutes) == minutes \div HourMinutes

RunHours(minutes) == (minutes % DayMinutes) \div HourMinutes

\* The cell sizes are written in whole metres.
Metres(length) == Rounded(1000 * length, scenario.km)

\* namelist.input names hours, with minutes of "00"; namelist.wps whole instants.
Render ==
    /\ nestAt = "render"
    /\ namelists' = <<[days |-> scenario.duration \div DayMinutes, hours |-> RunHours(scenario.duration),
                       start |-> (scenario.start \div HourMinutes) * HourMinutes,
                       end |-> ((scenario.start + scenario.duration) \div HourMinutes) * HourMinutes,
                       step |-> TimeStep, fire |-> FireDomain,
                       dx |-> [i \in DOMAIN domains |-> Metres(domains[i].dx)],
                       from |-> scenario.start, to |-> scenario.start + scenario.duration]>>
    /\ nestAt' = "done"
    /\ UNCHANGED <<scenario, domains>>

NestNext == Coarsest \/ Nest \/ NotARefinement \/ Solved \/ Render
NestSpec == NestInit /\ [][NestNext]_nestVars

-----------------------------------------------------------------------------
\* The type of the domains; each is made of as many of its parent's cells as it
\* has fine cells per ratio, and has room for the next.
NestTypeOK ==
    /\ nestAt \in {"solve", "render", "done", "raised"}
    /\ domains \in Seq([dx : Positive, parent : Positive, ratio : Positive, start : Positive,
                        nx : Nat, sr : Nat])
    /\ \A i \in DOMAIN domains : domains[i].nx >= 4
    /\ nestAt \in {"render", "done"} => domains # <<>> /\ Len(domains) = Len(Resolutions)
    /\ nestAt = "done" => Len(namelists) = 1

ParentCells(i) == domains[i].nx \div domains[i].ratio   \* of the parent

\* With a nest fraction of at most 1 every nest lies inside its parent, whatever
\* the extent and the floors of 4 and 20 cells make of the sizes.
NestsInsideParents ==
    scenario.fraction <= 100 =>
        \A i \in DOMAIN domains : i > 1 =>
            /\ domains[i].nx % domains[i].ratio = 0
            /\ domains[i].start + ParentCells(i) - 1 <= domains[i - 1].nx

\* and is centred in it: of the margins the western is at most one cell narrower.
NestsCentred ==
    scenario.fraction <= 100 =>
        \A i \in DOMAIN domains : i > 1 =>
            LET west == domains[i].start - 1
                east == domains[i - 1].nx - west - ParentCells(i)
            IN  east - west \in {0, 1}

\* The cells of the domains tile exactly: what a nest covers in its parent is what
\* its own cells cover, on every level, so lengths agree through the whole stack.
\* (The sizes in the namelists are these to the metre: a nest of a third of 1 km is
\* written as 333 m.)
CellsNestExactly ==
    \A i \in DOMAIN domains : i > 1 =>
        /\ domains[i].ratio >= 2
        /\ domains[i].nx * domains[i].dx = ParentCells(i) * domains[i - 1].dx

\* The period WRF runs for is the one WPS prepares, to the hour, when the run
\* starts on the hour: it begins and ends with it and its days and hours add up.
\* (A start within an hour is cut off in namelist.input only.)
RunMatchesPeriod ==
    nestAt = "done" /\ scenario.start % HourMinutes = 0 =>
        LET n == namelists[1] IN
        /\ n.start = n.from /\ n.end <= n.to /\ n.to < n.end + HourMinutes
        /\ n.start + n.days * DayMinutes + n.hours * HourMinutes = n.end

\* The domains fit into each other, and both namelists have one period
\* (wrf_config.py:197-329).
NestsAreSound == NestsInsideParents /\ NestsCentred /\ CellsNestExactly /\ RunMatchesPeriod
=============================================================================
