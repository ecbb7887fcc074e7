------------------------------- MODULE MCCascade -------------------------------
(***************************************************************************)
(* The parts of the forecast chain, from the command line to WRF-SFIRE,    *)
(* checked side by side in one run.  They share no state, only what        *)
(* Cascade says of each of them: a behaviour is one of the part that part  *)
(* names, and the others stay where they start.                            *)
(***************************************************************************)
EXTENDS WrfRun, WpsChain, Bootstrap, PipelineBuilder, NestGeometry, DataResolve, SlurmJob, Cascade

VARIABLE part
parts == <<wrfVars, wpsVars, bootVars, planVars, nestVars, dataVars, jobVars, cascadeVars>>
vars == <<part, parts>>

ASSUME PartsAssumption ==
    /\ WrfSetups # {} /\ IgnitionTimes # {} /\ Reaches # {}
    /\ WpsSetups # {} /\ BootSetups # {} /\ PlanSetups # {} /\ Scenarios # {}
    /\ DataSetups # {} /\ JobSetups # {} /\ CascadeSetups # {}

-----------------------------------------------------------------------------
(* --- WrfRun -------------------------------------------------------------- *)

MCIgnitionTimes == {-2, -1, 0, 10}
MCReaches == {{}, {0}, FireCells}
MCRun == [real |-> "unused", wind |-> "none", extra |-> TRUE, refetch |-> FALSE,
          keep |-> FALSE, dies |-> FALSE, lingers |-> FALSE, runs |-> 2]
MCRefetched == {[MCRun EXCEPT !.refetch = TRUE, !.keep = TRUE, !.extra = FALSE]}
MCWrfSetups == {MCRun, [MCRun EXCEPT !.wind = "apart"], [MCRun EXCEPT !.real = "empty"],
                [MCRun EXCEPT !.real = "files", !.wind = "aligned", !.lingers = TRUE, !.runs = 1],
                [MCRun EXCEPT !.dies = TRUE, !.extra = FALSE]} \cup MCRefetched

(* --- WpsChain ------------------------------------------------------------ *)

MCPeriod(a, b) == [start |-> a, end |-> b]
MCCall(ws, ps, skips, nco) == [windows |-> ws, places |-> ps, skips |-> skips, nco |-> nco]
MCWpsSetups == {MCCall({MCPeriod(2, 5)}, {"p"}, TRUE, nco) : nco \in BOOLEAN}
               \cup {MCCall({MCPeriod(2, 5), MCPeriod(2, 4)}, {"p"}, TRUE, TRUE),
                     MCCall({MCPeriod(2, 3), MCPeriod(3, 3)}, {"p", "q"}, FALSE, TRUE)}
MCMonthEnd == {MCCall({MCPeriod(2, 5), MCPeriod(4, 8)}, {"p"}, TRUE, TRUE)}

(* --- Bootstrap ----------------------------------------------------------- *)

MCBootSetups == [builds : {{"a", "b"}}, skip : {{}, {"wrf"}, {"wps", "geog"}}, dies : {{}, Heavy}]

(* --- PipelineBuilder ----------------------------------------------------- *)

MCOffer(n, p, r) == [name |-> n, produces |-> p, requires |-> r]
MCDiamond == {MCOffer("a", {"x"}, {}), MCOffer("b", {"y"}, {"x"}), MCOffer("c", {"z"}, {"x", "y", "w"})}
MCLooped == {MCOffer("a", {"x"}, {"y"}), MCOffer("b", {"y"}, {"x"}), MCOffer("c", {"z"}, {"x"})}
MCRivals == {MCOffer("a", {"x", "y"}, {}), MCOffer("a", {"x"}, {}), MCOffer("b", {"y"}, {"x"}),
             MCOffer("c", {"z"}, {"y"}), MCOffer("c", {}, {"x"})}
MCPlan(o, r, t, c, e) == [offers |-> o, replaces |-> r, targets |-> t, chain |-> c, edits |-> e]
MCPlanSetups ==
    {MCPlan(o, r, {"z"}, <<>>, 0) : o \in {MCDiamond, MCLooped, MCRivals}, r \in BOOLEAN}
    \cup {MCPlan(MCDiamond, FALSE, {"z"}, <<>>, 2)}
    \cup {MCPlan({}, FALSE, {}, <<{"a"}, {"b", "c"}>>, 2)}
    \cup {MCPlan({}, FALSE, {}, links, 0) :
            links \in {<<{"a"}, {"b"}, {"c"}>>, <<{"a"}, {}, {"c"}>>, <<{"a"}, {"b"}, {"a", "c"}>>}}

(* --- NestGeometry -------------------------------------------------------- *)

MCScenarios ==
    [extent : {90, 300, 1000},
     resolutions : {<<>>, <<8>>, <<9, 3, 1>>, <<30, 10, 5>>, <<10, 4>>, <<100, 50>>, <<6, 9>>},
     fraction : {1, 33, 50, 100, 130}, mesh : {0, 4}, start : {720, 750},
     duration : {90, 1500, 2880}, step : {0, 7}, km : {3, 10}]

(* --- DataResolve --------------------------------------------------------- *)

MCNeed(n, k, cap, required) == [name |-> n, kind |-> k, cap |-> cap, required |-> required]
MCHeld(k, r, ds) == [kind |-> k, res |-> r, axis |-> ds, rows |-> ds \X {r},
                     fixed |-> IF k = "static" THEN {r} ELSE {}]
MCByKind(t, f) == [v \in NeedVars |-> IF v = "f" THEN f ELSE t]
MCNeeds == {<<MCNeed("w", "time", 0, TRUE), MCNeed("d", "time", 0, TRUE), MCNeed("f", "static", 30, TRUE)>>,
            <<MCNeed("w", "time", 0, TRUE), MCNeed("d", "time", 0, FALSE), MCNeed("f", "static", 30, FALSE)>>,
            <<MCNeed("w", "time", 30, TRUE), MCNeed("d", "time", 30, TRUE)>>,
            <<MCNeed("f", "static", 30, FALSE), MCNeed("f", "static", 30, TRUE)>>,
            <<MCNeed("f", "time", 0, FALSE)>>}
MCMakers == {MCByKind({"w", "d"}, {"f"}), [v \in NeedVars |-> IF v = "f" THEN {} ELSE {v}]}
MCCubes == {MCByKind(Absent, Absent), MCByKind(MCHeld("time", 30, {2, 6}), MCHeld("static", 90, {})),
            [MCByKind(MCHeld("time", 30, 3..4), MCHeld("static", 30, {})) EXCEPT !["w"] = MCHeld("time", 30, 3..5)],
            \* rows of another window, and of another resolution
            [MCByKind(MCHeld("time", 30, 4..4), Absent) EXCEPT !["w"].rows = (2..6) \X {30}, !["d"].rows = @ \cup {<<6, 90>>}],
            \* static, and time rows of what was there before it
            [MCByKind(Absent, Absent) EXCEPT !["w"] = [MCHeld("static", 30, {}) EXCEPT !.rows = {<<6, 30>>}]]}
MCNamed(names) == [s \in Sources |-> [rank |-> IF s = "r" THEN 2 ELSE 1, name |-> names[s]]]
MCDataSetup(n, m, c, s) ==
    [needs |-> n, request |-> [from |-> 3, to |-> 6], makers |-> m, kinds |-> MCByKind("time", "static"),
     resolution |-> 30, cached |-> c, sources |-> s]
MCNobody == [v \in NeedVars |-> {}]
MCDataSetups ==
    {MCDataSetup(n, m, c, [s \in Sources |-> [rank |-> 1, name |-> "n"]]) :
        n \in MCNeeds, m \in MCMakers, c \in MCCubes}
    \cup {MCDataSetup(<<>>, MCNobody, MCByKind(Absent, Absent), MCNamed(names)) :
            names \in {[s \in Sources |-> s], [s \in Sources |-> IF s = "r" THEN "p" ELSE s]}}

(* --- SlurmJob ------------------------------------------------------------ *)

MCJobSetups == [ranks : {4, 5}, slots : {4}, timeout : {5}, poll : {2},
                suspends : BOOLEAN, requeues : BOOLEAN, lag : BOOLEAN]

(* --- Cascade ------------------------------------------------------------- *)

MCScenario(s, d, m, b, p) == [start |-> s, days |-> d, mesh |-> m, build |-> b, pulse |-> p]
MCInvocation(c, y, d, b) == [cli |-> c, yaml |-> y, dry |-> d, bootstrap |-> b]
MCShort == MCScenario(0, 2, 10, FALSE, 1)
MCNested == MCScenario(1, 2, 4, TRUE, 2)
MCLong == MCScenario(0, 5, 10, FALSE, 1)
MCTimes(is, n) == [invocations |-> is, times |-> n]
MCCascadeSetups ==
    {MCTimes({MCInvocation(MCShort, {}, FALSE, FALSE), MCInvocation(MCShort, {}, TRUE, TRUE)}, 3),
     MCTimes({MCInvocation(MCShort, {MCNested}, dry, TRUE) : dry \in BOOLEAN}, 3),
     MCTimes({MCInvocation(MCLong, {}, FALSE, FALSE)}, 3),
     MCTimes({MCInvocation(MCShort, {MCNested}, FALSE, TRUE), MCInvocation(MCShort, {}, FALSE, FALSE)}, 2)}

-----------------------------------------------------------------------------
WrfRests ==
    /\ WrfStart(CHOOSE s \in WrfSetups : TRUE)
    /\ InputsAre([c \in GridCells |-> CHOOSE t \in IgnitionTimes : TRUE], [c \in GridCells |-> TRUE],
                 CHOOSE r \in Reaches : TRUE)
WpsRests == WpsStart(CHOOSE s \in WpsSetups : TRUE)
BootRests == BootStart(CHOOSE s \in BootSetups : TRUE)
PlanRests == PlanStart(CHOOSE s \in PlanSetups : TRUE)
NestRests == NestStart(CHOOSE s \in Scenarios : TRUE)
DataRests == DataStart(CHOOSE s \in DataSetups : TRUE)
JobRests == JobStart(CHOOSE s \in JobSetups : TRUE)
CascadeRests == CascadeStart(CHOOSE s \in CascadeSetups : TRUE)

Init ==
    /\ part \in {"wrf", "wps", "boot", "plan", "nest", "data", "job", "cascade"}
    /\ IF part = "wrf" THEN WrfInit ELSE WrfRests
    /\ IF part = "wps" THEN WpsInit ELSE WpsRests
    /\ IF part = "boot" THEN BootInit ELSE BootRests
    /\ IF part = "plan" THEN PlanInit ELSE PlanRests
    /\ IF part = "nest" THEN NestInit ELSE NestRests
    /\ IF part = "data" THEN DataInit ELSE DataRests
    /\ IF part = "job" THEN JobInit ELSE JobRests
    /\ IF part = "cascade" THEN CascadeInit ELSE CascadeRests

Next ==
    /\ UNCHANGED part
    /\ \/ part = "wrf" /\ WrfNext
          /\ UNCHANGED <<wpsVars, bootVars, planVars, nestVars, dataVars, jobVars, cascadeVars>>
       \/ part = "wps" /\ WpsNext
          /\ UNCHANGED <<wrfVars, bootVars, planVars, nestVars, dataVars, jobVars, cascadeVars>>
       \/ part = "boot" /\ BootNext
          /\ UNCHANGED <<wrfVars, wpsVars, planVars, nestVars, dataVars, jobVars, cascadeVars>>
       \/ part = "plan" /\ PlanNext
          /\ UNCHANGED <<wrfVars, wpsVars, bootVars, nestVars, dataVars, jobVars, cascadeVars>>
       \/ part = "nest" /\ NestNext
          /\ UNCHANGED <<wrfVars, wpsVars, bootVars, planVars, dataVars, jobVars, cascadeVars>>
       \/ part = "data" /\ DataNext
          /\ UNCHANGED <<wrfVars, wpsVars, bootVars, planVars, nestVars, jobVars, cascadeVars>>
       \/ part = "job" /\ JobNext
          /\ UNCHANGED <<wrfVars, wpsVars, bootVars, planVars, nestVars, dataVars, cascadeVars>>
       \/ part = "cascade" /\ CascadeNext
          /\ UNCHANGED <<wrfVars, wpsVars, bootVars, planVars, nestVars, dataVars, jobVars>>

Spec == Init /\ [][Next]_vars

\* The type invariant of each part.
ChainTypeOK ==
    /\ WrfTypeOK /\ WpsTypeOK /\ BootTypeOK /\ PlanTypeOK
    /\ NestTypeOK /\ DataTypeOK /\ JobTypeOK /\ CascadeTypeOK
=============================================================================
