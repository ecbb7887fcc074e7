------------------------- MODULE CubeFreshnessProofs -------------------------
(***************************************************************************)
(* Theorems about CubeFreshness, for every set of variables, producers and *)
(* dependencies: types; that a run without crashes, of producers that      *)
(* write whole grids, reports as ok or skipped only what is made from the  *)
(* present inputs; and that with crashes and tiles a run still computes    *)
(* nothing but what is fresh, reports nothing that has no row, and does    *)
(* nothing over that no input of the producer called for.                  *)
(***************************************************************************)
EXTENDS CubeFreshness, TLAPS

Undisturbed == ~Crashes /\ Tiled = {}

\* The three operations on the store and the catalog keep the types.
LEMMA PutTypes ==
    ASSUME TypeOK, NEW S \in SUBSET Vars, NEW c \in {"none", "fill", "whole"},
           NEW late \in SUBSET Vars, Put(S, c, late)
    PROVE  /\ data' \in [Vars -> {"none", "fill", "whole"}]
           /\ outdated' \subseteq Vars \X Vars
           /\ moved' \in [Producers -> SUBSET Vars]
<1>1. MadeFrom(S) \subseteq Vars \X Vars
  BY FreshnessAssumption DEF MadeFrom
<1> QED BY <1>1, FreshnessAssumption DEF TypeOK, Put

LEMMA AddTileTypes ==
    ASSUME TypeOK, NEW v \in Vars, AddTile(v)
    PROVE  rows' \subseteq Vars /\ newer' \subseteq rows' \X rows'
BY DEF TypeOK, AddTile

LEMMA VarKinds ==
    /\ Sources \subseteq Vars /\ Produced \subseteq Vars /\ None \notin Produced
    /\ \A p \in Producers : Outputs[p] \subseteq Produced /\ Outputs[p] \subseteq Vars
    /\ \A p \in Producers : Requires[p] \subseteq Vars
BY FreshnessAssumption DEF Sources, Produced

\* The types of all variables are an invariant, crashes and failing tiles included.
THEOREM FreshnessTypes == Spec => []TypeOK
<1>1. Init => TypeOK
  BY DEF Init, TypeOK, Outcomes, Stages
<1>2. TypeOK /\ [Next]_vars => TypeOK'
  <2> SUFFICES ASSUME TypeOK, [Next]_vars PROVE TypeOK'
    OBVIOUS
  <2>0. forced' \in BOOLEAN
    BY DEF TypeOK, Next, StartRun, vars
  <2> USE <2>0, VarKinds DEF store, catalog
  <2>1. ASSUME NEW v \in Sources, RefetchData(v) PROVE TypeOK'
    <3>1. Put({v}, "whole", {})
      BY <2>1 DEF RefetchData
    <3>2. {v} \in SUBSET Vars /\ {} \in SUBSET Vars
      BY ONLY VarKinds, v \in Sources
    <3>3. /\ data' \in [Vars -> {"none", "fill", "whole"}]
          /\ outdated' \subseteq Vars \X Vars
          /\ moved' \in [Producers -> SUBSET Vars]
      BY <3>1, <3>2, PutTypes
    <3> QED BY <2>1, <3>3 DEF RefetchData, TypeOK
  <2>2. CASE RefetchRow
    <3>1. rows' \subseteq Vars /\ newer' \subseteq rows' \X rows'
      BY <2>2, AddTileTypes DEF RefetchRow, TypeOK
    <3> QED BY <2>2, <3>1 DEF RefetchRow, TypeOK
  <2>3. CASE StartRun \/ EndRun
    BY <2>3 DEF StartRun, EndRun, TypeOK, Outcomes
  <2>4. CASE Crash
    <3>1. PICK torn \in Replacing : /\ data' = [v \in Vars |-> IF v \in torn THEN "fill" ELSE data[v]]
                                    /\ outdated' = outdated \cup MadeFrom(torn)
      BY <2>4 DEF Crash
    <3>2. MadeFrom(torn) \subseteq Vars \X Vars
      BY FreshnessAssumption DEF MadeFrom
    <3> QED BY <2>4, <3>1, <3>2 DEF Crash, TypeOK, Stages
  <2>5. ASSUME NEW p \in Producers, ProducerStep(p) PROVE TypeOK'
    <3>1. CASE WriteOff(p) \/ Skip(p) \/ Start(p)
      BY <3>1 DEF WriteOff, Skip, Start, TypeOK, Outcomes, Stages
    <3>2. CASE Extract(p) \/ StartTiles(p) \/ Retry(p)
      BY <3>2 DEF Extract, StartTiles, Retry, TypeOK, Stages
    <3>3. ASSUME NEW o \in Outputs[p], WriteOutput(p, o) PROVE TypeOK'
      <4>0. o \in Vars /\ moved[p] \in SUBSET Vars
        BY DEF TypeOK
      <4>1. {o} \in SUBSET Vars /\ {} \in SUBSET Vars
        BY ONLY <4>0
      <4>2. /\ data' \in [Vars -> {"none", "fill", "whole"}]
            /\ outdated' \subseteq Vars \X Vars
            /\ moved' \in [Producers -> SUBSET Vars]
        BY <3>3, <4>0, <4>1, PutTypes DEF WriteOutput
      <4> QED BY <3>3, <4>2 DEF WriteOutput, TypeOK
    <3>4. CASE AddRow(p)
      <4>1. open[p] \in Vars
        BY <3>4 DEF AddRow, TypeOK
      <4>2. rows' \subseteq Vars /\ newer' \subseteq rows' \X rows'
        BY <3>4, <4>1, AddTileTypes DEF AddRow
      <4> QED BY <3>4, <4>2 DEF AddRow, TypeOK
    <3>5. CASE Finish(p) \/ Fail(p)
      BY <3>5 DEF Finish, Fail, Return, TypeOK, Outcomes, Stages
    <3>6. CASE FinishTiles(p)
      <4>1. Outputs[p] \in SUBSET Vars /\ moved[p] \in SUBSET Vars
        BY DEF TypeOK
      <4>2. /\ data' \in [Vars -> {"none", "fill", "whole"}]
            /\ outdated' \subseteq Vars \X Vars
            /\ moved' \in [Producers -> SUBSET Vars]
        BY <3>6, <4>1, PutTypes DEF FinishTiles
      <4> QED BY <3>6, <4>2 DEF FinishTiles, Return, TypeOK, Outcomes, Stages
    <3> QED BY <2>5, <3>1, <3>2, <3>3, <3>4, <3>5, <3>6 DEF ProducerStep
  <2>6. CASE UNCHANGED vars
    BY <2>6 DEF vars, TypeOK
  <2> QED BY <2>1, <2>2, <2>3, <2>4, <2>5, <2>6 DEF Next
<1> QED BY <1>1, <1>2, PTL DEF Spec

\* Writing whole content made from inputs that have not changed: the pairs of
\* its own are gone, and those of its consumers have come.
LEMMA PutWhole ==
    ASSUME TypeOK, NEW v \in Vars, Put({v}, "whole", {})
    PROVE  /\ data' = [data EXCEPT ![v] = "whole"]
           /\ \A e \in outdated' : \/ e \in outdated /\ e[1] # v
                                   \/ e[2] = v /\ \E q \in Producers : e[1] \in Outputs[q] /\ v \in Requires[q]
           /\ \A q \in Producers : moved'[q] = moved[q] \/ (v \in Requires[q] /\ stage[q] \in {"write", "tiles"})
<1>1. data' = [data EXCEPT ![v] = "whole"]
  BY DEF Put, TypeOK
<1>2. ASSUME NEW e \in outdated'
      PROVE  \/ e \in outdated /\ e[1] # v
             \/ e[2] = v /\ \E q \in Producers : e[1] \in Outputs[q] /\ v \in Requires[q]
  <2>1. (e \in outdated /\ e[1] # v) \/ e \in MadeFrom({v})
    BY <1>2 DEF Put
  <2>2. CASE e \in MadeFrom({v})
    <3>1. PICK q \in Producers : e \in Outputs[q] \X (Requires[q] \cap {v})
      BY <2>2 DEF MadeFrom
    <3> QED BY <3>1
  <2> QED BY <2>1, <2>2
<1>3. \A q \in Producers : moved'[q] = moved[q] \/ (v \in Requires[q] /\ stage[q] \in {"write", "tiles"})
  BY DEF Put, TypeOK
<1> QED BY <1>1, <1>2, <1>3

\* In a run no consumer of an output that is being written has started.
LEMMA ConsumersWait ==
    ASSUME IInv, NEW p \in Producers, NEW q \in Producers, NEW o \in Outputs[p],
           stage[p] # "idle", o \in Requires[q]
    PROVE  running /\ outcome[q] \notin Good \cup {"running"} /\ stage[q] = "idle" /\ q # p
<1>1. p \in After[q] /\ q # p
  BY FreshnessAssumption
<1>2. running /\ outcome[p] = "running"
  BY DEF IInv, StepsOfRun
<1> QED BY <1>1, <1>2 DEF IInv, StepsOfRun, Good

\* The steps that write no array and no row.
LEMMA ControlKeepsFresh ==
    ASSUME TypeOK, IInv, Undisturbed,
           \/ StartRun \/ EndRun \/ UNCHANGED vars
           \/ \E p \in Producers : WriteOff(p) \/ Start(p) \/ Retry(p) \/ Fail(p)
    PROVE  IInv'
<1>1. UNCHANGED <<store, catalog, user, open>>
  BY DEF StartRun, EndRun, vars, WriteOff, Start, Retry, Fail, Return
<1>2. OrderTellsAge' /\ OutdatedByInput' /\ WholeInRows'
  BY <1>1 DEF IInv, OrderTellsAge, Unstamped, OutdatedByInput, WholeInRows, store, catalog
<1>3. StepsOfRun'
  <2>1. CASE StartRun
    BY <2>1 DEF IInv, StepsOfRun, StartRun, Undisturbed, Good
  <2>2. CASE EndRun
    BY <2>2 DEF IInv, StepsOfRun, EndRun, Good, Final
  <2>3. CASE UNCHANGED vars
    BY <2>3 DEF IInv, StepsOfRun, vars
  <2>4. ASSUME NEW p \in Producers, WriteOff(p) PROVE StepsOfRun'
    BY <2>4 DEF IInv, StepsOfRun, WriteOff, TypeOK, Good
  <2>5. ASSUME NEW p \in Producers, Start(p) PROVE StepsOfRun'
    BY <2>5 DEF IInv, StepsOfRun, Start, ReadyToStart, TypeOK, Undisturbed, Good
  <2>6. ASSUME NEW p \in Producers, Retry(p) PROVE StepsOfRun'
    BY <2>6 DEF IInv, StepsOfRun, Retry, MayFail, TypeOK
  <2>7. ASSUME NEW p \in Producers, Fail(p) PROVE StepsOfRun'
    BY <2>7 DEF IInv, StepsOfRun, Fail, MayFail, Return, TypeOK, Good
  <2> QED BY <2>1, <2>2, <2>3, <2>4, <2>5, <2>6, <2>7
<1>4. WrittenIsFresh'
  BY <1>1 DEF IInv, WrittenIsFresh, Fresh, UpToDate, StartRun, EndRun, vars, WriteOff, Start,
         Retry, Fail, MayFail, Return, TypeOK, store
<1>5. ReportedIsFresh'
  BY <1>1 DEF IInv, ReportedIsFresh, Fresh, UpToDate, StartRun, EndRun, vars, WriteOff, Start,
         Retry, Fail, Return, TypeOK, store, Good
<1> QED BY <1>2, <1>3, <1>4, <1>5 DEF IInv

\* The user writes a source between runs.
LEMMA RefetchKeepsFresh ==
    ASSUME TypeOK, IInv, Undisturbed, NEW v \in Sources, RefetchData(v)
    PROVE  IInv'
<1>1. /\ v \in Vars /\ v # None /\ Put({v}, "whole", {}) /\ user = None /\ ~running
      /\ user' = v /\ UNCHANGED <<catalog, running, outcome, stage, left, open>>
  BY VarKinds, FreshnessAssumption DEF RefetchData, Undisturbed
<1>2. OrderTellsAge'
  <2> SUFFICES ASSUME NEW e \in outdated', e[1] \in rows
               PROVE  <<e[2], e[1]>> \in newer \/ Unstamped(e[2])'
    BY <1>1 DEF OrderTellsAge, catalog
  <2>1. CASE e[2] = v
    BY <1>1, <2>1 DEF Unstamped
  <2>2. CASE e \in outdated
    <3>1. e[2] # None
      BY <2>2, FreshnessAssumption DEF TypeOK
    <3>2. <<e[2], e[1]>> \in newer \/ Unstamped(e[2])
      BY <2>2 DEF IInv, OrderTellsAge
    <3> QED BY <1>1, <3>1, <3>2 DEF Unstamped
  <2> QED BY <1>1, <2>1, <2>2, PutWhole
<1>3. OutdatedByInput'
  BY <1>1, PutWhole DEF IInv, OutdatedByInput
<1>4. WholeInRows'
  BY <1>1, PutWhole DEF IInv, WholeInRows, catalog, TypeOK
<1>5. StepsOfRun' /\ WrittenIsFresh' /\ ReportedIsFresh'
  BY <1>1 DEF IInv, StepsOfRun, WrittenIsFresh, ReportedIsFresh
<1> QED BY <1>2, <1>3, <1>4, <1>5 DEF IInv

\* A new row is the latest, so it tells on every output made from its variable;
\* the variable itself must be up to date, or its age would be forgotten.
LEMMA RowKeepsOrder ==
    ASSUME TypeOK, OrderTellsAge, NEW v \in Vars, AddTile(v), UNCHANGED outdated,
           \A u \in Vars : <<v, u>> \notin outdated,
           \A u \in Vars : Unstamped(u) => u = v \/ Unstamped(u)'
    PROVE  OrderTellsAge'
<1> SUFFICES ASSUME NEW e \in outdated, e[1] \in rows'
             PROVE  <<e[2], e[1]>> \in newer' \/ Unstamped(e[2])'
  BY DEF OrderTellsAge
<1>1. e = <<e[1], e[2]>> /\ e[1] \in Vars /\ e[2] \in Vars
  BY DEF TypeOK
<1>2. e[1] # v /\ e[1] \in rows
  BY <1>1 DEF AddTile
<1>3. CASE e[2] = v
  BY <1>2, <1>3 DEF AddTile
<1>4. CASE e[2] # v
  BY <1>1, <1>2, <1>4 DEF AddTile, OrderTellsAge
<1> QED BY <1>3, <1>4

LEMMA RefetchRowKeepsFresh ==
    ASSUME TypeOK, IInv, Undisturbed, RefetchRow
    PROVE  IInv'
<1>1. /\ user \in Sources /\ user \in Vars /\ AddTile(user) /\ user' = None /\ ~running
      /\ UNCHANGED <<data, outdated, moved, running, outcome, stage, left, open>>
  BY VarKinds, FreshnessAssumption DEF RefetchRow, TypeOK, IInv, StepsOfRun, store
<1>2. \A u \in Vars : <<user, u>> \notin outdated
  BY <1>1 DEF IInv, OutdatedByInput, Sources, Produced
<1>3. \A u \in Vars : Unstamped(u) => u = user \/ Unstamped(u)'
  BY <1>1 DEF Unstamped
<1>4. OrderTellsAge'
  BY <1>1, <1>2, <1>3, RowKeepsOrder DEF IInv
<1>5. OutdatedByInput'
  BY <1>1 DEF IInv, OutdatedByInput
<1>6. WholeInRows'
  BY <1>1 DEF IInv, WholeInRows, AddTile
<1>7. StepsOfRun' /\ WrittenIsFresh' /\ ReportedIsFresh'
  BY <1>1 DEF IInv, StepsOfRun, WrittenIsFresh, ReportedIsFresh
<1> QED BY <1>4, <1>5, <1>6, <1>7 DEF IInv

\* What is skipped is fresh: nothing it has or depends on is being written.
LEMMA SkipKeepsFresh ==
    ASSUME TypeOK, IInv, Undisturbed, NEW p \in Producers, Skip(p)
    PROVE  IInv'
<1>1. /\ running /\ user = None /\ outcome[p] = "waiting" /\ AlreadySatisfied(p)
      /\ \A q \in After[p] : outcome[q] \in Good
      /\ outcome' = [outcome EXCEPT ![p] = "skipped"]
      /\ UNCHANGED <<store, catalog, user, running, stage, left, open>>
  BY DEF Skip, ReadyToStart, IInv, StepsOfRun
<1>2. \A o \in Outputs[p] : Fresh(o)
  <2> SUFFICES ASSUME NEW o \in Outputs[p], NEW u \in Vars, <<o, u>> \in outdated PROVE FALSE
    BY <1>1, VarKinds DEF AlreadySatisfied, IInv, WholeInRows, Fresh, UpToDate
  <2>1. u \in Requires[p]
    BY FreshnessAssumption DEF IInv, OutdatedByInput
  <2>2. <<u, o>> \notin newer /\ o \in rows
    BY <1>1, <2>1 DEF AlreadySatisfied, IsOutputStale
  <2>3. Unstamped(u)
    BY <2>2 DEF IInv, OrderTellsAge
  <2>4. PICK q \in Producers : open[q] = u
    BY <1>1, <2>1, <2>3, FreshnessAssumption DEF Unstamped
  <2>5. u \in Outputs[q] /\ outcome[q] = "running"
    BY <2>1, <2>4, FreshnessAssumption DEF IInv, StepsOfRun
  <2> QED BY <1>1, <2>1, <2>5, FreshnessAssumption DEF Good
<1>3. OrderTellsAge' /\ OutdatedByInput' /\ WholeInRows'
  BY <1>1 DEF IInv, OrderTellsAge, Unstamped, OutdatedByInput, WholeInRows, store, catalog
<1>4. StepsOfRun'
  BY <1>1 DEF IInv, StepsOfRun, Good, TypeOK
<1>5. WrittenIsFresh'
  BY <1>1 DEF IInv, WrittenIsFresh, Fresh, UpToDate, store
<1>6. ReportedIsFresh'
  BY <1>1, <1>2 DEF IInv, ReportedIsFresh, Fresh, UpToDate, store, Good, TypeOK
<1> QED BY <1>3, <1>4, <1>5, <1>6 DEF IInv

LEMMA ExtractKeepsFresh ==
    ASSUME TypeOK, IInv, Undisturbed, NEW p \in Producers, Extract(p)
    PROVE  IInv'
<1>1. /\ stage[p] = "read" /\ stage' = [stage EXCEPT ![p] = "write"]
      /\ moved' = [moved EXCEPT ![p] = {}]
      /\ UNCHANGED <<data, outdated, catalog, user, running, outcome, left, open>>
  BY DEF Extract
<1>2. OrderTellsAge' /\ OutdatedByInput' /\ WholeInRows' /\ ReportedIsFresh'
  BY <1>1 DEF IInv, OrderTellsAge, Unstamped, OutdatedByInput, WholeInRows, ReportedIsFresh,
         Fresh, UpToDate, catalog
<1>3. StepsOfRun'
  BY <1>1 DEF IInv, StepsOfRun, TypeOK
<1>4. WrittenIsFresh'
  BY <1>1 DEF IInv, StepsOfRun, WrittenIsFresh, Fresh, UpToDate, TypeOK
<1> QED BY <1>2, <1>3, <1>4 DEF IInv

\* Writing an output puts out of date only what waits for its producer.
LEMMA WriteOutputKeepsFresh ==
    ASSUME TypeOK, IInv, Undisturbed, NEW p \in Producers, NEW o \in Outputs[p], WriteOutput(p, o)
    PROVE  IInv'
<1>1. /\ stage[p] = "write" /\ open[p] = None /\ o \in left[p] /\ moved[p] = {}
      /\ o \in Vars /\ o # None /\ Put({o}, "whole", {})
      /\ left' = [left EXCEPT ![p] = left[p] \ {o}] /\ open' = [open EXCEPT ![p] = o]
      /\ UNCHANGED <<catalog, user, running, outcome, stage>>
  BY VarKinds DEF WriteOutput, IInv, StepsOfRun, WrittenIsFresh
<1>2. \A q \in Producers : o \in Requires[q] =>
         running /\ outcome[q] \notin Good \cup {"running"} /\ stage[q] = "idle" /\ q # p
  BY <1>1, ConsumersWait
\* Anything but o itself and what is made from o is as up to date as before.
<1>3. ASSUME NEW q \in Producers, NEW x \in Outputs[q], o \notin Requires[q], Fresh(x) \/ x = o
      PROVE  Fresh(x)'
  <2>1. data'[x] = "whole"
    BY <1>1, <1>3, PutWhole, VarKinds DEF Fresh, TypeOK
  <2>2. ASSUME NEW u \in Vars, <<x, u>> \in outdated' PROVE FALSE
    <3>1. u # o
      <4>1. \E r \in Producers : x \in Outputs[r] /\ u \in Requires[r]
        BY <1>1, <2>2, PutWhole DEF IInv, OutdatedByInput
      <4> QED BY <1>3, <4>1, FreshnessAssumption
    <3>2. <<x, u>> \in outdated /\ x # o
      BY <1>1, <2>2, <3>1, PutWhole
    <3> QED BY <1>3, <3>2 DEF Fresh, UpToDate
  <2> QED BY <2>1, <2>2 DEF Fresh, UpToDate
<1>4. OrderTellsAge'
  <2> SUFFICES ASSUME NEW e \in outdated', e[1] \in rows
               PROVE  <<e[2], e[1]>> \in newer \/ Unstamped(e[2])'
    BY <1>1 DEF OrderTellsAge, catalog
  <2>1. CASE e[2] = o
    BY <1>1, <2>1 DEF Unstamped, TypeOK
  <2>2. CASE e \in outdated
    <3>1. e[2] # None
      BY <2>2, FreshnessAssumption DEF TypeOK
    <3>2. <<e[2], e[1]>> \in newer \/ Unstamped(e[2])
      BY <2>2 DEF IInv, OrderTellsAge
    <3>3. Unstamped(e[2]) => Unstamped(e[2])'
      BY <1>1, <3>1 DEF Unstamped, TypeOK
    <3> QED BY <3>2, <3>3
  <2> QED BY <1>1, <2>1, <2>2, PutWhole
<1>5. OutdatedByInput'
  BY <1>1, PutWhole DEF IInv, OutdatedByInput
<1>6. WholeInRows'
  BY <1>1, PutWhole, VarKinds DEF IInv, WholeInRows, catalog, TypeOK
<1>7. StepsOfRun'
  BY <1>1 DEF IInv, StepsOfRun, TypeOK
<1>8. WrittenIsFresh'
  <2> SUFFICES ASSUME NEW q \in Producers, stage[q] = "write"
               PROVE  moved'[q] = {} /\ \A x \in Outputs[q] \ left'[q] : Fresh(x)'
    BY <1>1 DEF WrittenIsFresh
  <2>1. o \notin Requires[q]
    BY <1>2
  <2>2. moved'[q] = {}
    BY <1>1, <2>1, PutWhole DEF IInv, WrittenIsFresh
  <2>3. ASSUME NEW x \in Outputs[q] \ left'[q] PROVE Fresh(x)'
    <3>1. x = o \/ x \notin left[q]
      BY <1>1, <2>3 DEF TypeOK
    <3> QED BY <1>3, <2>1, <3>1 DEF IInv, WrittenIsFresh
  <2> QED BY <2>2, <2>3
<1>9. ReportedIsFresh'
  <2> SUFFICES ASSUME running, NEW q \in Producers, outcome[q] \in Good, NEW x \in Outputs[q]
               PROVE  Fresh(x)'
    BY <1>1 DEF ReportedIsFresh
  <2> QED BY <1>2, <1>3 DEF IInv, ReportedIsFresh
<1> QED BY <1>4, <1>5, <1>6, <1>7, <1>8, <1>9 DEF IInv

\* The row of an output just written: the output is fresh.
LEMMA AddRowKeepsFresh ==
    ASSUME TypeOK, IInv, Undisturbed, NEW p \in Producers, AddRow(p)
    PROVE  IInv'
<1> DEFINE o == open[p]
<1>1. /\ o # None /\ o \in Vars /\ stage[p] = "write" /\ o \in Outputs[p] \ left[p] /\ AddTile(o)
      /\ open' = [open EXCEPT ![p] = None]
      /\ UNCHANGED <<data, outdated, moved, user, running, outcome, stage, left>>
  BY VarKinds DEF AddRow, IInv, StepsOfRun, store
<1>2. Fresh(o)
  BY <1>1 DEF IInv, WrittenIsFresh
<1>3. \A u \in Vars : Unstamped(u) => u = o \/ Unstamped(u)'
  BY <1>1 DEF Unstamped, TypeOK
<1>4. OrderTellsAge'
  BY <1>1, <1>2, <1>3, RowKeepsOrder DEF IInv, Fresh, UpToDate
<1>5. OutdatedByInput'
  BY <1>1 DEF IInv, OutdatedByInput
<1>6. WholeInRows'
  BY <1>1, <1>2 DEF IInv, WholeInRows, AddTile, Fresh
<1>7. StepsOfRun'
  BY <1>1 DEF IInv, StepsOfRun, TypeOK
<1>8. WrittenIsFresh' /\ ReportedIsFresh'
  BY <1>1 DEF IInv, WrittenIsFresh, ReportedIsFresh, Fresh, UpToDate
<1> QED BY <1>4, <1>5, <1>6, <1>7, <1>8 DEF IInv

LEMMA FinishKeepsFresh ==
    ASSUME TypeOK, IInv, Undisturbed, NEW p \in Producers, Finish(p)
    PROVE  IInv'
<1>1. /\ stage[p] = "write" /\ left[p] = {} /\ running /\ outcome[p] = "running"
      /\ outcome' = [outcome EXCEPT ![p] = "ok"]
      /\ stage' = [stage EXCEPT ![p] = "idle"]
      /\ left' = [left EXCEPT ![p] = {}]
      /\ UNCHANGED <<store, catalog, user, running, open>>
  BY DEF Finish, Written, Return, IInv, StepsOfRun
<1>2. OrderTellsAge' /\ OutdatedByInput' /\ WholeInRows'
  BY <1>1 DEF IInv, OrderTellsAge, Unstamped, OutdatedByInput, WholeInRows, store, catalog
<1>3. StepsOfRun'
  BY <1>1 DEF Finish, Written, IInv, StepsOfRun, Good, TypeOK
<1>4. WrittenIsFresh'
  BY <1>1 DEF IInv, WrittenIsFresh, Fresh, UpToDate, TypeOK, store
<1>5. ReportedIsFresh'
  BY <1>1 DEF IInv, ReportedIsFresh, WrittenIsFresh, Fresh, UpToDate, TypeOK, store, Good
<1> QED BY <1>2, <1>3, <1>4, <1>5 DEF IInv

LEMMA FreshInvariant ==
    ASSUME Undisturbed
    PROVE  Spec => []IInv
<1>1. Init => IInv
  BY DEF Init, IInv, OrderTellsAge, OutdatedByInput, WholeInRows, StepsOfRun, WrittenIsFresh,
         ReportedIsFresh
<1>2. TypeOK /\ IInv /\ [Next]_vars => IInv'
  <2> SUFFICES ASSUME TypeOK, IInv, [Next]_vars PROVE IInv'
    OBVIOUS
  <2>1. ASSUME NEW v \in Sources, RefetchData(v) PROVE IInv'
    BY <2>1, Undisturbed, RefetchKeepsFresh
  <2>2. CASE RefetchRow
    BY <2>2, Undisturbed, RefetchRowKeepsFresh
  <2>3. CASE StartRun \/ EndRun \/ UNCHANGED vars
    BY <2>3, Undisturbed, ControlKeepsFresh
  <2>4. ~Crash
    BY Undisturbed DEF Undisturbed, Crash
  <2>5. ASSUME NEW p \in Producers, ProducerStep(p) PROVE IInv'
    <3>1. ~StartTiles(p) /\ ~FinishTiles(p)
      BY DEF StartTiles, FinishTiles, IInv, StepsOfRun
    <3>2. CASE WriteOff(p) \/ Start(p) \/ Retry(p) \/ Fail(p)
      BY <3>2, Undisturbed, ControlKeepsFresh
    <3>3. CASE Skip(p)
      BY <3>3, Undisturbed, SkipKeepsFresh
    <3>4. CASE Extract(p)
      BY <3>4, Undisturbed, ExtractKeepsFresh
    <3>5. CASE \E o \in Outputs[p] : WriteOutput(p, o)
      BY <3>5, Undisturbed, WriteOutputKeepsFresh
    <3>6. CASE AddRow(p)
      BY <3>6, Undisturbed, AddRowKeepsFresh
    <3>7. CASE Finish(p)
      BY <3>7, Undisturbed, FinishKeepsFresh
    <3> QED BY <2>5, <3>1, <3>2, <3>3, <3>4, <3>5, <3>6, <3>7 DEF ProducerStep
  <2> QED BY <2>1, <2>2, <2>3, <2>4, <2>5 DEF Next
<1> QED BY <1>1, <1>2, FreshnessTypes, PTL DEF Spec

\* When nothing disturbs the runs, what a run reports as ok or skipped is
\* complete and made from what its inputs hold (engine/scheduler.py,
\* _producer_already_satisfied; engine/contracts.py, ProducerV2.run).
THEOREM ReportsFresh ==
    ASSUME Undisturbed
    PROVE  Spec => []ReportedIsFresh
<1>1. IInv => ReportedIsFresh
  BY DEF IInv
<1> QED BY <1>1, FreshInvariant, PTL

(* --- no step runs without a reason ----------------------------------------- *)

\* An input whose row is newer has changed since the output was made, unless the
\* output has just been written and waits for its row; and so has one that waits
\* for its row itself.
NewerHasChanged ==
    \A p \in Producers : \A o \in Outputs[p], u \in Requires[p] :
        /\ <<u, o>> \in newer => <<o, u>> \in outdated \/ open[p] = o
        /\ Unstamped(u) => <<o, u>> \in outdated

\* A Zarr is written: an output, or a source by the user.
LEMMA WriteKeepsReasons ==
    ASSUME TypeOK, IInv, NewerHasChanged, Undisturbed, NEW v \in Vars, Put({v}, "whole", {}), UNCHANGED newer,
           \/ ~running /\ user' = v /\ UNCHANGED open /\ v \in Sources
           \/ UNCHANGED user /\ \E q \in Producers :
                 v \in Outputs[q] /\ stage[q] # "idle" /\ open[q] = None /\ open' = [open EXCEPT ![q] = v]
    PROVE  NewerHasChanged'
<1> SUFFICES ASSUME NEW p \in Producers, NEW o \in Outputs[p], NEW u \in Requires[p]
             PROVE  /\ <<u, o>> \in newer => <<o, u>> \in outdated' \/ open'[p] = o
                    /\ Unstamped(u)' => <<o, u>> \in outdated'
  BY DEF NewerHasChanged
<1>0. u \in Vars /\ o \in Vars /\ u # None /\ o # None /\ o \in Produced
  BY VarKinds, FreshnessAssumption
<1>1. u = v => <<o, u>> \in outdated'
  BY DEF Put, MadeFrom
<1>2. o # v /\ <<o, u>> \in outdated => <<o, u>> \in outdated'
  BY DEF Put
<1>3. o = v => open'[p] = o /\ ~Unstamped(u)
  <2> SUFFICES ASSUME o = v PROVE open'[p] = o /\ ~Unstamped(u)
    OBVIOUS
  <2>1. v \notin Sources
    BY <1>0 DEF Sources
  <2>2. PICK q \in Producers : /\ v \in Outputs[q] /\ stage[q] # "idle" /\ open' = [open EXCEPT ![q] = v]
                               /\ UNCHANGED user
    BY <2>1
  <2>3. q = p
    BY <2>2, FreshnessAssumption
  <2>4. user # u
    BY <1>0, <2>2 DEF IInv, StepsOfRun
  <2>5. ASSUME NEW r \in Producers, open[r] = u PROVE FALSE
    <3>1. stage[r] # "idle" /\ u \in Outputs[r]
      BY <1>0, <2>5 DEF IInv, StepsOfRun
    <3> QED BY <2>2, <2>3, <3>1, ConsumersWait
  <2> QED BY <2>2, <2>3, <2>4, <2>5 DEF TypeOK, Unstamped
<1>4. Unstamped(u)' => Unstamped(u) \/ u = v
  BY <1>0 DEF Unstamped, TypeOK
<1>5. open'[p] = open[p] \/ open[p] # o
  BY <1>0 DEF TypeOK
<1>6. <<u, o>> \in newer => <<o, u>> \in outdated \/ open[p] = o
  BY DEF NewerHasChanged
<1>7. Unstamped(u) => <<o, u>> \in outdated
  BY DEF NewerHasChanged
<1> QED BY <1>1, <1>2, <1>3, <1>4, <1>5, <1>6, <1>7

\* A row is inserted: its variable is newer than what was made from it, and that
\* is what it waited with.
LEMMA RowKeepsReasons ==
    ASSUME TypeOK, NewerHasChanged, NEW v \in Vars, AddTile(v), UNCHANGED outdated, Unstamped(v),
           \/ user = v /\ user' = None /\ UNCHANGED open /\ v \in Sources
           \/ UNCHANGED user /\ \E q \in Producers : open[q] = v /\ open' = [open EXCEPT ![q] = None]
    PROVE  NewerHasChanged'
<1> SUFFICES ASSUME NEW p \in Producers, NEW o \in Outputs[p], NEW u \in Requires[p]
             PROVE  /\ <<u, o>> \in newer' => <<o, u>> \in outdated \/ open'[p] = o
                    /\ Unstamped(u)' => <<o, u>> \in outdated
  BY DEF NewerHasChanged
<1>0. u \in Vars /\ o \in Vars /\ u # None /\ o # None /\ o \in Produced
  BY VarKinds, FreshnessAssumption
<1>1. Unstamped(u)' => Unstamped(u)
  BY <1>0 DEF Unstamped, TypeOK
<1>2. Unstamped(u) => <<o, u>> \in outdated
  BY DEF NewerHasChanged
<1>3. ASSUME <<u, o>> \in newer' PROVE <<o, u>> \in outdated \/ open'[p] = o
  <2>1. CASE u = v
    BY <1>2, <2>1
  <2>2. CASE u # v
    <3>1. <<u, o>> \in newer /\ o # v
      BY <1>3, <2>2 DEF AddTile
    <3>2. open[p] = o => open'[p] = o
      BY <3>1 DEF TypeOK
    <3> QED BY <3>1, <3>2 DEF NewerHasChanged
  <2> QED BY <2>1, <2>2
<1> QED BY <1>1, <1>2, <1>3

LEMMA StepKeepsReasons ==
    ASSUME TypeOK, IInv, NewerHasChanged, Undisturbed, [Next]_vars
    PROVE  NewerHasChanged'
<1>1. CASE \E v \in Sources : RefetchData(v)
  BY <1>1, WriteKeepsReasons, VarKinds DEF RefetchData, catalog
<1>2. CASE RefetchRow
  BY <1>2, RowKeepsReasons, VarKinds DEF RefetchRow, TypeOK, store, Unstamped
<1>3. CASE StartRun \/ EndRun \/ UNCHANGED vars
  BY <1>3 DEF StartRun, EndRun, vars, store, catalog, NewerHasChanged, Unstamped
<1>4. ~Crash
  BY DEF Undisturbed, Crash
<1>5. ASSUME NEW p \in Producers, ProducerStep(p) PROVE NewerHasChanged'
  <2>1. ~StartTiles(p) /\ ~FinishTiles(p)
    BY DEF StartTiles, FinishTiles, IInv, StepsOfRun
  <2>2. CASE \E o \in Outputs[p] : WriteOutput(p, o)
    <3>1. PICK o \in Outputs[p] : WriteOutput(p, o)
      BY <2>2
    <3>2. stage[p] = "write" /\ moved[p] = {} /\ o \in Vars
      BY <3>1, VarKinds DEF WriteOutput, IInv, StepsOfRun, WrittenIsFresh
    <3>3. /\ Put({o}, "whole", {}) /\ UNCHANGED newer /\ UNCHANGED user /\ stage[p] # "idle"
          /\ open[p] = None /\ open' = [open EXCEPT ![p] = o]
      BY <3>1, <3>2 DEF WriteOutput, catalog
    <3> QED BY <3>2, <3>3, WriteKeepsReasons
  <2>3. CASE AddRow(p)
    <3>1. open[p] \in Vars
      BY <2>3, VarKinds DEF AddRow, TypeOK
    <3> QED BY <2>3, <3>1, RowKeepsReasons DEF AddRow, store, Unstamped
  <2>4. CASE WriteOff(p) \/ Skip(p) \/ Start(p) \/ Extract(p) \/ Finish(p) \/ Retry(p) \/ Fail(p)
    <3>1. UNCHANGED <<outdated, newer, user, open>>
      BY <2>4 DEF WriteOff, Skip, Start, Extract, Finish, Retry, Fail, Return, store, catalog
    <3> QED BY <3>1 DEF NewerHasChanged, Unstamped
  <2> QED BY <1>5, <2>1, <2>2, <2>3, <2>4 DEF ProducerStep
<1> QED BY <1>1, <1>2, <1>3, <1>4, <1>5 DEF Next

\* When nothing disturbs the runs, a step that is not forced is made only if an
\* output has no row or is not made from what its inputs hold now (engine/scheduler.py,
\* _producer_already_satisfied).  A producer that makes nothing, which the
\* registry refuses (engine/registry.py), would run every time.
THEOREM RunsForAReason ==
    ASSUME Undisturbed, \A p \in Producers : Outputs[p] # {}
    PROVE  Spec => NoNeedlessRun
<1>1. Init => NewerHasChanged
  BY VarKinds, FreshnessAssumption DEF Init, NewerHasChanged, Unstamped
<1>2. TypeOK /\ IInv /\ NewerHasChanged /\ [Next]_vars => NewerHasChanged'
  BY Undisturbed, StepKeepsReasons
<1>3. ASSUME IInv, TypeOK, NewerHasChanged, Next, NEW p \in Producers, stage[p] = "idle", stage'[p] # "idle"
      PROVE  forced \/ \E o \in Outputs[p] : o \notin rows \/ ~Fresh(o)
  <2> SUFFICES ASSUME ~forced PROVE \E o \in Outputs[p] : o \notin rows \/ ~Fresh(o)
    OBVIOUS
  <2>1. Start(p)
    <3>1. ~Crash /\ ~\E v \in Sources : RefetchData(v)
      BY <1>3 DEF Crash, RefetchData
    <3>2. ~RefetchRow /\ ~StartRun /\ ~EndRun
      BY <1>3 DEF RefetchRow, StartRun, EndRun
    <3>3. PICK q \in Producers : ProducerStep(q)
      BY <1>3, <3>1, <3>2 DEF Next
    <3>4. ~WriteOff(q) /\ ~Skip(q) /\ ~AddRow(q) /\ ~\E o \in Outputs[q] : WriteOutput(q, o)
      BY <1>3 DEF WriteOff, Skip, AddRow, WriteOutput
    <3>5. q = p
      BY <1>3, <3>3, <3>4 DEF ProducerStep, Start, Extract, Finish, Retry, Fail, StartTiles, FinishTiles, Return, TypeOK
    <3>6. ~Extract(p) /\ ~Finish(p) /\ ~Retry(p) /\ ~Fail(p) /\ ~StartTiles(p) /\ ~FinishTiles(p)
      BY <1>3 DEF Extract, Finish, Retry, Fail, MayFail, StartTiles, FinishTiles
    <3> QED BY <3>3, <3>4, <3>5, <3>6 DEF ProducerStep
  <2>2. CASE \E o \in Outputs[p] : o \notin rows
    BY <2>2
  <2>3. CASE Outputs[p] \subseteq rows
    <3>1. PICK o \in Outputs[p] : IsOutputStale(o, Requires[p])
      BY <2>1, <2>3 DEF Start, AlreadySatisfied
    <3>2. PICK u \in Requires[p] : <<u, o>> \in newer
      BY <3>1 DEF IsOutputStale
    <3>3. open[p] = None /\ o # None
      BY <1>3, VarKinds DEF IInv, StepsOfRun
    <3>4. <<o, u>> \in outdated /\ u \in Vars
      BY <1>3, <3>2, <3>3, VarKinds DEF NewerHasChanged
    <3> QED BY <3>4 DEF Fresh, UpToDate
  <2> QED BY <2>2, <2>3
<1>4. IInv /\ TypeOK /\ NewerHasChanged /\ [Next]_vars =>
        [\A p \in Producers : stage[p] = "idle" /\ stage'[p] # "idle" =>
             forced \/ \E o \in Outputs[p] : o \notin rows \/ ~Fresh(o)]_vars
  BY <1>3
<1> QED BY <1>1, <1>2, <1>4, FreshnessTypes, FreshInvariant, PTL DEF Spec, NoNeedlessRun

(* --- crashes and tiles ----------------------------------------------------- *)

\* The steps of a run, whole-grid and tiled.  Outside a run nothing is under way.
StepsOfAnyRun ==
    \A p \in Producers :
        /\ stage[p] # "idle" => running /\ outcome[p] = "running"
        /\ running /\ outcome[p] = "running" => stage[p] # "idle"
        /\ running /\ outcome[p] \in Good \cup {"running"} => \A q \in After[p] : outcome[q] \in Good
        /\ open[p] # None => stage[p] \in {"write", "alloc"} /\ open[p] \in Outputs[p] \ left[p]
        /\ stage[p] = "read" => left[p] = Outputs[p]
        /\ stage[p] = "tiles" => left[p] = {}

\* A step that has read its inputs reads what is there still, and what it has
\* written is fresh.
FreshSoFar ==
    /\ OutdatedByInput
    /\ \A p \in Producers : stage[p] \in {"write", "tiles"} => moved[p] = {}
    /\ \A p \in Producers : stage[p] = "write" => \A o \in Outputs[p] \ left[p] : Fresh(o)
    /\ ComputedIsFresh

CataloguedSoFar ==
    /\ \A p \in Producers : stage[p] \in {"write", "alloc", "tiles"} =>
         \A o \in Outputs[p] \ left[p] : o \in rows \/ open[p] = o
    /\ ReportedIsCatalogued

CrashIInv == StepsOfAnyRun /\ FreshSoFar /\ CataloguedSoFar

LEMMA PutAny ==
    ASSUME TypeOK, NEW S \in SUBSET Vars, NEW c, Put(S, c, {})
    PROVE  /\ \A x \in Vars : data'[x] = IF x \in S THEN c ELSE data[x]
           /\ \A e \in outdated' : \/ e \in outdated /\ e[1] \notin S
                                   \/ \E q \in Producers : e[1] \in Outputs[q] /\ e[2] \in Requires[q] \cap S
           /\ \A q \in Producers : Requires[q] \cap S = {} => moved'[q] = moved[q]
<1>1. ASSUME NEW e \in outdated'
      PROVE  \/ e \in outdated /\ e[1] \notin S
             \/ \E q \in Producers : e[1] \in Outputs[q] /\ e[2] \in Requires[q] \cap S
  <2>1. (e \in outdated /\ e[1] \notin S) \/ e \in MadeFrom(S)
    BY <1>1 DEF Put
  <2>2. CASE e \in MadeFrom(S)
    <3>1. PICK q \in Producers : e \in Outputs[q] \X (Requires[q] \cap S)
      BY <2>2 DEF MadeFrom
    <3> QED
      BY <3>1
  <2> QED
    BY <2>1, <2>2
<1>2. \A q \in Producers : Requires[q] \cap S = {} => moved'[q] = moved[q]
  BY DEF Put, TypeOK
<1> QED
  BY <1>1, <1>2 DEF Put

\* A step that writes outputs disturbs no producer that has started or is done.
LEMMA WritesDisturbNobody ==
    ASSUME TypeOK, CrashIInv, NEW p \in Producers, NEW S \in SUBSET Outputs[p], stage[p] # "idle",
           NEW c, Put(S, c, {})
    PROVE  /\ \A q \in Producers : running /\ outcome[q] \in Good \cup {"running"} => Requires[q] \cap S = {}
           /\ \A q \in Producers : \A x \in Outputs[q] :
                Requires[q] \cap S = {} /\ x \notin S /\ Fresh(x) => Fresh(x)'
           /\ c = "whole" => \A x \in S : Fresh(x)'
           /\ \A q \in Producers : stage[q] # "idle" => moved'[q] = moved[q]
           /\ OutdatedByInput'
<1>0. S \in SUBSET Vars
  BY VarKinds
<1>1. ASSUME NEW q \in Producers, running, outcome[q] \in Good \cup {"running"} PROVE Requires[q] \cap S = {}
  <2> SUFFICES ASSUME Requires[q] \cap Outputs[p] # {} PROVE FALSE
    OBVIOUS
  <2>1. p \in After[q]
    BY FreshnessAssumption
  <2> QED
    BY <1>1, <2>1 DEF CrashIInv, StepsOfAnyRun, Good
<1>2. OutdatedByInput'
  <2> SUFFICES ASSUME NEW e \in outdated'
               PROVE  \E r \in Producers : e[1] \in Outputs[r] /\ e[2] \in Requires[r]
    BY DEF OutdatedByInput
  <2> QED
    BY <1>0, PutAny DEF CrashIInv, FreshSoFar, OutdatedByInput
<1>3. ASSUME NEW q \in Producers, NEW x \in Outputs[q], Requires[q] \cap S = {}, NEW u \in Vars, <<x, u>> \in outdated'
      PROVE  <<x, u>> \in outdated /\ x \notin S
  <2> DEFINE e == <<x, u>>
  <2>1. \/ e \in outdated /\ e[1] \notin S
        \/ \E r \in Producers : e[1] \in Outputs[r] /\ e[2] \in Requires[r] \cap S
    BY <1>0, <1>3, PutAny
  <2>2. \A r \in Producers : x \in Outputs[r] => r = q
    BY FreshnessAssumption
  <2> QED
    BY <1>3, <2>1, <2>2
<1>4. ASSUME NEW q \in Producers, NEW x \in Outputs[q], Requires[q] \cap S = {}, x \notin S, Fresh(x) PROVE Fresh(x)'
  <2>1. data'[x] = "whole"
    BY <1>0, <1>4, PutAny, VarKinds DEF Fresh
  <2> QED
    BY <1>3, <1>4, <2>1 DEF Fresh, UpToDate
<1>5. ASSUME c = "whole", NEW x \in S PROVE Fresh(x)'
  <2>1. data'[x] = "whole"
    BY <1>0, <1>5, PutAny
  <2>2. Requires[p] \cap S = {}
    BY FreshnessAssumption
  <2> QED
    BY <1>3, <2>1, <2>2 DEF Fresh, UpToDate
<1>6. ASSUME NEW q \in Producers, stage[q] # "idle" PROVE moved'[q] = moved[q]
  <2>1. Requires[q] \cap S = {}
    BY <1>1, <1>6 DEF CrashIInv, StepsOfAnyRun
  <2> QED
    BY <1>0, <2>1, PutAny
<1> QED
  BY <1>1, <1>2, <1>4, <1>5, <1>6

\* The steps that write no array and take no row.
LEMMA ControlKeepsCrash ==
    ASSUME TypeOK, CrashIInv,
           \/ StartRun \/ EndRun \/ UNCHANGED vars \/ RefetchRow
           \/ \E p \in Producers : WriteOff(p) \/ Skip(p) \/ Start(p) \/ Retry(p) \/ Fail(p) \/ Finish(p) \/ AddRow(p)
    PROVE  CrashIInv'
<1>1. UNCHANGED store
  BY DEF StartRun, EndRun, vars, RefetchRow, WriteOff, Skip, Start, Retry, Fail, Finish, AddRow
<1>2. \A x : Fresh(x)' = Fresh(x)
  BY <1>1 DEF Fresh, UpToDate, store
<1>3. OutdatedByInput'
  BY <1>1 DEF CrashIInv, FreshSoFar, OutdatedByInput, store
<1>4. rows \subseteq rows'
  BY DEF StartRun, EndRun, vars, RefetchRow, WriteOff, Skip, Start, Retry, Fail, Finish, Return, AddRow, AddTile, catalog
<1>5. CASE StartRun \/ EndRun
  <2>1. /\ UNCHANGED <<stage, left, open, moved, rows>>
        /\ running' => \A p \in Producers : outcome'[p] = "waiting"
    BY <1>1, <1>5 DEF StartRun, EndRun, store, catalog
  <2>2. \A p \in Producers : stage[p] = "idle" /\ open[p] = None
    <3>1. CASE StartRun
      BY <3>1 DEF StartRun, CrashIInv, StepsOfAnyRun
    <3>2. CASE EndRun
      BY <3>2 DEF EndRun, Final, Good, CrashIInv, StepsOfAnyRun
    <3> QED
      BY <1>5, <3>1, <3>2
  <2>3. StepsOfAnyRun'
    BY <2>1, <2>2 DEF StepsOfAnyRun, Good
  <2>4. FreshSoFar'
    BY <1>3, <2>1, <2>2 DEF FreshSoFar, ComputedIsFresh
  <2>5. CataloguedSoFar'
    BY <2>1, <2>2 DEF CataloguedSoFar, ReportedIsCatalogued, Good
  <2> QED
    BY <2>3, <2>4, <2>5 DEF CrashIInv
<1>6. CASE RefetchRow \/ UNCHANGED vars
  <2>1. UNCHANGED <<running, outcome, stage, left, open>>
    BY <1>6 DEF RefetchRow, vars
  <2> QED
    BY <1>1, <1>2, <1>3, <1>4, <2>1 DEF CrashIInv, StepsOfAnyRun, FreshSoFar, ComputedIsFresh, CataloguedSoFar,
       ReportedIsCatalogued, store
<1>7. ASSUME NEW p \in Producers, WriteOff(p) \/ Skip(p) \/ Start(p) \/ Retry(p) \/ Fail(p) \/ Finish(p) \/ AddRow(p)
      PROVE  CrashIInv'
  <2>1. StepsOfAnyRun'
    <3>1. CASE WriteOff(p)
      BY <3>1 DEF WriteOff, CrashIInv, StepsOfAnyRun, Good, TypeOK
    <3>2. CASE Skip(p)
      BY <3>2 DEF Skip, ReadyToStart, CrashIInv, StepsOfAnyRun, Good, TypeOK
    <3>3. CASE Start(p)
      BY <3>3 DEF Start, ReadyToStart, CrashIInv, StepsOfAnyRun, Good, TypeOK
    <3>4. CASE Retry(p)
      BY <3>4 DEF Retry, MayFail, CrashIInv, StepsOfAnyRun, TypeOK
    <3>5. CASE Fail(p) \/ Finish(p)
      <4>1. /\ UNCHANGED <<running, open>> /\ open[p] = None /\ stage[p] # "idle"
            /\ outcome'[p] \in {"ok", "error"} /\ stage'[p] = "idle"
            /\ \A q \in Producers \ {p} : outcome'[q] = outcome[q] /\ stage'[q] = stage[q] /\ left'[q] = left[q]
        BY <3>5 DEF Fail, Finish, Written, MayFail, Return, TypeOK
      <4>2. running /\ outcome[p] = "running"
        BY <4>1 DEF CrashIInv, StepsOfAnyRun
      <4>3. \A q \in Producers : outcome[q] \in Good => outcome'[q] \in Good
        BY <4>1, <4>2 DEF Good
      <4>4. \A q \in Producers : outcome'[q] \in Good \cup {"running"} => outcome[q] \in Good \cup {"running"}
        BY <4>1, <4>2 DEF Good
      <4>5. \A q \in Producers : After[q] \subseteq Producers
        BY FreshnessAssumption
      <4>6. ASSUME NEW q \in Producers
            PROVE  /\ stage'[q] # "idle" => running' /\ outcome'[q] = "running"
                   /\ running' /\ outcome'[q] = "running" => stage'[q] # "idle"
                   /\ open'[q] # None => stage'[q] \in {"write", "alloc"} /\ open'[q] \in Outputs[q] \ left'[q]
                   /\ stage'[q] = "read" => left'[q] = Outputs[q]
                   /\ stage'[q] = "tiles" => left'[q] = {}
        BY <4>1, <4>2 DEF CrashIInv, StepsOfAnyRun
      <4>7. ASSUME NEW q \in Producers, running', outcome'[q] \in Good \cup {"running"}, NEW r \in After[q]
            PROVE  outcome'[r] \in Good
        BY <4>2, <4>3, <4>4, <4>5, <4>7 DEF CrashIInv, StepsOfAnyRun
      <4> QED
        BY <4>6, <4>7 DEF StepsOfAnyRun
    <3>6. CASE AddRow(p)
      BY <3>6 DEF AddRow, CrashIInv, StepsOfAnyRun, TypeOK
    <3> QED
      BY <1>7, <3>1, <3>2, <3>3, <3>4, <3>5, <3>6
  <2>2. FreshSoFar'
    <3>1. moved' = moved /\ running' = running
      BY <1>1, <1>7 DEF store, WriteOff, Skip, Start, Retry, Fail, Finish, Return, AddRow
    <3>2. \A q \in Producers : stage'[q] \in {"write", "tiles"} => stage'[q] = stage[q] /\ left'[q] = left[q]
      BY <1>7 DEF WriteOff, Skip, Start, Retry, Fail, Finish, Return, AddRow, TypeOK
    <3>3. ASSUME running, NEW q \in Producers, outcome'[q] = "ok" PROVE \A o \in Outputs[q] : Fresh(o)
      <4>1. CASE outcome[q] = "ok"
        BY <3>3, <4>1 DEF CrashIInv, FreshSoFar, ComputedIsFresh
      <4>2. CASE outcome[q] # "ok"
        <5>1. Finish(p) /\ q = p
          BY <1>7, <3>3, <4>2 DEF WriteOff, Skip, Start, Retry, Fail, Finish, Return, AddRow, TypeOK
        <5> QED
          BY <5>1 DEF Finish, Written, CrashIInv, FreshSoFar
      <4> QED
        BY <4>1, <4>2
    <3> QED
      BY <1>2, <1>3, <3>1, <3>2, <3>3 DEF FreshSoFar, CrashIInv, ComputedIsFresh
  <2>3. CataloguedSoFar'
    <3>1. ASSUME NEW q \in Producers, stage'[q] \in {"write", "alloc", "tiles"}, NEW o \in Outputs[q] \ left'[q]
          PROVE  o \in rows' \/ open'[q] = o
      <4>1. CASE AddRow(p)
        BY <1>4, <3>1, <4>1 DEF AddRow, AddTile, CrashIInv, CataloguedSoFar, TypeOK
      <4>2. CASE Start(p) /\ q = p
        BY <3>1, <4>2 DEF Start, TypeOK
      <4>3. CASE ~AddRow(p) /\ ~(Start(p) /\ q = p)
        <5>1. stage'[q] = stage[q] /\ left'[q] = left[q] /\ open'[q] = open[q]
          BY <1>7, <3>1, <4>3 DEF WriteOff, Skip, Start, Retry, Fail, Finish, Return, TypeOK
        <5> QED
          BY <1>4, <3>1, <5>1 DEF CrashIInv, CataloguedSoFar
      <4> QED
        BY <4>1, <4>2, <4>3
    <3>2. ASSUME running', NEW q \in Producers, outcome'[q] \in Good PROVE Outputs[q] \subseteq rows
      <4>1. running
        BY <1>7, <3>2 DEF WriteOff, Skip, Start, Retry, Fail, Finish, Return, AddRow
      <4>2. CASE outcome[q] \in Good
        BY <4>1, <4>2 DEF CrashIInv, CataloguedSoFar, ReportedIsCatalogued
      <4>3. CASE outcome[q] \notin Good
        <5>1. q = p /\ (Skip(p) \/ Finish(p))
          BY <1>7, <3>2, <4>3 DEF WriteOff, Skip, Start, Retry, Fail, Finish, Return, AddRow, TypeOK, Good
        <5>2. CASE Skip(p)
          BY <5>1, <5>2 DEF Skip, AlreadySatisfied
        <5>3. CASE Finish(p)
          <6>1. \A o \in Outputs[p] : o \in rows \/ open[p] = o
            BY <5>3 DEF Finish, Written, CrashIInv, CataloguedSoFar
          <6>2. open[p] = None /\ None \notin Outputs[p]
            BY <5>3, VarKinds DEF Finish, Written
          <6> QED
            BY <5>1, <6>1, <6>2
        <5> QED
          BY <5>1, <5>2, <5>3
      <4> QED
        BY <4>2, <4>3
    <3> QED
      BY <1>4, <3>1, <3>2 DEF CataloguedSoFar, ReportedIsCatalogued
  <2> QED
    BY <2>1, <2>2, <2>3 DEF CrashIInv
<1> QED
  BY <1>5, <1>6, <1>7

\* Inputs are read: nothing has been written from them yet.
LEMMA ReadKeepsCrash ==
    ASSUME TypeOK, CrashIInv, NEW p \in Producers, Extract(p) \/ StartTiles(p)
    PROVE  CrashIInv'
<1>1. /\ UNCHANGED <<data, outdated, catalog, user, running, outcome, left, open>>
      /\ moved' = [moved EXCEPT ![p] = {}]
      /\ stage' = [stage EXCEPT ![p] = IF p \in Producers /\ stage[p] = "read" THEN "write" ELSE "tiles"]
      /\ stage[p] \in {"read", "alloc"}
      /\ stage[p] = "alloc" => left[p] = {} /\ open[p] = None
  BY DEF Extract, StartTiles, Written
<1>2. \A x : Fresh(x)' = Fresh(x)
  BY <1>1 DEF Fresh, UpToDate
<1>3. StepsOfAnyRun'
  BY <1>1 DEF CrashIInv, StepsOfAnyRun, TypeOK
<1>4. FreshSoFar'
  BY <1>1, <1>2 DEF CrashIInv, StepsOfAnyRun, FreshSoFar, OutdatedByInput, ComputedIsFresh, TypeOK
<1>5. CataloguedSoFar'
  BY <1>1 DEF CrashIInv, StepsOfAnyRun, CataloguedSoFar, ReportedIsCatalogued, TypeOK, catalog
<1> QED
  BY <1>3, <1>4, <1>5 DEF CrashIInv

LEMMA WriteOutputKeepsCrash ==
    ASSUME TypeOK, CrashIInv, NEW p \in Producers, NEW o \in Outputs[p], WriteOutput(p, o)
    PROVE  CrashIInv'
<1>1. /\ stage[p] \in {"write", "alloc"} /\ open[p] = None /\ o \in left[p] /\ running /\ outcome[p] = "running"
      /\ left' = [left EXCEPT ![p] = left[p] \ {o}] /\ open' = [open EXCEPT ![p] = o]
      /\ UNCHANGED <<catalog, user, running, outcome, stage>>
  BY DEF WriteOutput, CrashIInv, StepsOfAnyRun
<1>2. PICK c \in {"whole", "fill"} : Put({o}, c, {}) /\ (stage[p] = "write" => c = "whole")
  BY <1>1 DEF WriteOutput, CrashIInv, FreshSoFar
<1>3. {o} \in SUBSET Outputs[p]
  OBVIOUS
<1>4. /\ \A q \in Producers : outcome[q] \in Good \cup {"running"} => o \notin Requires[q]
      /\ \A q \in Producers : \A x \in Outputs[q] : o \notin Requires[q] /\ x # o /\ Fresh(x) => Fresh(x)'
      /\ stage[p] = "write" => Fresh(o)'
      /\ \A q \in Producers : stage[q] # "idle" => moved'[q] = moved[q]
      /\ OutdatedByInput'
  <2>1. /\ \A q \in Producers : running /\ outcome[q] \in Good \cup {"running"} => Requires[q] \cap {o} = {}
        /\ \A q \in Producers : \A x \in Outputs[q] :
             Requires[q] \cap {o} = {} /\ x \notin {o} /\ Fresh(x) => Fresh(x)'
        /\ c = "whole" => \A x \in {o} : Fresh(x)'
        /\ \A q \in Producers : stage[q] # "idle" => moved'[q] = moved[q]
        /\ OutdatedByInput'
    BY <1>1, <1>2, <1>3, WritesDisturbNobody
  <2> QED
    BY <1>1, <1>2, <2>1
<1>5. StepsOfAnyRun'
  BY <1>1, VarKinds DEF CrashIInv, StepsOfAnyRun, TypeOK
<1>6. FreshSoFar'
  <2>1. ASSUME NEW q \in Producers, stage[q] = "write", NEW x \in Outputs[q] \ left'[q] PROVE Fresh(x)'
    <3>1. x = o \/ x \notin left[q]
      BY <1>1, <2>1 DEF TypeOK
    <3>2. x = o => q = p
      BY FreshnessAssumption
    <3>3. o \notin Requires[q]
      BY <1>4, <2>1 DEF CrashIInv, StepsOfAnyRun
    <3> QED
      BY <1>4, <2>1, <3>1, <3>2, <3>3 DEF CrashIInv, FreshSoFar
  <2>2. ASSUME NEW q \in Producers, outcome[q] = "ok", NEW x \in Outputs[q] PROVE Fresh(x)'
    <3>1. x # o
      BY <1>1, <2>2, FreshnessAssumption
    <3>2. Fresh(x) /\ o \notin Requires[q]
      BY <1>1, <1>4, <2>2 DEF CrashIInv, FreshSoFar, ComputedIsFresh, Good
    <3> QED
      BY <1>4, <3>1, <3>2
  <2>3. \A q \in Producers : stage[q] \in {"write", "tiles"} => moved'[q] = {}
    BY <1>4 DEF CrashIInv, FreshSoFar
  <2> QED
    BY <1>1, <1>4, <2>1, <2>2, <2>3 DEF FreshSoFar, ComputedIsFresh
<1>7. CataloguedSoFar'
  <2>1. ASSUME NEW q \in Producers, stage'[q] \in {"write", "alloc", "tiles"}, NEW x \in Outputs[q] \ left'[q]
        PROVE  x \in rows' \/ open'[q] = x
    <3>1. UNCHANGED <<rows, stage>>
      BY <1>1 DEF catalog
    <3>2. CASE q = p /\ x = o
      BY <1>1, <3>2 DEF TypeOK
    <3>3. CASE q = p /\ x # o
      <4>1. x \in Outputs[p] \ left[p]
        BY <1>1, <2>1, <3>3 DEF TypeOK
      <4>2. x # None
        BY <2>1, VarKinds
      <4>3. x \in rows
        BY <1>1, <2>1, <3>1, <3>3, <4>1, <4>2 DEF CrashIInv, CataloguedSoFar
      <4> QED
        BY <3>1, <4>3
    <3>4. CASE q # p
      BY <1>1, <2>1, <3>1, <3>4 DEF TypeOK, CrashIInv, CataloguedSoFar
    <3> QED
      BY <3>2, <3>3, <3>4
  <2> QED
    BY <1>1, <2>1 DEF CrashIInv, CataloguedSoFar, ReportedIsCatalogued, catalog
<1> QED
  BY <1>5, <1>6, <1>7 DEF CrashIInv

LEMMA FinishTilesKeepsCrash ==
    ASSUME TypeOK, CrashIInv, NEW p \in Producers, FinishTiles(p)
    PROVE  CrashIInv'
<1>1. /\ stage[p] = "tiles" /\ left[p] = {} /\ moved[p] = {} /\ open[p] = None /\ running /\ outcome[p] = "running"
      /\ outcome' = [outcome EXCEPT ![p] = "ok"] /\ stage' = [stage EXCEPT ![p] = "idle"]
      /\ left' = [left EXCEPT ![p] = {}] /\ Put(Outputs[p], "whole", {})
      /\ UNCHANGED <<catalog, user, running, open>>
  BY DEF FinishTiles, Return, CrashIInv, StepsOfAnyRun, FreshSoFar
<1>2. /\ \A q \in Producers : outcome[q] \in Good \cup {"running"} => Requires[q] \cap Outputs[p] = {}
      /\ \A q \in Producers : \A x \in Outputs[q] :
           Requires[q] \cap Outputs[p] = {} /\ x \notin Outputs[p] /\ Fresh(x) => Fresh(x)'
      /\ \A x \in Outputs[p] : Fresh(x)'
      /\ \A q \in Producers : stage[q] # "idle" => moved'[q] = moved[q]
      /\ OutdatedByInput'
  BY <1>1, WritesDisturbNobody
<1>3. StepsOfAnyRun'
  BY <1>1 DEF CrashIInv, StepsOfAnyRun, TypeOK, Good
<1>4. FreshSoFar'
  <2>1. ASSUME NEW q \in Producers, stage'[q] = "write", NEW x \in Outputs[q] \ left'[q] PROVE Fresh(x)'
    <3>1. q # p /\ stage[q] = "write" /\ left'[q] = left[q]
      BY <1>1, <2>1 DEF TypeOK
    <3>2. Requires[q] \cap Outputs[p] = {} /\ Fresh(x)
      BY <1>2, <2>1, <3>1 DEF CrashIInv, StepsOfAnyRun, FreshSoFar
    <3> QED
      BY <1>2, <3>2
  <2>2. ASSUME NEW q \in Producers, outcome'[q] = "ok", NEW x \in Outputs[q] PROVE Fresh(x)'
    <3>1. CASE q = p
      BY <1>2, <3>1
    <3>2. CASE q # p
      <4>1. outcome[q] = "ok"
        BY <1>1, <2>2, <3>2 DEF TypeOK
      <4>2. Requires[q] \cap Outputs[p] = {} /\ Fresh(x)
        BY <1>1, <1>2, <4>1 DEF CrashIInv, FreshSoFar, ComputedIsFresh, Good
      <4> QED
        BY <1>2, <4>2
    <3> QED
      BY <3>1, <3>2
  <2>3. \A q \in Producers : stage'[q] \in {"write", "tiles"} => moved'[q] = {}
    <3> SUFFICES ASSUME NEW q \in Producers, stage'[q] \in {"write", "tiles"} PROVE moved'[q] = {}
      OBVIOUS
    <3>1. stage[q] \in {"write", "tiles"}
      BY <1>1 DEF TypeOK
    <3> QED
      BY <1>2, <3>1 DEF CrashIInv, FreshSoFar
  <2> QED
    BY <1>2, <2>1, <2>2, <2>3 DEF FreshSoFar, ComputedIsFresh
<1>5. CataloguedSoFar'
  <2>1. Outputs[p] \subseteq rows
    BY <1>1, VarKinds DEF CrashIInv, CataloguedSoFar
  <2> QED
    BY <1>1, <2>1 DEF CrashIInv, CataloguedSoFar, ReportedIsCatalogued, TypeOK, catalog, Good
<1> QED
  BY <1>3, <1>4, <1>5 DEF CrashIInv

\* Nothing of a run that died, and nothing the user does between runs, is under way.
LEMMA OutsideRunsKeepsCrash ==
    ASSUME TypeOK, CrashIInv, Crash \/ \E v \in Sources : RefetchData(v)
    PROVE  CrashIInv'
<1>1. OutdatedByInput'
  <2>1. CASE Crash
    <3>1. PICK torn \in Replacing : outdated' = outdated \cup MadeFrom(torn)
      BY <2>1 DEF Crash
    <3>2. \A e \in MadeFrom(torn) : \E q \in Producers : e[1] \in Outputs[q] /\ e[2] \in Requires[q]
      BY DEF MadeFrom
    <3> QED
      BY <3>1, <3>2 DEF CrashIInv, FreshSoFar, OutdatedByInput
  <2>2. ASSUME NEW v \in Sources, RefetchData(v) PROVE OutdatedByInput'
    <3>1. {v} \in SUBSET Vars /\ Put({v}, "whole", {})
      BY <2>2, VarKinds DEF RefetchData
    <3> QED
      BY <3>1, PutAny DEF CrashIInv, FreshSoFar, OutdatedByInput
  <2> QED
    BY <2>1, <2>2
<1>2. ~running' /\ \A p \in Producers : stage'[p] = "idle" /\ open'[p] = None
  <2>1. CASE Crash
    BY <2>1 DEF Crash
  <2>2. CASE \E v \in Sources : RefetchData(v)
    BY <2>2, VarKinds DEF RefetchData, CrashIInv, StepsOfAnyRun, TypeOK
  <2> QED
    BY <2>1, <2>2
<1> QED
  BY <1>1, <1>2 DEF CrashIInv, StepsOfAnyRun, FreshSoFar, CataloguedSoFar, ComputedIsFresh, ReportedIsCatalogued

LEMMA CrashInvariant == Spec => []CrashIInv
<1>1. Init => CrashIInv
  BY DEF Init, CrashIInv, StepsOfAnyRun, FreshSoFar, CataloguedSoFar, OutdatedByInput, ComputedIsFresh,
     ReportedIsCatalogued
<1>2. TypeOK /\ CrashIInv /\ [Next]_vars => CrashIInv'
  <2> SUFFICES ASSUME TypeOK, CrashIInv, [Next]_vars PROVE CrashIInv'
    OBVIOUS
  <2>1. ASSUME NEW p \in Producers, ProducerStep(p) PROVE CrashIInv'
    <3>1. CASE WriteOff(p) \/ Skip(p) \/ Start(p) \/ Retry(p) \/ Fail(p) \/ Finish(p) \/ AddRow(p)
      BY <3>1, ControlKeepsCrash
    <3>2. CASE Extract(p) \/ StartTiles(p)
      BY <3>2, ReadKeepsCrash
    <3>3. CASE \E o \in Outputs[p] : WriteOutput(p, o)
      BY <3>3, WriteOutputKeepsCrash
    <3>4. CASE FinishTiles(p)
      BY <3>4, FinishTilesKeepsCrash
    <3> QED
      BY <2>1, <3>1, <3>2, <3>3, <3>4 DEF ProducerStep
  <2>2. CASE RefetchRow \/ StartRun \/ EndRun \/ UNCHANGED vars
    BY <2>2, ControlKeepsCrash
  <2>3. CASE Crash \/ \E v \in Sources : RefetchData(v)
    BY <2>3, OutsideRunsKeepsCrash
  <2> QED
    BY <2>1, <2>2, <2>3 DEF Next
<1> QED
  BY <1>1, <1>2, FreshnessTypes, PTL DEF Spec

\* What a run computes is fresh, whatever runs before it died at or failed with,
\* whole-grid or tiled (engine/contracts.py, run; engine/scheduler.py:601).
THEOREM ComputesFresh == Spec => []ComputedIsFresh
<1>1. CrashIInv => ComputedIsFresh
  BY DEF CrashIInv, FreshSoFar
<1> QED
  BY <1>1, CrashInvariant, PTL

\* What a run reports as done has its rows in the catalog, after any crash
\* (cube/catalog.py:70).
THEOREM ReportsCatalogued == Spec => []ReportedIsCatalogued
<1>1. CrashIInv => ReportedIsCatalogued
  BY DEF CrashIInv, CataloguedSoFar
<1> QED
  BY <1>1, CrashInvariant, PTL
=============================================================================
