---------------------------- MODULE CubeFreshness ----------------------------
(***************************************************************************)
(* When the runner reuses what the cube holds (_producer_already_satisfied *)
(* of engine/scheduler.py) and when it is right to: producers that extract *)
(* their inputs and write their outputs in several steps                   *)
(* (engine/contracts.py, engine/tiled.py, cube/store.py), the tile rows    *)
(* whose fetched_at decides staleness (cube/catalog.py), a user who        *)
(* fetches source variables again, failures, and a process that dies.      *)
(*                                                                         *)
(* Contents are not modelled, only whether a variable's content was made   *)
(* from what its inputs hold now.  The fetched_at stamps, which are only   *)
(* compared, are an order between the variables that have a row.  Layers   *)
(* are left out: a producer may start once the nodes it is after are done. *)
(***************************************************************************)
EXTENDS FiniteSets

CONSTANTS Vars,         \* variables of the cube
          Producers,    \* the nodes of the pipeline
          Requires,     \* producer -> the variables it reads
          Outputs,      \* producer -> the variables it writes
          After,        \* producer -> the nodes it is declared after
          Tiled,        \* producers with process_tile
          None,
          Crashes       \* TRUE: the process may die at any step

Produced == UNION {Outputs[p] : p \in Producers}
Sources == Vars \ Produced

ASSUME FreshnessAssumption ==
    /\ Requires \in [Producers -> SUBSET Vars]
    /\ Outputs \in [Producers -> SUBSET Vars]
    /\ After \in [Producers -> SUBSET Producers]
    /\ Tiled \subseteq Producers
    /\ None \notin Vars
    /\ Crashes \in BOOLEAN
    \* one producer per variable (ProducerRegistry.register), and
    \* Pipeline.from_targets: behind the producers of all it requires, which
    \* it refuses to make its own
    /\ \A p, q \in Producers : Outputs[p] \cap Outputs[q] # {} => p = q
    /\ \A p, q \in Producers : Requires[p] \cap Outputs[q] # {} => q \in After[p] /\ q # p

VARIABLES data,     \* what the variable's Zarr holds: nothing, fill values, an array
          outdated, \* <<o, u>>: u has changed since it was read to make o
          rows,     \* variables with a row in the catalog's tiles
          newer,    \* <<u, o>>: u's fetched_at is later than o's
          user,     \* the variable the user is writing again, or None
          running,  \* run() is under way
          forced,   \* ... with force, or without skip_when_satisfied
          outcome,  \* producer -> its outcome in this run
          stage,    \* producer -> where its step is
          left,     \* producer -> outputs it has still to write
          open,     \* producer -> the output written without its row yet
          moved     \* producer -> inputs that changed after it extracted them

store == <<data, outdated, moved>>
catalog == <<rows, newer>>
vars == <<store, catalog, user, running, forced, outcome, stage, left, open>>

Stages == {"idle", "alloc", "read", "write", "tiles"}
Outcomes == {"waiting", "running", "ok", "skipped", "error"}
Good == {"ok", "skipped"}
Final == Good \cup {"error"}

Init ==
    /\ data = [v \in Vars |-> "none"]
    /\ outdated = {} /\ rows = {} /\ newer = {}
    /\ user = None
    /\ running = FALSE /\ forced = FALSE
    /\ outcome = [p \in Producers |-> "waiting"]
    /\ stage = [p \in Producers |-> "idle"]
    /\ left = [p \in Producers |-> {}]
    /\ open = [p \in Producers |-> None]
    /\ moved = [p \in Producers |-> {}]

-----------------------------------------------------------------------------
(* --- the store and the catalog ------------------------------------------ *)

\* What has been made from the contents of S is so no longer.
MadeFrom(S) == UNION {Outputs[q] \X (Requires[q] \cap S) : q \in Producers}

\* The contents of S are replaced, made from inputs of which `late` have
\* changed meanwhile: whoever reads or has read them now has an old version.
Put(S, content, late) ==
    /\ data' = [v \in Vars |-> IF v \in S THEN content ELSE data[v]]
    /\ outdated' = {e \in outdated : e[1] \notin S} \cup (S \X late) \cup MadeFrom(S)
    /\ moved' = [q \in Producers |-> IF stage[q] \in {"write", "tiles"}
                                     THEN moved[q] \cup (Requires[q] \cap S) ELSE moved[q]]

\* add_tile deletes the row and inserts one stamped CURRENT_TIMESTAMP.
AddTile(v) ==
    /\ rows' = rows \cup {v}
    /\ newer' = {e \in newer : e[1] # v /\ e[2] # v} \cup ({v} \X (rows \ {v}))

\* Mutated form: the comparison the other way round.
StaleReversed(o, inputs) == o \in rows /\ \E u \in inputs : <<o, u>> \in newer

\* is_output_stale: MAX over the inputs' stamps > the output's.
IsOutputStale(o, inputs) == o \in rows /\ \E u \in inputs : <<u, o>> \in newer

\* Mutated forms: without the dirty propagation; one output is enough.
AlreadySatisfiedByRows(p) == Outputs[p] # {} /\ Outputs[p] \subseteq rows
AlreadySatisfiedByAny(p) ==
    \E o \in Outputs[p] : o \in rows /\ ~IsOutputStale(o, Requires[p])

AlreadySatisfied(p) ==
    /\ ~forced
    /\ Outputs[p] # {}
    /\ Outputs[p] \subseteq rows
    /\ \A o \in Outputs[p] : ~IsOutputStale(o, Requires[p])

-----------------------------------------------------------------------------
(* --- the user, who writes source variables between runs: DuckDB lets only -- *)
(* --- one process open the catalog ------------------------------------------ *)

RefetchData(v) ==
    /\ user = None /\ ~running
    /\ Put({v}, "whole", {})
    /\ user' = v
    /\ UNCHANGED <<catalog, running, outcome, stage, left, open>>

RefetchRow ==
    /\ user # None
    /\ AddTile(user)
    /\ user' = None
    /\ UNCHANGED <<store, running, outcome, stage, left, open>>

-----------------------------------------------------------------------------
(* --- the run ------------------------------------------------------------- *)

StartRun ==
    /\ ~running /\ user = None
    /\ running' = TRUE /\ forced' \in BOOLEAN
    /\ outcome' = [p \in Producers |-> "waiting"]
    /\ UNCHANGED <<store, catalog, user, stage, left, open>>

EndRun ==
    /\ running /\ \A p \in Producers : outcome[p] \in Final
    /\ running' = FALSE
    /\ UNCHANGED <<store, catalog, user, outcome, stage, left, open>>

WriteOff(p) ==
    /\ running /\ outcome[p] = "waiting"
    /\ \E q \in After[p] : outcome[q] = "error"
    /\ outcome' = [outcome EXCEPT ![p] = "error"]
    /\ UNCHANGED <<store, catalog, user, running, stage, left, open>>

ReadyToStart(p) ==
    running /\ outcome[p] = "waiting" /\ \A q \in After[p] : outcome[q] \in Good

Skip(p) ==
    /\ ReadyToStart(p) /\ AlreadySatisfied(p)
    /\ outcome' = [outcome EXCEPT ![p] = "skipped"]
    /\ UNCHANGED <<store, catalog, user, running, stage, left, open>>

\* Mutated form: what is to be written is taken from `requires`.
StartFromRequires(p) ==
    /\ ReadyToStart(p) /\ ~AlreadySatisfied(p)
    /\ outcome' = [outcome EXCEPT ![p] = "running"]
    /\ stage' = [stage EXCEPT ![p] = "read"]
    /\ left' = [left EXCEPT ![p] = Requires[p]]
    /\ UNCHANGED <<store, catalog, user, running, open>>

Start(p) ==
    /\ ReadyToStart(p) /\ ~AlreadySatisfied(p)
    /\ outcome' = [outcome EXCEPT ![p] = "running"]
    /\ stage' = [stage EXCEPT ![p] = IF p \in Tiled THEN "alloc" ELSE "read"]
    /\ left' = [left EXCEPT ![p] = Outputs[p]]
    /\ UNCHANGED <<store, catalog, user, running, open>>

\* ProducerV2.run: extract ...
Extract(p) ==
    /\ stage[p] = "read"
    /\ \A u \in Requires[p] : data[u] # "none"
    /\ moved' = [moved EXCEPT ![p] = {}]
    /\ stage' = [stage EXCEPT ![p] = "write"]
    /\ UNCHANGED <<data, outdated, catalog, user, running, outcome, left, open>>

\* ... and update: for each output in turn, the Zarr, then the row.  The init
\* of a tiled producer goes the same way with arrays of fill values.
WriteOutput(p, o) ==
    /\ stage[p] \in {"write", "alloc"} /\ open[p] = None /\ o \in left[p]
    /\ IF stage[p] = "write" THEN Put({o}, "whole", moved[p]) ELSE Put({o}, "fill", {})
    /\ left' = [left EXCEPT ![p] = @ \ {o}]
    /\ open' = [open EXCEPT ![p] = o]
    /\ UNCHANGED <<catalog, user, running, outcome, stage>>

AddRow(p) ==
    /\ open[p] # None
    /\ AddTile(open[p])
    /\ open' = [open EXCEPT ![p] = None]
    /\ UNCHANGED <<store, user, running, outcome, stage, left>>

Written(p) == left[p] = {} /\ open[p] = None

Return(p, result) ==
    /\ outcome' = [outcome EXCEPT ![p] = result]
    /\ stage' = [stage EXCEPT ![p] = "idle"]
    /\ left' = [left EXCEPT ![p] = {}]
    /\ UNCHANGED <<catalog, user, running, open>>

Finish(p) ==
    /\ stage[p] = "write" /\ Written(p)
    /\ Return(p, "ok") /\ UNCHANGED store

\* Extract, compute or the check of its outputs fails, a write, or a tile.
MayFail(p) ==
    /\ stage[p] # "idle" /\ open[p] = None
    /\ stage[p] = "write" => left[p] # {}

\* The attempt is made again from the start (tiles: in their worker) ...
Retry(p) ==
    /\ MayFail(p) /\ p \notin Tiled
    /\ stage' = [stage EXCEPT ![p] = "read"]
    /\ left' = [left EXCEPT ![p] = Outputs[p]]
    /\ UNCHANGED <<store, catalog, user, running, outcome, open>>

\* Mutated form: the exception of the last attempt is dropped.
FailQuietly(p) == MayFail(p) /\ Return(p, "ok") /\ UNCHANGED store

\* ... or was the last.
Fail(p) == MayFail(p) /\ Return(p, "error") /\ UNCHANGED store

\* The tiles read the inputs, each in its worker, and write their chunks.
StartTiles(p) ==
    /\ stage[p] = "alloc" /\ Written(p)
    /\ \A u \in Requires[p] : data[u] # "none"
    /\ moved' = [moved EXCEPT ![p] = {}]
    /\ stage' = [stage EXCEPT ![p] = "tiles"]
    /\ UNCHANGED <<data, outdated, catalog, user, running, outcome, left, open>>

FinishTiles(p) ==
    /\ stage[p] = "tiles"
    /\ Put(Outputs[p], "whole", moved[p])
    /\ Return(p, "ok")

\* At most one of each producer's outputs, its Zarr being replaced (mode "w").
Replacing == {S \in SUBSET UNION {left[p] : p \in Producers} :
                \A p \in Producers : \A o1, o2 \in S \cap left[p] : open[p] = None /\ o1 = o2}

\* The process dies, perhaps in the middle of a Zarr, or between the DELETE and
\* the INSERT of a row.
Crash ==
    /\ Crashes /\ (running \/ user # None)
    /\ \E torn \in Replacing :
          /\ data' = [v \in Vars |-> IF v \in torn THEN "fill" ELSE data[v]]
          /\ outdated' = outdated \cup MadeFrom(torn)
    /\ \E lost \in SUBSET (({user} \cup {open[p] : p \in Producers}) \cap rows) :
          /\ rows' = rows \ lost
          /\ newer' = {e \in newer : e[1] \notin lost /\ e[2] \notin lost}
    /\ user' = None
    /\ running' = FALSE
    /\ stage' = [p \in Producers |-> "idle"]
    /\ left' = [p \in Producers |-> {}]
    /\ open' = [p \in Producers |-> None]
    /\ UNCHANGED <<moved, outcome>>

ProducerStep(p) ==
    \/ WriteOff(p) \/ Skip(p) \/ Start(p)
    \/ Extract(p) \/ (\E o \in Outputs[p] : WriteOutput(p, o)) \/ AddRow(p)
    \/ Finish(p) \/ Retry(p) \/ Fail(p)
    \/ StartTiles(p) \/ FinishTiles(p)

Next ==
    \/ StartRun
    \/ /\ \/ \E v \in Sources : RefetchData(v)
          \/ RefetchRow \/ EndRun \/ Crash
          \/ \E p \in Producers : ProducerStep(p)
       /\ UNCHANGED forced

Spec == Init /\ [][Next]_vars

-----------------------------------------------------------------------------
(* --- properties ---------------------------------------------------------- *)

TypeOK ==
    /\ data \in [Vars -> {"none", "fill", "whole"}]
    /\ outdated \subseteq Vars \X Vars
    /\ rows \subseteq Vars
    /\ newer \subseteq rows \X rows
    /\ user \in Sources \cup {None}
    /\ running \in BOOLEAN /\ forced \in BOOLEAN
    /\ outcome \in [Producers -> Outcomes]
    /\ stage \in [Producers -> Stages]
    /\ left \in [Producers -> SUBSET Produced] /\ \A p \in Producers : left[p] \subseteq Outputs[p]
    /\ open \in [Producers -> Produced \cup {None}]
    /\ moved \in [Producers -> SUBSET Vars]

UpToDate(o) == \A u \in Vars : <<o, u>> \notin outdated
Fresh(o) == data[o] = "whole" /\ UpToDate(o)

\* What the run has reported as ok or skipped is complete and made from what
\* its inputs hold now: reuse never hides that something upstream was fetched
\* or computed again.  Over the whole pipeline, every output then rests on
\* current inputs all the way up.
ReportedIsFresh ==
    running => \A p \in Producers : outcome[p] \in Good => \A o \in Outputs[p] : Fresh(o)

\* What a run has itself computed is fresh, after any crash and any failure of
\* earlier runs: nothing of their state is taken over.
ComputedIsFresh ==
    running => \A p \in Producers : outcome[p] = "ok" => \A o \in Outputs[p] : Fresh(o)

\* ... and whatever was reported has its row: a row that a crash deleted
\* without inserting the new one makes its producer run again.
ReportedIsCatalogued ==
    running => \A p \in Producers : outcome[p] \in Good => Outputs[p] \subseteq rows

\* A step runs only if something is to be done, unless it was forced: an output
\* has no row, or is incomplete, or an input of it changed.
NoNeedlessRun ==
    [][\A p \in Producers :
          stage[p] = "idle" /\ stage'[p] # "idle" =>
             forced \/ \E o \in Outputs[p] : o \notin rows \/ ~Fresh(o)]_vars

(* --- the inductive invariant behind ReportedIsFresh, for whole-grid ------- *)
(* --- producers without crashes --------------------------------------------- *)

Unstamped(v) == user = v \/ \E p \in Producers : open[p] = v

\* An output that is out of date and has a row has an input whose row is newer,
\* or is about to be.
OrderTellsAge ==
    \A e \in outdated : e[1] \in rows => <<e[2], e[1]>> \in newer \/ Unstamped(e[2])

OutdatedByInput ==
    \A e \in outdated : \E p \in Producers : e[1] \in Outputs[p] /\ e[2] \in Requires[p]

WholeInRows == \A v \in rows \cup {user} : v # None => data[v] = "whole"

StepsOfRun ==
    /\ running => user = None
    /\ \A p \in Producers :
          /\ stage[p] # "idle" => running /\ outcome[p] = "running"
          /\ running /\ outcome[p] = "running" => stage[p] # "idle"
          /\ open[p] # None => stage[p] = "write" /\ open[p] \in Outputs[p] \ left[p]
          /\ running /\ outcome[p] \in Good \cup {"running"} =>
                \A q \in After[p] : outcome[q] \in Good
          /\ stage[p] \in {"idle", "read", "write"} /\ (stage[p] = "read" => left[p] = Outputs[p])

WrittenIsFresh ==
    \A p \in Producers : stage[p] = "write" =>
        moved[p] = {} /\ \A o \in Outputs[p] \ left[p] : Fresh(o)

IInv ==
    /\ OrderTellsAge
    /\ OutdatedByInput
    /\ WholeInRows
    /\ StepsOfRun
    /\ WrittenIsFresh
    /\ ReportedIsFresh

(* --- what the comments and docs say, and the code does not do ------------ *)

\* system_design.md: a producer is skipped if "all produced variables are
\* satisfied", that is "already available in the cube".
SkippedIsComplete ==
    running => \A p \in Producers :
        outcome[p] = "skipped" => \A o \in Outputs[p] : data[o] = "whole"
=============================================================================
