--------------------------- MODULE PipelineRunner ---------------------------
(***************************************************************************)
(* PipelineRunner.run of engine/scheduler.py: the working set of pending   *)
(* nodes, the layers of ready nodes, the two ways a layer is executed (in  *)
(* line, or through a worker pool), the settling of the layer's results,   *)
(* triggers, fail_fast, and the ways the method ends.                      *)
(*                                                                         *)
(* Producer names are numbers ordered as the strings sort, because         *)
(* ready.sort() fixes the order inside a layer.  What a producer does to   *)
(* the cube is not modelled here: whether a step is skipped, succeeds or   *)
(* fails, and whether a trigger's predicate holds, is chosen freely.       *)
(***************************************************************************)
EXTENDS Integers, Sequences, FiniteSets

CONSTANTS Names,        \* names that appear in pipelines and triggers
          Plans,        \* the pipelines considered
          Runners,      \* the PipelineRunner objects considered
          Tiled,        \* names of tile-aware producers
          MaxAttempts   \* RetryPolicy.max_attempts

Trigger == [source : Names, target : Names]
Plan == [nodes : SUBSET Names, after : [Names -> SUBSET Names], triggers : SUBSET Trigger]

\* pool: the backend is a worker pool and not SerialBackend; registry: the names
\* it knows; verbose: run() validates the pipeline only then.
Runner == [pool : BOOLEAN, failFast : BOOLEAN, verbose : BOOLEAN, registry : SUBSET Names]

ASSUME RunnerAssumption ==
    /\ Names \subseteq Nat
    /\ Plans \subseteq Plan
    /\ Runners \subseteq Runner
    /\ Tiled \subseteq Names
    /\ MaxAttempts \in Nat \ {0}

VARIABLES runner,      \* the PipelineRunner, which does not change
          plan,        \* the pipeline being run
          phase,       \* where run() is
          nodeAfter,   \* node_after: pending node -> its unmet dependencies
          completed,   \* the local set of the same name
          failed,      \* the local set of the same name
          unreachable, \* nodes of the current pass still to be dropped
          todo,        \* nodes of the current layer not yet looked at
          inline,      \* the layer runs on _run_layer's serial path
          worker,      \* submitted node -> its future: a result, or Running
          results,     \* layer_results, then what is left of it to settle
          steps,       \* RunResult.steps
          triggered,   \* RunResult.triggered, as the triggers that scheduled
          dumped,      \* _dump_result was reached
          broken       \* the process pool has broken and refuses tasks

vars == <<runner, plan, phase, nodeAfter, completed, failed, unreachable, todo,
          inline, worker, results, steps, triggered, dumped, broken>>

(* --- results ----------------------------------------------------------- *)

Status == {"ok", "skipped", "error", "blocked"}   \* blocked: "upstream dependency failed"
Result == [name : Names, status : Status, attempts : 1..MaxAttempts, dead : BOOLEAN]
Success == {"ok", "skipped"}
Executed == {"ok", "error"}

StepOutcome(n, status, attempts, dead) ==
    [name |-> n, status |-> status, attempts |-> attempts, dead |-> dead]

Skipped(n) == StepOutcome(n, "skipped", 1, FALSE)
Blocked(n) == StepOutcome(n, "blocked", 1, FALSE)

\* Mutated form: the attempt counter starts at 0.
RetryOutcomesFromZero(n) ==
    {StepOutcome(n, "ok", a, FALSE) : a \in 0..(MaxAttempts - 1)}
      \cup {StepOutcome(n, "error", a, a = MaxAttempts - 1) : a \in 0..(MaxAttempts - 1)}

\* attempt_with_retry: success on some attempt, a non-retryable error on an
\* earlier one, or every attempt used up (a dead letter).
RetryOutcomes(n) ==
    {StepOutcome(n, "ok", a, FALSE) : a \in 1..MaxAttempts}
      \cup {StepOutcome(n, "error", a, a = MaxAttempts) : a \in 1..MaxAttempts}

\* _run_tiled_step seen from the layer: the same two shapes, and the
\* catch-all for init and finalize, which is never a dead letter.
TiledOutcomes(n) == RetryOutcomes(n) \cup {StepOutcome(n, "error", 1, FALSE)}

\* A future that fails by itself (its worker has crashed) is a dead letter.
BackendError(n) == StepOutcome(n, "error", 1, TRUE)
FutureOutcomes(n) == RetryOutcomes(n) \cup {BackendError(n)}
Running(n) == StepOutcome(n, "running", 1, FALSE)

IsFirst(n, S) == n \in S /\ \A m \in S : n <= m

(* --- Pipeline.topological_layers as the check explain() makes ----------- *)

KnownDependencies(p) == \A n \in p.nodes : p.after[n] \subseteq p.nodes
Acyclic(p) == \A S \in SUBSET p.nodes :
                 S # {} => \E n \in S : p.after[n] \cap S = {}
WellFormed(p) == KnownDependencies(p) /\ Acyclic(p)

-----------------------------------------------------------------------------
Init ==
    /\ runner \in Runners /\ plan \in Plans
    /\ phase = "start"
    /\ nodeAfter = [n \in plan.nodes |-> plan.after[n]]
    /\ completed = {} /\ failed = {}
    /\ unreachable = {} /\ todo = {}
    /\ inline = TRUE
    /\ worker = << >>
    /\ results = << >> /\ steps = << >>
    /\ triggered = {}
    /\ dumped = FALSE
    /\ broken = FALSE

\* `if self.verbose: pipeline.explain()` is the only validation run() makes.
Explain ==
    /\ phase = "start"
    /\ phase' = IF runner.verbose /\ ~WellFormed(plan) THEN "raised" ELSE "scan"
    /\ UNCHANGED <<runner, plan, nodeAfter, completed, failed, unreachable, todo,
                   inline, worker, results, steps, triggered, dumped, broken>>

Settled(n) == nodeAfter[n] \subseteq completed \cup failed
\* Mutated form: the subtraction of `completed` also forgives failed dependencies.
ReadyNodesForgiving == {n \in DOMAIN nodeAfter : Settled(n)}
ReadyNodes == {n \in DOMAIN nodeAfter : Settled(n) /\ nodeAfter[n] \cap failed = {}}
\* Mutated form: whatever is not ready is unreachable (no test for pending ones).
UnreachableNodesHasty == {n \in DOMAIN nodeAfter : nodeAfter[n] \ completed # {}}
UnreachableNodes == {n \in DOMAIN nodeAfter : Settled(n) /\ nodeAfter[n] \cap failed # {}}

\* The head of `while node_after`: both sets are computed before any
\* unreachable node is added to `failed`.
Scan ==
    /\ phase = "scan"
    /\ DOMAIN nodeAfter # {}
    /\ todo' = ReadyNodes
    /\ unreachable' = UnreachableNodes
    /\ phase' = "drop"
    /\ UNCHANGED <<runner, plan, nodeAfter, completed, failed, inline, worker,
                   results, steps, triggered, dumped, broken>>

Return ==
    /\ phase = "scan"
    /\ DOMAIN nodeAfter = {}
    /\ phase' = "returned"
    /\ dumped' = TRUE
    /\ UNCHANGED <<runner, plan, nodeAfter, completed, failed, unreachable, todo,
                   inline, worker, results, steps, triggered, broken>>

Pop(n) == [m \in DOMAIN nodeAfter \ {n} |-> nodeAfter[m]]

\* One turn of `for n in unreachable` (in the dict's order: any order).
DropUnreachable(n) ==
    /\ phase = "drop"
    /\ n \in unreachable
    /\ unreachable' = unreachable \ {n}
    /\ nodeAfter' = Pop(n)
    /\ steps' = Append(steps, Blocked(n))
    /\ failed' = failed \cup {n}
    /\ UNCHANGED <<runner, plan, phase, completed, todo, inline, worker, results,
                   triggered, dumped, broken>>

\* Mutated form: a pass without ready nodes ends the run quietly ...
NothingReadyReturns ==
    /\ phase = "drop" /\ unreachable = {} /\ todo = {}
    /\ phase' = "returned" /\ dumped' = TRUE
    /\ UNCHANGED <<runner, plan, nodeAfter, completed, failed, unreachable, todo,
                   inline, worker, results, steps, triggered, broken>>

\* ... or goes round again, waiting for nodes that will never come.
NothingReadyRescans ==
    /\ phase = "drop" /\ unreachable = {} /\ todo = {}
    /\ phase' = "scan"
    /\ UNCHANGED <<runner, plan, nodeAfter, completed, failed, unreachable, todo,
                   inline, worker, results, steps, triggered, dumped, broken>>

\* `if not ready`: leave the loop, or give up.
NothingReady ==
    /\ phase = "drop" /\ unreachable = {} /\ todo = {}
    /\ phase' = IF DOMAIN nodeAfter = {} THEN "returned" ELSE "raised"
    /\ dumped' = (DOMAIN nodeAfter = {})
    /\ UNCHANGED <<runner, plan, nodeAfter, completed, failed, unreachable, todo,
                   inline, worker, results, steps, triggered, broken>>

StartLayer ==
    /\ phase = "drop" /\ unreachable = {} /\ todo # {}
    /\ inline' = (~runner.pool \/ Cardinality(todo) = 1)
    /\ phase' = "layer"
    /\ UNCHANGED <<runner, plan, nodeAfter, completed, failed, unreachable, todo,
                   worker, results, steps, triggered, dumped, broken>>

-----------------------------------------------------------------------------
(* --- _run_layer and _run_step ------------------------------------------ *)

\* registry.get(name) raises KeyError out of run().
UnknownProducer(n) ==
    /\ phase = "layer" /\ IsFirst(n, todo) /\ n \notin runner.registry
    /\ phase' = "raised"
    /\ UNCHANGED <<runner, plan, nodeAfter, completed, failed, unreachable, todo,
                   inline, worker, results, steps, triggered, dumped, broken>>

\* The next name in sorted order, found in the registry; r is its result.
AtStep(n) == phase = "layer" /\ IsFirst(n, todo) /\ n \in runner.registry

Record(n, r) ==
    /\ todo' = todo \ {n}
    /\ results' = Append(results, r)
    /\ UNCHANGED <<runner, plan, phase, nodeAfter, completed, failed, unreachable,
                   inline, worker, steps, triggered, dumped, broken>>

\* The cube already satisfies the producer (either path, just before the step).
SkipStep(n) == AtStep(n) /\ Record(n, Skipped(n))

\* Serial path: the step runs here, to its end.
RunStep(n) == AtStep(n) /\ inline /\ n \notin Tiled /\ \E r \in RetryOutcomes(n) : Record(n, r)

\* A tile-aware producer runs here on both paths: it drives the pool itself.
RunTiledStep(n) == AtStep(n) /\ n \in Tiled /\ \E r \in TiledOutcomes(n) : Record(n, r)

\* Pool path: the rest of the layer is set aside ...
SetAside(n) ==
    /\ AtStep(n) /\ ~inline /\ n \notin Tiled
    /\ todo' = todo \ {n}
    /\ worker' = [m \in DOMAIN worker \cup {n} |-> Running(m)]
    /\ UNCHANGED <<runner, plan, phase, nodeAfter, completed, failed, unreachable,
                   inline, results, steps, triggered, dumped, broken>>

\* ... and submitted once the pre-pass has looked at every name.
SubmitAll ==
    /\ phase = "layer" /\ todo = {} /\ DOMAIN worker # {}
    /\ ~broken
    /\ phase' = "gather"
    /\ UNCHANGED <<runner, plan, nodeAfter, completed, failed, unreachable, todo,
                   inline, worker, results, steps, triggered, dumped, broken>>

\* backend.submit is outside any `try`: a broken pool raises out of run().
SubmitFails ==
    /\ phase = "layer" /\ todo = {} /\ DOMAIN worker # {}
    /\ broken
    /\ phase' = "raised"
    /\ UNCHANGED <<runner, plan, nodeAfter, completed, failed, unreachable, todo,
                   inline, worker, results, steps, triggered, dumped, broken>>

\* A process of the pool dies: what it had been given fails, and it takes no
\* more tasks.  (A break in the middle of the submissions is one before them.)
PoolBreaks ==
    /\ runner.pool /\ ~broken /\ phase \in {"scan", "drop", "layer", "gather", "settle"}
    /\ broken' = TRUE
    /\ worker' = [n \in DOMAIN worker |->
                     IF phase = "gather" /\ worker[n] = Running(n)
                     THEN BackendError(n) ELSE worker[n]]
    /\ UNCHANGED <<runner, plan, phase, nodeAfter, completed, failed, unreachable,
                   todo, inline, results, steps, triggered, dumped>>

WorkerFinish(n) ==
    /\ phase = "gather"
    /\ n \in DOMAIN worker /\ worker[n] = Running(n)
    /\ \E r \in FutureOutcomes(n) : worker' = [worker EXCEPT ![n] = r]
    /\ UNCHANGED <<runner, plan, phase, nodeAfter, completed, failed, unreachable,
                   todo, inline, results, steps, triggered, dumped, broken>>

\* Results are collected in submission order, whatever order workers end in.
Gather(n) ==
    /\ phase = "gather" /\ IsFirst(n, DOMAIN worker)
    /\ worker[n] # Running(n)
    /\ results' = Append(results, worker[n])
    /\ worker' = [m \in DOMAIN worker \ {n} |-> worker[m]]
    /\ UNCHANGED <<runner, plan, phase, nodeAfter, completed, failed, unreachable,
                   todo, inline, steps, triggered, dumped, broken>>

\* result.steps.extend(layer_results): the whole layer before any settling.
EndLayer ==
    /\ phase \in {"layer", "gather"}
    /\ todo = {} /\ DOMAIN worker = {}
    /\ steps' = steps \o results
    /\ phase' = "settle"
    /\ UNCHANGED <<runner, plan, nodeAfter, completed, failed, unreachable, todo,
                   inline, worker, results, triggered, dumped, broken>>

-----------------------------------------------------------------------------
(* --- `for sr in layer_results` ----------------------------------------- *)

\* Mutated form: completed targets are not left out.
DueAll(fired, done) == fired

\* The triggers of n whose predicate held and whose target is not completed;
\* a predicate that raises counts as not fired.
Due(fired, done) == {t \in fired : t.target \notin done}

\* Mutated form: the target's dependencies are replaced, not merged.
ScheduleReplacing(source, targets) ==
    [m \in (DOMAIN nodeAfter \ {source}) \cup targets |->
        IF m \in targets THEN {source} ELSE nodeAfter[m]]

\* node_after.pop(source) and then, for every trigger that is due,
\* node_after.setdefault(target, set()).add(source).
Schedule(source, targets) ==
    [m \in (DOMAIN nodeAfter \ {source}) \cup targets |->
        (IF m \in DOMAIN nodeAfter \ {source} THEN nodeAfter[m] ELSE {})
          \cup (IF m \in targets THEN {source} ELSE {})]

\* Mutated form: a skipped step is handled as one that ran.
SettlingLoosely(status) ==
    phase = "settle" /\ results # << >>
      /\ \/ Head(results).status = status
         \/ status = "ok" /\ Head(results).status = "skipped"

Settling(status) ==
    phase = "settle" /\ results # << >> /\ Head(results).status = status
SettledName == Head(results).name

SettleOk ==
    /\ Settling("ok")
    /\ completed' = completed \cup {SettledName}
    /\ \E fired \in SUBSET {t \in plan.triggers : t.source = SettledName} :
          LET due == Due(fired, completed')
          IN /\ nodeAfter' = Schedule(SettledName, {t.target : t \in due})
             /\ triggered' = triggered \cup due
    /\ results' = Tail(results)
    /\ UNCHANGED <<runner, plan, phase, failed, unreachable, todo, inline, worker,
                   steps, dumped, broken>>

\* Mutated form: a skipped step is not entered in `completed`.
SettleSkippedUnmarked ==
    /\ Settling("skipped")
    /\ nodeAfter' = Pop(SettledName)
    /\ results' = Tail(results)
    /\ UNCHANGED <<runner, plan, phase, completed, failed, unreachable, todo, inline,
                   worker, steps, triggered, dumped, broken>>

\* Dependents may proceed; the triggers of a skipped step do not fire.
SettleSkipped ==
    /\ Settling("skipped")
    /\ completed' = completed \cup {SettledName}
    /\ nodeAfter' = Pop(SettledName)
    /\ results' = Tail(results)
    /\ UNCHANGED <<runner, plan, phase, failed, unreachable, todo, inline, worker,
                   steps, triggered, dumped, broken>>

\* Mutated form: fail_fast is not looked at.
SettleErrorGoesOn ==
    /\ Settling("error")
    /\ failed' = failed \cup {SettledName}
    /\ nodeAfter' = Pop(SettledName)
    /\ results' = Tail(results)
    /\ UNCHANGED <<runner, plan, phase, completed, unreachable, todo, inline, worker,
                   steps, triggered, dumped, broken>>

\* fail_fast returns at the first error, leaving the rest of the layer unsettled.
SettleError ==
    /\ Settling("error")
    /\ failed' = failed \cup {SettledName}
    /\ nodeAfter' = Pop(SettledName)
    /\ results' = Tail(results)
    /\ phase' = IF runner.failFast THEN "returned" ELSE "settle"
    /\ dumped' = runner.failFast
    /\ UNCHANGED <<runner, plan, completed, unreachable, todo, inline, worker, steps,
                   triggered, broken>>

EndSettle ==
    /\ phase = "settle" /\ results = << >>
    /\ phase' = "scan"
    /\ UNCHANGED <<runner, plan, nodeAfter, completed, failed, unreachable, todo,
                   inline, worker, results, steps, triggered, dumped, broken>>

Ended == phase \in {"returned", "raised"} /\ UNCHANGED vars

NodeStep(n) ==
    \/ DropUnreachable(n)
    \/ UnknownProducer(n) \/ SkipStep(n) \/ RunStep(n) \/ RunTiledStep(n)
    \/ SetAside(n) \/ WorkerFinish(n) \/ Gather(n)

RunnerStep ==
    \/ Explain \/ Scan \/ Return \/ NothingReady \/ StartLayer
    \/ SubmitAll \/ SubmitFails \/ PoolBreaks \/ EndLayer
    \/ SettleOk \/ SettleSkipped \/ SettleError \/ EndSettle
    \/ Ended

Next == (\E n \in Names : NodeStep(n)) \/ RunnerStep

Spec == Init /\ [][Next]_vars

\* run() is one thread that keeps executing; every submitted task ends.
FairSpec == Spec /\ WF_vars(Next)

-----------------------------------------------------------------------------
(* --- properties -------------------------------------------------------- *)

TypeOK ==
    /\ runner \in Runners /\ plan \in Plans
    /\ phase \in {"start", "scan", "drop", "layer", "gather", "settle", "returned", "raised"}
    /\ DOMAIN nodeAfter \subseteq Names
    /\ nodeAfter \in [DOMAIN nodeAfter -> SUBSET Names]
    /\ completed \subseteq Names /\ failed \subseteq Names
    /\ unreachable \subseteq Names /\ todo \subseteq Names
    /\ inline \in BOOLEAN
    /\ DOMAIN worker \subseteq Names
    /\ \A n \in DOMAIN worker : worker[n] = Running(n) \/ (worker[n] \in Result /\ worker[n].name = n)
    /\ results \in Seq(Result) /\ steps \in Seq(Result)
    /\ triggered \subseteq Trigger
    /\ dumped \in BOOLEAN /\ broken \in BOOLEAN

EntriesOf(n) == {i \in DOMAIN steps : steps[i].name = n}
FirstEntry(i) == \A j \in 1..(i - 1) : steps[j].name # steps[i].name
SucceededBefore(d, i) == \E j \in 1..(i - 1) : steps[j].name = d /\ steps[j].status \in Success
SourcesOf(n) == {t.source : t \in {u \in plan.triggers : u.target = n}}

\* No producer is run again in a run in which it has succeeded (or was found
\* satisfied), however many triggers and layers re-insert it: _fire_triggers'
\* test against `completed` and the pops from node_after, together.
AtMostOneSuccess ==
    \A i, j \in DOMAIN steps :
        steps[i].name = steps[j].name /\ steps[i].status \in Success => j <= i

\* The first time a node of the pipeline appears in RunResult.steps other than
\* as unreachable, all its declared dependencies have succeeded before it,
\* whatever triggers did to its dependency set meanwhile.
DependenciesFirst ==
    \A i \in DOMAIN steps :
        /\ FirstEntry(i) /\ steps[i].name \in plan.nodes
        /\ steps[i].status # "blocked"
        => \A d \in plan.after[steps[i].name] : SucceededBefore(d, i)

\* A step reported as "upstream dependency failed" has a dependency, declared
\* or added by a trigger, that did appear as an error before it.
BlockedHasFailedDependency ==
    \A i \in DOMAIN steps :
        steps[i].status = "blocked" =>
            \E j \in 1..(i - 1) :
                /\ steps[j].status \in {"error", "blocked"}
                /\ steps[j].name \in plan.after[steps[i].name] \cup SourcesOf(steps[i].name)

\* run() raises, on a pipeline it would have accepted as valid and whose names
\* are all registered ("pipeline stuck"), only after some step failed or the
\* pool broke.
StuckOnlyAfterFailure ==
    phase = "raised" =>
        \/ ~WellFormed(plan)
        \/ ~(plan.nodes \cup {t.target : t \in plan.triggers} \subseteq runner.registry)
        \/ failed # {} \/ broken

\* A run that returns has dumped its report, and, other than by fail_fast, it
\* reports on every node of the pipeline and on every target a trigger scheduled.
EveryNodeReported ==
    phase = "returned" =>
        /\ dumped
        /\ \/ runner.failFast /\ failed # {}
           \/ \A n \in plan.nodes \cup {t.target : t \in triggered} : EntriesOf(n) # {}

\* A trigger fires only for a source that really ran in this run: one that
\* was skipped as satisfied, or failed, has not changed the cube.
TriggersNeedARun ==
    \A t \in triggered :
        \E i \in EntriesOf(t.source) : steps[i].status = "ok"

\* With fail_fast, nothing is reported unreachable and no layer starts after
\* an error: only the layer of the first error appears after it.
FailFastStops ==
    runner.failFast =>
        /\ \A i \in DOMAIN steps : steps[i].status # "blocked"
        /\ failed # {} => phase = "returned"

\* What is reported has a reason in the report itself: a dependency that failed
\* for what was blocked, a source that ran for what was triggered
\* (scheduler.py:337-339, 408-434).
ReportIsJustified == BlockedHasFailedDependency /\ TriggersNeedARun

\* A report that is returned says what became of every node, or stops at the
\* layer of the first error because it was told to (scheduler.py:364-406).
ReportIsComplete == EveryNodeReported /\ FailFastStops

\* run() always ends: a failed target can be re-inserted, but only by a source
\* that completes, and a source completes once.
Terminates == <>(phase \in {"returned", "raised"})

(* --- the inductive invariant behind them -------------------------------- *)

NamesIn(seq) == {seq[i].name : i \in DOMAIN seq}
DistinctNames(seq) == \A i, j \in DOMAIN seq : seq[i].name = seq[j].name => i = j
Targets == {t.target : t \in plan.triggers}
DeclaredFor(n) == IF n \in plan.nodes THEN plan.after[n] ELSE {}

\* Pending nodes: never completed, from the plan or a trigger, waiting only for
\* what they declare or for what has completed; and nothing gets lost.
WorkingSet ==
    /\ DOMAIN nodeAfter \cap completed = {}
    /\ DOMAIN nodeAfter \subseteq plan.nodes \cup Targets
    /\ \A n \in DOMAIN nodeAfter : nodeAfter[n] \subseteq DeclaredFor(n) \cup completed
    /\ plan.nodes \subseteq DOMAIN nodeAfter \cup completed \cup failed

\* Until the first failure, a pass drops nothing and its layer is all that is ready.
PassIsCurrent ==
    phase = "drop" =>
        /\ unreachable \subseteq DOMAIN nodeAfter
        /\ todo \cap unreachable = {}
        /\ failed = {} => unreachable = {} /\ todo = ReadyNodes

\* The names of a layer are pending, each in one place of its way through it.
LayerIsPending ==
    /\ todo \subseteq DOMAIN nodeAfter
    /\ phase \in {"layer", "gather", "settle"} =>
          /\ DOMAIN worker \cup NamesIn(results) \subseteq DOMAIN nodeAfter
          /\ todo \cap DOMAIN worker = {}
          /\ NamesIn(results) \cap (todo \cup DOMAIN worker) = {}
          /\ DistinctNames(results)
    /\ phase \in {"start", "scan", "drop"} => results = << >>
    /\ phase \in {"start", "scan", "drop", "settle"} => DOMAIN worker = {}
    /\ phase \in {"start", "scan", "gather", "settle"} => todo = {}

\* A success in RunResult.steps is settled, or among the results being settled.
SuccessIsCompleted ==
    \A i \in DOMAIN steps :
        steps[i].status \in Success =>
            \/ steps[i].name \in completed
            \/ phase \in {"settle", "returned"} /\ \E j \in DOMAIN results : results[j] = steps[i]

IInv ==
    /\ WorkingSet
    /\ PassIsCurrent
    /\ LayerIsPending
    /\ SuccessIsCompleted
    /\ AtMostOneSuccess
    /\ StuckOnlyAfterFailure

(* --- refinement: without triggers, run() executes the graph ------------- *)

\* What the run reports of n so far: the entry of its result, which is in
\* layer_results first and in RunResult.steps from the end of the layer.
Reported == IF phase = "settle" THEN steps ELSE steps \o results
OutcomeOf(n) ==
    LET own == {i \in DOMAIN Reported : Reported[i].name = n}
    IN IF own = {} THEN "waiting"
       ELSE Reported[CHOOSE i \in own : \A j \in own : j <= i].status

Dag == INSTANCE DagExecution WITH outcome <- [n \in Names |-> OutcomeOf(n)]

\* Every behaviour of run() on a pipeline without triggers, through a pool or
\* in line, is one of DagExecution.
ExecutesDag == Dag!Init /\ [][plan.triggers = {} => Dag!Next]_(Dag!vars)

(* --- what the comments and docstrings say, and run() does not do -------- *)

\* scheduler.py:318-319: a node behind failed dependencies is dropped with a
\* warning; so run() raises only of a bad pipeline, an unregistered producer or a
\* broken pool.
RaisesOnlyOnBadPlan ==
    phase = "raised" =>
        \/ ~WellFormed(plan)
        \/ ~(plan.nodes \cup {t.target : t \in plan.triggers} \subseteq runner.registry)
        \/ broken
=============================================================================
