----------------------------- MODULE TileFanout -----------------------------
(***************************************************************************)
(* _run_tiled_step of engine/scheduler.py: one producer's tiles, handed to *)
(* the backend through a sliding window of futures, retried in the workers *)
(* (engine/retry.py), collected, and finished or given up; and what the    *)
(* tiles write into the chunks of the output array (engine/tiled.py,       *)
(* engine/merge.py).  A tile is a number; its data is the number itself,   *)
(* so a chunk holds the set of the tiles whose data is in it.              *)
(***************************************************************************)
EXTENDS Integers, Sequences, FiniteSets, FiniteSetsExt

CONSTANTS TileCount,    \* how many tiles tile_iter yields
          MaxAttempts,  \* RetryPolicy.max_attempts
          Setups        \* the runners and producers considered

Tiles == 1..TileCount

\* inflight: PipelineRunner.max_inflight_tiles, 0 for None; chunkOf: the Zarr
\* chunk that a tile's region lies in.
Setup == [backend : {"serial", "thread", "process", "dask"}, inflight : Nat,
          chunkOf : [Tiles -> Tiles]]

ASSUME FanoutAssumption ==
    /\ TileCount \in Nat
    /\ MaxAttempts \in Nat \ {0}
    /\ Setups \subseteq Setup

VARIABLES setup,    \* which of Setups
          phase,    \* where the step is
          active,   \* the tiles whose predicate holds
          unsent,   \* active tiles not submitted yet
          pending,  \* futures in the order of submission, by tile
          waitFor,  \* the future the parent has chosen to wait for, or 0
          broken,   \* the process pool has broken
          task,     \* tile -> what its worker is doing
          attempts, \* tile -> attempts made so far
          scratch,  \* tile -> the chunk as its worker has read it
          chunk,    \* chunk -> tiles whose data it holds
          metrics,  \* tile_metrics: tile, attempts, status
          result    \* the StepResult: status, attempts, dead_letter, tile_metrics

worker == <<task, attempts, scratch, chunk>>
parent == <<setup, phase, active, unsent, pending, waitFor, metrics, result>>
vars == <<worker, parent, broken>>

Metric == [tile : Tiles, attempts : 1..MaxAttempts, status : {"ok", "error"}]
Outcome(status, tries, dead, told) ==
    [status |-> status, attempts |-> tries, dead |-> dead, told |-> told]
NoResult == Outcome("none", 1, FALSE, << >>)

\* What the catch-all returns: a StepResult with the defaults of its fields.
GivenUp == Outcome("error", 1, FALSE, << >>)

NTiles == Cardinality(active)
Inline == setup.backend = "serial" \/ NTiles = 1
Smaller(a, b) == IF a < b THEN a ELSE b
Larger(a, b) == IF a < b THEN b ELSE a

\* Mutated form: the window is as long as the list of tiles.
WindowOpen == Larger(1, NTiles)

\* cap: at most max_inflight_tiles futures; the serial path has one at a time.
Window == IF Inline THEN 1
          ELSE Larger(1, Smaller(IF setup.inflight = 0 THEN NTiles ELSE setup.inflight, NTiles))

Init ==
    /\ setup \in Setups
    /\ phase = "init"
    /\ active = {} /\ unsent = {} /\ pending = << >> /\ waitFor = 0
    /\ broken \in IF setup.backend = "process" THEN BOOLEAN ELSE {FALSE}  \* by an earlier step
    /\ task = [i \in Tiles |-> "none"]
    /\ attempts = [i \in Tiles |-> 0]
    /\ scratch = [i \in Tiles |-> {}]
    /\ chunk = [c \in {setup.chunkOf[i] : i \in Tiles} |-> {}]
    /\ metrics = << >>
    /\ result = NoResult

-----------------------------------------------------------------------------
(* --- the parent ---------------------------------------------------------- *)

Finish(r) == phase' = "done" /\ result' = r

\* The catch-all: init, tile_iter or finalize raised.
GiveUp ==
    /\ Finish(GivenUp)
    /\ UNCHANGED <<setup, worker, active, unsent, pending, waitFor, metrics, broken>>

\* init allocates the outputs, then the tile list is filtered by the
\* predicate (one that raises counts as active).
Allocate ==
    /\ phase = "init"
    /\ \E S \in SUBSET Tiles : active' = S /\ unsent' = S
    /\ phase' = "window"
    /\ UNCHANGED <<setup, worker, pending, waitFor, metrics, result, broken>>

AllocateFails == phase = "init" /\ GiveUp

Submit ==
    /\ phase = "window" /\ waitFor = 0
    /\ unsent # {} /\ Len(pending) < Window
    /\ Inline \/ ~broken
    /\ LET i == Min(unsent)
       IN /\ pending' = Append(pending, i)
          /\ unsent' = unsent \ {i}
          /\ task' = [task EXCEPT ![i] = "start"]
    /\ UNCHANGED <<setup, phase, active, waitFor, attempts, scratch, chunk, metrics, result, broken>>

\* submit raises: a process pool that has broken refuses the tile, any pool may
\* refuse it or fail to start a worker for what it has already queued.  The tiles
\* sent before run on.
SubmitFails ==
    /\ phase = "window" /\ waitFor = 0
    /\ unsent # {} /\ Len(pending) < Window
    /\ ~Inline
    /\ unsent' = unsent \ {Min(unsent)}
    /\ \/ task' = task
       \/ ~broken /\ task' = [task EXCEPT ![Min(unsent)] = "start"]
    /\ Finish(GivenUp)
    /\ UNCHANGED <<setup, attempts, scratch, chunk, active, pending, waitFor, metrics, broken>>

WindowFull == unsent = {} \/ Len(pending) = Window
Ended(i) == task[i] \in {"ok", "error", "lost"}

\* The polling loop: a future found done, or else the oldest, to block on.
Poll ==
    /\ phase = "window" /\ waitFor = 0 /\ WindowFull /\ pending # << >>
    /\ \E k \in DOMAIN pending :
          /\ k = 1 \/ Ended(pending[k])
          /\ waitFor' = pending[k]
    /\ UNCHANGED <<setup, worker, phase, active, unsent, pending, metrics, result, broken>>

\* _record: a future that raised (its worker was lost) counts one attempt.
MetricOf(i) ==
    [tile |-> i,
     attempts |-> IF task[i] = "lost" THEN 1 ELSE attempts[i],
     status |-> IF task[i] = "ok" THEN "ok" ELSE "error"]

Without(s, k) == [j \in 1 .. Len(s) - 1 |-> s[IF j < k THEN j ELSE j + 1]]

\* Mutated form: the future stays in `pending`.
TakeResultKeeping ==
    /\ phase = "window" /\ waitFor # 0 /\ Ended(waitFor)
    /\ Len(metrics) < 2 * NTiles
    /\ metrics' = Append(metrics, MetricOf(waitFor))
    /\ waitFor' = 0
    /\ UNCHANGED <<setup, worker, phase, active, unsent, pending, result, broken>>

TakeResult ==
    /\ phase = "window" /\ waitFor # 0 /\ Ended(waitFor)
    /\ \E k \in DOMAIN pending : pending[k] = waitFor /\ pending' = Without(pending, k)
    /\ metrics' = Append(metrics, MetricOf(waitFor))
    /\ waitFor' = 0
    /\ UNCHANGED <<setup, worker, phase, active, unsent, result, broken>>

MaxTries == Max({1} \cup {metrics[k].attempts : k \in DOMAIN metrics})
SomeFailed == \E k \in DOMAIN metrics : metrics[k].status = "error"

\* Mutated form: the loop ends when there is nothing left to submit.
AllCollectedEarly == phase = "window" /\ waitFor = 0 /\ unsent = {}

AllCollected == phase = "window" /\ waitFor = 0 /\ unsent = {} /\ pending = << >>

\* Mutated form: a dead letter only beyond the last attempt.
ReportFailureOffByOne ==
    /\ AllCollected /\ SomeFailed
    /\ Finish(Outcome("error", MaxTries, MaxTries > MaxAttempts, metrics))
    /\ UNCHANGED <<setup, worker, active, unsent, pending, waitFor, metrics, broken>>

ReportFailure ==
    /\ AllCollected /\ SomeFailed
    /\ Finish(Outcome("error", MaxTries, MaxTries >= MaxAttempts, metrics))
    /\ UNCHANGED <<setup, worker, active, unsent, pending, waitFor, metrics, broken>>

\* Mutated form: finalize whatever the tiles did.
FinalizeAnyway ==
    /\ AllCollected
    /\ Finish(Outcome("ok", MaxTries, FALSE, metrics))
    /\ UNCHANGED <<setup, worker, active, unsent, pending, waitFor, metrics, broken>>

Finalize ==
    /\ AllCollected /\ ~SomeFailed
    /\ Finish(Outcome("ok", MaxTries, FALSE, metrics))
    /\ UNCHANGED <<setup, worker, active, unsent, pending, waitFor, metrics, broken>>

FinalizeFails == AllCollected /\ ~SomeFailed /\ GiveUp

-----------------------------------------------------------------------------
(* --- the workers: attempt_with_retry(_run_tile, ...) ---------------------- *)

\* Mutated form: the first try is not counted.
StartTileUncounted(i) ==
    /\ task[i] = "start"
    /\ task' = [task EXCEPT ![i] = "run"]
    /\ UNCHANGED <<parent, attempts, scratch, chunk, broken>>

StartTile(i) ==
    /\ task[i] = "start"
    /\ task' = [task EXCEPT ![i] = "run"]
    /\ attempts' = [attempts EXCEPT ![i] = 1]
    /\ UNCHANGED <<parent, scratch, chunk, broken>>

\* Writing a region of a chunk: the chunk is read, changed and written.
ReadChunk(i) ==
    /\ task[i] = "run"
    /\ scratch' = [scratch EXCEPT ![i] = chunk[setup.chunkOf[i]]]
    /\ task' = [task EXCEPT ![i] = "read"]
    /\ UNCHANGED <<parent, attempts, chunk, broken>>

WriteChunk(i) ==
    /\ task[i] = "read"
    /\ chunk' = [chunk EXCEPT ![setup.chunkOf[i]] = scratch[i] \cup {i}]
    /\ task' = [task EXCEPT ![i] = "ok"]
    /\ UNCHANGED <<parent, attempts, scratch, broken>>

\* Mutated form: the last attempt is not the last.
RetryForever(i) ==
    /\ task[i] \in {"run", "read"}
    /\ task' = [task EXCEPT ![i] = "run"]
    /\ attempts' = [attempts EXCEPT ![i] = Smaller(@ + 1, MaxAttempts)]
    /\ UNCHANGED <<parent, scratch, chunk, broken>>

\* A retryable exception and attempts left: again, after the back-off.
Retry(i) ==
    /\ task[i] \in {"run", "read"} /\ attempts[i] < MaxAttempts
    /\ task' = [task EXCEPT ![i] = "run"]
    /\ attempts' = [attempts EXCEPT ![i] = @ + 1]
    /\ UNCHANGED <<parent, scratch, chunk, broken>>

\* The last attempt, or an exception that is not retryable.
FailTile(i) ==
    /\ task[i] \in {"run", "read"}
    /\ task' = [task EXCEPT ![i] = "error"]
    /\ UNCHANGED <<parent, attempts, scratch, chunk, broken>>

\* A dask worker is lost with its task ...
LoseWorker(i) ==
    /\ setup.backend = "dask" /\ ~Inline
    /\ task[i] \in {"start", "run", "read"}
    /\ task' = [task EXCEPT ![i] = "lost"]
    /\ UNCHANGED <<parent, attempts, scratch, chunk, broken>>

\* ... a process of a ProcessPoolExecutor takes the pool along.
PoolBreaks ==
    /\ setup.backend = "process" /\ ~Inline /\ ~broken
    /\ \E i \in Tiles : task[i] \in {"start", "run", "read"}
    /\ broken' = TRUE
    /\ task' = [i \in Tiles |-> IF task[i] \in {"start", "run", "read"} THEN "lost" ELSE task[i]]
    /\ UNCHANGED <<parent, attempts, scratch, chunk>>

TileStep(i) ==
    StartTile(i) \/ ReadChunk(i) \/ WriteChunk(i) \/ Retry(i) \/ FailTile(i) \/ LoseWorker(i)

ParentStep ==
    \/ Allocate \/ AllocateFails \/ Submit \/ SubmitFails \/ Poll \/ TakeResult
    \/ ReportFailure \/ Finalize \/ FinalizeFails

Done == phase = "done" /\ UNCHANGED vars

Next == (\E i \in Tiles : TileStep(i)) \/ ParentStep \/ PoolBreaks \/ Done

Spec == Init /\ [][Next]_vars

\* The parent thread goes on, and so does every worker until its task has ended.
FairSpec == Spec /\ WF_vars(ParentStep) /\ \A i \in Tiles : WF_vars(TileStep(i))

-----------------------------------------------------------------------------
(* --- properties ---------------------------------------------------------- *)

TypeOK ==
    /\ setup \in Setups
    /\ phase \in {"init", "window", "done"}
    /\ active \subseteq Tiles /\ unsent \subseteq active
    /\ pending \in Seq(active) /\ waitFor \in active \cup {0}
    /\ broken \in BOOLEAN
    /\ task \in [Tiles -> {"none", "start", "run", "read", "ok", "error", "lost"}]
    /\ attempts \in [Tiles -> 0..MaxAttempts]
    /\ scratch \in [Tiles -> SUBSET Tiles]
    /\ chunk \in [{setup.chunkOf[i] : i \in Tiles} -> SUBSET Tiles]
    /\ metrics \in Seq(Metric)
    /\ result.attempts \in 1..MaxAttempts /\ result.dead \in BOOLEAN /\ result.told \in Seq(Metric)

Busy(i) == task[i] \in {"start", "run", "read"}

\* Never more futures in flight than max_inflight_tiles, never more tiles queued or
\* running, also when the step is over; and while it goes on, the parent knows of all.
Backpressure ==
    /\ setup.backend # "serial" /\ setup.inflight # 0 =>
          /\ Len(pending) <= setup.inflight
          /\ Cardinality({i \in Tiles : Busy(i)}) <= setup.inflight
    /\ phase = "window" =>
          \A i \in Tiles : Busy(i) => \E k \in DOMAIN pending : pending[k] = i

\* A step's report has one metric for each active tile; the catch-all's has none.
EveryTileReportedOnce ==
    LET reported == {metrics[k].tile : k \in DOMAIN metrics}
    IN /\ Cardinality(reported) = Len(metrics)
       /\ phase = "done" => result = GivenUp \/ (result.told = metrics /\ reported = active)

\* A step that is ok has every active tile's data in the output, and nothing
\* of it runs on: finalize saw the whole array.
OkIsComplete ==
    result.status = "ok" =>
        /\ \A i \in active : i \in chunk[setup.chunkOf[i]]
        /\ \A i \in Tiles : ~Busy(i)

\* A step that reports on its tiles, whether it is ok or they failed, leaves no worker
\* that would still write when the runner goes on to the next producer.  One that
\* was given up in the middle may: a tile of it writes beside what comes next.
NothingOutlivesTheReport ==
    phase = "done" /\ (\E i \in Tiles : Busy(i)) => result = GivenUp

\* What is in flight stays within the window, also what a given-up step leaves
\* behind, and the rest ends with the step (scheduler.py:640-684, 726-732).
FuturesInBounds == Backpressure /\ NothingOutlivesTheReport

\* The results are those PipelineRunner's model of this step assumes: a success
\* that is no dead letter, a failure that is one just if its count is
\* max_attempts, or the catch-all.
AsTheRunnerAssumes ==
    phase = "done" =>
        \/ result.status = "ok" /\ ~result.dead
        \/ result.status = "error" /\ result.dead = (result.attempts = MaxAttempts)
        \/ result = GivenUp

\* The step ends, whichever future the parent chose to block on.
StepEnds == <>(phase = "done")
=============================================================================
