-------------------------- MODULE TileFanoutProofs --------------------------
(***************************************************************************)
(* Theorems about TileFanout, for any number of tiles, attempts and        *)
(* futures in flight, on every backend and whatever workers are lost.  The *)
(* invariant follows each tile from the list to the window to the report.  *)
(***************************************************************************)
EXTENDS TileFanout, FiniteSetTheorems, WellFoundedInduction, TLAPS

Once(s) == \A j, k \in DOMAIN s : s[j] = s[k] => j = k
InFlight(i) == \E k \in DOMAIN pending : pending[k] = i
Reported(i) == \E k \in DOMAIN metrics : metrics[k].tile = i

\* Each active tile is in one place: not sent, in flight or reported.  Only a step
\* that is given up loses sight of one, the tile whose submission raised.
TilesInv ==
    /\ phase = "init" => active = {}
    /\ Once(pending)
    /\ \A j, k \in DOMAIN metrics : metrics[j].tile = metrics[k].tile => j = k
    /\ \A i \in Tiles : InFlight(i) \/ Reported(i) => i \in active \ unsent
    /\ phase # "done" => \A i \in Tiles : i \in active \ unsent => InFlight(i) \/ Reported(i)
    /\ \A i \in Tiles : ~(InFlight(i) /\ Reported(i))
    /\ waitFor # 0 => InFlight(waitFor)
    /\ Len(pending) <= Window

\* All but x of the tiles that are queued or running are in flight, and there is
\* room for one more.
AllButOne(x) ==
    /\ x # 0 => Len(pending) < Window
    /\ \A i \in Tiles : Busy(i) => InFlight(i) \/ i = x

\* A worker runs for what is in flight only, or for the one tile that was queued by
\* a submit that raised; and a metric tells how it ended.
WorkersInv ==
    /\ \A i \in Tiles : task[i] # "none" => i \in active \ unsent
    /\ \A i \in Tiles : task[i] \in {"run", "read", "ok", "error"} => attempts[i] > 0
    /\ phase # "done" => \A i \in Tiles : Busy(i) => InFlight(i)
    /\ \E x \in Tiles \cup {0} : AllButOne(x)
    /\ \A k \in DOMAIN metrics : metrics[k].status = "ok" => task[metrics[k].tile] = "ok"

\* How a step may have ended.
ResultInv ==
    /\ phase # "done" => result = NoResult
    /\ phase = "done" =>
          /\ result.status \in {"ok", "error"}
          /\ \/ result = GivenUp
             \/ /\ \A i \in Tiles : ~Busy(i)
                /\ \A i \in active : Reported(i)
                /\ result.told = metrics
          /\ result.status = "ok" => ~SomeFailed
    /\ AsTheRunnerAssumes

StepIInv == TypeOK /\ TilesInv /\ WorkersInv /\ ResultInv

-----------------------------------------------------------------------------
(* --- numbers and sequences ------------------------------------------------ *)

LEMMA MinExists ==
    ASSUME NEW T, T \subseteq Nat, T # {}
    PROVE  Min(T) \in T /\ \A t \in T : Min(T) <= t
<1> DEFINE R == {ss \in Nat \X Nat : ss[1] < ss[2]}
<1>1. R = OpToRel(<, Nat)
  BY DEF OpToRel
<1>2. IsWellFoundedOn(R, Nat)
  BY <1>1, NatLessThanWellFounded
<1>3. PICK x \in T : \A y \in T : ~(<<y, x>> \in R)
  <2> HIDE DEF R
  <2> QED BY <1>2, WFMin
<1>4. ASSUME NEW y \in T PROVE x <= y
  <2>1. x \in Nat /\ y \in Nat
    OBVIOUS
  <2>2. ~(<<y, x>> \in R)
    BY <1>3
  <2>3. ~(y < x)
    BY <2>1, <2>2
  <2> QED BY <2>1, <2>3
<1> QED BY <1>4 DEF Min

\* What is greatest is at the least distance from a bound.
LEMMA MaxExists ==
    ASSUME NEW T, NEW n \in Nat, T \subseteq 1 .. n, T # {}
    PROVE  Max(T) \in T
<1> DEFINE D == {n - t : t \in T}
<1>1. \A t \in T : t \in Nat /\ n - t \in Nat
  OBVIOUS
<1>2. D \subseteq Nat
  BY <1>1
<1>3. D # {}
  OBVIOUS
<1>4. Min(D) \in D /\ \A e \in D : Min(D) <= e
  <2> HIDE DEF D
  <2> QED BY <1>2, <1>3, MinExists
<1>5. PICK t \in T : Min(D) = n - t
  BY <1>4
<1>6. \A u \in T : t >= u
  <2>1. ASSUME NEW u \in T PROVE t >= u
    <3>1. n - u \in D
      OBVIOUS
    <3>2. n - t <= n - u
      <4> HIDE DEF D
      <4> QED BY <1>4, <1>5, <3>1
    <3> QED BY <1>1, <3>2
  <2> QED BY <2>1
<1> QED BY <1>6 DEF Max

LEMMA MaxTriesType ==
    ASSUME TypeOK
    PROVE  MaxTries \in 1 .. MaxAttempts
<1> DEFINE T == {1} \cup {metrics[k].attempts : k \in DOMAIN metrics}
<1>1. T \subseteq 1 .. MaxAttempts
  <2>1. \A k \in DOMAIN metrics : metrics[k] \in Metric
    BY DEF TypeOK
  <2>2. \A k \in DOMAIN metrics : metrics[k].attempts \in 1 .. MaxAttempts
    BY <2>1 DEF Metric
  <2>3. 1 \in 1 .. MaxAttempts
    BY FanoutAssumption
  <2> QED BY <2>2, <2>3
<1>2. Max(T) \in T
  BY <1>1, MaxExists, FanoutAssumption
<1> QED BY <1>1, <1>2 DEF MaxTries

LEMMA WithoutIs ==
    ASSUME NEW S, NEW s \in Seq(S), NEW k \in DOMAIN s, Once(s)
    PROVE  /\ Without(s, k) \in Seq(S)
           /\ Len(Without(s, k)) = Len(s) - 1
           /\ Once(Without(s, k))
           /\ \A x : (\E j \in DOMAIN Without(s, k) : Without(s, k)[j] = x)
                      <=> x # s[k] /\ \E j \in DOMAIN s : s[j] = x
<1> DEFINE w == Without(s, k)
<1>1. Len(s) \in Nat /\ DOMAIN s = 1 .. Len(s) /\ Len(s) >= 1
  OBVIOUS
<1>2. \A j \in 1 .. Len(s) - 1 : s[IF j < k THEN j ELSE j + 1] \in S
  BY <1>1
<1>3. w \in [1 .. Len(s) - 1 -> S] /\ Len(s) - 1 \in Nat
  BY <1>1, <1>2 DEF Without
<1>4. w \in Seq(S) /\ Len(w) = Len(s) - 1 /\ DOMAIN w = 1 .. Len(s) - 1
  BY <1>3
<1>5. \A j \in DOMAIN w : w[j] = s[IF j < k THEN j ELSE j + 1]
  BY <1>4 DEF Without
<1>6. Once(w)
  BY <1>1, <1>4, <1>5 DEF Once
<1>7. \A x : (\E j \in DOMAIN w : w[j] = x) => x # s[k] /\ \E j \in DOMAIN s : s[j] = x
  BY <1>1, <1>4, <1>5 DEF Once
<1>8. ASSUME NEW j \in DOMAIN s, s[j] # s[k]
      PROVE  \E m \in DOMAIN w : w[m] = s[j]
  <2>1. CASE j < k
    BY <1>1, <1>4, <1>5, <2>1
  <2>2. CASE j > k
    <3>1. j - 1 \in DOMAIN w /\ ~(j - 1 < k) /\ (j - 1) + 1 = j
      BY <1>1, <1>4, <2>2
    <3> QED BY <1>5, <3>1
  <2> QED BY <1>1, <1>8, <2>1, <2>2
<1> QED BY <1>4, <1>6, <1>7, <1>8

\* The window is open and, when futures are limited, within the limit.
LEMMA WindowIs ==
    TypeOK => /\ NTiles \in Nat /\ Window \in Nat /\ Window >= 1
              /\ Inline => Window = 1
              /\ setup.inflight # 0 => Window <= setup.inflight
<1> SUFFICES ASSUME TypeOK
             PROVE  /\ NTiles \in Nat /\ Window \in Nat /\ Window >= 1
                    /\ Inline => Window = 1
                    /\ setup.inflight # 0 => Window <= setup.inflight
  OBVIOUS
<1>1. NTiles \in Nat
  <2>1. IsFiniteSet(Tiles)
    BY FS_Interval, FanoutAssumption DEF Tiles
  <2> QED BY <2>1, FS_Subset, FS_CardinalityType DEF TypeOK, NTiles
<1>2. setup.inflight \in Nat
  BY FanoutAssumption DEF TypeOK, Setup
<1> QED BY <1>1, <1>2 DEF Window, Larger, Smaller

LEMMA WindowIsNext == (TypeOK => Window \in Nat /\ Window >= 1)'
<1>1. TypeOK => Window \in Nat /\ Window >= 1
  BY WindowIs
<1> QED BY <1>1, PTL

-----------------------------------------------------------------------------
(* --- the workers ------------------------------------------------------------ *)

LEMMA StepInitially == Init => StepIInv
<1> SUFFICES ASSUME Init PROVE StepIInv
  OBVIOUS
<1>1. setup \in Setup
  BY FanoutAssumption DEF Init
<1>2. TypeOK
  <2>1. result.attempts \in 1 .. MaxAttempts /\ result.dead \in BOOLEAN /\ result.told \in Seq(Metric)
    BY FanoutAssumption DEF Init, NoResult, Outcome
  <2>2. broken \in BOOLEAN
    <3>1. broken \in BOOLEAN \/ broken \in {FALSE}
      BY Zenon DEF Init
    <3> QED BY <3>1
  <2>4. pending \in Seq(active) /\ metrics \in Seq(Metric)
    BY DEF Init
  <2>3. /\ attempts \in [Tiles -> 0 .. MaxAttempts]
        /\ scratch \in [Tiles -> SUBSET Tiles]
        /\ chunk \in [{setup.chunkOf[i] : i \in Tiles} -> SUBSET Tiles]
    BY FanoutAssumption DEF Init
  <2> QED BY <2>1, <2>2, <2>3, <2>4 DEF Init, TypeOK
<1>3. TilesInv
  <2>1. Len(pending) <= Window
    BY <1>2, WindowIs DEF Init
  <2> QED BY <2>1 DEF Init, TilesInv, Once, InFlight, Reported
<1>4. WorkersInv
  <2>1. \A i \in Tiles : ~Busy(i)
    BY DEF Init, Busy
  <2>2. AllButOne(0)
    BY <2>1 DEF AllButOne
  <2> QED BY <2>1, <2>2 DEF Init, WorkersInv
<1>5. ResultInv
  BY DEF Init, ResultInv, AsTheRunnerAssumes
<1> QED BY <1>2, <1>3, <1>4, <1>5 DEF StepIInv

TaskStates == {"none", "start", "run", "read", "ok", "error", "lost"}

LEMMA WorkerTypes ==
    ASSUME TypeOK, UNCHANGED parent, broken' \in BOOLEAN,
           task' \in [Tiles -> TaskStates],
           attempts' \in [Tiles -> 0 .. MaxAttempts],
           scratch' \in [Tiles -> SUBSET Tiles],
           chunk' \in [{setup.chunkOf[j] : j \in Tiles} -> SUBSET Tiles]
    PROVE  TypeOK'
BY DEF TypeOK, parent, TaskStates

\* What a worker may do to the invariant: its tile goes on to its end.
LEMMA WorkersKeep ==
    ASSUME StepIInv, TypeOK', UNCHANGED parent,
           \A i \in Tiles : /\ task[i] = "none" <=> task'[i] = "none"
                            /\ Busy(i)' => Busy(i)
                            /\ task[i] = "ok" => task'[i] = "ok"
                            /\ task'[i] \in {"run", "read", "ok", "error"} => attempts'[i] > 0
    PROVE  StepIInv'
<1> USE DEF parent
<1>1. TilesInv'
  <2>1. Window' = Window
    BY DEF Window, Inline, NTiles
  <2>2. \A i \in Tiles : InFlight(i)' = InFlight(i) /\ Reported(i)' = Reported(i)
    BY DEF InFlight, Reported
  <2>3. waitFor # 0 => InFlight(waitFor)'
    BY DEF InFlight, StepIInv, TilesInv
  <2> QED BY <2>1, <2>2, <2>3 DEF StepIInv, TilesInv, Once
<1>2. WorkersInv'
  <2>1. ASSUME NEW k \in DOMAIN metrics, metrics[k].status = "ok"
        PROVE  task'[metrics[k].tile] = "ok"
    <3>0. metrics \in Seq(Metric)
      BY DEF StepIInv, TypeOK
    <3>2. metrics[k] \in Metric
      BY <3>0
    <3>1. metrics[k].tile \in Tiles
      BY <3>2 DEF Metric
    <3> QED BY <2>1, <3>1 DEF StepIInv, WorkersInv
  <2>2. phase' # "done" => \A i \in Tiles : Busy(i)' => InFlight(i)'
    BY DEF StepIInv, WorkersInv, InFlight
  <2>3. PICK x \in Tiles \cup {0} : AllButOne(x)
    BY DEF StepIInv, WorkersInv
  <2>4. AllButOne(x)'
    <3>1. Window' = Window /\ \A i \in Tiles : InFlight(i)' = InFlight(i)
      BY DEF Window, Inline, NTiles, InFlight
    <3> QED BY <2>3, <3>1 DEF AllButOne
  <2> QED BY <2>1, <2>2, <2>4 DEF StepIInv, WorkersInv
<1>3. ResultInv'
  <2>1. \A i \in active : Reported(i)' = Reported(i)
    BY DEF Reported
  <2>2. SomeFailed' = SomeFailed
    BY DEF SomeFailed
  <2>3. AsTheRunnerAssumes'
    BY DEF StepIInv, ResultInv, AsTheRunnerAssumes
  <2> QED BY <2>1, <2>2, <2>3 DEF StepIInv, ResultInv
<1> QED BY <1>1, <1>2, <1>3 DEF StepIInv

LEMMA TileStepKeeps ==
    ASSUME StepIInv, NEW i \in Tiles, TileStep(i)
    PROVE  StepIInv'
<1> USE DEF parent
<1>0. TypeOK /\ WorkersInv /\ setup \in Setup
  BY FanoutAssumption DEF StepIInv, TypeOK
<1>1. CASE StartTile(i)
  <2>0. task' \in [Tiles -> TaskStates] /\ attempts' \in [Tiles -> 0 .. MaxAttempts]
    BY <1>0, <1>1, FanoutAssumption DEF StartTile, TypeOK, TaskStates
  <2>1. TypeOK'
    BY <1>0, <1>1, <2>0, WorkerTypes DEF StartTile, TypeOK
  <2>2. \A j \in Tiles : /\ task[j] = "none" <=> task'[j] = "none"
                         /\ Busy(j)' => Busy(j)
                         /\ task[j] = "ok" => task'[j] = "ok"
    BY <1>0, <1>1 DEF StartTile, TypeOK, Busy
  <2>3. \A j \in Tiles : task'[j] \in {"run", "read", "ok", "error"} => attempts'[j] > 0
    BY <1>0, <1>1 DEF StartTile, TypeOK, WorkersInv
  <2> QED BY <1>1, <2>1, <2>2, <2>3, WorkersKeep DEF StartTile
<1>2. CASE ReadChunk(i)
  <2>1. chunk[setup.chunkOf[i]] \in SUBSET Tiles
    BY <1>0 DEF TypeOK
  <2>2. TypeOK'
    BY <1>0, <1>2, <2>1 DEF ReadChunk, TypeOK
  <2> QED BY <1>0, <1>2, <2>2, WorkersKeep DEF ReadChunk, TypeOK, WorkersInv, Busy
<1>3. CASE WriteChunk(i)
  <2>1. scratch[i] \cup {i} \in SUBSET Tiles
    BY <1>0 DEF TypeOK
  <2>2. /\ chunk' \in [{setup.chunkOf[j] : j \in Tiles} -> SUBSET Tiles]
        /\ task' \in [Tiles -> TaskStates]
    BY <1>0, <1>3, <2>1 DEF WriteChunk, TypeOK, TaskStates
  <2>3. TypeOK'
    BY <1>0, <1>3, <2>2, WorkerTypes DEF WriteChunk, TypeOK
  <2> QED BY <1>0, <1>3, <2>3, WorkersKeep DEF WriteChunk, TypeOK, WorkersInv, Busy
<1>4. CASE Retry(i)
  <2>1. attempts[i] \in 0 .. MaxAttempts /\ attempts[i] + 1 \in 1 .. MaxAttempts
    BY <1>0, <1>4, FanoutAssumption DEF Retry, TypeOK
  <2>3. task' \in [Tiles -> TaskStates] /\ attempts' \in [Tiles -> 0 .. MaxAttempts]
    BY <1>0, <1>4, <2>1 DEF Retry, TypeOK, TaskStates
  <2>2. TypeOK'
    BY <1>0, <1>4, <2>3, WorkerTypes DEF Retry, TypeOK
  <2>4. ASSUME NEW j \in Tiles, task'[j] \in {"run", "read", "ok", "error"}
        PROVE  attempts'[j] > 0
    <3>1. CASE j = i
      BY <1>0, <1>4, <2>1, <3>1 DEF Retry, TypeOK
    <3>2. CASE j # i
      BY <1>0, <1>4, <2>4, <3>2 DEF Retry, TypeOK, WorkersInv
    <3> QED BY <3>1, <3>2
  <2> QED BY <1>0, <1>4, <2>2, <2>4, WorkersKeep DEF Retry, TypeOK, WorkersInv, Busy
<1>5. CASE FailTile(i)
  <2>1. TypeOK'
    BY <1>0, <1>5 DEF FailTile, TypeOK
  <2> QED BY <1>0, <1>5, <2>1, WorkersKeep DEF FailTile, TypeOK, WorkersInv, Busy
<1>6. CASE LoseWorker(i)
  <2>1. TypeOK'
    BY <1>0, <1>6 DEF LoseWorker, TypeOK
  <2> QED BY <1>0, <1>6, <2>1, WorkersKeep DEF LoseWorker, TypeOK, WorkersInv, Busy
<1> QED BY <1>1, <1>2, <1>3, <1>4, <1>5, <1>6 DEF TileStep

LEMMA PoolBreaksKeeps == ASSUME StepIInv, PoolBreaks PROVE StepIInv'
<1> USE DEF parent
<1>0. TypeOK /\ WorkersInv
  BY DEF StepIInv
<1>1. \A i \in Tiles : task'[i] = IF Busy(i) THEN "lost" ELSE task[i]
  BY DEF PoolBreaks, Busy
<1>2. TypeOK'
  BY <1>0 DEF PoolBreaks, TypeOK
<1>3. \A i \in Tiles : ~Busy(i)'
  BY <1>1 DEF Busy
<1>4. \A i \in Tiles : task'[i] \in {"run", "read", "ok", "error"} => attempts'[i] > 0
  BY <1>0, <1>1 DEF PoolBreaks, WorkersInv
<1> QED BY <1>1, <1>2, <1>3, <1>4, WorkersKeep DEF PoolBreaks, Busy

-----------------------------------------------------------------------------
(* --- the parent --------------------------------------------------------------- *)

LEMMA AllocateKeeps == ASSUME StepIInv, Allocate PROVE StepIInv'
<1> USE DEF worker
<1>0. TypeOK /\ TilesInv /\ WorkersInv
  BY DEF StepIInv
<1>1. TypeOK'
  <2>1. pending = << >> /\ pending' \in Seq(active')
    <3>1. Len(pending) = 0
      BY <1>0 DEF TypeOK, TilesInv, Allocate
    <3>2. pending = << >>
      BY <1>0, <3>1 DEF TypeOK
    <3> QED BY <3>2 DEF Allocate
  <2> QED BY <1>0, <2>1 DEF Allocate, TypeOK, TilesInv
<1>2. \A i \in Tiles : ~InFlight(i) /\ ~Reported(i) /\ ~InFlight(i)' /\ ~Reported(i)'
  BY <1>0 DEF Allocate, TypeOK, TilesInv, InFlight, Reported
<1>3. Len(pending') <= Window'
  <2>1. Window' \in Nat /\ Window' >= 1
    BY <1>1, WindowIsNext
  <2>2. Len(pending') = 0
    BY <1>0 DEF TypeOK, TilesInv, Allocate
  <2> QED BY <2>1, <2>2
<1>4. TilesInv'
  BY <1>0, <1>2, <1>3 DEF Allocate, TypeOK, TilesInv, Once
<1>5. WorkersInv'
  <2>1. \A i \in Tiles : task[i] = "none"
    BY <1>0 DEF Allocate, TilesInv, WorkersInv
  <2>2. \A k \in DOMAIN metrics : metrics'[k] = metrics[k]
    BY DEF Allocate
  <2>3. \A i \in Tiles : ~Busy(i)'
    BY <2>1 DEF Allocate, Busy
  <2>4. AllButOne(0)'
    BY <2>3 DEF AllButOne
  <2> QED BY <1>0, <2>1, <2>2, <2>3, <2>4 DEF Allocate, WorkersInv
<1>6. ResultInv'
  BY DEF StepIInv, Allocate, ResultInv, AsTheRunnerAssumes
<1> QED BY <1>1, <1>4, <1>5, <1>6 DEF StepIInv

LEMMA SubmitKeeps == ASSUME StepIInv, Submit PROVE StepIInv'
<1>0. TypeOK /\ TilesInv /\ WorkersInv
  BY DEF StepIInv
<1> DEFINE i == Min(unsent)
<1>1. i \in unsent /\ i \in Tiles /\ i \in active
  <2>1. unsent \subseteq Nat
    BY <1>0 DEF TypeOK, Tiles
  <2> QED BY <1>0, <2>1, MinExists DEF Submit, TypeOK
<1> HIDE DEF i
<1>2. /\ pending' = Append(pending, i) /\ unsent' = unsent \ {i}
      /\ task' = [task EXCEPT ![i] = "start"]
      /\ UNCHANGED <<setup, phase, active, waitFor, attempts, scratch, chunk, metrics, result, broken>>
      /\ phase = "window" /\ waitFor = 0 /\ Len(pending) < Window
  BY DEF Submit, i
<1>3. /\ Len(pending) \in Nat /\ Len(pending') = Len(pending) + 1
      /\ DOMAIN pending = 1 .. Len(pending) /\ DOMAIN pending' = 1 .. Len(pending) + 1
      /\ pending'[Len(pending) + 1] = i
      /\ \A k \in DOMAIN pending : pending'[k] = pending[k]
      /\ pending' \in Seq(active)
  BY <1>0, <1>1, <1>2 DEF TypeOK
<1>4. TypeOK'
  BY <1>0, <1>1, <1>2, <1>3 DEF TypeOK
<1>5. ~InFlight(i) /\ ~Reported(i)
  BY <1>0, <1>1 DEF TilesInv
<1>6. \A j \in Tiles : InFlight(j)' <=> InFlight(j) \/ j = i
  BY <1>3 DEF InFlight
<1>7. \A j \in Tiles : Reported(j)' = Reported(j)
  BY <1>2 DEF Reported
<1>8. TilesInv'
  <2>1. Once(pending)'
    BY <1>0, <1>3, <1>5 DEF TilesInv, Once, InFlight
  <2>2. Window' = Window /\ Window \in Nat
    BY <1>0, <1>2, WindowIs DEF Window, Inline, NTiles
  <2>3. Len(pending') <= Window'
    BY <1>2, <1>3, <2>2
  <2>4. /\ \A j \in Tiles : InFlight(j)' \/ Reported(j)' => j \in active' \ unsent'
        /\ phase' # "done" => \A j \in Tiles : j \in active' \ unsent' => InFlight(j)' \/ Reported(j)'
        /\ \A j \in Tiles : ~(InFlight(j)' /\ Reported(j)')
    BY <1>0, <1>1, <1>2, <1>5, <1>6, <1>7 DEF TilesInv
  <2> QED BY <1>0, <1>2, <2>1, <2>3, <2>4 DEF TilesInv
<1>9. WorkersInv'
  <2>1. \A j \in Tiles : j # i => task'[j] = task[j]
    BY <1>0, <1>2 DEF TypeOK
  <2>2. task'[i] = "start"
    BY <1>0, <1>1, <1>2 DEF TypeOK
  <2>3. \A j \in Tiles : j # i => Busy(j)' = Busy(j)
    BY <2>1 DEF Busy
  <2>4. ASSUME NEW k \in DOMAIN metrics, metrics[k].status = "ok"
        PROVE  task'[metrics[k].tile] = "ok"
    <3>1. metrics[k] \in Metric
      BY <1>0 DEF TypeOK
    <3>2. metrics[k].tile \in Tiles /\ metrics[k].tile # i
      BY <1>5, <3>1 DEF Metric, Reported
    <3> QED BY <1>0, <2>1, <2>4, <3>2 DEF WorkersInv
  <2>5. \A j \in Tiles : task'[j] # "none" => j \in active' \ unsent'
    BY <1>0, <1>1, <1>2, <2>1 DEF WorkersInv
  <2>6. \A j \in Tiles : task'[j] \in {"run", "read", "ok", "error"} => attempts'[j] > 0
    BY <1>0, <1>2, <2>1, <2>2 DEF WorkersInv
  <2>7. \A j \in Tiles : Busy(j)' => InFlight(j)'
    BY <1>0, <1>2, <1>6, <2>3 DEF WorkersInv
  <2>8. AllButOne(0)'
    BY <2>7 DEF AllButOne
  <2> QED BY <1>2, <2>4, <2>5, <2>6, <2>7, <2>8 DEF WorkersInv
<1>10. ResultInv'
  BY <1>2 DEF StepIInv, ResultInv, AsTheRunnerAssumes
<1> QED BY <1>4, <1>8, <1>9, <1>10 DEF StepIInv

LEMMA PollKeeps == ASSUME StepIInv, Poll PROVE StepIInv'
<1> USE DEF worker
<1>0. TypeOK /\ TilesInv /\ WorkersInv
  BY DEF StepIInv
<1>1. PICK k \in DOMAIN pending : waitFor' = pending[k]
  BY DEF Poll
<1>2. waitFor' \in active
  BY <1>0, <1>1 DEF TypeOK
<1>3. TypeOK'
  BY <1>0, <1>2 DEF Poll, TypeOK
<1>4. \A i \in Tiles : InFlight(i)' = InFlight(i) /\ Reported(i)' = Reported(i) /\ Busy(i)' = Busy(i)
  BY DEF Poll, InFlight, Reported, Busy
<1>5. Window' = Window
  BY DEF Poll, Window, Inline, NTiles
<1>6. InFlight(waitFor)'
  BY <1>1 DEF Poll, InFlight
<1>7. TilesInv'
  BY <1>0, <1>4, <1>5, <1>6 DEF Poll, TilesInv, Once
<1>8. WorkersInv'
  <2>1. \A i \in Tiles : Busy(i)' => InFlight(i)'
    BY <1>0, <1>4 DEF Poll, WorkersInv
  <2>2. AllButOne(0)'
    BY <2>1 DEF AllButOne
  <2> QED BY <1>0, <2>1, <2>2 DEF Poll, WorkersInv
<1>9. ResultInv'
  BY DEF Poll, StepIInv, ResultInv, AsTheRunnerAssumes
<1> QED BY <1>3, <1>7, <1>8, <1>9 DEF StepIInv

LEMMA TakeResultKeeps == ASSUME StepIInv, TakeResult PROVE StepIInv'
<1> USE DEF worker
<1>0. TypeOK /\ TilesInv /\ WorkersInv
  BY DEF StepIInv
<1> DEFINE i == waitFor
           n == Len(metrics)
<1>1. i \in Tiles /\ i \in active /\ InFlight(i) /\ ~Reported(i) /\ Ended(i)
  BY <1>0 DEF TakeResult, TypeOK, TilesInv
<1>2. PICK k \in DOMAIN pending : pending[k] = i /\ pending' = Without(pending, k)
  BY DEF TakeResult
<1>3. /\ pending' \in Seq(active) /\ Len(pending') = Len(pending) - 1 /\ Once(pending)'
      /\ \A j \in Tiles : InFlight(j)' <=> j # i /\ InFlight(j)
  <2>1. pending \in Seq(active) /\ Once(pending)
    BY <1>0 DEF TypeOK, TilesInv
  <2> DEFINE w == Without(pending, k)
  <2>3. /\ w \in Seq(active) /\ Len(w) = Len(pending) - 1 /\ Once(w)
        /\ \A x : (\E m \in DOMAIN w : w[m] = x)
                   <=> x # pending[k] /\ \E m \in DOMAIN pending : pending[m] = x
    BY <2>1, WithoutIs
  <2>4. pending' = w
    BY <1>2
  <2> HIDE DEF w
  <2>2. /\ pending' \in Seq(active) /\ Len(pending') = Len(pending) - 1 /\ Once(pending')
        /\ \A x : (\E m \in DOMAIN pending' : pending'[m] = x)
                   <=> x # pending[k] /\ \E m \in DOMAIN pending : pending[m] = x
    BY <2>3, <2>4
  <2> QED BY <1>2, <2>2 DEF InFlight, Once
<1>4. MetricOf(i) \in Metric /\ MetricOf(i).tile = i
  <2>1. attempts[i] \in 0 .. MaxAttempts
    BY <1>0, <1>1 DEF TypeOK
  <2>2. task[i] # "lost" => attempts[i] > 0
    BY <1>0, <1>1 DEF WorkersInv, Ended
  <2>3. (IF task[i] = "lost" THEN 1 ELSE attempts[i]) \in 1 .. MaxAttempts
    BY <2>1, <2>2, FanoutAssumption
  <2> QED BY <1>1, <2>3 DEF MetricOf, Metric
<1>5. /\ n \in Nat /\ DOMAIN metrics = 1 .. n /\ DOMAIN metrics' = 1 .. n + 1
      /\ metrics'[n + 1] = MetricOf(i)
      /\ \A m \in DOMAIN metrics : metrics'[m] = metrics[m]
      /\ metrics' \in Seq(Metric)
  BY <1>0, <1>4 DEF TakeResult, TypeOK
<1>6. TypeOK'
  BY <1>0, <1>3, <1>5 DEF TakeResult, TypeOK
<1>7. \A j \in Tiles : Reported(j)' <=> Reported(j) \/ j = i
  BY <1>4, <1>5 DEF Reported
<1>8. \A j \in Tiles : Busy(j)' = Busy(j)
  BY DEF TakeResult, Busy
<1>9. TilesInv'
  <2>0. Window' = Window
    BY DEF TakeResult, Window, Inline, NTiles
  <2>5. Len(pending) \in Nat
    BY <1>0 DEF TypeOK
  <2>1. Window' = Window /\ Window \in Nat /\ Len(pending) \in Nat
    BY <1>0, <2>0, <2>5, WindowIs
  <2>2. Len(pending') <= Window'
    BY <1>0, <1>3, <2>1 DEF TilesInv
  <2>3. \A j, m \in DOMAIN metrics' : metrics'[j].tile = metrics'[m].tile => j = m
    BY <1>0, <1>1, <1>4, <1>5 DEF TilesInv, Reported
  <2>4. /\ \A j \in Tiles : InFlight(j)' \/ Reported(j)' => j \in active' \ unsent'
        /\ phase' # "done" => \A j \in Tiles : j \in active' \ unsent' => InFlight(j)' \/ Reported(j)'
        /\ \A j \in Tiles : ~(InFlight(j)' /\ Reported(j)')
    BY <1>0, <1>1, <1>3, <1>7 DEF TakeResult, TilesInv
  <2> QED BY <1>0, <1>3, <2>2, <2>3, <2>4 DEF TakeResult, TilesInv
<1>10. WorkersInv'
  <2>1. \A j \in Tiles : Busy(j)' => InFlight(j)'
    <3>1. ~Busy(i)
      BY <1>1 DEF Ended, Busy
    <3> QED BY <1>0, <1>3, <1>8, <3>1 DEF TakeResult, WorkersInv
  <2>2. ASSUME NEW m \in DOMAIN metrics', metrics'[m].status = "ok"
        PROVE  task[metrics'[m].tile] = "ok"
    <3>1. CASE m \in DOMAIN metrics
      BY <1>0, <1>5, <2>2, <3>1 DEF WorkersInv
    <3>2. CASE m = n + 1
      BY <1>5, <2>2, <3>2 DEF MetricOf
    <3> QED BY <1>5, <3>1, <3>2
  <2>3. /\ \A j \in Tiles : task'[j] # "none" => j \in active' \ unsent'
        /\ \A j \in Tiles : task'[j] \in {"run", "read", "ok", "error"} => attempts'[j] > 0
    BY <1>0, <1>8 DEF TakeResult, WorkersInv
  <2>4. task' = task
    BY DEF TakeResult
  <2>5. AllButOne(0)'
    BY <2>1 DEF AllButOne
  <2> QED BY <2>1, <2>2, <2>3, <2>4, <2>5 DEF WorkersInv
<1>11. ResultInv'
  BY DEF TakeResult, StepIInv, ResultInv, AsTheRunnerAssumes
<1> QED BY <1>6, <1>9, <1>10, <1>11 DEF StepIInv

\* When all futures are collected, every active tile is reported and at rest.
LEMMA CollectedIs ==
    ASSUME StepIInv, AllCollected
    PROVE  (\A i \in active : Reported(i)) /\ (\A i \in Tiles : ~Busy(i))
<1>1. \A i \in Tiles : ~InFlight(i)
  BY DEF AllCollected, InFlight
<1> QED BY <1>1 DEF StepIInv, TypeOK, TilesInv, WorkersInv, AllCollected

\* What a step may end with.
LEMMA EndKeeps ==
    ASSUME StepIInv, NEW r, Finish(r),
           UNCHANGED <<setup, worker, active, unsent, pending, waitFor, metrics, broken>>,
           r.status \in {"ok", "error"}, r.attempts \in 1 .. MaxAttempts, r.dead \in BOOLEAN,
           r.told \in Seq(Metric),
           \/ r = GivenUp
           \/ /\ \A i \in Tiles : ~Busy(i)
              /\ \A i \in active : Reported(i)
              /\ r.told = metrics,
           r.status = "ok" => ~SomeFailed /\ ~r.dead,
           r.status = "error" => r.dead = (r.attempts = MaxAttempts) \/ r = GivenUp
    PROVE  StepIInv'
<1> USE DEF worker, Finish
<1>1. TypeOK'
  BY DEF StepIInv, TypeOK
<1>2. /\ \A i \in Tiles : InFlight(i)' = InFlight(i) /\ Reported(i)' = Reported(i)
      /\ \A i \in Tiles : Busy(i)' = Busy(i)
      /\ Window' = Window /\ SomeFailed' = SomeFailed
      /\ waitFor # 0 => InFlight(waitFor)' = InFlight(waitFor)
  BY DEF InFlight, Reported, Busy, Window, Inline, NTiles, SomeFailed
<1>3. TilesInv'
  BY <1>2 DEF StepIInv, TilesInv, Once
<1>4. WorkersInv'
  <2>1. PICK x \in Tiles \cup {0} : AllButOne(x)
    BY DEF StepIInv, WorkersInv
  <2>2. AllButOne(x)'
    BY <1>2, <2>1 DEF AllButOne
  <2> QED BY <1>2, <2>2 DEF StepIInv, WorkersInv
<1>5. ResultInv'
  <2>1. AsTheRunnerAssumes'
    BY DEF AsTheRunnerAssumes
  <2>2. \A i \in active : Reported(i)' = Reported(i)
    BY DEF Reported
  <2>3. GivenUp' = GivenUp
    BY DEF GivenUp, Outcome
  <2> QED BY <1>2, <2>1, <2>2, <2>3 DEF ResultInv
<1> QED BY <1>1, <1>3, <1>4, <1>5 DEF StepIInv

LEMMA GivenUpIs ==
    /\ GivenUp.status = "error" /\ GivenUp.attempts \in 1 .. MaxAttempts
    /\ GivenUp.dead = FALSE /\ GivenUp.told \in Seq(Metric)
<1>1. 1 \in 1 .. MaxAttempts
  BY FanoutAssumption
<1> QED BY <1>1 DEF GivenUp, Outcome

LEMMA GiveUpKeeps == ASSUME StepIInv, GiveUp PROVE StepIInv'
BY GivenUpIs, EndKeeps DEF GiveUp

\* The tiles sent before run on, and the one whose submission raised may be queued:
\* there was room for it.
LEMMA SubmitFailsKeeps == ASSUME StepIInv, SubmitFails PROVE StepIInv'
<1>0. TypeOK /\ TilesInv /\ WorkersInv
  BY DEF StepIInv
<1>1. PICK i \in Tiles : i = Min(unsent) /\ i \in unsent /\ i \in active
  <2>1. unsent \subseteq Nat
    BY <1>0 DEF TypeOK, Tiles
  <2>2. Min(unsent) \in unsent
    BY <2>1, MinExists DEF SubmitFails
  <2> QED BY <1>0, <2>2 DEF TypeOK
<1>2. /\ unsent' = unsent \ {i}
      /\ task' = task \/ task' = [task EXCEPT ![i] = "start"]
      /\ UNCHANGED <<setup, attempts, scratch, chunk, active, pending, waitFor, metrics, broken>>
      /\ phase = "window" /\ phase' = "done" /\ result' = GivenUp /\ Len(pending) < Window
  BY <1>1 DEF SubmitFails, Finish
<1>3. \A j \in Tiles : task'[j] = task[j] \/ (j = i /\ task'[j] = "start")
  BY <1>0, <1>1, <1>2 DEF TypeOK
<1>4. TypeOK'
  <2>1. task' \in [Tiles -> TaskStates]
    BY <1>0, <1>2 DEF TypeOK, TaskStates
  <2>2. unsent' \subseteq active
    BY <1>0, <1>2 DEF TypeOK
  <2>3. /\ setup' \in Setups /\ phase' \in {"init", "window", "done"}
        /\ active' \subseteq Tiles /\ unsent' \subseteq active'
        /\ pending' \in Seq(active') /\ waitFor' \in active' \cup {0}
        /\ broken' \in BOOLEAN
    BY <1>0, <1>2, <2>2 DEF TypeOK
  <2>4. /\ attempts' \in [Tiles -> 0 .. MaxAttempts] /\ scratch' \in [Tiles -> SUBSET Tiles]
        /\ chunk' \in [{setup'.chunkOf[j] : j \in Tiles} -> SUBSET Tiles]
        /\ metrics' \in Seq(Metric)
    <3>1. UNCHANGED <<setup, attempts, scratch, chunk, metrics>>
      BY <1>2
    <3> QED BY ONLY <1>0, <3>1 DEF TypeOK
  <2>5. result'.attempts \in 1 .. MaxAttempts /\ result'.dead \in BOOLEAN /\ result'.told \in Seq(Metric)
    BY <1>2, GivenUpIs
  <2> QED BY <2>1, <2>3, <2>4, <2>5 DEF TypeOK, TaskStates
<1>5. ~InFlight(i) /\ ~Reported(i)
  BY <1>0, <1>1 DEF TilesInv
<1>6. /\ \A j \in Tiles : InFlight(j)' = InFlight(j) /\ Reported(j)' = Reported(j)
      /\ Window' = Window
      /\ waitFor # 0 => InFlight(waitFor)' = InFlight(waitFor)
  BY <1>2 DEF InFlight, Reported, Window, Inline, NTiles
<1>7. TilesInv'
  BY <1>0, <1>1, <1>2, <1>5, <1>6 DEF TilesInv, Once
<1>8. WorkersInv'
  <2>1. AllButOne(i)'
    <3>1. \A j \in Tiles : Busy(j)' => Busy(j) \/ j = i
      BY <1>3 DEF Busy
    <3>2. \A j \in Tiles : Busy(j) => InFlight(j)
      BY <1>0, <1>2 DEF WorkersInv
    <3> QED BY <1>2, <1>6, <3>1, <3>2 DEF AllButOne
  <2>2. ASSUME NEW k \in DOMAIN metrics, metrics[k].status = "ok"
        PROVE  task'[metrics[k].tile] = "ok"
    <3>1. metrics[k] \in Metric
      BY <1>0 DEF TypeOK
    <3>2. metrics[k].tile \in Tiles /\ metrics[k].tile # i
      BY <1>5, <3>1 DEF Metric, Reported
    <3> QED BY <1>0, <1>3, <2>2, <3>2 DEF WorkersInv
  <2>3. \A j \in Tiles : task'[j] # "none" => j \in active' \ unsent'
    BY <1>0, <1>1, <1>2, <1>3 DEF WorkersInv
  <2>4. \A j \in Tiles : task'[j] \in {"run", "read", "ok", "error"} => attempts'[j] > 0
    BY <1>0, <1>2, <1>3 DEF WorkersInv
  <2>5. phase' = "done" /\ metrics' = metrics /\ i \in Tiles \cup {0}
    BY <1>1, <1>2
  <2> QED BY <2>1, <2>2, <2>3, <2>4, <2>5 DEF WorkersInv
<1>9. ResultInv'
  <2>1. GivenUp' = GivenUp
    BY DEF GivenUp, Outcome
  <2> QED BY <1>2, <2>1, GivenUpIs DEF ResultInv, AsTheRunnerAssumes
<1> QED BY <1>4, <1>7, <1>8, <1>9 DEF StepIInv

LEMMA ParentKeeps == ASSUME StepIInv, ParentStep PROVE StepIInv'
<1>0. TypeOK /\ TilesInv /\ WorkersInv
  BY DEF StepIInv
<1>1. CASE AllocateFails
  BY <1>1, GiveUpKeeps DEF AllocateFails
<1>2. CASE SubmitFails
  BY <1>2, SubmitFailsKeeps
<1>3. CASE ReportFailure
  <2>1. MaxTries \in 1 .. MaxAttempts
    BY <1>0, MaxTriesType
  <2> DEFINE r == Outcome("error", MaxTries, MaxTries >= MaxAttempts, metrics)
  <2>2. r.status = "error" /\ r.attempts = MaxTries /\ r.dead = (MaxTries >= MaxAttempts)
        /\ r.told = metrics /\ r.told \in Seq(Metric)
    BY <1>0 DEF Outcome, TypeOK
  <2>3. (MaxTries >= MaxAttempts) = (MaxTries = MaxAttempts)
    BY <2>1, FanoutAssumption
  <2>4. /\ AllCollected /\ Finish(r)
        /\ UNCHANGED <<setup, worker, active, unsent, pending, waitFor, metrics, broken>>
    BY <1>3 DEF ReportFailure
  <2> HIDE DEF r
  <2> QED BY <2>1, <2>2, <2>3, <2>4, CollectedIs, EndKeeps
<1>4. CASE Finalize
  <2>1. MaxTries \in 1 .. MaxAttempts
    BY <1>0, MaxTriesType
  <2> DEFINE r == Outcome("ok", MaxTries, FALSE, metrics)
  <2>2. r.status = "ok" /\ r.attempts = MaxTries /\ r.dead = FALSE
        /\ r.told = metrics /\ r.told \in Seq(Metric)
    BY <1>0 DEF Outcome, TypeOK
  <2>4. /\ AllCollected /\ ~SomeFailed /\ Finish(r)
        /\ UNCHANGED <<setup, worker, active, unsent, pending, waitFor, metrics, broken>>
    BY <1>4 DEF Finalize
  <2> HIDE DEF r
  <2> QED BY <2>1, <2>2, <2>4, CollectedIs, EndKeeps
<1>5. CASE FinalizeFails
  BY <1>5, GiveUpKeeps DEF FinalizeFails
<1> QED BY <1>1, <1>2, <1>3, <1>4, <1>5, AllocateKeeps, SubmitKeeps, PollKeeps, TakeResultKeeps
        DEF ParentStep

LEMMA StepInductive == StepIInv /\ [Next]_vars => StepIInv'
<1>1. ASSUME StepIInv, UNCHANGED vars PROVE StepIInv'
  <2>1. UNCHANGED <<worker, parent, broken>>
    BY <1>1 DEF vars
  <2>2. TypeOK'
    BY <1>1, <2>1 DEF StepIInv, TypeOK, worker, parent
  <2>3. \A i \in Tiles : Busy(i)' = Busy(i)
    BY <2>1 DEF Busy, worker
  <2> QED BY <1>1, <2>1, <2>2, <2>3, WorkersKeep DEF StepIInv, WorkersInv, worker
<1> QED BY <1>1, TileStepKeeps, ParentKeeps, PoolBreaksKeeps DEF Next, Done

LEMMA StepInvariant == Spec => []StepIInv
BY StepInitially, StepInductive, PTL DEF Spec

-----------------------------------------------------------------------------
(* --- theorems ----------------------------------------------------------------- *)

\* The types of the parent's and the workers' state.
THEOREM StepTypes == Spec => []TypeOK
<1>1. StepIInv => TypeOK
  BY DEF StepIInv
<1> QED BY <1>1, StepInvariant, PTL

\* What is queued or running is no more than what is in flight, and one.
LEMMA CountOfBusy ==
    ASSUME StepIInv
    PROVE  Cardinality({i \in Tiles : Busy(i)}) \in Nat /\ Cardinality({i \in Tiles : Busy(i)}) <= Window
<1>1. pending \in Seq(active) /\ Len(pending) <= Window /\ Window \in Nat /\ Once(pending)
  BY WindowIs DEF StepIInv, TypeOK, TilesInv
<1>2. PICK n \in Nat : n = Len(pending) /\ DOMAIN pending = 1 .. n /\ n <= Window
  BY <1>1
<1>3. PICK B : B = {i \in Tiles : Busy(i)}
  OBVIOUS
<1>4. PICK P : P = {pending[k] : k \in 1 .. n}
  OBVIOUS
<1>5. IsFiniteSet(P) /\ Cardinality(P) \in Nat /\ Cardinality(P) <= n
  <2> DEFINE f == [k \in 1 .. n |-> pending[k]]
  <2>1. f \in Surjection(1 .. n, P)
    BY <1>4 DEF Surjection
  <2>2. IsFiniteSet(1 .. n) /\ Cardinality(1 .. n) = n
    BY FS_Interval
  <2> HIDE DEF f
  <2> QED BY <2>1, <2>2, FS_Surjection, FS_CardinalityType
<1>6. PICK x \in Tiles \cup {0} : AllButOne(x)
  BY DEF StepIInv, WorkersInv
<1>7. CASE x = 0
  <2>1. \A i \in Tiles : i # 0
    BY DEF Tiles
  <2>2. B \in SUBSET P
    BY <1>2, <1>3, <1>4, <1>6, <1>7, <2>1 DEF AllButOne, InFlight
  <2>3. IsFiniteSet(B) /\ Cardinality(B) <= Cardinality(P)
    BY <1>5, <2>2, FS_Subset
  <2>4. Cardinality(B) \in Nat
    BY <2>3, FS_CardinalityType
  <2> QED BY <1>1, <1>2, <1>3, <1>5, <2>3, <2>4
<1>8. CASE x # 0
  <2>1. B \in SUBSET (P \cup {x})
    BY <1>2, <1>3, <1>4, <1>6 DEF AllButOne, InFlight
  <2>2. n < Window
    BY <1>2, <1>6, <1>8 DEF AllButOne
  <2>3. /\ IsFiniteSet(P \cup {x})
        /\ Cardinality(P \cup {x}) = IF x \in P THEN Cardinality(P) ELSE Cardinality(P) + 1
    BY <1>5, FS_AddElement
  <2>4. IsFiniteSet(B) /\ Cardinality(B) <= Cardinality(P \cup {x})
    BY <2>1, <2>3, FS_Subset
  <2>5. Cardinality(B) \in Nat /\ Cardinality(P \cup {x}) \in Nat
    BY <2>3, <2>4, FS_CardinalityType
  <2> QED BY <1>1, <1>2, <1>3, <1>5, <2>2, <2>3, <2>4, <2>5
<1> QED BY <1>7, <1>8

\* The parent never has more futures in flight than max_inflight_tiles, nor are more
\* tiles queued or running, whatever is left behind by a submit that raises; and a
\* step that reports on its tiles leaves none (engine/scheduler.py, _run_tiled_step).
THEOREM FuturesBounded == Spec => []FuturesInBounds
<1>1. StepIInv => FuturesInBounds
  <2> SUFFICES ASSUME StepIInv PROVE FuturesInBounds
    OBVIOUS
  <2>1. setup.inflight # 0 => /\ Len(pending) <= setup.inflight
                              /\ Cardinality({i \in Tiles : Busy(i)}) <= setup.inflight
    <3>1. setup.inflight \in Nat /\ Len(pending) \in Nat
      BY FanoutAssumption DEF StepIInv, TypeOK, Setup
    <3> QED BY <3>1, WindowIs, CountOfBusy DEF StepIInv, TilesInv
  <2>2. phase = "window" => \A i \in Tiles : Busy(i) => \E k \in DOMAIN pending : pending[k] = i
    BY DEF StepIInv, WorkersInv, InFlight
  <2>3. NothingOutlivesTheReport
    BY DEF StepIInv, ResultInv, NothingOutlivesTheReport
  <2> QED BY <2>1, <2>2, <2>3 DEF FuturesInBounds, Backpressure
<1> QED BY <1>1, StepInvariant, PTL

LEMMA CountOfReported ==
    ASSUME StepIInv
    PROVE  Cardinality({metrics[k].tile : k \in DOMAIN metrics}) = Len(metrics)
<1> DEFINE R == {metrics[k].tile : k \in DOMAIN metrics}
           n == Len(metrics)
           f == [k \in 1 .. n |-> metrics[k].tile]
<1>1. n \in Nat /\ DOMAIN metrics = 1 .. n
  BY DEF StepIInv, TypeOK
<1>2. f \in Bijection(1 .. n, R)
  <2>1. f \in Surjection(1 .. n, R)
    BY <1>1 DEF Surjection
  <2>2. f \in Injection(1 .. n, R)
    BY <1>1 DEF StepIInv, TilesInv, Injection, IsInjective
  <2> QED BY <2>1, <2>2 DEF Bijection
<1>3. ExistsBijection(1 .. n, R)
  BY <1>2 DEF ExistsBijection
<1> QED BY <1>1, <1>3, FS_CountingElements

\* Each active tile is reported once, and none is left out of a result other than the
\* catch-all's (engine/scheduler.py, _record and the gathering loop).
THEOREM EveryTileCounted == Spec => []EveryTileReportedOnce
<1>1. StepIInv => EveryTileReportedOnce
  <2> SUFFICES ASSUME StepIInv PROVE EveryTileReportedOnce
    OBVIOUS
  <2> DEFINE R == {metrics[k].tile : k \in DOMAIN metrics}
  <2>1. Cardinality(R) = Len(metrics)
    BY CountOfReported
  <2>2. R \subseteq active
    <3>1. \A k \in DOMAIN metrics : metrics[k] \in Metric
      BY DEF StepIInv, TypeOK
    <3>2. \A k \in DOMAIN metrics : metrics[k].tile \in Tiles
      BY <3>1 DEF Metric
    <3> QED BY <3>2 DEF StepIInv, TilesInv, Reported
  <2>3. phase = "done" => result = GivenUp \/ (active \subseteq R /\ result.told = metrics)
    BY DEF StepIInv, ResultInv, Reported
  <2> QED BY <2>1, <2>2, <2>3 DEF EveryTileReportedOnce
<1> QED BY <1>1, StepInvariant, PTL

\* A result is a success, a failure that is a dead letter just if its count is
\* max_attempts, or the catch-all: what PipelineRunner's tiled steps choose from.
THEOREM ResultsAsAssumed == Spec => []AsTheRunnerAssumes
<1>1. StepIInv => AsTheRunnerAssumes
  BY DEF StepIInv, ResultInv
<1> QED BY <1>1, StepInvariant, PTL

\* Tiles that run at once write chunks of their own: tile_size is a multiple of
\* the chunk's side, or the backend runs one after the other.
Apart ==
    \A s \in Setups : \/ s.backend = "serial" \/ s.inflight = 1
                      \/ \A i, j \in Tiles : s.chunkOf[i] = s.chunkOf[j] => i = j

\* What a worker has read is what the chunk still holds, and what it has written
\* stays.
ChunksInv ==
    \A i \in Tiles : /\ task[i] = "read" => scratch[i] = chunk[setup.chunkOf[i]]
                     /\ task[i] = "ok" => i \in chunk[setup.chunkOf[i]]

LEMMA WritersApart ==
    ASSUME Apart, StepIInv, NEW i \in Tiles, NEW j \in Tiles, Busy(i), Busy(j),
           setup.chunkOf[i] = setup.chunkOf[j]
    PROVE  i = j
<1>0. TypeOK /\ TilesInv
  BY DEF StepIInv
<1>1. CASE setup.backend = "serial" \/ setup.inflight = 1
  <2>1. Window \in Nat /\ Window >= 1 /\ Window <= 1
    BY <1>0, <1>1, WindowIs DEF Inline
  <2>2. Len(pending) \in Nat /\ DOMAIN pending = 1 .. Len(pending) /\ Len(pending) <= 1
    BY <1>0, <2>1 DEF TypeOK, TilesInv
  <2>3. PICK x \in Tiles \cup {0} : AllButOne(x)
    BY DEF StepIInv, WorkersInv
  <2>4. CASE x = 0
    <3>1. 0 \notin Tiles
      BY DEF Tiles
    <3>2. InFlight(i) /\ InFlight(j)
      BY <2>3, <2>4, <3>1 DEF AllButOne
    <3>3. PICK k, m \in DOMAIN pending : pending[k] = i /\ pending[m] = j
      BY <3>2 DEF InFlight
    <3>4. k = m
      BY <2>2
    <3> QED BY <3>3, <3>4
  <2>5. CASE x # 0
    <3>1. DOMAIN pending = {}
      BY <2>1, <2>2, <2>3, <2>5 DEF AllButOne
    <3> QED BY <2>3, <3>1 DEF AllButOne, InFlight
  <2> QED BY <2>4, <2>5
<1>2. CASE ~(setup.backend = "serial" \/ setup.inflight = 1)
  BY <1>0, <1>2 DEF Apart, TypeOK
<1> QED BY <1>1, <1>2

LEMMA ChunksKept ==
    ASSUME Apart, StepIInv, ChunksInv, [Next]_vars
    PROVE  ChunksInv'
<1>0. TypeOK
  BY DEF StepIInv
<1>1. ASSUME NEW i \in Tiles, WriteChunk(i) PROVE ChunksInv'
  <2>1. setup' = setup /\ scratch' = scratch /\ task' = [task EXCEPT ![i] = "ok"]
    BY <1>1 DEF WriteChunk, parent
  <2>2. /\ chunk[setup.chunkOf[i]] = scratch[i]
        /\ chunk'[setup.chunkOf[i]] = scratch[i] \cup {i}
    BY <1>0, <1>1 DEF WriteChunk, ChunksInv, TypeOK
  <2>3. \A j \in Tiles : setup.chunkOf[j] # setup.chunkOf[i] =>
                            chunk'[setup.chunkOf[j]] = chunk[setup.chunkOf[j]]
    BY <1>0, <1>1 DEF WriteChunk, TypeOK
  <2>4. ASSUME NEW j \in Tiles, task'[j] = "read"
        PROVE  scratch'[j] = chunk'[setup'.chunkOf[j]]
    <3>1. j # i /\ task[j] = "read"
      BY <1>0, <2>1, <2>4 DEF TypeOK
    <3>2. setup.chunkOf[j] # setup.chunkOf[i]
      BY <1>1, <3>1, WritersApart DEF Busy, WriteChunk
    <3> QED BY <2>1, <2>3, <3>1, <3>2 DEF ChunksInv
  <2>5. ASSUME NEW j \in Tiles, task'[j] = "ok"
        PROVE  j \in chunk'[setup'.chunkOf[j]]
    <3>1. j = i \/ task[j] = "ok"
      BY <1>0, <2>1, <2>5 DEF TypeOK
    <3>2. CASE setup.chunkOf[j] = setup.chunkOf[i]
      BY <2>1, <2>2, <3>1, <3>2 DEF ChunksInv
    <3>3. CASE setup.chunkOf[j] # setup.chunkOf[i]
      BY <2>1, <2>3, <3>1, <3>3 DEF ChunksInv
    <3> QED BY <3>2, <3>3
  <2> QED BY <2>4, <2>5 DEF ChunksInv
<1>2. ASSUME NEW i \in Tiles, ReadChunk(i) PROVE ChunksInv'
  BY <1>0, <1>2 DEF ReadChunk, ChunksInv, TypeOK, parent
<1>3. ASSUME NEW i \in Tiles, StartTile(i) \/ Retry(i) \/ FailTile(i) \/ LoseWorker(i)
      PROVE  ChunksInv'
  BY <1>0, <1>3 DEF StartTile, Retry, FailTile, LoseWorker, ChunksInv, TypeOK, parent
<1>4. ASSUME PoolBreaks PROVE ChunksInv'
  <2>1. /\ \A i \in Tiles : task'[i] \in {task[i], "lost"}
        /\ UNCHANGED <<setup, scratch, chunk>>
    BY <1>4 DEF PoolBreaks, parent
  <2> QED BY <2>1 DEF ChunksInv
<1>5. ASSUME Submit PROVE ChunksInv'
  <2>1. /\ \A i \in Tiles : task'[i] \in {task[i], "start"}
        /\ UNCHANGED <<setup, scratch, chunk>>
    BY <1>0, <1>5 DEF Submit, TypeOK
  <2> QED BY <2>1 DEF ChunksInv
<1>9. ASSUME SubmitFails PROVE ChunksInv'
  <2>1. /\ \A i \in Tiles : task'[i] \in {task[i], "start"}
        /\ UNCHANGED <<setup, scratch, chunk>>
    BY <1>0, <1>9 DEF SubmitFails, TypeOK
  <2> QED BY <2>1 DEF ChunksInv
<1>6. ASSUME UNCHANGED <<setup, worker>> PROVE ChunksInv'
  BY <1>6 DEF ChunksInv, worker
<1>7. ParentStep => Submit \/ SubmitFails \/ UNCHANGED <<setup, worker>>
  BY DEF ParentStep, Allocate, AllocateFails, Poll, TakeResult, ReportFailure,
         Finalize, FinalizeFails, GiveUp, worker
<1>8. UNCHANGED vars => UNCHANGED <<setup, worker>>
  BY DEF vars, parent
<1> QED BY <1>1, <1>2, <1>3, <1>4, <1>5, <1>6, <1>7, <1>8, <1>9 DEF Next, Done, TileStep

\* A step that is ok has the data of every active tile in the output, though its
\* tiles were written by read, change and write of whole chunks, in any order and
\* after any failed tries (engine/tiled.py, _run_tile; engine/merge.py).
THEOREM OkMeansComplete == ASSUME Apart PROVE Spec => []OkIsComplete
<1>1. Init => ChunksInv
  BY DEF Init, ChunksInv
<1>2. StepIInv /\ ChunksInv /\ [Next]_vars => ChunksInv'
  BY ChunksKept
<1>3. StepIInv /\ ChunksInv => OkIsComplete
  <2> SUFFICES ASSUME StepIInv, ChunksInv, result.status = "ok" PROVE OkIsComplete
    BY DEF OkIsComplete
  <2>1. phase = "done" /\ ~SomeFailed /\ \A i \in Tiles : ~Busy(i)
    BY GivenUpIs DEF StepIInv, ResultInv, NoResult, Outcome
  <2>2. ASSUME NEW i \in active PROVE i \in chunk[setup.chunkOf[i]]
    <3>1. PICK k \in DOMAIN metrics : metrics[k].tile = i
      BY <2>1, GivenUpIs DEF StepIInv, ResultInv, Reported
    <3>2. metrics[k] \in Metric /\ i \in Tiles
      BY DEF StepIInv, TypeOK
    <3>3. metrics[k].status = "ok"
      BY <2>1, <3>2 DEF Metric, SomeFailed
    <3> QED BY <3>1, <3>2, <3>3 DEF StepIInv, WorkersInv, ChunksInv
  <2> QED BY <2>1, <2>2 DEF OkIsComplete
<1> QED BY <1>1, <1>2, <1>3, StepInvariant, PTL DEF Spec

=============================================================================
