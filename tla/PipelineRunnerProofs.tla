------------------------ MODULE PipelineRunnerProofs ------------------------
(***************************************************************************)
(* Proofs about PipelineRunner, for every set of names, plans, retry       *)
(* limit and mode.                                                         *)
(***************************************************************************)
EXTENDS PipelineRunner, SequenceTheorems, TLAPS

(* --- types ---------------------------------------------------------------- *)

\* A step's result, put together from its parts, is a result.
LEMMA OutcomeType ==
    ASSUME NEW n \in Names, NEW status \in Status,
           NEW attempts \in 1..MaxAttempts, NEW dead \in BOOLEAN
    PROVE  StepOutcome(n, status, attempts, dead) \in Result
BY DEF StepOutcome, Result

\* The results a step can have, whatever ran it, are results.
LEMMA OutcomesAreResults ==
    ASSUME NEW n \in Names
    PROVE  /\ RetryOutcomes(n) \subseteq Result
           /\ TiledOutcomes(n) \subseteq Result
           /\ FutureOutcomes(n) \subseteq Result
           /\ Skipped(n) \in Result /\ Blocked(n) \in Result
<1>1. 1 \in 1..MaxAttempts
  BY RunnerAssumption
<1>2. {"ok", "skipped", "error", "blocked"} \subseteq Status
  BY DEF Status
<1>3. \A a \in 1..MaxAttempts : (a = MaxAttempts) \in BOOLEAN
  OBVIOUS
<1>4. Skipped(n) \in Result /\ Blocked(n) \in Result
  BY <1>1, <1>2, OutcomeType DEF Skipped, Blocked
<1>5. RetryOutcomes(n) \subseteq Result
  <2>1. \A a \in 1..MaxAttempts : StepOutcome(n, "ok", a, FALSE) \in Result
    BY <1>2, OutcomeType
  <2>2. \A a \in 1..MaxAttempts : StepOutcome(n, "error", a, a = MaxAttempts) \in Result
    BY <1>2, <1>3, OutcomeType
  <2> QED BY <2>1, <2>2 DEF RetryOutcomes
<1>6. StepOutcome(n, "error", 1, FALSE) \in Result /\ StepOutcome(n, "error", 1, TRUE) \in Result
  BY <1>1, <1>2, OutcomeType
<1> QED BY <1>4, <1>5, <1>6 DEF TiledOutcomes, FutureOutcomes, BackendError

\* Each of them carries the name it was produced for.
LEMMA OutcomesAreNamed ==
    ASSUME NEW n \in Names
    PROVE  /\ \A r \in RetryOutcomes(n) : r.name = n
           /\ \A r \in TiledOutcomes(n) : r.name = n
           /\ \A r \in FutureOutcomes(n) : r.name = n
           /\ Skipped(n).name = n /\ Blocked(n).name = n
BY DEF RetryOutcomes, TiledOutcomes, FutureOutcomes, BackendError, Skipped, Blocked, StepOutcome

\* The working set stays a map from names to sets of names when a name is
\* taken out of it and when targets of triggers are put in.
LEMMA WorkingSetTypes ==
    ASSUME TypeOK, NEW n \in Names, NEW targets \in SUBSET Names
    PROVE  /\ DOMAIN Pop(n) = DOMAIN nodeAfter \ {n}
           /\ \A m \in DOMAIN Pop(n) : Pop(n)[m] = nodeAfter[m]
           /\ DOMAIN Pop(n) \subseteq Names
           /\ Pop(n) \in [DOMAIN Pop(n) -> SUBSET Names]
           /\ DOMAIN Schedule(n, targets) = (DOMAIN nodeAfter \ {n}) \cup targets
           /\ DOMAIN Schedule(n, targets) \subseteq Names
           /\ Schedule(n, targets) \in [DOMAIN Schedule(n, targets) -> SUBSET Names]
BY DEF TypeOK, Pop, Schedule

\* What is settled is a result, and so is what remains to be settled.
LEMMA SettledIsNamed ==
    ASSUME TypeOK, results # << >>
    PROVE  /\ Head(results) \in Result
           /\ SettledName \in Names
           /\ Tail(results) \in Seq(Result)
<1>1. results \in Seq(Result)
  BY DEF TypeOK
<1>2. Head(results) \in Result /\ Tail(results) \in Seq(Result)
  BY <1>1, HeadTailProperties
<1> QED BY <1>2 DEF SettledName, Result

\* RunResult, the working set and the layer always have the shape the code
\* gives them.
THEOREM TypeCorrect == Spec => []TypeOK
<1>1. Init => TypeOK
  <2> SUFFICES ASSUME Init PROVE TypeOK OBVIOUS
  <2>1. plan \in Plan
    BY RunnerAssumption DEF Init
  <2>2. << >> \in Seq(Result)
    BY EmptySeq
  <2>3. DOMAIN worker = {}
    BY DEF Init
  <2>4. /\ DOMAIN nodeAfter \subseteq Names
        /\ nodeAfter \in [DOMAIN nodeAfter -> SUBSET Names]
    BY <2>1 DEF Init, Plan
  <2> QED BY <2>2, <2>3, <2>4 DEF Init, TypeOK
<1>2. TypeOK /\ [Next]_vars => TypeOK'
  <2> SUFFICES ASSUME TypeOK, [Next]_vars PROVE TypeOK'
    OBVIOUS
  <2>1. ASSUME NEW n \in Names, DropUnreachable(n) PROVE TypeOK'
    BY <2>1, OutcomesAreResults, WorkingSetTypes, AppendProperties DEF DropUnreachable, TypeOK
  <2>2. ASSUME NEW n \in Names, UnknownProducer(n) PROVE TypeOK'
    BY <2>2 DEF UnknownProducer, TypeOK
  <2>3. ASSUME NEW n \in Names, NEW r \in Result, Record(n, r) PROVE TypeOK'
    BY <2>3, AppendProperties DEF Record, TypeOK
  <2>4. ASSUME NEW n \in Names, SkipStep(n) \/ RunStep(n) \/ RunTiledStep(n) PROVE TypeOK'
    BY <2>3, <2>4, OutcomesAreResults DEF SkipStep, RunStep, RunTiledStep
  <2>5. ASSUME NEW n \in Names, SetAside(n) PROVE TypeOK'
    BY <2>5 DEF SetAside, TypeOK, LayerIsPending, AtStep, IsFirst
  <2>6. ASSUME NEW n \in Names, WorkerFinish(n) PROVE TypeOK'
    BY <2>6, OutcomesAreResults, OutcomesAreNamed DEF WorkerFinish, TypeOK
  <2>7. ASSUME NEW n \in Names, Gather(n) PROVE TypeOK'
    BY <2>7, AppendProperties DEF Gather, TypeOK, IsFirst
  <2>8. CASE Explain \/ Scan \/ Return \/ NothingReady \/ StartLayer
    BY <2>8 DEF Explain, Scan, Return, NothingReady, StartLayer, TypeOK,
                ReadyNodes, UnreachableNodes
  <2>9. CASE SubmitAll
    BY <2>9 DEF SubmitAll, TypeOK
  <2>14. CASE SubmitFails
    BY <2>14 DEF SubmitFails, TypeOK
  <2>15. CASE PoolBreaks
    <3>1. \A n \in DOMAIN worker : BackendError(n) \in Result /\ BackendError(n).name = n
      BY OutcomesAreResults, OutcomesAreNamed DEF TypeOK, FutureOutcomes
    <3>2. DOMAIN worker' = DOMAIN worker
      BY <2>15 DEF PoolBreaks
    <3>3. \A n \in DOMAIN worker' :
             worker'[n] = Running(n) \/ (worker'[n] \in Result /\ worker'[n].name = n)
      BY <2>15, <3>1 DEF PoolBreaks, TypeOK
    <3> QED BY <2>15, <3>2, <3>3 DEF PoolBreaks, TypeOK
  <2>10. CASE EndLayer
    <3>1. results \in Seq(Result) /\ steps \in Seq(Result)
      BY DEF TypeOK
    <3>2. steps \o results \in Seq(Result)
      BY <3>1, ConcatProperties
    <3> QED BY <2>10, <3>2 DEF EndLayer, TypeOK
  <2>11. CASE SettleOk
    <3>1. results # << >>
      BY <2>11 DEF SettleOk, Settling
    <3>2. PICK fired \in SUBSET {t \in plan.triggers : t.source = SettledName} :
             /\ nodeAfter' = Schedule(SettledName, {t.target : t \in Due(fired, completed')})
             /\ triggered' = triggered \cup Due(fired, completed')
      BY <2>11 DEF SettleOk
    <3>3. Due(fired, completed') \subseteq Trigger
      BY RunnerAssumption DEF TypeOK, Plan, Due
    <3>4. {t.target : t \in Due(fired, completed')} \in SUBSET Names
      BY <3>3 DEF Trigger
    <3>5. DOMAIN nodeAfter' \subseteq Names /\ nodeAfter' \in [DOMAIN nodeAfter' -> SUBSET Names]
      <4> DEFINE targets == {t.target : t \in Due(fired, completed')}
      <4>1. SettledName \in Names /\ targets \in SUBSET Names
        BY <3>1, <3>4, SettledIsNamed
      <4>2. nodeAfter' = Schedule(SettledName, targets)
        BY <3>2
      <4> HIDE DEF targets
      <4>3. /\ DOMAIN Schedule(SettledName, targets) \subseteq Names
            /\ Schedule(SettledName, targets)
                 \in [DOMAIN Schedule(SettledName, targets) -> SUBSET Names]
        BY <4>1, WorkingSetTypes
      <4> QED BY <4>2, <4>3
    <3>6. results' \in Seq(Result) /\ completed' \subseteq Names
      BY <2>11, <3>1, SettledIsNamed DEF SettleOk, TypeOK
    <3>7. UNCHANGED <<runner, plan, phase, failed, unreachable, todo, inline, worker, steps, dumped, broken>>
      BY <2>11 DEF SettleOk
    <3>8. triggered' \subseteq Trigger
      BY <3>2, <3>3 DEF TypeOK
    <3> QED BY <3>5, <3>6, <3>7, <3>8 DEF TypeOK
  <2>13. CASE SettleSkipped \/ SettleError
    <3>1. results # << >>
      BY <2>13 DEF SettleSkipped, SettleError, Settling
    <3>2. /\ nodeAfter' = Pop(SettledName)
          /\ results' = Tail(results)
      BY <2>13 DEF SettleSkipped, SettleError
    <3>3. DOMAIN nodeAfter' \subseteq Names /\ nodeAfter' \in [DOMAIN nodeAfter' -> SUBSET Names]
      BY <3>1, <3>2, SettledIsNamed, WorkingSetTypes
    <3>4. results' \in Seq(Result)
      BY <3>1, <3>2, SettledIsNamed
    <3>5. completed' \subseteq Names /\ failed' \subseteq Names
      BY <2>13, <3>1, SettledIsNamed DEF SettleSkipped, SettleError, TypeOK
    <3>6. phase' \in {"settle", "returned"} /\ dumped' \in BOOLEAN
      BY <2>13, RunnerAssumption DEF SettleSkipped, SettleError, Settling, TypeOK, Runner
    <3> QED BY <2>13, <3>3, <3>4, <3>5, <3>6 DEF SettleSkipped, SettleError, TypeOK
  <2>12. CASE EndSettle \/ Ended \/ UNCHANGED vars
    BY <2>12 DEF EndSettle, Ended, vars, TypeOK
  <2> QED
    BY <2>1, <2>2, <2>4, <2>5, <2>6, <2>7, <2>8, <2>9, <2>10, <2>11, <2>12, <2>13, <2>14, <2>15
       DEF Next, NodeStep, RunnerStep
<1> QED BY <1>1, <1>2, PTL DEF Spec

(* --- names in a list of results ------------------------------------------ *)

\* Appending a result adds its name, and keeps the names distinct if it is new.
LEMMA AppendNames ==
    ASSUME NEW seq \in Seq(Result), NEW r \in Result
    PROVE  /\ NamesIn(Append(seq, r)) = NamesIn(seq) \cup {r.name}
           /\ DistinctNames(seq) /\ r.name \notin NamesIn(seq) => DistinctNames(Append(seq, r))
<1>1. /\ DOMAIN seq = 1..Len(seq) /\ Len(seq) \in Nat
      /\ DOMAIN Append(seq, r) = 1..(Len(seq) + 1)
      /\ \A i \in 1..Len(seq) : Append(seq, r)[i] = seq[i]
      /\ Append(seq, r)[Len(seq) + 1] = r
  BY LenProperties, AppendProperties
<1> QED BY <1>1 DEF NamesIn, DistinctNames

\* The tail of a list of distinct names has all of them but the head's.
LEMMA TailNames ==
    ASSUME NEW seq \in Seq(Result), seq # << >>, DistinctNames(seq)
    PROVE  /\ NamesIn(Tail(seq)) = NamesIn(seq) \ {Head(seq).name}
           /\ Head(seq).name \in NamesIn(seq)
           /\ DistinctNames(Tail(seq))
<1>1. /\ DOMAIN seq = 1..Len(seq) /\ Len(seq) \in Nat \ {0}
      /\ DOMAIN Tail(seq) = 1..(Len(seq) - 1)
      /\ \A i \in 1..(Len(seq) - 1) : Tail(seq)[i] = seq[i + 1]
      /\ Head(seq) = seq[1]
  BY LenProperties, EmptySeq, HeadTailProperties
<1>2. \A i \in 2..Len(seq) : i - 1 \in 1..(Len(seq) - 1) /\ seq[i] = Tail(seq)[i - 1]
  BY <1>1
<1>3. ASSUME NEW x \in NamesIn(Tail(seq)) PROVE x \in NamesIn(seq) /\ x # Head(seq).name
  <2>1. PICK i \in 1..(Len(seq) - 1) : x = Tail(seq)[i].name
    BY <1>1 DEF NamesIn
  <2>2. i + 1 \in DOMAIN seq /\ 1 \in DOMAIN seq /\ i + 1 # 1 /\ x = seq[i + 1].name
    BY <1>1, <2>1
  <2> QED BY <1>1, <2>2 DEF NamesIn, DistinctNames
<1>4. ASSUME NEW x \in NamesIn(seq), x # Head(seq).name PROVE x \in NamesIn(Tail(seq))
  <2>1. PICK i \in 1..Len(seq) : x = seq[i].name
    BY <1>1 DEF NamesIn
  <2>2. i \in 2..Len(seq)
    BY <1>1, <1>4, <2>1
  <2> QED BY <1>1, <1>2, <2>1, <2>2 DEF NamesIn
<1>5. Head(seq).name \in NamesIn(seq)
  <2>1. 1 \in DOMAIN seq
    BY <1>1
  <2> QED BY <1>1, <2>1 DEF NamesIn
<1>6. DistinctNames(Tail(seq))
  <2> SUFFICES ASSUME NEW i \in 1..(Len(seq) - 1), NEW j \in 1..(Len(seq) - 1),
                      Tail(seq)[i].name = Tail(seq)[j].name
               PROVE  i = j
    BY <1>1 DEF DistinctNames
  <2>1. i + 1 \in DOMAIN seq /\ j + 1 \in DOMAIN seq /\ seq[i + 1].name = seq[j + 1].name
    BY <1>1
  <2>2. i + 1 = j + 1
    BY <2>1 DEF DistinctNames
  <2> QED BY <2>2
<1> QED BY <1>3, <1>4, <1>5, <1>6

\* Concatenation, entry by entry.
LEMMA ConcatEntries ==
    ASSUME NEW s1 \in Seq(Result), NEW s2 \in Seq(Result)
    PROVE  /\ DOMAIN s1 = 1..Len(s1) /\ DOMAIN s2 = 1..Len(s2)
           /\ Len(s1) \in Nat /\ Len(s2) \in Nat
           /\ DOMAIN (s1 \o s2) = 1..(Len(s1) + Len(s2))
           /\ \A i \in DOMAIN (s1 \o s2) :
                 \/ i \in DOMAIN s1 /\ (s1 \o s2)[i] = s1[i]
                 \/ i > Len(s1) /\ i - Len(s1) \in DOMAIN s2 /\ (s1 \o s2)[i] = s2[i - Len(s1)]
BY LenProperties, ConcatProperties

\* Appending, entry by entry.
LEMMA AppendEntries ==
    ASSUME NEW seq \in Seq(Result), NEW r \in Result
    PROVE  /\ DOMAIN seq = 1..Len(seq) /\ Len(seq) \in Nat
           /\ DOMAIN Append(seq, r) = 1..(Len(seq) + 1)
           /\ \A i \in DOMAIN seq : Append(seq, r)[i] = seq[i]
           /\ Append(seq, r)[Len(seq) + 1] = r
BY LenProperties, AppendProperties

(* --- the inductive invariant --------------------------------------------- *)

\* Dropping an unreachable node: it was pending, so it had not succeeded.
LEMMA DropKeepsIInv ==
    ASSUME TypeOK, IInv, NEW n \in Names, DropUnreachable(n)
    PROVE  IInv'
<1> USE DEF DropUnreachable
<1>1. /\ DOMAIN nodeAfter' = DOMAIN nodeAfter \ {n}
      /\ \A m \in DOMAIN nodeAfter' : nodeAfter'[m] = nodeAfter[m]
  BY WorkingSetTypes
<1>2. n \in DOMAIN nodeAfter /\ n \notin completed /\ n \notin todo
  BY DEF IInv, PassIsCurrent, WorkingSet
<1>3. WorkingSet'
  BY <1>1 DEF IInv, WorkingSet, Targets, DeclaredFor
<1>4. PassIsCurrent'
  BY <1>1, <1>2 DEF IInv, PassIsCurrent
<1>5. LayerIsPending'
  BY <1>1, <1>2 DEF IInv, LayerIsPending, NamesIn, DistinctNames
<1>6. /\ steps \in Seq(Result) /\ Blocked(n) \in Result
      /\ Blocked(n).name = n /\ Blocked(n).status \notin Success
  BY OutcomesAreResults, OutcomesAreNamed DEF TypeOK, Blocked, StepOutcome, Success
<1>7. /\ DOMAIN steps = 1..Len(steps) /\ Len(steps) \in Nat
      /\ DOMAIN steps' = 1..(Len(steps) + 1)
      /\ \A i \in DOMAIN steps : steps'[i] = steps[i]
      /\ steps'[Len(steps) + 1] = Blocked(n)
  BY <1>6, AppendEntries
<1>8. ASSUME NEW i \in DOMAIN steps', steps'[i].status \in Success
      PROVE  i \in DOMAIN steps /\ steps[i].status \in Success /\ steps[i].name \in completed
  BY <1>6, <1>7, <1>8 DEF IInv, SuccessIsCompleted
<1>9. SuccessIsCompleted'
  BY <1>7, <1>8 DEF SuccessIsCompleted
<1>10. AtMostOneSuccess'
  <2> SUFFICES ASSUME NEW i \in DOMAIN steps', NEW j \in DOMAIN steps',
                      steps'[i].name = steps'[j].name, steps'[i].status \in Success
               PROVE  j <= i
    BY DEF AtMostOneSuccess
  <2>1. i \in DOMAIN steps /\ steps[i].status \in Success /\ steps[i].name # n
    BY <1>2, <1>8
  <2>2. j \in DOMAIN steps
    BY <1>6, <1>7, <2>1
  <2> QED BY <1>7, <2>1, <2>2 DEF IInv, AtMostOneSuccess
<1>11. StuckOnlyAfterFailure'
  BY DEF StuckOnlyAfterFailure
<1> QED BY <1>3, <1>4, <1>5, <1>9, <1>10, <1>11 DEF IInv

\* A result is added to those of the layer; its node leaves `todo` or the workers.
LEMMA RecordKeepsIInv ==
    ASSUME TypeOK, IInv, NEW n \in Names, NEW r \in Result, r.name = n,
           \/ AtStep(n) /\ Record(n, r)
           \/ Gather(n) /\ r = worker[n]
    PROVE  IInv'
<1>1. UNCHANGED <<runner, plan, phase, nodeAfter, completed, failed, unreachable, steps>>
  BY DEF Record, Gather
<1>2. phase \in {"layer", "gather"} /\ n \in todo \cup DOMAIN worker
  BY DEF AtStep, Gather, IsFirst
<1>3. results' = Append(results, r) /\ results \in Seq(Result)
  BY DEF Record, Gather, TypeOK
<1>4. todo' \cup DOMAIN worker' = (todo \cup DOMAIN worker) \ {n}
  BY DEF Record, Gather, AtStep, IsFirst, IInv, LayerIsPending
<1>5. todo' \subseteq todo /\ DOMAIN worker' \subseteq DOMAIN worker
  BY DEF Record, Gather
<1>6. /\ NamesIn(results') = NamesIn(results) \cup {n}
      /\ DistinctNames(results')
  BY <1>2, <1>3, AppendNames DEF IInv, LayerIsPending
<1>7. LayerIsPending'
  BY <1>1, <1>2, <1>4, <1>5, <1>6 DEF IInv, LayerIsPending
<1>8. WorkingSet' /\ PassIsCurrent' /\ StuckOnlyAfterFailure'
  BY <1>1, <1>2 DEF IInv, WorkingSet, PassIsCurrent, StuckOnlyAfterFailure, Targets, DeclaredFor
<1>9. SuccessIsCompleted' /\ AtMostOneSuccess'
  BY <1>1, <1>2 DEF IInv, SuccessIsCompleted, AtMostOneSuccess
<1> QED BY <1>7, <1>8, <1>9 DEF IInv

\* At the end of a layer its results enter RunResult.steps: their names were
\* pending, so none of them had succeeded, and they are distinct.
LEMMA EndLayerKeepsIInv ==
    ASSUME TypeOK, IInv, EndLayer
    PROVE  IInv'
<1> USE DEF EndLayer
<1>1. results \in Seq(Result) /\ steps \in Seq(Result)
  BY DEF TypeOK
<1>2. /\ DOMAIN steps = 1..Len(steps) /\ DOMAIN results = 1..Len(results)
      /\ Len(steps) \in Nat /\ Len(results) \in Nat
      /\ DOMAIN steps' = 1..(Len(steps) + Len(results))
      /\ \A i \in DOMAIN steps' :
            \/ i \in DOMAIN steps /\ steps'[i] = steps[i]
            \/ /\ i > Len(steps) /\ i - Len(steps) \in DOMAIN results
               /\ steps'[i] = results[i - Len(steps)]
  BY <1>1, ConcatEntries
<1>3. LayerIsPending' /\ WorkingSet' /\ PassIsCurrent' /\ StuckOnlyAfterFailure'
  BY DEF IInv, LayerIsPending, WorkingSet, PassIsCurrent, StuckOnlyAfterFailure,
         Targets, DeclaredFor, NamesIn, DistinctNames
<1>4. \A i \in DOMAIN results :
         results[i].name \in NamesIn(results) /\ results[i].name \notin completed
  BY DEF IInv, LayerIsPending, WorkingSet, NamesIn
<1>5. \A i \in DOMAIN steps : steps[i].status \in Success => steps[i].name \in completed
  BY DEF IInv, SuccessIsCompleted
<1>6. SuccessIsCompleted'
  BY <1>2, <1>4, <1>5 DEF SuccessIsCompleted
<1>7. AtMostOneSuccess'
  <2> SUFFICES ASSUME NEW i \in DOMAIN steps', NEW j \in DOMAIN steps',
                      steps'[i].name = steps'[j].name, steps'[i].status \in Success
               PROVE  j <= i
    BY DEF AtMostOneSuccess
  <2>1. CASE i \in DOMAIN steps /\ j \in DOMAIN steps
    BY <1>2, <2>1 DEF IInv, AtMostOneSuccess
  <2>2. CASE i \in DOMAIN steps /\ j \notin DOMAIN steps
    BY <1>2, <1>4, <1>5, <2>2
  <2>3. CASE i \notin DOMAIN steps /\ j \in DOMAIN steps
    BY <1>2, <2>3
  <2>4. CASE i \notin DOMAIN steps /\ j \notin DOMAIN steps
    <3>1. /\ i - Len(steps) \in DOMAIN results /\ j - Len(steps) \in DOMAIN results
          /\ results[i - Len(steps)].name = results[j - Len(steps)].name
      BY <1>2, <2>4
    <3>2. i - Len(steps) = j - Len(steps)
      BY <3>1 DEF IInv, LayerIsPending, DistinctNames
    <3> QED BY <1>2, <3>2
  <2> QED BY <2>1, <2>2, <2>3, <2>4
<1> QED BY <1>3, <1>6, <1>7 DEF IInv

\* Settling the head of the results: its node leaves the working set for
\* `completed` or `failed`, and a trigger only inserts what is not completed.
LEMMA SettleKeepsIInv ==
    ASSUME TypeOK, IInv, SettleOk \/ SettleSkipped \/ SettleError
    PROVE  IInv'
<1> DEFINE n == SettledName
<1>1. /\ phase = "settle" /\ results # << >>
      /\ results' = Tail(results)
      /\ UNCHANGED <<runner, plan, todo, unreachable, worker, steps>>
      /\ phase' \in {"settle", "returned"}
      /\ results \in Seq(Result)
  BY DEF SettleOk, SettleSkipped, SettleError, Settling, TypeOK
<1>2. /\ NamesIn(results') = NamesIn(results) \ {n}
      /\ n \in NamesIn(results)
      /\ DistinctNames(results')
  BY <1>1, TailNames DEF IInv, LayerIsPending, SettledName
<1>3. n \in Names /\ n \in DOMAIN nodeAfter
  BY <1>1, <1>2, SettledIsNamed DEF IInv, LayerIsPending
<1>4. PICK targets \in SUBSET Names :
         /\ DOMAIN nodeAfter' = (DOMAIN nodeAfter \ {n}) \cup targets
         /\ targets \subseteq Targets /\ targets \cap completed' = {}
         /\ \A m \in DOMAIN nodeAfter' :
               nodeAfter'[m] \subseteq (IF m \in DOMAIN nodeAfter THEN nodeAfter[m] ELSE {})
                                         \cup (IF targets = {} THEN {} ELSE {n})
         /\ targets # {} => n \in completed'
  <2>1. CASE SettleOk
    <3>1. PICK fired \in SUBSET {t \in plan.triggers : t.source = n} :
             nodeAfter' = Schedule(n, {t.target : t \in Due(fired, completed')})
      BY <2>1 DEF SettleOk
    <3> DEFINE new == {t.target : t \in Due(fired, completed')}
    <3>2. new \in SUBSET Names /\ new \subseteq Targets /\ new \cap completed' = {}
      BY RunnerAssumption DEF TypeOK, Plan, Trigger, Due, Targets
    <3>3. n \in completed'
      BY <2>1 DEF SettleOk
    <3>4. nodeAfter' = Schedule(n, new)
      BY <3>1
    <3> HIDE DEF new
    <3>5. DOMAIN nodeAfter' = (DOMAIN nodeAfter \ {n}) \cup new
      BY <3>4 DEF Schedule
    <3>6. \A m \in DOMAIN nodeAfter' :
             nodeAfter'[m] \subseteq (IF m \in DOMAIN nodeAfter THEN nodeAfter[m] ELSE {})
                                      \cup (IF new = {} THEN {} ELSE {n})
      BY <3>4, <3>5 DEF Schedule
    <3> QED BY <3>2, <3>3, <3>5, <3>6
  <2>2. CASE SettleSkipped \/ SettleError
    <3>1. nodeAfter' = Pop(n)
      BY <2>2 DEF SettleSkipped, SettleError
    <3>2. DOMAIN nodeAfter' = DOMAIN nodeAfter \ {n} /\ \A m \in DOMAIN nodeAfter' : nodeAfter'[m] = nodeAfter[m]
      BY <3>1, <1>3, WorkingSetTypes
    <3> WITNESS {} \in SUBSET Names
    <3> QED BY <3>2
  <2> QED BY <2>1, <2>2
<1>5. /\ completed' \cup failed' = completed \cup failed \cup {n}
      /\ completed' \subseteq completed \cup {n} /\ completed \subseteq completed'
      /\ failed \subseteq failed'
  BY DEF SettleOk, SettleSkipped, SettleError
<1> HIDE DEF n
<1>6. WorkingSet'
  <2>1. DOMAIN nodeAfter' \cap completed' = {}
    BY <1>4, <1>5 DEF IInv, WorkingSet
  <2>2. DOMAIN nodeAfter' \subseteq plan'.nodes \cup Targets'
    BY <1>1, <1>4 DEF IInv, WorkingSet, Targets
  <2>3. \A m \in DOMAIN nodeAfter' : nodeAfter'[m] \subseteq DeclaredFor(m)' \cup completed'
    BY <1>1, <1>4, <1>5 DEF IInv, WorkingSet, DeclaredFor
  <2>4. plan'.nodes \subseteq DOMAIN nodeAfter' \cup completed' \cup failed'
    BY <1>1, <1>4, <1>5 DEF IInv, WorkingSet
  <2> QED BY <2>1, <2>2, <2>3, <2>4 DEF WorkingSet
<1>7. LayerIsPending'
  BY <1>1, <1>2, <1>4 DEF IInv, LayerIsPending
<1>8. PassIsCurrent' /\ StuckOnlyAfterFailure'
  BY <1>1 DEF PassIsCurrent, StuckOnlyAfterFailure
<1>9. AtMostOneSuccess'
  BY <1>1 DEF IInv, AtMostOneSuccess
<1>10. SuccessIsCompleted'
  <2> SUFFICES ASSUME NEW i \in DOMAIN steps, steps[i].status \in Success
               PROVE  \/ steps[i].name \in completed'
                      \/ \E j \in DOMAIN results' : results'[j] = steps[i]
    BY <1>1 DEF SuccessIsCompleted
  <2>1. CASE steps[i].name \in completed
    BY <1>5, <2>1
  <2>2. ASSUME NEW j \in DOMAIN results, results[j] = steps[i]
        PROVE  \/ steps[i].name \in completed'
               \/ \E k \in DOMAIN results' : results'[k] = steps[i]
    <3>1. CASE j = 1
      <4>1. Head(results) = steps[i]
        BY <1>1, <2>2, <3>1
      <4>2. ~SettleError
        BY <4>1 DEF SettleError, Settling, Success
      <4> QED BY <4>1, <4>2 DEF SettleOk, SettleSkipped, SettledName
    <3>2. CASE j # 1
      <4>1. j - 1 \in DOMAIN results' /\ results'[j - 1] = results[j]
        BY <1>1, <2>2, <3>2
      <4> QED BY <2>2, <4>1
    <3> QED BY <3>1, <3>2
  <2> QED BY <2>1, <2>2 DEF IInv, SuccessIsCompleted
<1> QED BY <1>6, <1>7, <1>8, <1>9, <1>10 DEF IInv

\* A pass over the working set that finds nothing ready, before any failure,
\* finds a cycle or an unknown dependency.
LEMMA ReadyExists ==
    ASSUME TypeOK, WorkingSet, WellFormed(plan), failed = {}, DOMAIN nodeAfter # {}
    PROVE  ReadyNodes # {}
<1>1. CASE \E n \in DOMAIN nodeAfter : n \notin plan.nodes
  <2>1. PICK n \in DOMAIN nodeAfter : n \notin plan.nodes
    BY <1>1
  <2>2. nodeAfter[n] \subseteq completed
    BY <2>1 DEF WorkingSet, DeclaredFor
  <2> QED BY <2>1, <2>2 DEF ReadyNodes, Settled
<1>2. CASE DOMAIN nodeAfter \subseteq plan.nodes
  <2>1. PICK n \in DOMAIN nodeAfter : plan.after[n] \cap DOMAIN nodeAfter = {}
    BY <1>2 DEF WellFormed, Acyclic
  <2>2. plan.after[n] \subseteq plan.nodes
    BY <1>2, <2>1 DEF WellFormed, KnownDependencies
  <2>3. nodeAfter[n] \subseteq completed
    BY <1>2, <2>1, <2>2 DEF WorkingSet, DeclaredFor
  <2> QED BY <2>1, <2>3 DEF ReadyNodes, Settled
<1> QED BY <1>1, <1>2

\* The steps that move no node between the sets.
LEMMA ControlKeepsIInv ==
    ASSUME TypeOK, IInv,
           \/ Explain \/ Scan \/ Return \/ NothingReady \/ StartLayer
           \/ SubmitAll \/ SubmitFails \/ PoolBreaks \/ EndSettle \/ Ended \/ UNCHANGED vars
           \/ \E n \in Names : UnknownProducer(n) \/ SetAside(n) \/ WorkerFinish(n)
    PROVE  IInv'
<1>1. UNCHANGED <<runner, plan, nodeAfter, completed, failed, results, steps>>
  BY DEF Explain, Scan, Return, NothingReady, StartLayer, SubmitAll, SubmitFails, PoolBreaks, EndSettle,
         Ended, vars, UnknownProducer, SetAside, WorkerFinish
<1>2. WorkingSet' /\ AtMostOneSuccess'
  BY <1>1 DEF IInv, WorkingSet, AtMostOneSuccess, Targets, DeclaredFor
<1>3. SuccessIsCompleted'
  <2>1. phase \in {"settle", "returned"} => phase' \in {"settle", "returned"} \/ results = << >>
    BY DEF Explain, Scan, Return, NothingReady, StartLayer, SubmitAll, SubmitFails, PoolBreaks, EndSettle, Ended,
           vars, UnknownProducer, AtStep, SetAside, WorkerFinish
  <2>2. results = << >> => DOMAIN results = {}
    OBVIOUS
  <2> QED BY <1>1, <2>1, <2>2 DEF IInv, SuccessIsCompleted
<1>4. PassIsCurrent'
  <2>1. CASE Scan
    BY <2>1 DEF Scan, PassIsCurrent, ReadyNodes, UnreachableNodes, Settled
  <2>2. CASE phase' # "drop"
    BY <2>2 DEF PassIsCurrent
  <2>3. CASE ~Scan /\ phase' = "drop"
    <3>1. phase = "drop" /\ UNCHANGED <<todo, unreachable>>
      BY <2>3 DEF Explain, Return, NothingReady, StartLayer, SubmitAll, SubmitFails, PoolBreaks, EndSettle, Ended,
             vars, UnknownProducer, AtStep, SetAside, WorkerFinish
    <3> QED BY <1>1, <3>1 DEF IInv, PassIsCurrent, ReadyNodes, Settled
  <2> QED BY <2>1, <2>2, <2>3
<1>5. LayerIsPending'
  <2>1. CASE Explain \/ Scan \/ Return \/ NothingReady \/ StartLayer \/ SubmitAll
              \/ SubmitFails \/ PoolBreaks \/ EndSettle
    BY <1>1, <2>1 DEF IInv, LayerIsPending, NamesIn, DistinctNames, ReadyNodes, Explain, Scan,
           Return, NothingReady, StartLayer, SubmitAll, SubmitFails, PoolBreaks, EndSettle
  <2>2. CASE Ended \/ UNCHANGED vars \/ \E n \in Names : UnknownProducer(n)
    BY <1>1, <2>2 DEF IInv, LayerIsPending, NamesIn, DistinctNames, Ended, vars, UnknownProducer
  <2>3. ASSUME NEW n \in Names, SetAside(n) PROVE LayerIsPending'
    BY <1>1, <2>3 DEF IInv, LayerIsPending, NamesIn, DistinctNames, SetAside, AtStep, IsFirst
  <2>4. ASSUME NEW n \in Names, WorkerFinish(n) PROVE LayerIsPending'
    BY <1>1, <2>4 DEF IInv, LayerIsPending, NamesIn, DistinctNames, WorkerFinish
  <2> QED BY <2>1, <2>2, <2>3, <2>4
<1>6. StuckOnlyAfterFailure'
  <2>1. CASE Explain
    BY <2>1 DEF Explain, StuckOnlyAfterFailure, WellFormed, KnownDependencies, Acyclic
  <2>2. CASE NothingReady
    <3> SUFFICES ASSUME phase' = "raised", WellFormed(plan), failed = {} PROVE FALSE
      BY <1>1 DEF StuckOnlyAfterFailure, WellFormed, KnownDependencies, Acyclic
    <3>1. DOMAIN nodeAfter # {} /\ todo = ReadyNodes /\ todo = {}
      BY <2>2 DEF NothingReady, IInv, PassIsCurrent
    <3> QED BY <3>1, ReadyExists DEF IInv
  <2>3. ASSUME NEW n \in Names, UnknownProducer(n) PROVE StuckOnlyAfterFailure'
    <3>1. n \in plan.nodes \cup Targets /\ n \notin runner.registry
      BY <2>3 DEF UnknownProducer, IsFirst, IInv, LayerIsPending, WorkingSet
    <3> QED BY <1>1, <3>1 DEF StuckOnlyAfterFailure, Targets
  <2>4. CASE \/ Scan \/ Return \/ StartLayer \/ SubmitAll \/ SubmitFails \/ PoolBreaks \/ EndSettle \/ Ended
             \/ UNCHANGED vars \/ \E n \in Names : SetAside(n) \/ WorkerFinish(n)
    BY <1>1, <2>4 DEF IInv, StuckOnlyAfterFailure, WellFormed, KnownDependencies, Acyclic, Scan,
           Return, StartLayer, SubmitAll, SubmitFails, PoolBreaks, EndSettle, Ended, vars, SetAside, WorkerFinish
  <2> QED BY <2>1, <2>2, <2>3, <2>4
<1> QED BY <1>2, <1>3, <1>4, <1>5, <1>6 DEF IInv

\* The named parts of IInv are an invariant of run(), together with the types.
THEOREM InductiveInvariant == Spec => []IInv
<1>1. Init /\ TypeOK => IInv
  BY DEF Init, IInv, TypeOK, WorkingSet, PassIsCurrent, LayerIsPending, SuccessIsCompleted,
         AtMostOneSuccess, StuckOnlyAfterFailure, DeclaredFor, NamesIn, DistinctNames
<1>2. TypeOK /\ IInv /\ [Next]_vars => IInv'
  <2> SUFFICES ASSUME TypeOK, IInv, [Next]_vars PROVE IInv'
    OBVIOUS
  <2>1. ASSUME NEW n \in Names, NodeStep(n) PROVE IInv'
    <3>1. CASE DropUnreachable(n)
      BY <3>1, DropKeepsIInv
    <3>2. CASE SkipStep(n) \/ RunStep(n) \/ RunTiledStep(n)
      BY <3>2, RecordKeepsIInv, OutcomesAreResults, OutcomesAreNamed
         DEF SkipStep, RunStep, RunTiledStep
    <3>3. CASE Gather(n)
      <4>1. worker[n] \in Result /\ worker[n].name = n
        BY <3>3 DEF Gather, IsFirst, TypeOK
      <4> QED BY <3>3, <4>1, RecordKeepsIInv
    <3>4. CASE UnknownProducer(n) \/ SetAside(n) \/ WorkerFinish(n)
      BY <3>4, ControlKeepsIInv
    <3> QED BY <2>1, <3>1, <3>2, <3>3, <3>4 DEF NodeStep
  <2>2. CASE RunnerStep
    <3>1. CASE EndLayer
      BY <3>1, EndLayerKeepsIInv
    <3>2. CASE SettleOk \/ SettleSkipped \/ SettleError
      BY <3>2, SettleKeepsIInv
    <3> QED BY <2>2, <3>1, <3>2, ControlKeepsIInv DEF RunnerStep
  <2>3. CASE UNCHANGED vars
    BY <2>3, ControlKeepsIInv
  <2> QED BY <2>1, <2>2, <2>3 DEF Next
<1> QED BY <1>1, <1>2, TypeCorrect, PTL DEF Spec

\* No producer succeeds twice in one run, whatever the plan and its triggers
\* (engine/scheduler.py, _fire_triggers' test against `completed`).
THEOREM OneSuccessPerProducer == Spec => []AtMostOneSuccess
BY InductiveInvariant, PTL DEF IInv

\* "pipeline stuck" on a valid, registered pipeline is always the aftermath of
\* a failed step (engine/scheduler.py, the test after `if not ready`).
THEOREM StuckNeedsAFailure == Spec => []StuckOnlyAfterFailure
BY InductiveInvariant, PTL DEF IInv

(* --- what the report says ------------------------------------------------ *)

\* What is about to be settled has been reported, and nothing there is blocked.
SettlingIsReported ==
    /\ phase = "settle" => \A j \in DOMAIN results : \E i \in DOMAIN steps : steps[i] = results[j]
    /\ \A j \in DOMAIN results : results[j].status # "blocked"
    /\ \A n \in DOMAIN worker : worker[n].status # "blocked"

\* What is settled has an entry that says so.
SettledIsReported ==
    /\ \A d \in completed : \E i \in DOMAIN steps : steps[i].name = d /\ steps[i].status \in Success
    /\ \A d \in failed : \E i \in DOMAIN steps :
         steps[i].name = d /\ steps[i].status \in {"error", "blocked"}

\* What a pending node waits for is declared, or the source of a trigger; and
\* all that it declares, until it is reported.
WaitsForDeclared ==
    /\ \A n \in DOMAIN nodeAfter : nodeAfter[n] \subseteq plan.after[n] \cup SourcesOf(n)
    /\ \A n \in DOMAIN nodeAfter : n \in plan.nodes /\ n \notin NamesIn(steps) => plan.after[n] \subseteq nodeAfter[n]

\* What is dropped waits for a failure, what is run for nothing.
PassIsJustified ==
    /\ phase # "drop" => unreachable = {}
    /\ \A n \in unreachable : n \in DOMAIN nodeAfter /\ nodeAfter[n] \cap failed # {}
    /\ phase \in {"drop", "layer", "gather"} =>
         \A n \in todo \cup DOMAIN worker \cup NamesIn(results) : nodeAfter[n] \subseteq completed

NothingIsLost ==
    /\ \A t \in triggered : t.target \in DOMAIN nodeAfter \cup completed \cup failed
    /\ phase = "returned" => dumped /\ ((runner.failFast /\ failed # {}) \/ DOMAIN nodeAfter = {})

ReportInv ==
    /\ SettlingIsReported /\ SettledIsReported /\ WaitsForDeclared /\ PassIsJustified /\ NothingIsLost
    /\ DependenciesFirst /\ BlockedHasFailedDependency /\ TriggersNeedARun /\ FailFastStops

\* No result of a step is "blocked".
LEMMA OutcomesNotBlocked ==
    ASSUME NEW n \in Names
    PROVE  /\ \A r \in RetryOutcomes(n) \cup TiledOutcomes(n) \cup FutureOutcomes(n) : r.status # "blocked"
           /\ Skipped(n).status # "blocked" /\ Running(n).status # "blocked" /\ BackendError(n).status # "blocked"
BY DEF RetryOutcomes, TiledOutcomes, FutureOutcomes, BackendError, Skipped, Running, StepOutcome

\* What the steps that leave the report and the working set alone keep.
LEMMA SameReport ==
    ASSUME ReportInv, UNCHANGED <<runner, plan, nodeAfter, completed, failed, steps, triggered>>
    PROVE  /\ SettledIsReported' /\ WaitsForDeclared' /\ DependenciesFirst'
           /\ BlockedHasFailedDependency' /\ TriggersNeedARun'
           /\ (failed # {} /\ phase = "returned" => phase' = "returned") => FailFastStops'
<1>1. SettledIsReported' /\ WaitsForDeclared'
  BY DEF ReportInv, SettledIsReported, WaitsForDeclared, SourcesOf, NamesIn
<1>2. DependenciesFirst' /\ BlockedHasFailedDependency'
  BY DEF ReportInv, DependenciesFirst, BlockedHasFailedDependency, FirstEntry, SucceededBefore, SourcesOf
<1>3. TriggersNeedARun'
  BY DEF ReportInv, TriggersNeedARun, EntriesOf
<1>4. (failed # {} /\ phase = "returned" => phase' = "returned") => FailFastStops'
  BY DEF ReportInv, FailFastStops
<1> QED
  BY <1>1, <1>2, <1>3, <1>4

\* The steps that move no node between the sets.
LEMMA ControlKeepsReport ==
    ASSUME TypeOK, IInv, ReportInv,
           \/ Explain \/ Scan \/ Return \/ NothingReady \/ StartLayer
           \/ SubmitAll \/ SubmitFails \/ PoolBreaks \/ EndSettle \/ Ended \/ UNCHANGED vars
           \/ \E n \in Names : UnknownProducer(n) \/ SetAside(n) \/ WorkerFinish(n)
    PROVE  ReportInv'
<1>1. UNCHANGED <<runner, plan, nodeAfter, completed, failed, results, steps, triggered>>
  BY DEF Explain, Scan, Return, NothingReady, StartLayer, SubmitAll, SubmitFails, PoolBreaks, EndSettle,
         Ended, vars, UnknownProducer, SetAside, WorkerFinish
<1>2. /\ phase' = "settle" => phase = "settle"
      /\ phase = "returned" => phase' = "returned"
  BY DEF Explain, Scan, Return, NothingReady, StartLayer, SubmitAll, SubmitFails, PoolBreaks, EndSettle,
         Ended, vars, UnknownProducer, AtStep, SetAside, WorkerFinish
<1>3. SettlingIsReported'
  <2>1. \A m \in DOMAIN worker' : worker'[m].status # "blocked"
    <3>1. ASSUME NEW n \in Names, SetAside(n) PROVE \A m \in DOMAIN worker' : worker'[m].status # "blocked"
      BY <3>1, OutcomesNotBlocked DEF SetAside, TypeOK, AtStep, IsFirst
    <3>2. ASSUME NEW n \in Names, WorkerFinish(n) PROVE \A m \in DOMAIN worker' : worker'[m].status # "blocked"
      BY <3>2, OutcomesNotBlocked DEF WorkerFinish, ReportInv, SettlingIsReported
    <3>3. CASE PoolBreaks
      BY <3>3, OutcomesNotBlocked DEF PoolBreaks, ReportInv, SettlingIsReported, TypeOK
    <3>4. CASE UNCHANGED worker
      BY <3>4 DEF ReportInv, SettlingIsReported
    <3> QED
      BY <3>1, <3>2, <3>3, <3>4 DEF Explain, Scan, Return, NothingReady, StartLayer, SubmitAll, SubmitFails,
         EndSettle, Ended, vars, UnknownProducer
  <2> QED
    BY <1>1, <1>2, <2>1 DEF ReportInv, SettlingIsReported
<1>4. PassIsJustified'
  <2>1. CASE Scan
    <3>1. DOMAIN worker = {} /\ results = << >> /\ UNCHANGED worker
      BY <2>1 DEF Scan, IInv, LayerIsPending
    <3>2. NamesIn(results') = {} /\ DOMAIN worker' = {}
      BY <1>1, <3>1 DEF NamesIn
    <3> QED
      BY <1>1, <2>1, <3>2 DEF Scan, PassIsJustified, ReadyNodes, UnreachableNodes, Settled
  <2>2. CASE Explain \/ Return \/ SubmitFails \/ EndSettle
    BY <1>1, <2>2 DEF Explain, Return, SubmitFails, EndSettle, ReportInv, PassIsJustified
  <2>3. CASE NothingReady \/ \E n \in Names : UnknownProducer(n)
    BY <1>1, <2>3 DEF NothingReady, UnknownProducer, ReportInv, PassIsJustified
  <2>4. CASE StartLayer \/ SubmitAll \/ PoolBreaks \/ Ended \/ UNCHANGED vars
    <3>1. /\ unreachable' = unreachable /\ todo' = todo /\ DOMAIN worker' = DOMAIN worker
          /\ NamesIn(results') = NamesIn(results)
          /\ phase' = phase \/ (phase \in {"drop", "layer"} /\ phase' # "drop" /\ (phase = "drop" => unreachable = {}))
      BY <1>1, <2>4 DEF StartLayer, SubmitAll, PoolBreaks, Ended, vars, NamesIn
    <3> QED
      BY <1>1, <3>1 DEF ReportInv, PassIsJustified
  <2>5. ASSUME NEW n \in Names, SetAside(n) \/ WorkerFinish(n) PROVE PassIsJustified'
    <3>1. /\ phase' = phase /\ unreachable' = unreachable /\ NamesIn(results') = NamesIn(results)
          /\ todo' \cup DOMAIN worker' \subseteq todo \cup DOMAIN worker
      BY <1>1, <2>5 DEF SetAside, WorkerFinish, NamesIn, AtStep, IsFirst
    <3> QED
      BY <1>1, <3>1 DEF ReportInv, PassIsJustified
  <2> QED
    BY <2>1, <2>2, <2>3, <2>4, <2>5
<1>5. NothingIsLost'
  <2>1. CASE Return \/ NothingReady
    BY <1>1, <2>1 DEF Return, NothingReady, ReportInv, NothingIsLost
  <2>2. CASE ~(Return \/ NothingReady)
    <3>1. dumped' = dumped /\ (phase' = "returned" => phase = "returned")
      BY <2>2 DEF Explain, Scan, StartLayer, SubmitAll, SubmitFails, PoolBreaks, EndSettle, Ended, vars,
             UnknownProducer, AtStep, SetAside, WorkerFinish
    <3> QED
      BY <1>1, <3>1 DEF ReportInv, NothingIsLost
  <2> QED
    BY <2>1, <2>2
<1> QED
  BY <1>1, <1>2, <1>3, <1>4, <1>5, SameReport DEF ReportInv

\* A result of the layer is not yet in the report.
LEMMA RecordKeepsReport ==
    ASSUME TypeOK, IInv, ReportInv, NEW n \in Names, NEW r \in Result, r.name = n, r.status # "blocked",
           \/ AtStep(n) /\ Record(n, r)
           \/ Gather(n) /\ r = worker[n]
    PROVE  ReportInv'
<1>1. UNCHANGED <<runner, plan, phase, nodeAfter, completed, failed, unreachable, steps, triggered, dumped>>
  BY DEF Record, Gather
<1>2. phase \in {"layer", "gather"} /\ n \in todo \cup DOMAIN worker
  BY DEF AtStep, Gather, IsFirst
<1>3. results' = Append(results, r) /\ results \in Seq(Result)
  BY DEF Record, Gather, TypeOK
<1>4. todo' \subseteq todo /\ DOMAIN worker' \subseteq DOMAIN worker /\ \A m \in DOMAIN worker' : worker'[m] = worker[m]
  BY DEF Record, Gather
<1>5. NamesIn(results') = NamesIn(results) \cup {n}
  BY <1>3, AppendNames
<1>6. \A j \in DOMAIN results' : results'[j] = r \/ (j \in DOMAIN results /\ results'[j] = results[j])
  BY <1>3, AppendEntries
<1>7. SettlingIsReported'
  BY <1>1, <1>2, <1>4, <1>6 DEF ReportInv, SettlingIsReported
<1>8. PassIsJustified'
  BY <1>1, <1>2, <1>4, <1>5 DEF ReportInv, PassIsJustified
<1>9. NothingIsLost'
  BY <1>1 DEF ReportInv, NothingIsLost
<1> QED
  BY <1>1, <1>2, <1>7, <1>8, <1>9, SameReport DEF ReportInv

\* A report that grows says of its old entries what it said.
LEMMA GrownReport ==
    ASSUME ReportInv, plan' = plan, steps \in Seq(Result), steps' \in Seq(Result),
           Len(steps) <= Len(steps'), \A i \in DOMAIN steps : steps'[i] = steps[i]
    PROVE  /\ DOMAIN steps = 1..Len(steps) /\ Len(steps) \in Nat /\ DOMAIN steps \subseteq DOMAIN steps'
           /\ DOMAIN steps' = 1..Len(steps') /\ Len(steps') \in Nat
           /\ NamesIn(steps) \subseteq NamesIn(steps')
           /\ (\A i \in DOMAIN steps' \ DOMAIN steps :
                 (FirstEntry(i)' /\ steps'[i].name \in plan.nodes /\ steps'[i].status # "blocked")
                   => \A d \in plan.after[steps'[i].name] : SucceededBefore(d, i)')
                => DependenciesFirst'
           /\ (\A i \in DOMAIN steps' \ DOMAIN steps :
                 steps'[i].status = "blocked" =>
                   \E j \in 1..(i - 1) :
                      /\ steps'[j].status \in {"error", "blocked"}
                      /\ steps'[j].name \in plan.after[steps'[i].name] \cup SourcesOf(steps'[i].name))
                => BlockedHasFailedDependency'
<1>1. /\ DOMAIN steps = 1..Len(steps) /\ Len(steps) \in Nat
      /\ DOMAIN steps' = 1..Len(steps') /\ Len(steps') \in Nat
  BY LenProperties
<1>2. DOMAIN steps \subseteq DOMAIN steps' /\ NamesIn(steps) \subseteq NamesIn(steps')
  BY <1>1 DEF NamesIn
<1>3. \A i \in DOMAIN steps : \A j \in 1..(i - 1) : j \in DOMAIN steps /\ steps'[j] = steps[j]
  BY <1>1
<1>4. \A i \in DOMAIN steps : FirstEntry(i)' = FirstEntry(i)
  BY <1>3 DEF FirstEntry
<1>5. \A i \in DOMAIN steps : \A d : SucceededBefore(d, i)' = SucceededBefore(d, i)
  BY <1>3 DEF SucceededBefore
<1>6. ASSUME \A i \in DOMAIN steps' \ DOMAIN steps :
               (FirstEntry(i)' /\ steps'[i].name \in plan.nodes /\ steps'[i].status # "blocked")
                 => \A d \in plan.after[steps'[i].name] : SucceededBefore(d, i)'
      PROVE  DependenciesFirst'
  <2> SUFFICES ASSUME NEW i \in DOMAIN steps', FirstEntry(i)', steps'[i].name \in plan.nodes,
                      steps'[i].status # "blocked", NEW d \in plan.after[steps'[i].name]
               PROVE  SucceededBefore(d, i)'
    BY DEF DependenciesFirst
  <2>1. CASE i \in DOMAIN steps
    BY <2>1, <1>4, <1>5 DEF ReportInv, DependenciesFirst
  <2>2. CASE i \notin DOMAIN steps
    BY <2>2, <1>6
  <2> QED
    BY <2>1, <2>2
<1>7. ASSUME \A i \in DOMAIN steps' \ DOMAIN steps :
               steps'[i].status = "blocked" =>
                 \E j \in 1..(i - 1) :
                    /\ steps'[j].status \in {"error", "blocked"}
                    /\ steps'[j].name \in plan.after[steps'[i].name] \cup SourcesOf(steps'[i].name)
      PROVE  BlockedHasFailedDependency'
  <2>1. \A n : SourcesOf(n)' = SourcesOf(n)
    BY DEF SourcesOf
  <2>2. ASSUME NEW i \in DOMAIN steps, steps'[i].status = "blocked"
        PROVE  \E j \in 1..(i - 1) :
                  /\ steps'[j].status \in {"error", "blocked"}
                  /\ steps'[j].name \in plan.after[steps'[i].name] \cup SourcesOf(steps'[i].name)
    BY <2>2, <1>3 DEF ReportInv, BlockedHasFailedDependency
  <2> QED
    BY <1>7, <2>1, <2>2 DEF BlockedHasFailedDependency
<1> QED
  BY <1>1, <1>2, <1>6, <1>7

\* A node is dropped for a failure that is in the report, and enters it.
LEMMA DropKeepsReport ==
    ASSUME TypeOK, IInv, ReportInv, NEW n \in Names, DropUnreachable(n)
    PROVE  ReportInv'
<1>1. /\ phase = "drop" /\ phase' = "drop" /\ n \in unreachable /\ unreachable' = unreachable \ {n}
      /\ steps' = Append(steps, Blocked(n)) /\ failed' = failed \cup {n} /\ nodeAfter' = Pop(n)
      /\ UNCHANGED <<runner, plan, completed, todo, worker, results, triggered, dumped>>
  BY DEF DropUnreachable
<1>2. /\ DOMAIN nodeAfter' = DOMAIN nodeAfter \ {n}
      /\ \A m \in DOMAIN nodeAfter' : nodeAfter'[m] = nodeAfter[m]
  BY <1>1, WorkingSetTypes
<1>3. /\ steps \in Seq(Result) /\ Blocked(n) \in Result /\ Blocked(n).name = n /\ Blocked(n).status = "blocked"
  BY OutcomesAreResults, OutcomesAreNamed DEF TypeOK, Blocked, StepOutcome
<1>4. /\ steps' \in Seq(Result) /\ Len(steps') = Len(steps) + 1
      /\ \A i \in DOMAIN steps : steps'[i] = steps[i]
      /\ steps'[Len(steps) + 1] = Blocked(n)
  BY <1>1, <1>3, AppendProperties, AppendEntries
<1>5. /\ DOMAIN steps = 1..Len(steps) /\ DOMAIN steps' = 1..(Len(steps) + 1) /\ Len(steps) \in Nat
      /\ NamesIn(steps) \subseteq NamesIn(steps')
  BY <1>1, <1>3, <1>4, AppendEntries, AppendNames
<1>6. PICK d \in nodeAfter[n] : d \in failed
  BY <1>1 DEF ReportInv, PassIsJustified
<1>7. PICK j \in DOMAIN steps : steps[j].name = d /\ steps[j].status \in {"error", "blocked"}
  BY <1>6 DEF ReportInv, SettledIsReported
<1>8. d \in plan.after[n] \cup SourcesOf(n)
  BY <1>1, <1>6 DEF ReportInv, PassIsJustified, WaitsForDeclared
<1>9. BlockedHasFailedDependency' /\ DependenciesFirst'
  <2>1. \A i \in DOMAIN steps' \ DOMAIN steps : i = Len(steps) + 1 /\ j \in 1..(i - 1)
    BY <1>5, <1>7
  <2> QED
    BY <1>1, <1>3, <1>4, <1>5, <1>7, <1>8, <2>1, GrownReport
<1>10. ~runner.failFast
  BY <1>1, <1>6 DEF ReportInv, FailFastStops
<1>11. SettlingIsReported' /\ NothingIsLost' /\ FailFastStops'
  BY <1>1, <1>2, <1>10 DEF ReportInv, SettlingIsReported, NothingIsLost, FailFastStops
<1>12. SettledIsReported'
  <2>1. ASSUME NEW m \in completed'
        PROVE  \E i \in DOMAIN steps' : steps'[i].name = m /\ steps'[i].status \in Success
    <3>1. PICK i \in DOMAIN steps : steps[i].name = m /\ steps[i].status \in Success
      BY <1>1, <2>1 DEF ReportInv, SettledIsReported
    <3> QED
      BY <1>4, <1>5, <3>1
  <2>2. ASSUME NEW m \in failed'
        PROVE  \E i \in DOMAIN steps' : steps'[i].name = m /\ steps'[i].status \in {"error", "blocked"}
    <3>1. CASE m = n
      BY <1>3, <1>4, <1>5, <3>1
    <3>2. CASE m # n
      <4>1. PICK i \in DOMAIN steps : steps[i].name = m /\ steps[i].status \in {"error", "blocked"}
        BY <1>1, <2>2, <3>2 DEF ReportInv, SettledIsReported
      <4> QED
        BY <1>4, <1>5, <4>1
    <3> QED
      BY <3>1, <3>2
  <2> QED
    BY <2>1, <2>2 DEF SettledIsReported
<1>13. WaitsForDeclared'
  BY <1>1, <1>2, <1>5 DEF ReportInv, WaitsForDeclared, SourcesOf
<1>14. PassIsJustified'
  <2>1. n \notin todo /\ DOMAIN worker = {} /\ NamesIn(results) = {} /\ NamesIn(results') = {}
    BY <1>1 DEF IInv, PassIsCurrent, LayerIsPending, NamesIn
  <2>2. todo \subseteq DOMAIN nodeAfter
    BY DEF IInv, LayerIsPending
  <2> QED
    BY <1>1, <1>2, <2>1, <2>2 DEF ReportInv, PassIsJustified
<1>15. TriggersNeedARun'
  <2> SUFFICES ASSUME NEW t \in triggered PROVE \E i \in EntriesOf(t.source)' : steps'[i].status = "ok"
    BY <1>1 DEF TriggersNeedARun
  <2>1. PICK i \in DOMAIN steps : steps[i].name = t.source /\ steps[i].status = "ok"
    BY DEF ReportInv, TriggersNeedARun, EntriesOf
  <2> QED
    BY <1>4, <1>5, <2>1 DEF EntriesOf
<1> QED
  BY <1>9, <1>11, <1>12, <1>13, <1>14, <1>15 DEF ReportInv

\* A layer was ready: all its nodes wait for has completed, and is in the report.
LEMMA EndLayerKeepsReport ==
    ASSUME TypeOK, IInv, ReportInv, EndLayer
    PROVE  ReportInv'
<1>1. /\ phase \in {"layer", "gather"} /\ phase' = "settle" /\ steps' = steps \o results
      /\ UNCHANGED <<runner, plan, nodeAfter, completed, failed, unreachable, todo, worker, results, triggered, dumped>>
      /\ results \in Seq(Result) /\ steps \in Seq(Result)
  BY DEF EndLayer, TypeOK
<1>2. /\ steps' \in Seq(Result) /\ Len(steps') = Len(steps) + Len(results) /\ Len(results) \in Nat /\ Len(steps) \in Nat
      /\ DOMAIN steps = 1..Len(steps) /\ DOMAIN results = 1..Len(results)
      /\ DOMAIN steps' = 1..(Len(steps) + Len(results))
      /\ \A i \in DOMAIN steps' :
            \/ i \in DOMAIN steps /\ steps'[i] = steps[i]
            \/ /\ i > Len(steps) /\ i - Len(steps) \in DOMAIN results
               /\ steps'[i] = results[i - Len(steps)]
  BY <1>1, ConcatEntries, ConcatProperties
<1>3. DOMAIN steps \subseteq DOMAIN steps' /\ \A i \in DOMAIN steps : steps'[i] = steps[i]
  BY <1>2
<1>4. \A j \in DOMAIN results : Len(steps) + j \in DOMAIN steps' /\ steps'[Len(steps) + j] = results[j]
  <2> SUFFICES ASSUME NEW j \in DOMAIN results
               PROVE  Len(steps) + j \in DOMAIN steps' /\ steps'[Len(steps) + j] = results[j]
    OBVIOUS
  <2>1. Len(steps) + j \in DOMAIN steps' /\ Len(steps) + j \notin DOMAIN steps /\ (Len(steps) + j) - Len(steps) = j
    BY <1>2
  <2> QED
    BY <1>2, <2>1
<1>5. Len(steps) <= Len(steps') /\ NamesIn(steps) \subseteq NamesIn(steps')
  BY <1>2, <1>3 DEF NamesIn
<1>6. DependenciesFirst'
  <2> SUFFICES ASSUME NEW i \in DOMAIN steps' \ DOMAIN steps, FirstEntry(i)', steps'[i].name \in plan.nodes,
                      NEW d \in plan.after[steps'[i].name]
               PROVE  SucceededBefore(d, i)'
    BY <1>1, <1>2, <1>3, <1>5, GrownReport
  <2> DEFINE n == steps'[i].name
  <2>1. i > Len(steps) /\ n \in NamesIn(results) /\ DOMAIN steps \subseteq 1..(i - 1)
    BY <1>2 DEF NamesIn
  <2>2. n \in DOMAIN nodeAfter /\ nodeAfter[n] \subseteq completed
    BY <1>1, <2>1 DEF ReportInv, PassIsJustified, IInv, LayerIsPending
  <2>3. n \notin NamesIn(steps)
    BY <1>3, <2>1 DEF FirstEntry, NamesIn
  <2>4. d \in completed
    BY <2>2, <2>3 DEF ReportInv, WaitsForDeclared
  <2>5. PICK k \in DOMAIN steps : steps[k].name = d /\ steps[k].status \in Success
    BY <2>4 DEF ReportInv, SettledIsReported
  <2> QED
    BY <1>3, <2>1, <2>5 DEF SucceededBefore
<1>7. \A i \in DOMAIN steps' \ DOMAIN steps : steps'[i].status # "blocked"
  BY <1>2 DEF ReportInv, SettlingIsReported
<1>8. BlockedHasFailedDependency'
  BY <1>1, <1>2, <1>3, <1>5, <1>7, GrownReport
<1>9. FailFastStops'
  <2>1. runner.failFast => failed = {}
    BY <1>1 DEF ReportInv, FailFastStops
  <2>2. runner.failFast => \A i \in DOMAIN steps' : steps'[i].status # "blocked"
    BY <1>3, <1>7 DEF ReportInv, FailFastStops
  <2> QED
    BY <1>1, <2>1, <2>2 DEF FailFastStops
<1>10. SettlingIsReported'
  BY <1>1, <1>4 DEF ReportInv, SettlingIsReported
<1>11. SettledIsReported'
  BY <1>1, <1>3 DEF ReportInv, SettledIsReported
<1>12. WaitsForDeclared' /\ PassIsJustified' /\ NothingIsLost'
  BY <1>1, <1>5 DEF ReportInv, WaitsForDeclared, PassIsJustified, NothingIsLost, SourcesOf
<1>13. TriggersNeedARun'
  BY <1>1, <1>3 DEF ReportInv, TriggersNeedARun, EntriesOf
<1> QED
  BY <1>6, <1>8, <1>9, <1>10, <1>11, <1>12, <1>13 DEF ReportInv

\* What is settled is in the report already; what its triggers insert waits for it.
LEMMA SettleKeepsReport ==
    ASSUME TypeOK, IInv, ReportInv, SettleOk \/ SettleSkipped \/ SettleError
    PROVE  ReportInv'
<1> DEFINE n == SettledName
<1>1. /\ phase = "settle" /\ results # << >> /\ results' = Tail(results) /\ results \in Seq(Result)
      /\ UNCHANGED <<runner, plan, todo, unreachable, worker, steps>>
      /\ phase' \in {"settle", "returned"}
  BY DEF SettleOk, SettleSkipped, SettleError, Settling, TypeOK
<1>2. /\ 1 \in DOMAIN results /\ Head(results) = results[1]
      /\ \A j \in DOMAIN results' : j + 1 \in DOMAIN results /\ results'[j] = results[j + 1]
  BY <1>1, LenProperties, EmptySeq, HeadTailProperties
<1>3. PICK e \in DOMAIN steps : steps[e] = Head(results)
  BY <1>1, <1>2 DEF ReportInv, SettlingIsReported
<1>4. n = steps[e].name /\ n \in NamesIn(steps) /\ n \in Names
  BY <1>1, <1>3, SettledIsNamed DEF SettledName, NamesIn
<1>5. PICK targets \in SUBSET Names :
         /\ DOMAIN nodeAfter' = (DOMAIN nodeAfter \ {n}) \cup targets
         /\ \A m \in DOMAIN nodeAfter \ {n} : nodeAfter[m] \subseteq nodeAfter'[m]
         /\ \A m \in DOMAIN nodeAfter' :
               nodeAfter'[m] \subseteq (IF m \in DOMAIN nodeAfter THEN nodeAfter[m] ELSE {})
                                         \cup (IF m \in targets THEN {n} ELSE {})
         /\ \A m \in targets : n \in SourcesOf(m)
         /\ \A t \in triggered' \ triggered : t.source = n /\ t.target \in targets /\ steps[e].status = "ok"
  <2>1. CASE SettleOk
    <3>1. PICK fired \in SUBSET {t \in plan.triggers : t.source = n} :
             /\ nodeAfter' = Schedule(n, {t.target : t \in Due(fired, completed')})
             /\ triggered' = triggered \cup Due(fired, completed')
      BY <2>1 DEF SettleOk
    <3> DEFINE new == {t.target : t \in Due(fired, completed')}
    <3>2. /\ new \in SUBSET Names /\ \A m \in new : n \in SourcesOf(m)
          /\ \A t \in triggered' \ triggered : t.source = n /\ t.target \in new
      BY <3>1, RunnerAssumption DEF TypeOK, Plan, Trigger, Due, SourcesOf
    <3>3. nodeAfter' = Schedule(n, new)
      BY <3>1
    <3>4. steps[e].status = "ok"
      BY <2>1, <1>3 DEF SettleOk, Settling
    <3> HIDE DEF new, n
    <3>5. DOMAIN nodeAfter' = (DOMAIN nodeAfter \ {n}) \cup new
      BY <3>3 DEF Schedule
    <3>6. \A m \in DOMAIN nodeAfter' :
             /\ nodeAfter'[m] \subseteq (IF m \in DOMAIN nodeAfter THEN nodeAfter[m] ELSE {})
                                      \cup (IF m \in new THEN {n} ELSE {})
             /\ m \in DOMAIN nodeAfter \ {n} => nodeAfter[m] \subseteq nodeAfter'[m]
      BY <3>3, <3>5 DEF Schedule
    <3> QED
      BY <3>2, <3>4, <3>5, <3>6
  <2>2. CASE SettleSkipped \/ SettleError
    <3>1. nodeAfter' = Pop(n) /\ triggered' = triggered
      BY <2>2 DEF SettleSkipped, SettleError
    <3>2. DOMAIN nodeAfter' = DOMAIN nodeAfter \ {n} /\ \A m \in DOMAIN nodeAfter' : nodeAfter'[m] = nodeAfter[m]
      BY <3>1, <1>4, WorkingSetTypes
    <3> WITNESS {} \in SUBSET Names
    <3> QED
      BY <3>1, <3>2
  <2> QED
    BY <2>1, <2>2
<1>6. /\ completed' \cup failed' = completed \cup failed \cup {n}
      /\ completed' \subseteq completed \cup {n} /\ failed' \subseteq failed \cup {n}
      /\ n \in completed' \ completed => steps[e].status \in Success
      /\ n \in failed' \ failed => steps[e].status = "error"
  BY <1>3 DEF SettleOk, SettleSkipped, SettleError, Settling, Success
<1>7. /\ (phase' = "returned" => runner.failFast /\ n \in failed' /\ dumped')
      /\ (runner.failFast /\ phase' = "settle" => failed' = failed)
  BY <1>1 DEF SettleOk, SettleSkipped, SettleError, Settling
<1> HIDE DEF n
<1>8. SettlingIsReported'
  BY <1>1, <1>2 DEF ReportInv, SettlingIsReported
<1>9. SettledIsReported'
  BY <1>1, <1>4, <1>6 DEF ReportInv, SettledIsReported
<1>10. WaitsForDeclared'
  <2>1. \A m : SourcesOf(m)' = SourcesOf(m)
    BY <1>1 DEF SourcesOf
  <2>2. ASSUME NEW m \in DOMAIN nodeAfter' PROVE nodeAfter'[m] \subseteq plan.after[m] \cup SourcesOf(m)
    BY <1>5 DEF ReportInv, WaitsForDeclared
  <2>3. ASSUME NEW m \in DOMAIN nodeAfter', m \in plan.nodes, m \notin NamesIn(steps)
        PROVE  plan.after[m] \subseteq nodeAfter'[m]
    <3>1. m \notin completed \cup failed /\ m # n
      BY <1>4, <2>3 DEF ReportInv, SettledIsReported, NamesIn
    <3>2. m \in DOMAIN nodeAfter
      BY <2>3, <3>1 DEF IInv, WorkingSet
    <3> QED
      BY <1>5, <2>3, <3>1, <3>2 DEF ReportInv, WaitsForDeclared
  <2> QED
    BY <1>1, <2>1, <2>2, <2>3 DEF WaitsForDeclared, NamesIn
<1>11. PassIsJustified'
  BY <1>1 DEF ReportInv, PassIsJustified
<1>12. NothingIsLost'
  <2>1. \A t \in triggered' : t.target \in DOMAIN nodeAfter' \cup completed' \cup failed'
    BY <1>5, <1>6 DEF ReportInv, NothingIsLost
  <2> QED
    BY <1>1, <1>7, <2>1 DEF NothingIsLost
<1>13. DependenciesFirst' /\ BlockedHasFailedDependency'
  BY <1>1 DEF ReportInv, DependenciesFirst, BlockedHasFailedDependency, FirstEntry, SucceededBefore, SourcesOf
<1>14. TriggersNeedARun'
  BY <1>1, <1>4, <1>5 DEF ReportInv, TriggersNeedARun, EntriesOf
<1>15. FailFastStops'
  BY <1>1, <1>7 DEF ReportInv, FailFastStops
<1> QED
  BY <1>8, <1>9, <1>10, <1>11, <1>12, <1>13, <1>14, <1>15 DEF ReportInv

LEMMA ReportInvariant == Spec => []ReportInv
<1>1. Init /\ TypeOK => ReportInv
  <2> SUFFICES ASSUME Init, TypeOK PROVE ReportInv
    OBVIOUS
  <2>1. /\ phase = "start" /\ nodeAfter = [n \in plan.nodes |-> plan.after[n]] /\ completed = {} /\ failed = {}
        /\ unreachable = {} /\ todo = {} /\ worker = << >> /\ results = << >> /\ steps = << >> /\ triggered = {}
    BY DEF Init
  <2>2. DOMAIN steps = {} /\ DOMAIN results = {} /\ DOMAIN worker = {}
    BY <2>1
  <2>3. SettlingIsReported /\ SettledIsReported /\ PassIsJustified /\ NothingIsLost
    BY <2>1, <2>2 DEF SettlingIsReported, SettledIsReported, PassIsJustified, NothingIsLost, NamesIn
  <2>4. WaitsForDeclared
    BY <2>1 DEF WaitsForDeclared
  <2>5. DependenciesFirst /\ BlockedHasFailedDependency /\ TriggersNeedARun /\ FailFastStops
    BY <2>1, <2>2 DEF DependenciesFirst, BlockedHasFailedDependency, TriggersNeedARun, FailFastStops
  <2> QED
    BY <2>3, <2>4, <2>5 DEF ReportInv
<1>2. TypeOK /\ IInv /\ ReportInv /\ [Next]_vars => ReportInv'
  <2> SUFFICES ASSUME TypeOK, IInv, ReportInv, [Next]_vars PROVE ReportInv'
    OBVIOUS
  <2>1. ASSUME NEW n \in Names, NodeStep(n) PROVE ReportInv'
    <3>1. CASE DropUnreachable(n)
      BY <3>1, DropKeepsReport
    <3>2. CASE SkipStep(n) \/ RunStep(n) \/ RunTiledStep(n)
      <4>1. PICK r \in RetryOutcomes(n) \cup TiledOutcomes(n) \cup {Skipped(n)} : AtStep(n) /\ Record(n, r)
        BY <3>2 DEF SkipStep, RunStep, RunTiledStep
      <4>2. r \in Result /\ r.name = n /\ r.status # "blocked"
        BY OutcomesAreResults, OutcomesAreNamed, OutcomesNotBlocked
      <4> QED
        BY <4>1, <4>2, RecordKeepsReport
    <3>3. CASE Gather(n)
      <4>1. worker[n] \in Result /\ worker[n].name = n /\ worker[n].status # "blocked"
        BY <3>3 DEF Gather, IsFirst, TypeOK, ReportInv, SettlingIsReported
      <4> QED
        BY <3>3, <4>1, RecordKeepsReport
    <3>4. CASE UnknownProducer(n) \/ SetAside(n) \/ WorkerFinish(n)
      BY <3>4, ControlKeepsReport
    <3> QED
      BY <2>1, <3>1, <3>2, <3>3, <3>4 DEF NodeStep
  <2>2. CASE RunnerStep
    <3>1. CASE EndLayer
      BY <3>1, EndLayerKeepsReport
    <3>2. CASE SettleOk \/ SettleSkipped \/ SettleError
      BY <3>2, SettleKeepsReport
    <3> QED
      BY <2>2, <3>1, <3>2, ControlKeepsReport DEF RunnerStep
  <2>3. CASE UNCHANGED vars
    BY <2>3, ControlKeepsReport
  <2> QED
    BY <2>1, <2>2, <2>3 DEF Next
<1> QED
  BY <1>1, <1>2, TypeCorrect, InductiveInvariant, PTL DEF Spec

\* Whatever triggers do to the working set, a node of the pipeline is first tried
\* when all it declares has succeeded (engine/scheduler.py, `ready`).
THEOREM DependenciesComeFirst == Spec => []DependenciesFirst
  BY ReportInvariant, PTL DEF ReportInv

\* What the report calls blocked or triggered has its reason in the report, for
\* every pipeline (engine/scheduler.py:331-339, 408-434).
THEOREM ReportJustified == Spec => []ReportIsJustified
<1>1. ReportInv => ReportIsJustified
  BY DEF ReportInv, ReportIsJustified
<1> QED
  BY <1>1, ReportInvariant, PTL

\* A report that is returned leaves out nothing, or stops at the first error
\* because it was told to (engine/scheduler.py:364-406).
THEOREM ReportComplete == Spec => []ReportIsComplete
<1>1. IInv /\ ReportInv => ReportIsComplete
  <2> SUFFICES ASSUME IInv, ReportInv, phase = "returned", DOMAIN nodeAfter = {},
                      NEW n \in plan.nodes \cup {t.target : t \in triggered}
               PROVE  EntriesOf(n) # {}
    BY DEF ReportIsComplete, EveryNodeReported, ReportInv, NothingIsLost
  <2>1. n \in completed \cup failed
    BY DEF IInv, WorkingSet, ReportInv, NothingIsLost
  <2> QED
    BY <2>1 DEF ReportInv, SettledIsReported, EntriesOf
<1> QED
  BY <1>1, InductiveInvariant, ReportInvariant, PTL

(* --- the refinement ------------------------------------------------------- *)

\* Without triggers, a name is reported once; and from the end of its layer until
\* it is settled it is both pending and reported.
ReportedOnce ==
    plan.triggers = {} =>
        /\ DistinctNames(steps) /\ DistinctNames(results)
        /\ phase \in {"settle", "returned"} => \A j \in DOMAIN results : \E i \in DOMAIN steps : steps[i] = results[j]
        /\ phase \notin {"settle", "returned"} => NamesIn(steps) \cap NamesIn(results) = {}
        /\ phase \notin {"settle", "returned", "raised"} => NamesIn(steps) \cap DOMAIN nodeAfter = {}
        /\ phase = "settle" => NamesIn(steps) \cap DOMAIN nodeAfter \subseteq NamesIn(results)

\* The entries of the report and of the layer, whatever their places.
Says(n, status) ==
    \/ \E i \in DOMAIN steps : steps[i].name = n /\ steps[i].status = status
    \/ \E j \in DOMAIN results : results[j].name = n /\ results[j].status = status

\* Names of a concatenation, and when they stay distinct.
LEMMA ConcatNames ==
    ASSUME NEW s1 \in Seq(Result), NEW s2 \in Seq(Result)
    PROVE  /\ NamesIn(s1 \o s2) = NamesIn(s1) \cup NamesIn(s2)
           /\ DistinctNames(s1) /\ DistinctNames(s2) /\ NamesIn(s1) \cap NamesIn(s2) = {} => DistinctNames(s1 \o s2)
<1>1. /\ DOMAIN s1 = 1..Len(s1) /\ DOMAIN s2 = 1..Len(s2) /\ Len(s1) \in Nat /\ Len(s2) \in Nat
      /\ DOMAIN (s1 \o s2) = 1..(Len(s1) + Len(s2))
      /\ \A i \in DOMAIN (s1 \o s2) :
            \/ i \in DOMAIN s1 /\ (s1 \o s2)[i] = s1[i]
            \/ i > Len(s1) /\ i - Len(s1) \in DOMAIN s2 /\ (s1 \o s2)[i] = s2[i - Len(s1)]
  BY ConcatEntries
<1>2. \A i \in DOMAIN s1 : i \in DOMAIN (s1 \o s2) /\ (s1 \o s2)[i] = s1[i]
  BY <1>1
<1>3. ASSUME NEW j \in DOMAIN s2
      PROVE  Len(s1) + j \in DOMAIN (s1 \o s2) /\ (s1 \o s2)[Len(s1) + j] = s2[j]
  <2>1. Len(s1) + j \in DOMAIN (s1 \o s2) /\ Len(s1) + j \notin DOMAIN s1 /\ (Len(s1) + j) - Len(s1) = j
    BY <1>1
  <2> QED
    BY <1>1, <2>1
<1>4. NamesIn(s1 \o s2) = NamesIn(s1) \cup NamesIn(s2)
  <2>1. ASSUME NEW x \in NamesIn(s1 \o s2) PROVE x \in NamesIn(s1) \cup NamesIn(s2)
    BY <1>1, <2>1 DEF NamesIn
  <2>2. ASSUME NEW x \in NamesIn(s1) PROVE x \in NamesIn(s1 \o s2)
    <3>1. PICK i \in DOMAIN s1 : x = s1[i].name
      BY <2>2 DEF NamesIn
    <3>2. i \in DOMAIN (s1 \o s2) /\ (s1 \o s2)[i].name = x
      BY <1>2, <3>1
    <3> QED
      BY <3>2 DEF NamesIn
  <2>3. ASSUME NEW x \in NamesIn(s2) PROVE x \in NamesIn(s1 \o s2)
    <3>1. PICK j \in DOMAIN s2 : x = s2[j].name
      BY <2>3 DEF NamesIn
    <3>2. Len(s1) + j \in DOMAIN (s1 \o s2) /\ (s1 \o s2)[Len(s1) + j].name = x
      BY <1>3, <3>1
    <3> QED
      BY <3>2 DEF NamesIn
  <2> QED
    BY <2>1, <2>2, <2>3
<1>5. ASSUME DistinctNames(s1), DistinctNames(s2), NamesIn(s1) \cap NamesIn(s2) = {}
      PROVE  DistinctNames(s1 \o s2)
  <2> SUFFICES ASSUME NEW i \in DOMAIN (s1 \o s2), NEW j \in DOMAIN (s1 \o s2), (s1 \o s2)[i].name = (s1 \o s2)[j].name
               PROVE  i = j
    BY DEF DistinctNames
  <2>1. CASE i \in DOMAIN s1 /\ j \in DOMAIN s1
    BY <1>2, <1>5, <2>1 DEF DistinctNames
  <2>2. CASE i \notin DOMAIN s1 /\ j \notin DOMAIN s1
    <3>1. i - Len(s1) = j - Len(s1)
      BY <1>1, <1>5, <2>2 DEF DistinctNames
    <3> QED
      BY <1>1, <3>1
  <2>3. ASSUME NEW a \in DOMAIN s1, NEW b \in DOMAIN (s1 \o s2) \ DOMAIN s1 PROVE s1[a].name # (s1 \o s2)[b].name
    <3>1. s1[a].name \in NamesIn(s1)
      BY DEF NamesIn
    <3>2. (s1 \o s2)[b].name \in NamesIn(s2)
      BY <1>1 DEF NamesIn
    <3> QED
      BY <1>5, <3>1, <3>2
  <2> QED
    BY <1>2, <2>1, <2>2, <2>3
<1> QED
  BY <1>4, <1>5

LEMMA OnceInitially == Init => ReportedOnce
<1> SUFFICES ASSUME Init PROVE ReportedOnce
  OBVIOUS
<1>1. phase = "start" /\ results = << >> /\ steps = << >> /\ DOMAIN steps = {} /\ DOMAIN results = {}
  BY DEF Init
<1> QED
  BY <1>1 DEF ReportedOnce, NamesIn, DistinctNames

LEMMA OnceRecorded ==
    ASSUME TypeOK, IInv, ReportedOnce, NEW n \in Names, NEW r \in Result, r.name = n,
           \/ AtStep(n) /\ Record(n, r)
           \/ Gather(n) /\ r = worker[n]
    PROVE  ReportedOnce'
<1>1. /\ UNCHANGED <<plan, phase, nodeAfter, steps>> /\ results' = Append(results, r)
      /\ phase \in {"layer", "gather"} /\ n \in todo \cup DOMAIN worker
      /\ results \in Seq(Result)
  BY DEF Record, Gather, AtStep, IsFirst, TypeOK
<1> SUFFICES ASSUME plan.triggers = {} PROVE ReportedOnce'
  BY <1>1 DEF ReportedOnce
<1>2. n \in DOMAIN nodeAfter /\ n \notin NamesIn(results) /\ n \notin NamesIn(steps)
  BY <1>1 DEF IInv, LayerIsPending, ReportedOnce
<1>3. NamesIn(results') = NamesIn(results) \cup {n} /\ DistinctNames(results')
  BY <1>1, <1>2, AppendNames DEF ReportedOnce
<1> QED
  BY <1>1, <1>2, <1>3 DEF ReportedOnce

LEMMA PlanStays == [Next]_vars => plan' = plan
  BY DEF Next, NodeStep, RunnerStep, vars, DropUnreachable, UnknownProducer, SkipStep, RunStep, RunTiledStep, Record,
         SetAside, WorkerFinish, Gather, Explain, Scan, Return, NothingReady, StartLayer, SubmitAll, SubmitFails,
         PoolBreaks, EndLayer, SettleOk, SettleSkipped, SettleError, EndSettle, Ended

LEMMA OnceKept ==
    ASSUME TypeOK, IInv, ReportInv, ReportedOnce, [Next]_vars
    PROVE  ReportedOnce'
<1>0. plan' = plan
  BY PlanStays
<1> SUFFICES ASSUME plan.triggers = {} PROVE ReportedOnce'
  BY <1>0 DEF ReportedOnce
<1>t. results \in Seq(Result) /\ steps \in Seq(Result)
  BY DEF TypeOK
<1>1. CASE \/ Explain \/ Scan \/ Return \/ NothingReady \/ StartLayer
           \/ SubmitAll \/ SubmitFails \/ PoolBreaks \/ EndSettle \/ Ended \/ UNCHANGED vars
           \/ \E n \in Names : UnknownProducer(n) \/ SetAside(n) \/ WorkerFinish(n)
  <2>1. UNCHANGED <<nodeAfter, results, steps>>
    BY <1>1 DEF Explain, Scan, Return, NothingReady, StartLayer, SubmitAll, SubmitFails, PoolBreaks, EndSettle,
           Ended, vars, UnknownProducer, SetAside, WorkerFinish
  <2>2. /\ phase' = "settle" => phase = "settle"
        /\ phase' = "returned" => phase \in {"returned", "scan", "drop"}
        /\ phase = "returned" => phase' = "returned"
        /\ phase = "raised" => phase' = "raised"
        /\ phase = "settle" /\ phase' # "settle" => results = << >>
    BY <1>1 DEF Explain, Scan, Return, NothingReady, StartLayer, SubmitAll, SubmitFails, PoolBreaks, EndSettle,
           Ended, vars, UnknownProducer, AtStep, SetAside, WorkerFinish
  <2>3. phase \in {"scan", "drop"} => results = << >>
    BY DEF IInv, LayerIsPending
  <2>4. results = << >> => DOMAIN results = {} /\ NamesIn(results) = {}
    BY DEF NamesIn
  <2> QED
    BY <1>0, <2>1, <2>2, <2>3, <2>4 DEF ReportedOnce, NamesIn, DistinctNames
<1>3. ASSUME NEW n \in Names, DropUnreachable(n) PROVE ReportedOnce'
  <2>1. /\ phase = "drop" /\ phase' = "drop" /\ steps' = Append(steps, Blocked(n)) /\ results' = results
        /\ n \in DOMAIN nodeAfter /\ DOMAIN nodeAfter' = DOMAIN nodeAfter \ {n}
    BY <1>3, WorkingSetTypes DEF DropUnreachable, IInv, PassIsCurrent
  <2>2. Blocked(n) \in Result /\ Blocked(n).name = n
    BY OutcomesAreResults, OutcomesAreNamed
  <2>3. n \notin NamesIn(steps)
    BY <2>1 DEF ReportedOnce
  <2>4. NamesIn(steps') = NamesIn(steps) \cup {n} /\ DistinctNames(steps')
    BY <1>t, <2>1, <2>2, <2>3, AppendNames DEF ReportedOnce
  <2>5. NamesIn(results) = {}
    BY <2>1 DEF IInv, LayerIsPending, NamesIn
  <2> QED
    BY <1>0, <2>1, <2>4, <2>5 DEF ReportedOnce
<1>4. CASE EndLayer
  <2>1. /\ phase \in {"layer", "gather"} /\ phase' = "settle" /\ steps' = steps \o results
        /\ UNCHANGED <<nodeAfter, results>>
    BY <1>4 DEF EndLayer
  <2>2. NamesIn(steps') = NamesIn(steps) \cup NamesIn(results) /\ DistinctNames(steps')
    BY <1>t, <2>1, ConcatNames DEF ReportedOnce
  <2>3. ReportInv'
    BY <1>4, EndLayerKeepsReport
  <2> QED
    BY <1>0, <2>1, <2>2, <2>3 DEF ReportedOnce, ReportInv, SettlingIsReported
<1>5. CASE SettleOk \/ SettleSkipped \/ SettleError
  <2>1. /\ phase = "settle" /\ phase' \in {"settle", "returned"} /\ steps' = steps /\ results # << >>
        /\ results' = Tail(results)
    BY <1>5 DEF SettleOk, SettleSkipped, SettleError, Settling
  <2>2. NamesIn(results') = NamesIn(results) \ {SettledName} /\ DistinctNames(results')
    BY <1>t, <2>1, TailNames DEF ReportedOnce, SettledName
  <2>3. \A j \in DOMAIN results' : j + 1 \in DOMAIN results /\ results'[j] = results[j + 1]
    BY <1>t, <2>1, LenProperties, EmptySeq, HeadTailProperties
  <2>4. DOMAIN nodeAfter' = DOMAIN nodeAfter \ {SettledName}
    <3>1. CASE SettleOk
      <4>1. PICK fired \in SUBSET {t \in plan.triggers : t.source = SettledName} :
               nodeAfter' = Schedule(SettledName, {t.target : t \in Due(fired, completed')})
        BY <3>1 DEF SettleOk
      <4>2. {t.target : t \in Due(fired, completed')} = {}
        BY DEF Due
      <4> QED
        BY <4>1, <4>2 DEF Schedule
    <3>2. CASE SettleSkipped \/ SettleError
      BY <3>2 DEF SettleSkipped, SettleError, Pop
    <3> QED
      BY <1>5, <3>1, <3>2
  <2> QED
    BY <1>0, <2>1, <2>2, <2>3, <2>4 DEF ReportedOnce
<1>6. ASSUME NEW n \in Names, SkipStep(n) \/ RunStep(n) \/ RunTiledStep(n) PROVE ReportedOnce'
  <2>1. PICK r \in RetryOutcomes(n) \cup TiledOutcomes(n) \cup {Skipped(n)} : AtStep(n) /\ Record(n, r)
    BY <1>6 DEF SkipStep, RunStep, RunTiledStep
  <2>2. r \in Result /\ r.name = n
    BY OutcomesAreResults, OutcomesAreNamed
  <2> QED
    BY <2>1, <2>2, OnceRecorded
<1>7. ASSUME NEW n \in Names, Gather(n) PROVE ReportedOnce'
  <2>1. worker[n] \in Result /\ worker[n].name = n
    BY <1>7 DEF Gather, IsFirst, TypeOK
  <2> QED
    BY <1>7, <2>1, OnceRecorded
<1> QED
  BY <1>1, <1>3, <1>4, <1>5, <1>6, <1>7 DEF Next, NodeStep, RunnerStep

\* One name, one status.
LEMMA SaysOnce ==
    ASSUME ReportedOnce, plan.triggers = {}, NEW n, NEW s, NEW t, Says(n, s), Says(n, t)
    PROVE  s = t
<1>1. CASE phase \in {"settle", "returned"}
  BY <1>1 DEF ReportedOnce, Says, DistinctNames
<1>2. CASE phase \notin {"settle", "returned"}
  BY <1>2 DEF ReportedOnce, Says, DistinctNames, NamesIn
<1> QED
  BY <1>1, <1>2

\* The outcome of a name is what is said of it.
OutcomesAreSaid ==
    \A n : /\ (\A s : ~Says(n, s)) => OutcomeOf(n) = "waiting"
           /\ \A s : Says(n, s) => OutcomeOf(n) = s

LEMMA OutcomeIsSaid == TypeOK /\ ReportedOnce /\ plan.triggers = {} => OutcomesAreSaid
<1> SUFFICES ASSUME TypeOK, ReportedOnce, plan.triggers = {}, NEW n
             PROVE  /\ (\A s : ~Says(n, s)) => OutcomeOf(n) = "waiting"
                    /\ \A s : Says(n, s) => OutcomeOf(n) = s
  BY DEF OutcomesAreSaid
<1> DEFINE own == {i \in DOMAIN Reported : Reported[i].name = n}
<1>1. results \in Seq(Result) /\ steps \in Seq(Result)
  BY DEF TypeOK
<1>2. /\ DOMAIN steps = 1..Len(steps) /\ DOMAIN results = 1..Len(results) /\ Len(steps) \in Nat /\ Len(results) \in Nat
      /\ DOMAIN (steps \o results) = 1..(Len(steps) + Len(results))
      /\ \A i \in DOMAIN (steps \o results) :
            \/ i \in DOMAIN steps /\ (steps \o results)[i] = steps[i]
            \/ i > Len(steps) /\ i - Len(steps) \in DOMAIN results /\ (steps \o results)[i] = results[i - Len(steps)]
  BY <1>1, ConcatEntries
<1>3. \A i \in own : i \in Nat /\ Says(n, Reported[i].status)
  BY <1>2 DEF Reported, Says
<1>4. ASSUME NEW s, Says(n, s) PROVE own # {} /\ \E i \in own : \A j \in own : j <= i
  <2>1. CASE phase = "settle"
    <3>1. Reported = steps
      BY <2>1 DEF Reported
    <3>2. PICK i \in DOMAIN steps : steps[i].name = n
      BY <1>4, <2>1 DEF Says, ReportedOnce
    <3>3. own = {i}
      BY <3>1, <3>2 DEF ReportedOnce, DistinctNames
    <3> QED
      BY <1>2, <3>2, <3>3
  <2>2. ASSUME phase # "settle", NEW j \in DOMAIN results, results[j].name = n
        PROVE  own # {} /\ \E i \in own : \A k \in own : k <= i
    <3>1. Reported = steps \o results
      BY <2>2 DEF Reported
    <3>2. Len(steps) + j \in DOMAIN Reported /\ Len(steps) + j > Len(steps) /\ (Len(steps) + j) - Len(steps) = j
      BY <1>2, <2>2, <3>1
    <3>3. Reported[Len(steps) + j] = results[j]
      BY <1>2, <3>1, <3>2
    <3>4. Len(steps) + j \in own
      BY <2>2, <3>2, <3>3
    <3>5. ASSUME NEW k \in own PROVE k <= Len(steps) + j
      <4>1. CASE k \in DOMAIN steps
        BY <1>2, <2>2, <4>1
      <4>2. CASE k \notin DOMAIN steps
        <5>1. k - Len(steps) \in DOMAIN results /\ results[k - Len(steps)].name = n /\ k \in Nat
          BY <1>2, <3>1, <4>2
        <5>2. k - Len(steps) = j
          BY <2>2, <5>1 DEF ReportedOnce, DistinctNames
        <5> QED
          BY <1>2, <5>1, <5>2
      <4> QED
        BY <4>1, <4>2
    <3> QED
      BY <3>4, <3>5
  <2>3. CASE phase # "settle" /\ \A j \in DOMAIN results : results[j].name # n
    <3>1. Reported = steps \o results
      BY <2>3 DEF Reported
    <3>2. PICK i \in DOMAIN steps : steps[i].name = n
      BY <1>4, <2>3 DEF Says
    <3>3. i \in DOMAIN Reported /\ Reported[i] = steps[i] /\ i \in Nat
      BY <1>2, <3>1
    <3>4. \A k \in own : k \in DOMAIN steps /\ steps[k].name = n
      BY <1>2, <2>3, <3>1
    <3>5. own = {i}
      BY <3>2, <3>3, <3>4 DEF ReportedOnce, DistinctNames
    <3> QED
      BY <3>3, <3>5
  <2> QED
    BY <2>1, <2>2, <2>3
<1>5. ASSUME \A s : ~Says(n, s) PROVE OutcomeOf(n) = "waiting"
  <2>1. own = {}
    BY <1>3, <1>5
  <2> QED
    BY <2>1 DEF OutcomeOf
<1>6. ASSUME NEW s, Says(n, s) PROVE OutcomeOf(n) = s
  <2> DEFINE last == CHOOSE i \in own : \A j \in own : j <= i
  <2>1. own # {} /\ last \in own
    BY <1>4, <1>6
  <2>2. OutcomeOf(n) = Reported[last].status
    BY <2>1 DEF OutcomeOf
  <2>3. Says(n, Reported[last].status)
    BY <1>3, <2>1
  <2> QED
    BY <1>6, <2>2, <2>3, SaysOnce
<1> QED
  BY <1>5, <1>6

\* What is said of a name in a status it is given, and nothing else, changes.
LEMMA DagSame ==
    ASSUME OutcomesAreSaid, OutcomesAreSaid', plan' = plan,
           \A n : \A s : Says(n, s)' <=> Says(n, s)
    PROVE  UNCHANGED Dag!vars
<1>1. ASSUME NEW n PROVE OutcomeOf(n)' = OutcomeOf(n)
  <2>1. CASE \E s : Says(n, s)
    <3>1. PICK s : Says(n, s)
      BY <2>1
    <3>2. OutcomeOf(n) = s
      BY <3>1 DEF OutcomesAreSaid
    <3>3. OutcomeOf(n)' = s
      BY <3>1 DEF OutcomesAreSaid
    <3> QED
      BY <3>2, <3>3
  <2>2. CASE \A s : ~Says(n, s)
    <3>1. OutcomeOf(n) = "waiting"
      BY <2>2 DEF OutcomesAreSaid
    <3>2. OutcomeOf(n)' = "waiting"
      BY <2>2 DEF OutcomesAreSaid
    <3> QED
      BY <3>1, <3>2
  <2> QED
    BY <2>1, <2>2
<1> QED
  BY <1>1 DEF Dag!vars

LEMMA DagReports ==
    ASSUME OutcomesAreSaid, OutcomesAreSaid', plan' = plan,
           NEW n \in Names, NEW o, \A s : ~Says(n, s), Says(n, o)',
           \A m : m # n => \A s : Says(m, s)' <=> Says(m, s)
    PROVE  OutcomeOf(n) = "waiting" /\ Dag!Report(n, o)
<1>1. OutcomeOf(n) = "waiting"
  BY DEF OutcomesAreSaid
<1>2. OutcomeOf(n)' = o
  BY DEF OutcomesAreSaid
<1>3. ASSUME NEW m, m # n PROVE OutcomeOf(m)' = OutcomeOf(m)
  <2>1. CASE \E s : Says(m, s)
    <3>1. PICK s : Says(m, s)
      BY <2>1
    <3>2. OutcomeOf(m) = s
      BY <3>1 DEF OutcomesAreSaid
    <3>3. Says(m, s)'
      BY <1>3, <3>1
    <3>4. OutcomeOf(m)' = s
      BY <3>3 DEF OutcomesAreSaid
    <3> QED
      BY <3>2, <3>4
  <2>2. CASE \A s : ~Says(m, s)
    <3>1. OutcomeOf(m) = "waiting"
      BY <2>2 DEF OutcomesAreSaid
    <3>2. \A s : ~Says(m, s)'
      BY <1>3, <2>2
    <3>3. OutcomeOf(m)' = "waiting"
      BY <3>2 DEF OutcomesAreSaid
    <3> QED
      BY <3>1, <3>3
  <2> QED
    BY <2>1, <2>2
<1> QED
  BY <1>1, <1>2, <1>3 DEF Dag!Report

\* What is settled has the outcome it was settled for.
LEMMA SettledOutcomes ==
    ASSUME OutcomesAreSaid, ReportInv
    PROVE  /\ \A d \in completed : OutcomeOf(d) \in {"ok", "skipped"}
           /\ \A d \in failed : OutcomeOf(d) \in {"error", "blocked"}
<1>1. ASSUME NEW d \in completed PROVE OutcomeOf(d) \in {"ok", "skipped"}
  <2>1. PICK i \in DOMAIN steps : steps[i].name = d /\ steps[i].status \in Success
    BY DEF ReportInv, SettledIsReported
  <2>2. Says(d, steps[i].status)
    BY <2>1 DEF Says
  <2> QED
    BY <2>1, <2>2 DEF OutcomesAreSaid, Success
<1>2. ASSUME NEW d \in failed PROVE OutcomeOf(d) \in {"error", "blocked"}
  <2>1. PICK i \in DOMAIN steps : steps[i].name = d /\ steps[i].status \in {"error", "blocked"}
    BY DEF ReportInv, SettledIsReported
  <2>2. Says(d, steps[i].status)
    BY <2>1 DEF Says
  <2> QED
    BY <2>1, <2>2 DEF OutcomesAreSaid
<1> QED
  BY <1>1, <1>2

\* A pending node of a pipeline without triggers is one of its nodes, and waits
\* for what it declares.
LEMMA PendingIsDeclared ==
    ASSUME TypeOK, IInv, ReportInv, ReportedOnce, plan.triggers = {}, NEW n \in DOMAIN nodeAfter,
           phase \in {"drop", "layer", "gather"}
    PROVE  n \in plan.nodes /\ nodeAfter[n] = plan.after[n] /\ n \notin NamesIn(steps)
<1>1. Targets = {} /\ SourcesOf(n) = {}
  BY DEF Targets, SourcesOf
<1>2. n \in plan.nodes /\ n \notin NamesIn(steps)
  BY <1>1 DEF IInv, WorkingSet, ReportedOnce
<1> QED
  BY <1>1, <1>2 DEF ReportInv, WaitsForDeclared

\* A result of a layer is an outcome the graph allows.
LEMMA DagRecords ==
    ASSUME TypeOK, IInv, ReportInv, ReportedOnce, OutcomesAreSaid, OutcomesAreSaid', plan.triggers = {},
           NEW n \in Names, NEW r \in Result, r.name = n, r.status # "blocked",
           \/ AtStep(n) /\ Record(n, r)
           \/ Gather(n) /\ r = worker[n]
    PROVE  Dag!Next
<1>1. /\ UNCHANGED <<plan, steps>> /\ results' = Append(results, r)
      /\ phase \in {"layer", "gather"} /\ n \in todo \cup DOMAIN worker
      /\ results \in Seq(Result)
  BY DEF Record, Gather, AtStep, IsFirst, TypeOK
<1>2. n \in DOMAIN nodeAfter /\ n \notin NamesIn(results)
  BY <1>1 DEF IInv, LayerIsPending
<1>3. n \in plan.nodes /\ plan.after[n] \subseteq completed /\ n \notin NamesIn(steps)
  BY <1>1, <1>2, PendingIsDeclared DEF ReportInv, PassIsJustified
<1>4. /\ DOMAIN results = 1..Len(results) /\ Len(results) \in Nat
      /\ DOMAIN results' = 1..(Len(results) + 1)
      /\ \A i \in DOMAIN results : results'[i] = results[i]
      /\ results'[Len(results) + 1] = r
  BY <1>1, AppendEntries
<1>5. (\A s : ~Says(n, s)) /\ Says(n, r.status)'
  BY <1>1, <1>2, <1>3, <1>4 DEF Says, NamesIn
<1>6. \A m : m # n => \A s : Says(m, s)' <=> Says(m, s)
  <2> SUFFICES ASSUME NEW m, m # n, NEW s PROVE Says(m, s)' <=> Says(m, s)
    OBVIOUS
  <2>1. ASSUME Says(m, s)' PROVE Says(m, s)
    BY <1>1, <1>4, <2>1 DEF Says
  <2>2. ASSUME Says(m, s) PROVE Says(m, s)'
    BY <1>1, <1>4, <2>2 DEF Says
  <2> QED
    BY <2>1, <2>2
<1>7. OutcomeOf(n) = "waiting" /\ Dag!Report(n, r.status)
  BY <1>1, <1>5, <1>6, DagReports
<1>8. \A d \in plan.after[n] : d \in Names /\ OutcomeOf(d) \in {"ok", "skipped"}
  BY <1>3, SettledOutcomes DEF TypeOK
<1>9. r.status \in {"ok", "skipped", "error"}
  BY DEF Result, Status
<1> QED
  BY <1>3, <1>7, <1>8, <1>9 DEF Dag!Next, Dag!Execute, Dag!Succeeded, Dag!Good, Dag!Waiting

LEMMA DagStep ==
    ASSUME TypeOK, IInv, ReportInv, ReportedOnce, ReportedOnce', OutcomesAreSaid, OutcomesAreSaid',
           [Next]_vars, plan.triggers = {}
    PROVE  Dag!Next \/ UNCHANGED Dag!vars
<1>t. results \in Seq(Result) /\ steps \in Seq(Result)
  BY DEF TypeOK
<1>1. CASE \/ Explain \/ Scan \/ Return \/ NothingReady \/ StartLayer
           \/ SubmitAll \/ SubmitFails \/ PoolBreaks \/ EndSettle \/ Ended \/ UNCHANGED vars
           \/ \E n \in Names : UnknownProducer(n) \/ SetAside(n) \/ WorkerFinish(n)
  <2>1. UNCHANGED <<plan, results, steps>>
    BY <1>1 DEF Explain, Scan, Return, NothingReady, StartLayer, SubmitAll, SubmitFails, PoolBreaks, EndSettle,
           Ended, vars, UnknownProducer, SetAside, WorkerFinish
  <2>2. \A n : \A s : Says(n, s)' <=> Says(n, s)
    BY <2>1 DEF Says
  <2> QED
    BY <2>1, <2>2, DagSame
<1>3. ASSUME NEW n \in Names, DropUnreachable(n) PROVE Dag!Next
  <2>1. /\ phase = "drop" /\ n \in unreachable /\ steps' = Append(steps, Blocked(n))
        /\ UNCHANGED <<plan, results>>
    BY <1>3 DEF DropUnreachable
  <2>2. PICK d \in nodeAfter[n] : d \in failed
    BY <2>1 DEF ReportInv, PassIsJustified
  <2>3. n \in plan.nodes /\ d \in plan.after[n] /\ n \notin NamesIn(steps)
    BY <2>1, <2>2, PendingIsDeclared DEF ReportInv, PassIsJustified
  <2>4. /\ Blocked(n) \in Result /\ Blocked(n).name = n /\ Blocked(n).status = "blocked"
    BY OutcomesAreResults, OutcomesAreNamed DEF Blocked, StepOutcome
  <2>5. /\ DOMAIN steps = 1..Len(steps) /\ Len(steps) \in Nat
        /\ DOMAIN steps' = 1..(Len(steps) + 1)
        /\ \A i \in DOMAIN steps : steps'[i] = steps[i]
        /\ steps'[Len(steps) + 1] = Blocked(n)
    BY <1>t, <2>1, <2>4, AppendEntries
  <2>6. DOMAIN results = {}
    BY <2>1 DEF IInv, LayerIsPending
  <2>7. (\A s : ~Says(n, s)) /\ Says(n, "blocked")'
    BY <2>1, <2>3, <2>4, <2>5, <2>6 DEF Says, NamesIn
  <2>8. \A m : m # n => \A s : Says(m, s)' <=> Says(m, s)
    <3> SUFFICES ASSUME NEW m, m # n, NEW s PROVE Says(m, s)' <=> Says(m, s)
      OBVIOUS
    <3>1. ASSUME Says(m, s)' PROVE Says(m, s)
      BY <2>1, <2>4, <2>5, <3>1 DEF Says
    <3>2. ASSUME Says(m, s) PROVE Says(m, s)'
      BY <2>1, <2>5, <3>2 DEF Says
    <3> QED
      BY <3>1, <3>2
  <2>9. OutcomeOf(n) = "waiting" /\ Dag!Report(n, "blocked")
    BY <2>1, <2>7, <2>8, DagReports
  <2>10. d \in Names /\ OutcomeOf(d) \in {"error", "blocked"}
    BY <2>2, SettledOutcomes DEF TypeOK
  <2> QED
    BY <2>3, <2>9, <2>10 DEF Dag!Next, Dag!WriteOff, Dag!Bad, Dag!Waiting
<1>4. CASE EndLayer
  <2>1. steps' = steps \o results /\ UNCHANGED <<plan, results>>
    BY <1>4 DEF EndLayer
  <2>2. /\ \A i \in DOMAIN steps : i \in DOMAIN steps' /\ steps'[i] = steps[i]
        /\ \A i \in DOMAIN steps' : \/ i \in DOMAIN steps /\ steps'[i] = steps[i]
                                    \/ \E j \in DOMAIN results : steps'[i] = results[j]
    BY <1>t, <2>1, ConcatEntries
  <2>3. \A n : \A s : Says(n, s)' <=> Says(n, s)
    <3> SUFFICES ASSUME NEW n, NEW s PROVE Says(n, s)' <=> Says(n, s)
      OBVIOUS
    <3>1. ASSUME Says(n, s)' PROVE Says(n, s)
      BY <2>1, <2>2, <3>1 DEF Says
    <3>2. ASSUME Says(n, s) PROVE Says(n, s)'
      BY <2>1, <2>2, <3>2 DEF Says
    <3> QED
      BY <3>1, <3>2
  <2> QED
    BY <2>1, <2>3, DagSame
<1>5. CASE SettleOk \/ SettleSkipped \/ SettleError
  <2>1. /\ phase = "settle" /\ phase' \in {"settle", "returned"} /\ UNCHANGED <<plan, steps>>
    BY <1>5 DEF SettleOk, SettleSkipped, SettleError, Settling
  <2>2. \A n : \A s : Says(n, s)' <=> Says(n, s)
    <3> SUFFICES ASSUME NEW n, NEW s PROVE Says(n, s)' <=> Says(n, s)
      OBVIOUS
    <3>1. Says(n, s) <=> \E i \in DOMAIN steps : steps[i].name = n /\ steps[i].status = s
      BY <2>1 DEF Says, ReportedOnce
    <3>2. Says(n, s)' <=> \E i \in DOMAIN steps : steps[i].name = n /\ steps[i].status = s
      BY <2>1 DEF Says, ReportedOnce
    <3> QED
      BY <3>1, <3>2
  <2> QED
    BY <2>1, <2>2, DagSame
<1>6. ASSUME NEW n \in Names, SkipStep(n) \/ RunStep(n) \/ RunTiledStep(n) PROVE Dag!Next
  <2>1. PICK r \in RetryOutcomes(n) \cup TiledOutcomes(n) \cup {Skipped(n)} : AtStep(n) /\ Record(n, r)
    BY <1>6 DEF SkipStep, RunStep, RunTiledStep
  <2>2. r \in Result /\ r.name = n /\ r.status # "blocked"
    BY OutcomesAreResults, OutcomesAreNamed, OutcomesNotBlocked
  <2> QED
    BY <2>1, <2>2, DagRecords
<1>7. ASSUME NEW n \in Names, Gather(n) PROVE Dag!Next
  <2>1. worker[n] \in Result /\ worker[n].name = n /\ worker[n].status # "blocked"
    BY <1>7 DEF Gather, IsFirst, TypeOK, ReportInv, SettlingIsReported
  <2> QED
    BY <1>7, <2>1, DagRecords
<1> QED
  BY <1>1, <1>3, <1>4, <1>5, <1>6, <1>7 DEF Next, NodeStep, RunnerStep

\* Every run of a pipeline without triggers, through a pool or in line, with
\* fail_fast or without, is one of DagExecution (engine/scheduler.py, run()).
THEOREM RunnerExecutesDag == Spec => ExecutesDag
<1>1. Init /\ TypeOK /\ ReportedOnce => Dag!Init
  <2> SUFFICES ASSUME Init PROVE \A n \in Names : OutcomeOf(n) = "waiting"
    BY DEF Dag!Init, Dag!Waiting
  <2>1. phase = "start" /\ steps = << >> /\ results = << >>
    BY DEF Init
  <2>2. DOMAIN Reported = {}
    BY <2>1 DEF Reported
  <2> QED
    BY <2>2 DEF OutcomeOf
<1>2. TypeOK /\ IInv /\ ReportInv /\ ReportedOnce /\ [Next]_vars => ReportedOnce'
  BY OnceKept
<1>3. Spec => []ReportedOnce
  BY <1>2, OnceInitially, TypeCorrect, InductiveInvariant, ReportInvariant, PTL DEF Spec
<1>4. TypeOK /\ IInv /\ ReportInv /\ ReportedOnce /\ ReportedOnce' /\ [Next]_vars
        /\ (plan.triggers = {} => OutcomesAreSaid) /\ (plan.triggers = {} => OutcomesAreSaid)'
        => [plan.triggers = {} => Dag!Next]_(Dag!vars)
  <2> SUFFICES ASSUME TypeOK, IInv, ReportInv, ReportedOnce, ReportedOnce', [Next]_vars, plan.triggers = {},
                      OutcomesAreSaid, (plan.triggers = {} => OutcomesAreSaid)'
               PROVE  Dag!Next \/ UNCHANGED Dag!vars
    OBVIOUS
  <2>1. plan' = plan
    BY PlanStays
  <2> QED
    BY <2>1, DagStep
<1>5. TypeOK /\ ReportedOnce => (plan.triggers = {} => OutcomesAreSaid)
  BY OutcomeIsSaid
<1> QED
  BY <1>1, <1>3, <1>4, <1>5, TypeCorrect, InductiveInvariant, ReportInvariant, PTL DEF Spec, ExecutesDag
=============================================================================
