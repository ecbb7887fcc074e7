---------------------------- MODULE DagExecution ----------------------------
(***************************************************************************)
(* What a run of a pipeline without triggers promises, said without layers,*)
(* workers or a working set (engine/scheduler.py's module docstring, and   *)
(* RunResult): every node gets at most one outcome, for good; a node is    *)
(* executed or skipped only when all it depends on has succeeded; and it   *)
(* is written off only when something it depends on has not.               *)
(***************************************************************************)
CONSTANT Names

VARIABLES plan,    \* the pipeline: its nodes and their dependencies
          outcome  \* name -> what the run reports of it so far

vars == <<plan, outcome>>

Waiting == "waiting"
Good == {"ok", "skipped"}
Bad == {"error", "blocked"}

Init == outcome = [n \in Names |-> Waiting]

Succeeded(n) == outcome[n] \in Good
Report(n, o) == outcome' = [outcome EXCEPT ![n] = o] /\ UNCHANGED plan

Execute(n) ==
    /\ n \in plan.nodes /\ outcome[n] = Waiting
    /\ \A d \in plan.after[n] : Succeeded(d)
    /\ \E o \in {"ok", "skipped", "error"} : Report(n, o)

WriteOff(n) ==
    /\ n \in plan.nodes /\ outcome[n] = Waiting
    /\ \E d \in plan.after[n] : outcome[d] \in Bad
    /\ Report(n, "blocked")

Next == \E n \in Names : Execute(n) \/ WriteOff(n)

Spec == Init /\ [][Next]_vars
=============================================================================
