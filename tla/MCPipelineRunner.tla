------------------------- MODULE MCPipelineRunner -------------------------
(***************************************************************************)
(* Instances of PipelineRunner for TLC.                                    *)
(***************************************************************************)
EXTENDS PipelineRunner

Edges(S) == [1..4 -> SUBSET S]

\* Every graph over nodes 1..3, as declared dependencies; name 4 is the target
\* of a trigger only.
Graphs3 == {after \in Edges(1..3) : after[4] = {} /\ \A n \in 1..3 : n \notin after[n]}

Dags3 == {[nodes |-> 1..3, after |-> g, triggers |-> {}] : g \in Graphs3}

\* Acyclic plans without triggers.
MCPlain == {p \in Dags3 : Acyclic(p)}

T(s, t) == [source |-> s, target |-> t]

\* Triggers inside the pipeline (over all graphs: to earlier and to later nodes),
\* to a node outside it, and chains through that one.
TriggerSets == {{T(1, 2), T(2, 4)}, {T(3, 4), T(4, 1)}, {T(2, 4), T(4, 2), T(1, 3)}}

MCTriggered == {[nodes |-> 1..3, after |-> p.after, triggers |-> ts] :
                  p \in MCPlain, ts \in TriggerSets}

\* Plans nobody validated: cycles, unknown dependencies, unregistered names.
MCUnchecked == {[p EXCEPT !.triggers = ts] : p \in Dags3, ts \in {{}, {T(1, 4)}}}
                 \cup {[nodes |-> 1..2, after |-> [n \in 1..4 |-> IF n = 1 THEN {3} ELSE {}],
                        triggers |-> {T(2, 3)}]}

R(pool, failFast, verbose, registry) ==
    [pool |-> pool, failFast |-> failFast, verbose |-> verbose, registry |-> registry]

InLine == R(FALSE, FALSE, TRUE, 1..4)
Pooled == R(TRUE, FALSE, TRUE, 1..4)
PooledFailFast == R(TRUE, TRUE, TRUE, 1..4)
Quiet == R(FALSE, FALSE, FALSE, {1, 2, 4})

MCPlans == MCPlain \cup MCTriggered \cup MCUnchecked
MCRunners == {Pooled, PooledFailFast, Quiet}
MCInLine == {InLine}
=============================================================================
