-------------------------- MODULE MCCubeFreshness --------------------------
(***************************************************************************)
(* Instances of CubeFreshness.  Sources s and t; producers 1 (from s), 2   *)
(* (from 1's first output and t), 3 (from 1's first output) and 4 (from    *)
(* those of 2 and 3): a chain, two that run side by side, and a join.      *)
(***************************************************************************)
EXTENDS CubeFreshness, Integers

MCRequires == [p \in 1..4 |-> CASE p = 1 -> {"s"} [] p = 2 -> {"x", "t"}
                                [] p = 3 -> {"x"} [] p = 4 -> {"y", "z"}]
MCOutputs == [p \in 1..4 |-> CASE p = 1 -> {"x", "x2"} [] p = 2 -> {"y"}
                               [] p = 3 -> {"z"} [] p = 4 -> {"w"}]
MCAfter == [p \in 1..4 |-> CASE p = 1 -> {} [] p \in {2, 3} -> {1} [] p = 4 -> {2, 3}]

\* The first two producers only.
MCRequires2 == [p \in 1..2 |-> MCRequires[p]]
MCOutputs2 == [p \in 1..2 |-> MCOutputs[p]]
MCAfter2 == [p \in 1..2 |-> MCAfter[p]]
=============================================================================
