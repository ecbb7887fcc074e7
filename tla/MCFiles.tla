-------------------------------- MODULE MCFiles --------------------------------
(***************************************************************************)
(* The parts that keep their state in files and share none of it, checked  *)
(* side by side in one run: a behaviour is one of the content cache, of a  *)
(* checkpointed run, of a snapshot or of a schema, as part says, and the   *)
(* others stay where they start.                                           *)
(***************************************************************************)
EXTENDS ContentCache, CheckpointedRun, CubeSnapshot, SchemaMigration

VARIABLE part
vars == <<part, cacheVars, runVars, snapVars, schemaVars>>

ASSUME PartsAssumption ==
    CacheSetups # {} /\ RunSetups # {} /\ SnapSetups # {} /\ SchemaSetups # {}

MCBytes == [k \in CacheKeys |-> IF k = "a" THEN 2 ELSE 1]

\* One process that dies, evicts and clears, with and without failing file
\* operations; two that put; two that evict and clear.
MCCacheSetups ==
    LET Of(ps, evicts, clears, dies, fails, target, n) ==
            [procs |-> ps, evicts |-> evicts, clears |-> clears, dies |-> dies, fails |-> fails,
             target |-> target, calls |-> n]
    IN  {Of({"p"}, TRUE, TRUE, TRUE, fails, t, 5) : t \in {0, 1, 2}, fails \in BOOLEAN}
        \cup {Of({"p"}, TRUE, TRUE, FALSE, FALSE, t, 4) : t \in {0, 1, 2}}
        \cup {Of({"p", "q"}, FALSE, FALSE, bad, bad, 0, 3) : bad \in BOOLEAN}
        \cup {Of({"p", "q"}, TRUE, TRUE, FALSE, fails, 1, 4) : fails \in BOOLEAN}

MCRunSetups == [configs : {{"c"}, {"c", "d"}}, wipes : BOOLEAN, runs : {3}]

MCVersions == [v \in SnapVars |-> IF v = "u" THEN 2 ELSE 1]
MCSnapFiles == {<<"u", 1>>, <<"u", 2>>, <<"v", 1>>}

\* The more can happen in a call, the fewer calls there are.
MCSnapSetups ==
    {[writes |-> w, dies |-> d, generator |-> g,
      calls |-> IF w /\ d THEN 1 ELSE IF w THEN 2 ELSE IF d THEN 3 ELSE 4] : w, d, g \in BOOLEAN}
    \ [writes : BOOLEAN, dies : BOOLEAN, generator : {TRUE}, calls : 1 .. 3]

MCSchemaSetups ==
    [target : [Engines -> 1 .. SchemaMax], migrations : {{1, 2, 3}, {1, 3}},
     created : {0, 1, 2}, stamped : BOOLEAN, together : BOOLEAN]

Init ==
    \/ part = "cache" /\ CacheInit /\ RunStart(CHOOSE s \in RunSetups : TRUE)
       /\ SnapStart(CHOOSE s \in SnapSetups : TRUE) /\ SchemaStart(CHOOSE s \in SchemaSetups : TRUE)
    \/ part = "run" /\ RunInit /\ CacheStart(CHOOSE s \in CacheSetups : TRUE)
       /\ SnapStart(CHOOSE s \in SnapSetups : TRUE) /\ SchemaStart(CHOOSE s \in SchemaSetups : TRUE)
    \/ part = "snapshot" /\ SnapInit /\ CacheStart(CHOOSE s \in CacheSetups : TRUE)
       /\ RunStart(CHOOSE s \in RunSetups : TRUE) /\ SchemaStart(CHOOSE s \in SchemaSetups : TRUE)
    \/ part = "schema" /\ SchemaInit /\ CacheStart(CHOOSE s \in CacheSetups : TRUE)
       /\ RunStart(CHOOSE s \in RunSetups : TRUE) /\ SnapStart(CHOOSE s \in SnapSetups : TRUE)

Next ==
    \/ part = "cache" /\ CacheNext /\ UNCHANGED <<part, runVars, snapVars, schemaVars>>
    \/ part = "run" /\ RunNext /\ UNCHANGED <<part, cacheVars, snapVars, schemaVars>>
    \/ part = "snapshot" /\ SnapNext /\ UNCHANGED <<part, cacheVars, runVars, schemaVars>>
    \/ part = "schema" /\ SchemaNext /\ UNCHANGED <<part, cacheVars, runVars, snapVars>>

Spec == Init /\ [][Next]_vars

\* The type invariant of each part.
FilesTypeOK == CacheTypeOK /\ RunTypeOK /\ SnapTypeOK /\ SchemaTypeOK
=============================================================================
