-------------------------- MODULE SchemaMigration --------------------------
(***************************************************************************)
(* The version of a cube's schema (engine/schema.py): engines, of versions *)
(* of their own, call ensure_schema on one catalog, which reads the stamp  *)
(* through one connection and migrates through the next.  Each migration   *)
(* is a transaction.  The process may die at any step.                     *)
(*                                                                         *)
(* layout counts the migrations the tables have gone through.              *)
(***************************************************************************)
EXTENDS Integers

CONSTANTS Engines, SchemaMax,   \* SchemaMax: the latest version there is
          SchemaSetups

ASSUME SchemaAssumption ==
    /\ SchemaMax \in Nat
    /\ SchemaSetups \subseteq [target : [Engines -> 1 .. SchemaMax],
                               migrations : SUBSET (1 .. SchemaMax - 1), \* registered, by the version they start from
                               created : 0 .. SchemaMax,  \* the version of the cube, 0 for a new file
                               stamped : BOOLEAN,         \* FALSE: it has no stamp
                               together : BOOLEAN]        \* engines may open the cube at once

VARIABLES schemaSetup,
          stamp,    \* schema_version in cube_meta, 0 for none
          layout,   \* what the tables are like; of a new file, whatever its first engine creates
          engine    \* engine -> where ensure_schema is, and the version it goes by

schemaVars == <<schemaSetup, stamp, layout, engine>>

Out == [at |-> "out", current |-> 0]
SchemaStart(s) ==
    /\ schemaSetup = s /\ layout = s.created
    /\ stamp = IF s.stamped THEN s.created ELSE 0
    /\ engine = [e \in Engines |-> Out]
SchemaInit == \E s \in SchemaSetups : SchemaStart(s)

Holding == {e \in Engines : engine[e].at = "migrate"}
Now(e, at, current) == engine' = [engine EXCEPT ![e] = [at |-> at, current |-> current]]
Unchanged == UNCHANGED <<schemaSetup, stamp, layout>>

\* get_schema_version; connecting to a file another process holds open raises.
ReadVersion(e) ==
    /\ engine[e] = Out /\ Holding = {}
    /\ schemaSetup.together \/ \A d \in Engines : engine[d] = Out
    /\ Now(e, "compare", stamp) /\ Unchanged

\* An equal stamp is good, a later one refused.
NothingToDo(e) ==
    /\ engine[e].at = "compare" /\ engine[e].current >= schemaSetup.target[e]
    /\ Now(e, "out", 0) /\ Unchanged

\* Mutated form: any other version is stamped over.
StampAny(e) ==
    /\ engine[e].at = "compare" /\ engine[e].current # schemaSetup.target[e] /\ Holding = {}
    /\ Now(e, "out", 0)
    /\ stamp' = schemaSetup.target[e] /\ layout' = IF layout = 0 THEN stamp' ELSE layout
    /\ UNCHANGED schemaSetup

\* A file without a stamp gets the target's, and a new one its tables from this
\* engine.
StampNew(e) ==
    /\ engine[e] = [at |-> "compare", current |-> 0] /\ Holding = {}
    /\ Now(e, "out", 0)
    /\ stamp' = schemaSetup.target[e] /\ layout' = IF layout = 0 THEN stamp' ELSE layout
    /\ UNCHANGED schemaSetup

\* Mutated form: a later version is migrated as well.
OpenWhatDiffers(e) ==
    /\ engine[e].at = "compare" /\ engine[e].current \notin {0, schemaSetup.target[e]} /\ Holding = {}
    /\ Now(e, "migrate", engine[e].current) /\ Unchanged

OpenToMigrate(e) ==
    /\ engine[e].at = "compare" /\ engine[e].current \in 1 .. schemaSetup.target[e] - 1 /\ Holding = {}
    /\ Now(e, "migrate", engine[e].current) /\ Unchanged

\* Mutated form: the stamp is set for the target at once.
StepToTarget(e) ==
    /\ engine[e].at = "migrate" /\ engine[e].current < schemaSetup.target[e]
    /\ engine[e].current \in schemaSetup.migrations
    /\ layout' = layout + 1 /\ stamp' = schemaSetup.target[e]
    /\ Now(e, "migrate", engine[e].current + 1)
    /\ UNCHANGED schemaSetup

\* The migration and its stamp commit together.
Step(e) ==
    /\ engine[e].at = "migrate" /\ engine[e].current < schemaSetup.target[e]
    /\ engine[e].current \in schemaSetup.migrations
    /\ layout' = layout + 1 /\ stamp' = engine[e].current + 1
    /\ Now(e, "migrate", engine[e].current + 1)
    /\ UNCHANGED schemaSetup

\* Done; or no migration is registered, it raises and is rolled back, the
\* connection fails, or the process dies.
Leave(e) == engine[e] # Out /\ Now(e, "out", 0) /\ Unchanged

SchemaNext ==
    \E e \in Engines : ReadVersion(e) \/ NothingToDo(e) \/ StampNew(e)
                       \/ OpenToMigrate(e) \/ Step(e) \/ Leave(e)

SchemaSpec == SchemaInit /\ [][SchemaNext]_schemaVars

-----------------------------------------------------------------------------
\* Types; an engine never goes past its own version.
SchemaTypeOK ==
    /\ stamp \in 0 .. SchemaMax /\ layout \in Nat
    /\ \A e \in Engines : engine[e].at \in {"out", "compare", "migrate"}
                          /\ (engine[e].at = "migrate" => engine[e].current <= schemaSetup.target[e])

\* The stamp says which migrations the tables have gone through, wherever an
\* engine fails, dies or finds no migration, and whichever engine is next; as
\* long as no two open the cube at once.  (Old tables without a stamp are taken
\* for new, and never migrated to the version they are stamped with.)
StampIsTheLayout ==
    ~schemaSetup.together /\ (schemaSetup.stamped \/ schemaSetup.created = 0) => stamp = layout

\* No engine takes a cube back to an older version (if no two open it at once).
NeverDowngraded == [][~schemaSetup.together => stamp' >= stamp]_schemaVars
=============================================================================
