---------------------------- MODULE CubeSnapshot ----------------------------
(***************************************************************************)
(* Snapshots of a cube (cube/snapshot.py): save_snapshot, restore_snapshot *)
(* and drop_cube_variables on the directory of a cube, file by file, while *)
(* a producer rewrites an array as write_static and write_3d do            *)
(* (cube/store.py: its old files go, the new ones come, its row is last)   *)
(* and either process may die at every step.                               *)
(*                                                                         *)
(* A file of an array, and a row, are abstracted to the version written, 0 *)
(* for none.  One file is copied whole, and so is catalog.duckdb.          *)
(***************************************************************************)
EXTENDS Integers, FiniteSets

\* grid.json, catalog.duckdb, the directory of the arrays, snapshot.json
TopLevel == {"grid", "catalog", "cube", "marker"}

CONSTANTS SnapVars,
          SnapFiles,      \* the files of the arrays, as <<variable, file>>
          SnapVersions,   \* bound: variable -> how often it is written
          SnapSetups

ASSUME SnapAssumption ==
    /\ SnapVersions \in [SnapVars -> Nat] /\ SnapVars \cap TopLevel = {}
    /\ \A f \in SnapFiles : f[1] \in SnapVars
    /\ SnapSetups \subseteq [writes : BOOLEAN,      \* a producer writes during a save
                             dies : BOOLEAN,
                             generator : BOOLEAN,   \* drop is given a one-shot iterable
                             calls : Nat]           \* bound: calls in all

VARIABLES snapSetup,
          root, snap,  \* the cube's directory and the snapshot's
          writing,     \* the array being written, and as what version
          task,        \* the call under way, what it has still to handle
          touched,     \* variables that a writer changed in the last save
          doubtful,    \* variables torn at its start, erased in it, or copied before the catalog
          kept,        \* the tree the last finished save copied, if it is not replaced
          begun        \* calls begun

snapVars == <<snapSetup, root, snap, writing, task, touched, doubtful, kept, begun>>

FilesOf(v) == {f \in SnapFiles : f[1] = v}
NoRows == [v \in SnapVars |-> 0]
NoData == [f \in SnapFiles |-> 0]
Empty == [data |-> NoData, rows |-> NoRows, has |-> {}]
TaskOf(at, todo) == [at |-> at, todo |-> todo, cube |-> {}, files |-> {}, failed |-> FALSE]
Quiet == TaskOf("idle", {})

Present(tree, v) == {f \in FilesOf(v) : tree.data[f] # 0}
Arrays(tree) == {v \in SnapVars : Present(tree, v) # {}}

\* The row claims what is not there as one array, of its version or a later one.
Torn(tree) ==
    {v \in SnapVars : /\ tree.rows[v] # 0
                      /\ \E f, g \in FilesOf(v) : tree.data[f] # tree.data[g] \/ tree.data[f] < tree.rows[v]}

\* Mutated form: a directory stays to be done after it has been entered.
CopyEntryAgain(x, to, from) ==
    /\ x \in task.todo /\ task.cube = {} /\ task.files = {}
    /\ task' = IF x = "cube" THEN [task EXCEPT !.cube = Arrays(from)]
               ELSE [task EXCEPT !.todo = @ \ {x}]
    /\ to' = [to EXCEPT !.has = @ \cup {x}, !.rows = IF x = "catalog" THEN from.rows ELSE @]

\* Mutated form: an array that is being written is left out.
CopyEntrySettled(x, to, from) ==
    /\ x \in task.todo /\ task.cube = {} /\ task.files = {}
    /\ task' = [task EXCEPT !.todo = @ \ {x},
                            !.cube = IF x = "cube" THEN Arrays(from) \ {w.var : w \in writing} ELSE {}]
    /\ to' = [to EXCEPT !.has = @ \cup {x}, !.rows = IF x = "catalog" THEN from.rows ELSE @]

\* shutil.copytree: an entry of the root; a directory is listed when it is
\* entered, and done before the next entry.
CopyEntry(x, to, from) ==
    /\ x \in task.todo /\ task.cube = {} /\ task.files = {}
    /\ task' = [task EXCEPT !.todo = @ \ {x}, !.cube = IF x = "cube" THEN Arrays(from) ELSE {}]
    /\ to' = [to EXCEPT !.has = @ \cup {x}, !.rows = IF x = "catalog" THEN from.rows ELSE @]

\* A directory that has gone is an error, which copytree raises at its end.
EnterArray(v, to, from) ==
    /\ v \in task.cube /\ task.files = {}
    /\ \E gone \in BOOLEAN :
         /\ gone => v \notin Arrays(from)
         /\ task' = [task EXCEPT !.cube = @ \ {v}, !.files = Present(from, v), !.failed = @ \/ gone]
    /\ to' = to

\* And so is a file.
CopyFile(f, to, from) ==
    /\ f \in task.files
    /\ task' = [task EXCEPT !.files = @ \ {f}, !.failed = @ \/ from.data[f] = 0]
    /\ to' = [to EXCEPT !.data[f] = from.data[f]]

CopyStep(to, from) ==
    \/ \E x \in TopLevel : CopyEntry(x, to, from)
    \/ \E v \in SnapVars : EnterArray(v, to, from)
    \/ \E f \in SnapFiles : CopyFile(f, to, from)

CopiedAll == task.todo = {} /\ task.cube = {} /\ task.files = {}

SnapStart(s) ==
    /\ snapSetup = s /\ root = [Empty EXCEPT !.has = TopLevel \ {"marker"}]
    /\ snap = Empty /\ writing = {} /\ task = Quiet /\ touched = {} /\ doubtful = {} /\ kept = {} /\ begun = 0

SnapInit == \E s \in SnapSetups : SnapStart(s)

-----------------------------------------------------------------------------
MayWrite == task = Quiet \/ (snapSetup.writes /\ task.at = "save")

\* to_zarr(mode="w") as one more version than there are.
WriteArray(v, n) ==
    /\ MayWrite /\ writing = {} /\ TopLevel \ {"marker"} \subseteq root.has
    /\ n > root.rows[v] /\ \A f \in FilesOf(v) : n > root.data[f]
    /\ writing' = {[var |-> v, version |-> n]}
    /\ UNCHANGED <<snapSetup, root, snap, task, touched, doubtful, kept, begun>>

Touches(v) == touched' = IF task.at = "save" THEN touched \cup {v} ELSE touched

\* The files of the old array are removed ...
EraseFile(f) ==
    /\ \E w \in writing : w.var = f[1] /\ root.data[f] \notin {0, w.version}
    /\ root' = [root EXCEPT !.data[f] = 0]
    /\ Touches(f[1])
    /\ doubtful' = IF task.at = "save" THEN doubtful \cup {f[1]} ELSE doubtful
    /\ UNCHANGED <<snapSetup, snap, writing, task, kept, begun>>

\* ... before the first of the new one is written, ...
WriteFile(f) ==
    /\ root.data[f] = 0
    /\ \E w \in writing : /\ w.var = f[1] /\ \A g \in FilesOf(f[1]) : root.data[g] \in {0, w.version}
                          /\ root' = [root EXCEPT !.data[f] = w.version]
    /\ Touches(f[1])
    /\ UNCHANGED <<snapSetup, snap, writing, task, doubtful, kept, begun>>

\* ... and the row.
WriteRow(v) ==
    /\ \E w \in writing : /\ w.var = v /\ \A f \in FilesOf(v) : root.data[f] = w.version
                          /\ root' = [root EXCEPT !.rows[v] = w.version]
    /\ writing' = {} /\ Touches(v)
    /\ UNCHANGED <<snapSetup, snap, task, doubtful, kept, begun>>

\* Calls are made between the steps of a pipeline, unless a producer may write
\* during them.
Call(at, todo) ==
    /\ task = Quiet /\ (writing = {} \/ (snapSetup.writes /\ at = "save"))
    /\ task' = TaskOf(at, todo)
    /\ begun < snapSetup.calls /\ begun' = begun + 1

\* Mutated form: the new one is copied over it.
SaveOver(overwrite) ==
    /\ root # Empty /\ (snap = Empty \/ overwrite)
    /\ Call("save", root.has)
    /\ touched' = {} /\ doubtful' = Torn(root) /\ kept' = {}
    /\ UNCHANGED <<snapSetup, root, snap, writing>>

\* save_snapshot, where it does not refuse: what is in its place goes first.
Save(overwrite) ==
    /\ root # Empty /\ (snap = Empty \/ overwrite)
    /\ Call("save", root.has)
    /\ snap' = Empty /\ touched' = {} /\ doubtful' = Torn(root) /\ kept' = {}
    /\ UNCHANGED <<snapSetup, root, writing>>

CopyToSnapshot ==
    /\ task.at = "save" /\ CopyStep(snap, root)
    /\ doubtful' = IF "cube" \in task.todo \ task'.todo /\ "catalog" \in task.todo
                   THEN SnapVars ELSE doubtful
    /\ UNCHANGED <<snapSetup, root, writing, touched, kept, begun>>

\* snapshot.json, or the exception of a copy that met an error.
Saved ==
    /\ task.at = "save" /\ CopiedAll
    /\ task' = Quiet
    /\ \/ /\ ~task.failed
          /\ snap' = [snap EXCEPT !.has = @ \cup {"marker"}]
          /\ kept' = {[root EXCEPT !.has = @ \cup {"marker"}]}
       \/ task.failed /\ UNCHANGED <<snap, kept>>
    /\ UNCHANGED <<snapSetup, root, writing, touched, doubtful, begun>>

\* Mutated form: the root is copied over.
RestoreOver(overwrite) ==
    /\ {"grid", "cube"} \subseteq snap.has /\ (root = Empty \/ overwrite)
    /\ Call("restore", snap.has)
    /\ UNCHANGED <<snapSetup, root, snap, writing, touched, doubtful, kept>>

\* restore_snapshot asks for grid.json and cube/, not for snapshot.json.
Restore(overwrite) ==
    /\ {"grid", "cube"} \subseteq snap.has /\ (root = Empty \/ overwrite)
    /\ Call("restore", snap.has)
    /\ root' = Empty
    /\ UNCHANGED <<snapSetup, snap, writing, touched, doubtful, kept>>

CopyToRoot ==
    /\ task.at = "restore" /\ CopyStep(root, snap)
    /\ UNCHANGED <<snapSetup, snap, writing, touched, doubtful, kept, begun>>

Restored ==
    /\ task.at = "restore" /\ CopiedAll
    /\ task' = Quiet
    /\ UNCHANGED <<snapSetup, root, snap, writing, touched, doubtful, kept, begun>>

\* drop_cube_variables: the arrays, ...
Drop(vs) ==
    /\ Call("drop", vs) /\ vs # {}
    /\ UNCHANGED <<snapSetup, root, snap, writing, touched, doubtful, kept>>

DropFile(f) ==
    /\ task.at = "drop" /\ f[1] \in task.todo /\ root.data[f] # 0
    /\ root' = [root EXCEPT !.data[f] = 0]
    /\ UNCHANGED <<snapSetup, snap, writing, task, touched, doubtful, kept, begun>>

\* Mutated form: the rows stay.
DropNoRows ==
    /\ task.at = "drop" /\ task.todo \cap Arrays(root) = {}
    /\ task' = Quiet
    /\ UNCHANGED <<snapSetup, root, snap, writing, touched, doubtful, kept, begun>>

\* ... then the rows, which are of none if the iterable is exhausted.
DropRows ==
    /\ task.at = "drop" /\ task.todo \cap Arrays(root) = {}
    /\ root' = IF snapSetup.generator \/ "catalog" \notin root.has THEN root
               ELSE [root EXCEPT !.rows = [v \in SnapVars |-> IF v \in task.todo THEN 0 ELSE @[v]]]
    /\ task' = Quiet
    /\ UNCHANGED <<snapSetup, snap, writing, touched, doubtful, kept, begun>>

\* The writer may die, the call, or both.
SnapDies ==
    /\ snapSetup.dies /\ (task # Quiet \/ writing # {})
    /\ task' \in {task, Quiet} /\ writing' \in {writing, {}}
    /\ UNCHANGED <<snapSetup, root, snap, touched, doubtful, kept, begun>>

\* What a removal of a tree leaves when the process dies in it.
Remains(tree) ==
    {[data |-> [f \in SnapFiles |-> IF "cube" \in has /\ f \in files THEN tree.data[f] ELSE 0],
      rows |-> IF "catalog" \in has THEN tree.rows ELSE NoRows,
      has |-> has] : has \in SUBSET tree.has, files \in SUBSET SnapFiles}

\* A death while save or restore removes what is in its place.
RemovalDies ==
    /\ snapSetup.dies /\ task = Quiet
    /\ \/ /\ root # Empty /\ (writing = {} \/ snapSetup.writes)
          /\ snap' \in Remains(snap) /\ kept' = {} /\ root' = root
       \/ /\ {"grid", "cube"} \subseteq snap.has /\ writing = {}
          /\ root' \in Remains(root) /\ UNCHANGED <<snap, kept>>
    /\ begun < snapSetup.calls /\ begun' = begun + 1
    /\ UNCHANGED <<snapSetup, writing, task, touched, doubtful>>

SnapNext ==
    \/ \E v \in SnapVars : \/ \E n \in 1 .. SnapVersions[v] : WriteArray(v, n)
                           \/ WriteRow(v)
    \/ \E f \in SnapFiles : EraseFile(f) \/ WriteFile(f) \/ DropFile(f)
    \/ \E overwrite \in BOOLEAN : Save(overwrite) \/ Restore(overwrite)
    \/ CopyToSnapshot \/ CopyToRoot \/ Saved \/ Restored \/ DropRows \/ SnapDies \/ RemovalDies
    \/ \E vs \in SUBSET SnapVars : Drop(vs)

SnapSpec == SnapInit /\ [][SnapNext]_snapVars

-----------------------------------------------------------------------------
VersionsOK(tree) ==
    /\ tree.data \in [SnapFiles -> Nat] /\ \A f \in SnapFiles : tree.data[f] <= SnapVersions[f[1]]
    /\ tree.rows \in [SnapVars -> Nat] /\ \A v \in SnapVars : tree.rows[v] <= SnapVersions[v]

\* Types; a directory that is being copied is not entered again.
SnapTypeOK ==
    /\ \A tree \in {root, snap} \cup kept : VersionsOK(tree) /\ tree.has \subseteq TopLevel
    /\ Cardinality(kept) <= 1 /\ Cardinality(writing) <= 1
    /\ touched \subseteq SnapVars /\ doubtful \subseteq SnapVars
    /\ task.at \in {"idle", "save", "restore", "drop"} /\ task.todo \subseteq TopLevel \cup SnapVars
    /\ task.cube \subseteq SnapVars /\ task.files \subseteq SnapFiles
    /\ (task.cube \cup task.files # {} => "cube" \notin task.todo)

\* A finished snapshot has every variable that no writer changed while it was made
\* as the cube had it (all of them, when nothing wrote), and stays so through
\* deaths, drops and restores until a save replaces it.
SnapshotIsFaithful ==
    \A tree \in kept :
        /\ snap.has = tree.has
        /\ \A v \in SnapVars \ touched :
             snap.rows[v] = tree.rows[v] /\ \A f \in FilesOf(v) : snap.data[f] = tree.data[f]
        /\ ~snapSetup.writes => touched = {}

\* When a restore ends the cube is the snapshot's and nothing else, also when an
\* earlier restore, or anything else, died half-way in the same directory.
RestoredIsTheSnapshot == (task.at = "restore" /\ CopiedAll) => root = snap

\* A finished snapshot has no row that claims more than its array, but of variables
\* that were so in the cube when the save began, that a writer erased to write them
\* anew while it was made, or, if the directory gave the arrays before the catalog,
\* of any: an array that is only added to the cube beside a save does no harm when
\* the catalog comes first.
CatalogFirstIsSound == kept # {} => Torn(snap) \subseteq doubtful

\* Between calls and writes no variable's row claims more than its array, unless a
\* process died, a save met a writer, or drop was given a one-shot iterable.
NoClaimWithoutArray ==
    ~(snapSetup.dies \/ snapSetup.writes \/ snapSetup.generator) /\ task = Quiet /\ writing = {}
    => Torn(root) = {}

\* A snapshot is one state of what nobody wrote meanwhile, a restore brings back
\* that state, and neither of them nor a drop makes the catalog claim what is not
\* there but in the cases named (snapshot.py:58-148, store.py:44-133).
SnapshotsAreSound == SnapshotIsFaithful /\ RestoredIsTheSnapshot /\ CatalogFirstIsSound /\ NoClaimWithoutArray
=============================================================================
