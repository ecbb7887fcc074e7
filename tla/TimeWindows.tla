----------------------------- MODULE TimeWindows -----------------------------
(***************************************************************************)
(* Time series in the cube: what satisfies() answers for a request with a  *)
(* time window, and what the cube then returns for that window.            *)
(*                                                                         *)
(* A step of the runner asks satisfies() for both outputs of the ERA5 wind *)
(* driver (engine/scheduler.py, engine/adapters.py, cube/store.py), skips  *)
(* it or lets it fetch (drivers/era5_wind.py), which goes through a file   *)
(* of its own per window and then writes speed and direction with          *)
(* write_3d; a consumer reads the window with read_3d_window.  Requests    *)
(* follow each other with windows the user chooses.  A write may raise, or *)
(* the process die, at any step.                                           *)
(*                                                                         *)
(* Time is counted in ticks, HourTicks to an hour and DayTicks to a day.   *)
(* Arrays are left out: an hour is on the time axis or it is not.          *)
(***************************************************************************)
EXTENDS Integers, FiniteSets

CONSTANTS Horizon,   \* bound: the last tick
          HourTicks,
          DayTicks,
          Setups     \* what may be asked, and what may go wrong

Ticks == 0 .. Horizon
Hours == {t \in Ticks : t % HourTicks = 0}
Windows == {w \in [start : Ticks, end : Ticks] : w.start < w.end}

ASSUME TimeAssumption ==
    /\ Horizon \in Nat
    /\ HourTicks \in Nat \ {0}
    /\ DayTicks \in Nat \ {0} /\ DayTicks % HourTicks = 0
    /\ Setups \subseteq [windows : SUBSET Windows,
                         lastHour : Hours,       \* the last hour ERA5 has
                         forced : BOOLEAN,       \* requests may have force set
                         dies : BOOLEAN,         \* the process may die
                         raises : Nat]           \* bound: writes that raise
    /\ \A s \in Setups : \A w \in s.windows : w.start <= s.lastHour

VARIABLES setup,
          axis,       \* variable -> hours on its Zarr's time axis, or Gone
          registered, \* variables in the catalog
          rows,       \* variable -> hours with a row in the catalog's tiles
          file,       \* window -> the driver's npz: none, torn or whole
          phase,      \* where the step is
          window,     \* the window asked for
          cached,     \* the arrays come from the npz
          output,     \* the variable being written
          writing,    \* where write_3d is
          added,      \* hours whose rows it has added
          raised      \* writes that have raised

cube == <<axis, registered, rows>>
step == <<window, cached, output, writing, added>>
vars == <<setup, cube, file, phase, step, raised>>

Gone == {}    \* an array that has been written is never empty
Vars == {"speed", "direction"}
Phases == {"idle", "load", "open", "save", "write", "ok", "skipped", "error"}
WriteSteps == {"erase", "array", "register", "rows", "insert"}

Init ==
    /\ setup \in Setups
    /\ axis = [v \in Vars |-> Gone]
    /\ registered = {}
    /\ rows = [v \in Vars |-> {}]
    /\ file = [w \in setup.windows |-> "none"]
    /\ phase = "idle"
    /\ window \in setup.windows
    /\ cached = FALSE
    /\ output = "speed" /\ writing = "erase" /\ added = {}
    /\ raised = 0

-----------------------------------------------------------------------------
(* --- the window ---------------------------------------------------------- *)

Floor(t) == t - (t % HourTicks)
Day(t) == t \div DayTicks

\* Mutated form: without the hour added when both ends are in the same one.
LastAskedFloor(w) == Floor(w.end)

\* Mutated form: the first hour rounded up.
FirstAskedCeiling(w) == Floor(w.start + HourTicks - 1)

FirstAsked(w) == Floor(w.start)
LastAsked(w) == IF Floor(w.end) <= w.start THEN Floor(w.end) + HourTicks ELSE Floor(w.end)

\* Mutated form: the hours asked for, had or not.
FetchedAsAsked(w) == {h \in Hours : FirstAsked(w) <= h /\ h <= LastAsked(w)}

\* The time axis ERA5 gives for a window: sel(time=slice(t0, t1)) has both ends.
Fetched(w) == {h \in Hours : FirstAsked(w) <= h /\ h <= LastAsked(w) /\ h <= setup.lastHour}

\* The hours inside a window that ERA5 has; its end is exclusive.
Needed(w) == {h \in Hours : w.start <= h /\ h < w.end /\ h <= setup.lastHour}

-----------------------------------------------------------------------------
(* --- the cube ------------------------------------------------------------ *)

\* Mutated form: any hour on the last day, or any before the start, will do.
SatisfiesEither(v, w) ==
    /\ v \in registered
    /\ \E h \in rows[v] : h <= w.start \/ Day(h) >= Day(w.end - 1)

\* satisfies(): the least row is not after the start, and the latest is on the
\* day of the last moment of the window or later.
Satisfies(v, w) ==
    /\ v \in registered
    /\ \E h \in rows[v] : h <= w.start
    /\ \E h \in rows[v] : Day(h) >= Day(w.end - 1)

\* Mutated form: one output is enough.
AnySatisfied(w) == \E v \in Vars : Satisfies(v, w)

AlreadySatisfied(w) == \A v \in Vars : Satisfies(v, w)

\* read_3d_window: inclusive at both ends; there must be a Zarr to open.
Read(v, w) == IF axis[v] = Gone THEN {} ELSE {h \in axis[v] : w.start <= h /\ h <= w.end}

-----------------------------------------------------------------------------
(* --- the step ------------------------------------------------------------ *)

Ask(w, force) ==
    /\ phase = "idle" /\ w \in setup.windows /\ (force => setup.forced)
    /\ phase' = IF ~force /\ AlreadySatisfied(w) THEN "skipped" ELSE "load"
    /\ window' = w
    /\ UNCHANGED <<setup, cube, file, cached, output, writing, added, raised>>

StartWriting(fromFile) ==
    /\ phase' = "write" /\ cached' = fromFile
    /\ output' = "speed" /\ writing' = "erase"
    /\ UNCHANGED <<window, added>>

\* A torn file does not load, and is fetched again.
LoadFile ==
    /\ phase = "load"
    /\ \/ file[window] = "whole" /\ StartWriting(TRUE)
       \/ file[window] # "whole" /\ phase' = "open" /\ UNCHANGED step
    /\ UNCHANGED <<setup, cube, file, raised>>

\* np.savez writes in place.
Fetch ==
    /\ phase = "open"
    /\ phase' = "save"
    /\ file' = [file EXCEPT ![window] = "torn"]
    /\ UNCHANGED <<setup, cube, step, raised>>

SaveFile ==
    /\ phase = "save"
    /\ file' = [file EXCEPT ![window] = "whole"]
    /\ StartWriting(FALSE)
    /\ UNCHANGED <<setup, cube, raised>>

\* No attempt to open the store succeeds, or reading it fails.
CannotFetch ==
    /\ phase = "open"
    /\ phase' \in {"load", "error"}
    /\ UNCHANGED <<setup, cube, file, step, raised>>

\* write_3d: to_zarr with mode "w" removes what is there, ...
EraseZarr ==
    /\ phase = "write" /\ writing = "erase"
    /\ axis' = [axis EXCEPT ![output] = Gone]
    /\ writing' = "array"
    /\ UNCHANGED <<setup, registered, rows, file, phase, window, cached, output, added, raised>>

\* ... writes the new array, ...
WriteZarr ==
    /\ phase = "write" /\ writing = "array"
    /\ axis' = [axis EXCEPT ![output] = Fetched(window)]
    /\ writing' = "register"
    /\ UNCHANGED <<setup, registered, rows, file, phase, window, cached, output, added, raised>>

\* ... then the variable is registered, ...
Register ==
    /\ phase = "write" /\ writing = "register"
    /\ registered' = registered \cup {output}
    /\ writing' = "rows" /\ added' = {}
    /\ UNCHANGED <<setup, axis, rows, file, phase, window, cached, output, raised>>

\* ... and each hour gets its row, in order: add_tile deletes, ...
DeleteRow ==
    /\ phase = "write" /\ writing = "rows"
    /\ \E h \in Fetched(window) \ added :
          /\ \A g \in Fetched(window) \ added : h <= g
          /\ rows' = [rows EXCEPT ![output] = @ \ {h}]
          /\ added' = added \cup {h}
    /\ writing' = "insert"
    /\ UNCHANGED <<setup, axis, registered, file, phase, window, cached, output, raised>>

\* ... and inserts the one row of `added` that is not there.  Rows of hours that
\* are no longer on the axis stay.
InsertRow ==
    /\ phase = "write" /\ writing = "insert"
    /\ rows' = [rows EXCEPT ![output] = @ \cup added]
    /\ writing' = "rows"
    /\ UNCHANGED <<setup, axis, registered, file, phase, window, cached, output, added, raised>>

Written == phase = "write" /\ writing = "rows" /\ added = Fetched(window)

NextOutput ==
    /\ Written /\ output = "speed"
    /\ output' = "direction" /\ writing' = "erase"
    /\ UNCHANGED <<setup, cube, file, phase, window, cached, added, raised>>

Finish ==
    /\ Written /\ output = "direction"
    /\ phase' = "ok"
    /\ UNCHANGED <<setup, cube, file, step, raised>>

\* A write raises, up to the last row: arrays that came from the file are
\* fetched after all; otherwise the attempt is over, and retried or not.
WriteFails ==
    /\ phase \in {"save", "write"} /\ ~(Written /\ output = "direction")
    /\ raised < setup.raises /\ raised' = raised + 1
    /\ IF phase = "write" /\ cached THEN phase' = "open" ELSE phase' \in {"load", "error"}
    /\ UNCHANGED <<setup, cube, file, step>>

\* The next request comes when the step has ended, or in a new process.
End ==
    /\ phase \in {"ok", "skipped", "error"}
    /\ phase' = "idle"
    /\ UNCHANGED <<setup, cube, file, step, raised>>

Crash ==
    /\ setup.dies /\ phase # "idle"
    /\ phase' = "idle"
    /\ UNCHANGED <<setup, cube, file, step, raised>>

Next ==
    \/ \E w \in setup.windows, force \in BOOLEAN : Ask(w, force)
    \/ LoadFile \/ Fetch \/ SaveFile \/ CannotFetch
    \/ EraseZarr \/ WriteZarr \/ Register \/ DeleteRow \/ InsertRow
    \/ NextOutput \/ Finish
    \/ WriteFails \/ End \/ Crash

Spec == Init /\ [][Next]_vars

-----------------------------------------------------------------------------
(* --- properties ---------------------------------------------------------- *)

\* Every variable keeps its type, and what is on an axis ERA5 has.
TypeOK ==
    /\ axis \in [Vars -> SUBSET {h \in Hours : h <= setup.lastHour}]
    /\ registered \subseteq Vars
    /\ rows \in [Vars -> SUBSET {h \in Hours : h <= setup.lastHour}]
    /\ file \in [setup.windows -> {"none", "torn", "whole"}]
    /\ phase \in Phases
    /\ window \in setup.windows
    /\ cached \in BOOLEAN
    /\ output \in Vars /\ writing \in WriteSteps
    /\ added \subseteq {h \in Hours : h <= setup.lastHour}
    /\ raised \in 0 .. setup.raises

\* Once a step has succeeded or been skipped for a window, the cube returns, for
\* both variables, every hour of the window that ERA5 has: what satisfies()
\* reads in the catalog must be true of the Zarr ("requested time window is
\* covered", docs/system_design.md), also after processes that died, or a write
\* that raised, and with a file that was torn.
WindowServed ==
    phase \in {"ok", "skipped"} =>
        \A v \in Vars : axis[v] # Gone /\ Needed(window) \subseteq Read(v, window)

\* A step that has fetched a window to the day of its last moment leaves the
\* cube satisfied for it: the same request does not download it again
\* (satisfies() of cube/store.py against the rounding of era5_wind.py).
RerunIsSkipped ==
    phase = "ok" /\ Day(setup.lastHour) >= Day(window.end - 1) => AlreadySatisfied(window)
=============================================================================
