-------------------------- MODULE TimeWindowsProofs --------------------------
(***************************************************************************)
(* Theorems about TimeWindows, for every horizon and every length of hours *)
(* and days: types, whatever is asked and goes wrong; that one window,     *)
(* asked for again and again by processes that may die at any step, is     *)
(* served whole whenever a step is skipped or succeeds; and that a window  *)
(* once fetched is not fetched again.                                      *)
(***************************************************************************)
EXTENDS TimeWindows, TLAPS

\* Hours are the multiples of HourTicks.
LEMMA Division ==
    ASSUME NEW t \in Nat
    PROVE  \E k \in Nat, r \in 0 .. HourTicks - 1 : t = k * HourTicks + r /\ t % HourTicks = r
<1> DEFINE k == t \div HourTicks
           r == t % HourTicks
<1>1. k \in Int /\ r \in 0 .. HourTicks - 1 /\ t = k * HourTicks + r
  BY TimeAssumption
<1>2. k >= 0
  BY <1>1, TimeAssumption
<1> QED BY <1>1, <1>2

\* Rounding down to the hour.
LEMMA FloorIsHour ==
    ASSUME NEW t \in Nat
    PROVE  /\ Floor(t) \in Nat /\ Floor(t) <= t /\ t < Floor(t) + HourTicks
           /\ Floor(t) % HourTicks = 0
<1>1. PICK k \in Nat, r \in 0 .. HourTicks - 1 : t = k * HourTicks + r /\ t % HourTicks = r
  BY Division
<1>2. Floor(t) = k * HourTicks
  BY <1>1, TimeAssumption DEF Floor
<1>3. (k * HourTicks) % HourTicks = 0
  BY <1>1, TimeAssumption
<1> QED BY <1>1, <1>2, <1>3, TimeAssumption DEF Floor

\* No hour lies between a tick and the hour it is rounded down to.
LEMMA HourBelow ==
    ASSUME NEW t \in Nat, NEW h \in Nat, h % HourTicks = 0, h <= t
    PROVE  h <= Floor(t)
<1>1. PICK a \in Nat : h = a * HourTicks
  <2>1. PICK k \in Nat, r \in 0 .. HourTicks - 1 : h = k * HourTicks + r /\ h % HourTicks = r
    BY Division
  <2> QED BY <2>1, TimeAssumption
<1>2. PICK b \in Nat, r \in 0 .. HourTicks - 1 : t = b * HourTicks + r /\ Floor(t) = b * HourTicks
  <2>1. PICK k \in Nat, r \in 0 .. HourTicks - 1 : t = k * HourTicks + r /\ t % HourTicks = r
    BY Division
  <2> QED BY <2>1, TimeAssumption DEF Floor
<1>3. a * HourTicks < b * HourTicks + HourTicks
  BY <1>1, <1>2, TimeAssumption
<1>4. a <= b
  <2>1. SUFFICES ASSUME a >= b + 1 PROVE FALSE
    BY <1>1, <1>2
  <2>2. (a - b - 1) * HourTicks >= 0
    BY <2>1, <1>1, <1>2, TimeAssumption
  <2> QED BY <2>2, <1>3, TimeAssumption
<1>5. a * HourTicks <= b * HourTicks
  BY <1>4, TimeAssumption
<1> QED BY <1>1, <1>2, <1>5
-----------------------------------------------------------------------------
(* --- types --------------------------------------------------------------- *)

\* The types of all variables are an invariant, for requests of any windows,
\* forced or not, with any number of failures.
THEOREM WindowTypes == Spec => [](TypeOK /\ setup \in Setups)
<1> DEFINE Inv == TypeOK /\ setup \in Setups
<1>1. Init => Inv
  <2> SUFFICES ASSUME Init PROVE Inv
    OBVIOUS
  <2>1. raised \in 0 .. setup.raises
    BY TimeAssumption DEF Init
  <2> QED BY <2>1 DEF Init, TypeOK, Gone, Vars, Phases, WriteSteps
<1>2. Inv /\ [Next]_vars => Inv'
  <2> SUFFICES ASSUME Inv, [Next]_vars PROVE Inv'
    OBVIOUS
  <2> USE DEF Vars, Phases, WriteSteps
  <2>1. ASSUME NEW w \in setup.windows, NEW force \in BOOLEAN, Ask(w, force) PROVE Inv'
    BY <2>1 DEF Ask, TypeOK, cube
  <2>2. CASE LoadFile \/ SaveFile
    BY <2>2 DEF LoadFile, SaveFile, StartWriting, TypeOK, cube, step
  <2>3. CASE Fetch \/ CannotFetch \/ End \/ Crash
    BY <2>3 DEF Fetch, CannotFetch, End, Crash, TypeOK, cube, step
  <2>4. CASE EraseZarr
    BY <2>4 DEF EraseZarr, TypeOK, Gone
  <2>5. CASE WriteZarr
    BY <2>5 DEF WriteZarr, TypeOK, Fetched
  <2>6. CASE Register \/ NextOutput \/ Finish
    BY <2>6 DEF Register, NextOutput, Finish, TypeOK, cube, step
  <2>7. CASE DeleteRow
    BY <2>7 DEF DeleteRow, TypeOK, Fetched
  <2>8. CASE InsertRow
    BY <2>8 DEF InsertRow, TypeOK
  <2>9. CASE WriteFails
    <3>1. setup.raises \in Nat
      BY TimeAssumption
    <3> QED BY <2>9, <3>1 DEF WriteFails, TypeOK, cube, step
  <2>10. CASE UNCHANGED vars
    BY <2>10 DEF vars, cube, step, TypeOK
  <2> QED BY <2>1, <2>2, <2>3, <2>4, <2>5, <2>6, <2>7, <2>8, <2>9, <2>10 DEF Next
<1> QED BY <1>1, <1>2, PTL DEF Spec

-----------------------------------------------------------------------------
(* --- one window, and processes that die ---------------------------------- *)

\* Every user asks for one window only, does not force, and no write raises.
OneWindow == \A s \in Setups : ~s.forced /\ s.raises = 0 /\ \A u, w \in s.windows : u = w

Whole(v) == axis[v] = Fetched(window)

\* Rows are of hours fetched, and come after the registration.
RowsAreFetched ==
    /\ added \subseteq Fetched(window)
    /\ \A v \in Vars : rows[v] \subseteq Fetched(window) /\ (rows[v] # {} => v \in registered)

\* All of speed is there before direction is begun, and while it satisfies.
SpeedFirst ==
    Satisfies("direction", window) \/ (phase = "write" /\ output = "direction") =>
        Fetched(window) \subseteq rows["speed"] /\ "speed" \in registered

\* When satisfies() is true of direction, which is written last, both arrays
\* are there, and no step that would erase them is under way.
SatisfiedIsWhole ==
    Satisfies("direction", window) =>
        /\ \A v \in Vars : Whole(v)
        /\ phase \notin {"load", "open", "save"}
        /\ phase = "write" => output = "direction" /\ writing \in {"rows", "insert"}

\* What write_3d has done so far.
WriteProgress ==
    phase = "write" =>
        /\ writing \in {"register", "rows", "insert"} => Whole(output)
        /\ writing \in {"rows", "insert"} => output \in registered
        /\ writing = "rows" => added \subseteq rows[output]
        /\ output = "direction" => Whole("speed")

EndsServed ==
    /\ phase = "ok" => \A v \in Vars : Whole(v)
    /\ phase = "skipped" => AlreadySatisfied(window)

Served == RowsAreFetched /\ SpeedFirst /\ SatisfiedIsWhole /\ WriteProgress /\ EndsServed

Typed == TypeOK /\ setup \in Setups
\* A window's hours were all fetched for it: rounding loses none.
LEMMA NeededIsFetched ==
    ASSUME TypeOK, setup \in Setups
    PROVE  /\ Needed(window) \subseteq Fetched(window)
           /\ Fetched(window) # {}
<1>1. window.start \in Nat /\ window.end \in Nat /\ window.start < window.end
      /\ window.end <= Horizon /\ window.start <= setup.lastHour
  BY TimeAssumption DEF TypeOK, Windows, Ticks
<1>2. setup.lastHour \in Nat
  BY TimeAssumption DEF Hours, Ticks
<1>3. Needed(window) \subseteq Fetched(window)
  <2> SUFFICES ASSUME NEW h \in Needed(window) PROVE h \in Fetched(window)
    OBVIOUS
  <2>1. h \in Nat /\ h % HourTicks = 0 /\ window.start <= h /\ h < window.end
    BY <1>1 DEF Needed, Hours, Ticks
  <2>2. FirstAsked(window) <= h
    BY <1>1, <2>1, FloorIsHour DEF FirstAsked
  <2>3. h <= LastAsked(window)
    <3>1. h <= Floor(window.end) /\ Floor(window.end) \in Nat
      BY <1>1, <2>1, HourBelow, FloorIsHour
    <3> QED BY <3>1, <2>1, TimeAssumption DEF LastAsked
  <2> QED BY <2>2, <2>3 DEF Fetched, Needed
<1>4. FirstAsked(window) \in Fetched(window)
  <2>1. FirstAsked(window) \in Nat /\ FirstAsked(window) <= window.start
        /\ FirstAsked(window) % HourTicks = 0
    BY <1>1, FloorIsHour DEF FirstAsked
  <2>2. FirstAsked(window) <= LastAsked(window)
    <3>1. Floor(window.end) \in Nat /\ window.end < Floor(window.end) + HourTicks
      BY <1>1, FloorIsHour
    <3> QED BY <1>1, <2>1, <3>1, TimeAssumption DEF LastAsked
  <2> QED BY <1>1, <1>2, <2>1, <2>2, TimeAssumption DEF Fetched, Hours, Ticks
<1> QED BY <1>3, <1>4

\* Rows that satisfies() finds for direction it finds for speed as well.
LEMMA DirectionThenSpeed ==
    ASSUME RowsAreFetched, SpeedFirst, Satisfies("direction", window)
    PROVE  AlreadySatisfied(window)
<1>1. Fetched(window) \subseteq rows["speed"] /\ "speed" \in registered
  BY DEF SpeedFirst, Satisfies
<1>2. rows["direction"] \subseteq rows["speed"]
  BY <1>1 DEF RowsAreFetched, Vars
<1>3. Satisfies("speed", window)
  BY <1>1, <1>2 DEF Satisfies
<1> QED BY <1>3 DEF AlreadySatisfied, Vars

\* Nothing else asks for another window.
LEMMA SameWindow ==
    ASSUME OneWindow, Typed, Typed', [Next]_vars
    PROVE  /\ window' = window /\ setup' = setup /\ setup.raises = 0 /\ ~setup.forced
           /\ Fetched(window)' = Fetched(window)
<1>1. setup' = setup
  BY DEF Next, vars, Ask, LoadFile, Fetch, SaveFile, CannotFetch, EraseZarr, WriteZarr, Register,
         DeleteRow, InsertRow, NextOutput, Finish, WriteFails, End, Crash
<1>2. window' = window
  BY <1>1 DEF OneWindow, Typed, TypeOK
<1> QED BY <1>1, <1>2 DEF Fetched, OneWindow, Typed

LEMMA ServedStep == ASSUME OneWindow, Typed, Typed', Served, [Next]_vars PROVE Served'
<1>0. /\ window' = window /\ setup' = setup /\ setup.raises = 0 /\ ~setup.forced
      /\ Fetched(window)' = Fetched(window)
  BY SameWindow
<1>1. Fetched(window) # {} /\ phase \in Phases /\ output \in Vars
  BY NeededIsFetched DEF Typed, TypeOK
<1>2. Satisfies("direction", window) => AlreadySatisfied(window)
  BY DirectionThenSpeed DEF Served
<1> DEFINE Kept == UNCHANGED <<axis, registered, rows, added>>
<1>3. ASSUME Kept PROVE RowsAreFetched' /\ (Satisfies("direction", window)' <=> Satisfies("direction", window))
                        /\ (AlreadySatisfied(window)' <=> AlreadySatisfied(window))
                        /\ \A v \in Vars : Whole(v)' <=> Whole(v)
  BY <1>0, <1>3 DEF Served, RowsAreFetched, Satisfies, AlreadySatisfied, Whole
<1>4. ASSUME NEW w \in setup.windows, NEW force \in BOOLEAN, Ask(w, force) PROVE Served'
  <2>1. w = window /\ ~force /\ Kept /\ output' = output /\ writing' = writing
    BY <1>4, <1>0 DEF Ask, cube
  <2>2. phase' = IF AlreadySatisfied(window) THEN "skipped" ELSE "load"
    BY <1>4, <2>1 DEF Ask
  <2>3. RowsAreFetched' /\ WriteProgress' /\ EndsServed' /\ SpeedFirst'
    BY <1>0, <1>3, <2>1, <2>2 DEF Served, WriteProgress, EndsServed, SpeedFirst
  <2>4. SatisfiedIsWhole'
    BY <1>0, <1>2, <1>3, <2>1, <2>2 DEF Served, SatisfiedIsWhole
  <2> QED BY <2>3, <2>4 DEF Served
<1>5. CASE LoadFile \/ Fetch \/ SaveFile \/ CannotFetch
  <2>1. Kept /\ phase \in {"load", "open", "save"} /\ phase' \in {"load", "open", "save", "write", "error"}
    BY <1>5 DEF LoadFile, Fetch, SaveFile, StartWriting, CannotFetch, cube, step
  <2>2. phase' = "write" => output' = "speed" /\ writing' = "erase"
    BY <1>5 DEF LoadFile, Fetch, SaveFile, StartWriting, CannotFetch
  <2>3. ~Satisfies("direction", window)
    BY <2>1 DEF Served, SatisfiedIsWhole
  <2>4. SpeedFirst' /\ WriteProgress' /\ EndsServed'
    BY <1>0, <1>3, <2>1, <2>2 DEF Served, SpeedFirst, WriteProgress, EndsServed
  <2> QED BY <1>3, <2>1, <2>3, <2>4 DEF Served, SatisfiedIsWhole
<1>6. CASE EraseZarr
  <2>1. ~Satisfies("direction", window) /\ phase' = "write" /\ output' = output /\ writing' = "array"
    BY <1>6 DEF EraseZarr, Served, SatisfiedIsWhole
  <2>2. registered' = registered /\ rows' = rows
    BY <1>6 DEF EraseZarr
  <2>3. ~Satisfies("direction", window)'
    BY <1>0, <2>1, <2>2 DEF Satisfies
  <2>4. output = "direction" => Whole("speed")'
    BY <1>0, <1>6 DEF EraseZarr, Served, WriteProgress, Whole, Vars
  <2> QED BY <1>0, <1>6, <2>1, <2>2, <2>3, <2>4
       DEF Served, RowsAreFetched, SpeedFirst, SatisfiedIsWhole, WriteProgress, EndsServed, EraseZarr
<1>7. CASE WriteZarr
  <2>1. ~Satisfies("direction", window) /\ phase' = "write" /\ output' = output /\ writing' = "register"
    BY <1>7 DEF WriteZarr, Served, SatisfiedIsWhole
  <2>2. registered' = registered /\ rows' = rows
    BY <1>7 DEF WriteZarr
  <2>3. ~Satisfies("direction", window)'
    BY <1>0, <2>1, <2>2 DEF Satisfies
  <2>4. Whole(output)' /\ (output = "direction" => Whole("speed")')
    BY <1>0, <1>1, <1>7, <2>1 DEF WriteZarr, Served, WriteProgress, Whole, Vars, Typed, TypeOK
  <2> QED BY <1>0, <1>7, <2>1, <2>2, <2>3, <2>4
       DEF Served, RowsAreFetched, SpeedFirst, SatisfiedIsWhole, WriteProgress, EndsServed, WriteZarr
<1>8. CASE Register
  <2>1. phase' = "write" /\ output' = output /\ writing' = "rows" /\ axis' = axis /\ rows' = rows
        /\ registered' = registered \cup {output} /\ writing = "register" /\ phase = "write"
        /\ added' = {}
    BY <1>8 DEF Register
  <2>2. ~Satisfies("direction", window)
    BY <2>1 DEF Served, SatisfiedIsWhole
  <2>3. ~Satisfies("direction", window)'
    BY <1>0, <2>1, <2>2 DEF Satisfies, Served, RowsAreFetched, Vars
  <2>4. \A v \in Vars : Whole(v)' <=> Whole(v)
    BY <1>0, <2>1 DEF Whole
  <2> QED BY <1>0, <1>1, <2>1, <2>3, <2>4
       DEF Served, RowsAreFetched, SpeedFirst, SatisfiedIsWhole, WriteProgress, EndsServed, Vars
<1>9. CASE DeleteRow \/ InsertRow
  <2>1. /\ phase = "write" /\ phase' = "write" /\ output' = output /\ axis' = axis
        /\ registered' = registered
        /\ writing \in {"rows", "insert"} /\ writing' \in {"rows", "insert"}
    BY <1>9 DEF DeleteRow, InsertRow
  <2>2. rows'[output] \subseteq rows[output] \cup added /\ added' \subseteq Fetched(window)
    BY <1>1, <1>9 DEF DeleteRow, InsertRow, Typed, TypeOK, Served, RowsAreFetched
  <2>3. \A v \in Vars \ {output} : rows'[v] = rows[v]
    BY <1>9 DEF DeleteRow, InsertRow, Typed, TypeOK
  <2>4. \A v \in Vars : Whole(v)' <=> Whole(v)
    BY <1>0, <2>1 DEF Whole
  <2>5. RowsAreFetched'
    BY <1>0, <2>1, <2>2, <2>3 DEF Served, RowsAreFetched, WriteProgress
  <2>6. writing' = "rows" => added' \subseteq rows'[output]
    BY <1>1, <1>9 DEF DeleteRow, InsertRow, Typed, TypeOK
  <2>7. CASE output = "direction"
    <3>1. SpeedFirst'
      BY <1>0, <2>1, <2>3, <2>7 DEF Served, SpeedFirst, Vars
    <3>2. \A v \in Vars : Whole(v)
      BY <2>1, <2>7 DEF Served, WriteProgress, Whole, Vars
    <3>3. SatisfiedIsWhole'
      BY <2>1, <2>4, <2>7, <3>2 DEF SatisfiedIsWhole, Phases
    <3>4. WriteProgress'
      BY <1>0, <2>1, <2>6, <2>7, <3>2 DEF Served, WriteProgress, Whole, Vars
    <3> QED BY <2>1, <2>5, <3>1, <3>3, <3>4 DEF Served, EndsServed
  <2>8. CASE output = "speed"
    <3>1. ~Satisfies("direction", window)
      BY <2>1, <2>8 DEF Served, SatisfiedIsWhole
    <3>2. rows'["direction"] = rows["direction"]
      BY <2>3, <2>8 DEF Vars
    <3>3. ~Satisfies("direction", window)'
      BY <1>0, <2>1, <3>1, <3>2 DEF Satisfies
    <3> QED BY <1>1, <2>1, <2>4, <2>5, <2>6, <2>8, <3>3
         DEF Served, SpeedFirst, SatisfiedIsWhole, WriteProgress, EndsServed
  <2> QED BY <1>1, <2>7, <2>8 DEF Vars
<1>10. CASE NextOutput
  <2>1. Kept /\ phase = "write" /\ phase' = "write" /\ output = "speed" /\ output' = "direction"
        /\ writing = "rows" /\ writing' = "erase" /\ added' = added
        /\ Fetched(window) \subseteq rows["speed"]
    BY <1>10 DEF NextOutput, Written, cube, Served, WriteProgress
  <2>2. ~Satisfies("direction", window)
    BY <2>1 DEF Served, SatisfiedIsWhole
  <2>3. "speed" \in registered /\ Whole("speed")
    BY <2>1 DEF Served, WriteProgress
  <2> QED BY <1>0, <1>3, <2>1, <2>2, <2>3
       DEF Served, SpeedFirst, SatisfiedIsWhole, WriteProgress, EndsServed, Vars
<1>11. CASE Finish
  <2>1. Kept /\ phase = "write" /\ phase' = "ok" /\ output = "direction" /\ writing = "rows"
    BY <1>11 DEF Finish, Written, cube, step
  <2>2. \A v \in Vars : Whole(v)
    BY <2>1 DEF Served, WriteProgress, Vars
  <2> QED BY <1>0, <1>3, <2>1, <2>2
       DEF Served, SpeedFirst, SatisfiedIsWhole, WriteProgress, EndsServed
<1>12. CASE WriteFails
  BY <1>0, <1>12 DEF WriteFails, Typed, TypeOK
<1>13. CASE End \/ Crash
  <2>1. Kept /\ phase' = "idle"
    BY <1>13 DEF End, Crash, cube, step
  <2> QED BY <1>0, <1>3, <2>1 DEF Served, SpeedFirst, SatisfiedIsWhole, WriteProgress, EndsServed
<1>14. CASE UNCHANGED vars
  <2>1. Kept /\ phase' = phase /\ output' = output /\ writing' = writing
    BY <1>14 DEF vars, cube, step
  <2> QED BY <1>0, <1>1, <1>3, <2>1
       DEF Served, SpeedFirst, SatisfiedIsWhole, WriteProgress, EndsServed, Vars
<1> QED BY <1>4, <1>5, <1>6, <1>7, <1>8, <1>9, <1>10, <1>11, <1>12, <1>13, <1>14 DEF Next

\* Asked for one window, by processes that may die at any step, a step that is
\* skipped or succeeds leaves both variables with every hour of it.
THEOREM OneWindowServed == ASSUME OneWindow PROVE Spec => []WindowServed
<1>1. Init => Served
  BY DEF Init, Served, RowsAreFetched, SpeedFirst, SatisfiedIsWhole, WriteProgress, EndsServed,
         Satisfies, Vars
<1>2. Typed /\ Typed' /\ Served /\ [Next]_vars => Served'
  BY ServedStep
<1>3. Typed /\ Served => WindowServed
  <2> SUFFICES ASSUME Typed, Served, phase \in {"ok", "skipped"}, NEW v \in Vars
               PROVE  axis[v] # Gone /\ Needed(window) \subseteq Read(v, window)
    BY DEF WindowServed
  <2>1. Whole(v)
    BY DEF Served, EndsServed, AlreadySatisfied, SatisfiedIsWhole, Vars
  <2>2. \A h \in Needed(window) : window.start <= h /\ h <= window.end
    BY TimeAssumption DEF Needed, Typed, TypeOK, Windows, Hours, Ticks
  <2> QED BY <2>1, <2>2, NeededIsFetched DEF Typed, Whole, Read, Gone
<1>4. Spec => []Typed
  BY WindowTypes DEF Typed
<1> QED BY <1>1, <1>2, <1>3, <1>4, PTL DEF Spec
-----------------------------------------------------------------------------
(* --- what was fetched is not fetched again -------------------------------- *)

Listed(v) == v \in registered /\ Fetched(window) \subseteq rows[v]

\* The rows a step has added so far, and all of them when it is done.
RowsSoFar ==
    /\ phase = "write" =>
         /\ writing \in {"rows", "insert"} => output \in registered /\ added \subseteq Fetched(window)
         /\ writing = "rows" => added \subseteq rows[output]
         /\ output = "direction" => Listed("speed")
    /\ phase = "ok" => \A v \in Vars : Listed(v)

LEMMA RowsStep == ASSUME TypeOK, RowsSoFar, [Next]_vars PROVE RowsSoFar'
<1>1. ASSUME NEW w \in setup.windows, NEW force \in BOOLEAN, Ask(w, force) PROVE RowsSoFar'
  BY <1>1 DEF Ask, RowsSoFar
<1>2. CASE LoadFile \/ SaveFile
  <2>1. phase' # "ok" /\ (phase' = "write" => writing' = "erase" /\ output' = "speed")
    BY <1>2 DEF LoadFile, SaveFile, StartWriting
  <2> QED BY <2>1 DEF RowsSoFar
<1>3. CASE Fetch \/ CannotFetch \/ WriteFails \/ End \/ Crash
  BY <1>3 DEF Fetch, CannotFetch, WriteFails, End, Crash, RowsSoFar
<1>4. CASE EraseZarr \/ WriteZarr
  BY <1>4 DEF EraseZarr, WriteZarr, RowsSoFar, Listed, Fetched
<1>5. CASE Register
  BY <1>5 DEF Register, RowsSoFar, Listed, Fetched, TypeOK
<1>6. CASE DeleteRow
  <2>1. /\ phase = "write" /\ phase' = phase /\ writing' = "insert" /\ UNCHANGED <<setup, registered, window, output>>
        /\ added' \subseteq added \cup Fetched(window) /\ writing = "rows"
        /\ output = "direction" => rows'["speed"] = rows["speed"]
    BY <1>6 DEF DeleteRow, TypeOK
  <2> QED BY <2>1 DEF RowsSoFar, Listed, Fetched
<1>7. CASE InsertRow
  <2>1. /\ phase = "write" /\ phase' = phase /\ writing = "insert" /\ writing' = "rows"
        /\ UNCHANGED <<setup, registered, window, output, added>>
        /\ added \subseteq rows'[output] /\ \A v \in Vars : rows[v] \subseteq rows'[v]
    BY <1>7 DEF InsertRow, TypeOK
  <2> QED BY <2>1 DEF RowsSoFar, Listed, Fetched, Vars
<1>8. CASE NextOutput
  BY <1>8 DEF NextOutput, Written, cube, RowsSoFar, Listed, Fetched
<1>9. CASE Finish
  BY <1>9 DEF Finish, Written, cube, step, RowsSoFar, Listed, Fetched, Vars
<1>10. CASE UNCHANGED vars
  BY <1>10 DEF vars, cube, step, RowsSoFar, Listed, Fetched
<1> QED BY <1>1, <1>2, <1>3, <1>4, <1>5, <1>6, <1>7, <1>8, <1>9, <1>10 DEF Next

LEMMA ProductType == ASSUME NEW a \in Nat, NEW b \in Nat PROVE a * b \in Nat
OBVIOUS

LEMMA ProductAssociates ==
    ASSUME NEW a \in Nat, NEW b \in Nat, NEW c \in Nat PROVE a * (b * c) = (a * b) * c
OBVIOUS

LEMMA MultipleIsHour ==
    ASSUME NEW n \in Nat
    PROVE  (n * HourTicks) % HourTicks = 0
<1>1. n * HourTicks = n * HourTicks + 0 /\ 0 \in 0 .. HourTicks - 1
  BY TimeAssumption
<1> QED BY <1>1, TimeAssumption

LEMMA NextHour ==
    ASSUME NEW h \in Nat, h % HourTicks = 0
    PROVE  (h + HourTicks) % HourTicks = 0
<1>1. PICK k \in Nat, r \in 0 .. HourTicks - 1 : h = k * HourTicks + r /\ h % HourTicks = r
  BY Division
<1>2. h = k * HourTicks
  BY <1>1, TimeAssumption
<1>3. h + HourTicks = (k + 1) * HourTicks
  BY <1>2, TimeAssumption
<1> QED BY <1>3, MultipleIsHour

\* Days begin on the hour, so rounding down to the hour stays within the day.
LEMMA FloorKeepsDay ==
    ASSUME NEW t \in Nat
    PROVE  Day(Floor(t)) >= Day(t)
<1>1. PICK d \in Nat : d = t \div DayTicks /\ d * DayTicks <= t
  BY TimeAssumption
<1>2. PICK k \in Nat : DayTicks = k * HourTicks
  <2>1. PICK k \in Nat, r \in 0 .. HourTicks - 1 : DayTicks = k * HourTicks + r /\ DayTicks % HourTicks = r
    BY Division, TimeAssumption
  <2> QED BY <2>1, TimeAssumption
<1>3. d * DayTicks \in Nat /\ (d * DayTicks) % HourTicks = 0
  <2>1. d * k \in Nat /\ d * DayTicks \in Nat
    BY <1>1, <1>2, TimeAssumption, ProductType
  <2>2. d * (k * HourTicks) = (d * k) * HourTicks
    BY <1>1, <1>2, TimeAssumption, ProductAssociates
  <2>3. ((d * k) * HourTicks) % HourTicks = 0
    BY <2>1, MultipleIsHour
  <2>4. d * DayTicks = d * (k * HourTicks)
    BY <1>2
  <2> QED BY <2>1, <2>2, <2>3, <2>4
<1>4. d * DayTicks <= Floor(t) /\ Floor(t) \in Nat
  BY <1>1, <1>3, HourBelow, FloorIsHour
<1>5. Floor(t) \div DayTicks >= d
  BY <1>1, <1>4, TimeAssumption
<1> QED BY <1>1, <1>5 DEF Day

LEMMA DayGrows ==
    ASSUME NEW s \in Nat, NEW t \in Nat, s <= t
    PROVE  Day(s) <= Day(t)
BY TimeAssumption DEF Day

\* What is fetched for a window reaches from before its start to the day of its
\* last moment, if ERA5 does.
LEMMA FetchedSatisfies ==
    ASSUME TypeOK, setup \in Setups, Day(setup.lastHour) >= Day(window.end - 1)
    PROVE  /\ \E h \in Fetched(window) : h <= window.start
           /\ \E h \in Fetched(window) : Day(h) >= Day(window.end - 1)
<1>1. window.start \in Nat /\ window.end \in Nat /\ window.start < window.end
      /\ window.end <= Horizon /\ window.start <= setup.lastHour
  BY TimeAssumption DEF TypeOK, Windows, Ticks
<1>2. setup.lastHour \in Nat /\ setup.lastHour \in Hours /\ setup.lastHour <= Horizon /\ Horizon \in Nat
  BY TimeAssumption DEF Hours, Ticks
<1>3. /\ FirstAsked(window) \in Nat /\ FirstAsked(window) <= window.start /\ FirstAsked(window) % HourTicks = 0
      /\ Floor(window.end) \in Nat /\ window.end < Floor(window.end) + HourTicks
      /\ Floor(window.end) % HourTicks = 0
  BY <1>1, FloorIsHour DEF FirstAsked
<1>4. LastAsked(window) \in Nat /\ window.start <= LastAsked(window) /\ Floor(window.end) <= LastAsked(window)
      /\ LastAsked(window) % HourTicks = 0
  <2>1. (Floor(window.end) + HourTicks) % HourTicks = 0
    BY <1>3, NextHour
  <2> QED BY <1>1, <1>3, <2>1, TimeAssumption DEF LastAsked
<1>5. FirstAsked(window) \in Fetched(window)
  BY <1>1, <1>2, <1>3, <1>4 DEF Fetched, Hours, Ticks
<1>6. CASE setup.lastHour <= LastAsked(window)
  <2>1. setup.lastHour \in Fetched(window)
    BY <1>1, <1>2, <1>3, <1>6 DEF Fetched
  <2> QED BY <1>3, <1>5, <2>1
<1>7. CASE LastAsked(window) < setup.lastHour
  <2>1. LastAsked(window) \in Fetched(window)
    BY <1>1, <1>2, <1>3, <1>4, <1>7 DEF Fetched, Hours, Ticks
  <2>2. Day(window.end) <= Day(Floor(window.end)) /\ Day(Floor(window.end)) <= Day(LastAsked(window))
    BY <1>1, <1>3, <1>4, FloorKeepsDay, DayGrows
  <2>3. Day(window.end - 1) <= Day(window.end) /\ Day(window.end - 1) \in Int /\ Day(window.end) \in Int
    <3>1. window.end - 1 \in Nat
      BY <1>1
    <3> QED BY <1>1, <3>1, DayGrows, TimeAssumption DEF Day
  <2>4. Day(Floor(window.end)) \in Int /\ Day(LastAsked(window)) \in Int
    BY <1>3, <1>4, TimeAssumption DEF Day
  <2> QED BY <1>3, <1>5, <2>1, <2>2, <2>3, <2>4
<1> QED BY <1>2, <1>4, <1>6, <1>7

\* Whatever is asked, forced, dies or raises: a step that is ok leaves the cube
\* satisfied for its window, if ERA5 reaches to its last day (cube/store.py,
\* satisfies; drivers/era5_wind.py).
THEOREM FetchedOnce == Spec => []RerunIsSkipped
<1>1. Init => RowsSoFar
  BY DEF Init, RowsSoFar
<1>2. Typed /\ RowsSoFar /\ [Next]_vars => RowsSoFar'
  BY RowsStep DEF Typed
<1>3. Typed /\ RowsSoFar => RerunIsSkipped
  <2> SUFFICES ASSUME Typed, RowsSoFar, phase = "ok", Day(setup.lastHour) >= Day(window.end - 1),
                      NEW v \in Vars
               PROVE  Satisfies(v, window)
    BY DEF RerunIsSkipped, AlreadySatisfied
  <2>1. Listed(v)
    BY DEF RowsSoFar
  <2> QED BY <2>1, FetchedSatisfies DEF Listed, Satisfies, Typed
<1>4. Spec => []Typed
  BY WindowTypes DEF Typed
<1> QED BY <1>1, <1>2, <1>3, <1>4, PTL DEF Spec
=============================================================================
