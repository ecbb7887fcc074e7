----------------------------- MODULE DataResolve -----------------------------
(***************************************************************************)
(* A DataAdapter (engine/data_adapter.py) finds what a model needs: in the *)
(* cube, when it satisfies the need, or else by running the producer of    *)
(* the variable and asking again; then it fetches.  The sources that stand *)
(* behind a data driver are ranked by a DataSourceRegistry                 *)
(* (engine/datasource.py).                                                 *)
(*                                                                         *)
(* A variable is stored as an array with its resolution and its days, and  *)
(* as rows in the catalog with theirs, which writing an array anew leaves  *)
(* where they are.  Resampling, and a death between array and rows, are    *)
(* left out (TimeWindows has the latter).                                  *)
(***************************************************************************)
EXTENDS Integers, Sequences

CONSTANTS NeedVars, Sources, DataSetups

Window == [from : Nat, to : Nat]   \* the request: days, the end exclusive
\* The kind, the array's resolution and time axis; and of the rows the resolution
\* of the one without a time, and <<day, resolution>>.
Contents == [kind : {"none", "static", "time"}, res : Nat, axis : SUBSET Nat,
             fixed : SUBSET Nat, rows : SUBSET (Nat \X Nat)]
Absent == [kind |-> "none", res |-> 0, axis |-> {}, fixed |-> {}, rows |-> {}]
RowDays(c) == {r[1] : r \in c.rows}
HasRows(c) == c.fixed # {} \/ c.rows # {}

\* What is in the array has its rows.
Registered(c) ==
    /\ c.kind = "none" => c.fixed = {} /\ c.rows = {}
    /\ c.kind = "static" => c.fixed = {c.res}
    /\ c.kind = "time" => \A d \in c.axis : <<d, c.res>> \in c.rows

ASSUME DataAssumption ==
    \A s \in DataSetups :
        \* what is needed: name, kind, coarsest resolution (0: any), required
        /\ s.needs \in Seq([name : NeedVars, kind : {"static", "time"}, cap : Nat, required : BOOLEAN])
        /\ s.request \in Window
        \* who makes a variable: with it, those of the same producer; {}: nobody
        /\ s.makers \in [NeedVars -> SUBSET NeedVars]
        /\ s.kinds \in [NeedVars -> {"static", "time"}] /\ s.resolution \in Nat   \* as they are made
        \* the cube before; nobody died writing it
        /\ s.cached \in [NeedVars -> Contents] /\ \A v \in NeedVars : Registered(s.cached[v])
        /\ s.sources \in [Sources -> [rank : Int, name : STRING]]   \* DataSources

VARIABLES dataSetup, dataCube,
          need,       \* the need resolve or fetch is at
          dataPhase,  \* resolving, rechecking, resolved, fetched, or raised
          report,     \* per need: "cube", "producer" or the error, once it is known
          fetched,    \* per need: what fetch returned
          ranked,     \* the sources, in the order they are asked
          added,      \* the sources, in the order they were registered
          asked       \* of first_hit: who found, who had nothing, and who reads the asset

resolveVars == <<need, dataPhase, report, fetched, dataCube>>
sourceVars == <<ranked, added, asked>>
dataVars == <<dataSetup, resolveVars, sourceVars>>

DataStart(s) ==
    /\ dataSetup = s /\ dataCube = s.cached /\ need = 1
    \* DataAdapter.__init__ refuses a name that comes twice.
    /\ dataPhase = IF \E i, j \in DOMAIN s.needs : i # j /\ s.needs[i].name = s.needs[j].name
                   THEN "refused" ELSE "resolving"
    /\ report = <<>> /\ fetched = <<>> /\ ranked = <<>> /\ added = <<>> /\ asked = [found |-> {}, empty |-> {}, read |-> {}]
DataInit == \E s \in DataSetups : DataStart(s)

-----------------------------------------------------------------------------
Needs == dataSetup.needs
This == Needs[need]
FirstDay == dataSetup.request.from
LastDay == dataSetup.request.to - 1
WindowDays == FirstDay..LastDay

\* Mutated form: whatever kind it is stored as.
MeetsAnyKind(c, n) ==
    /\ c.kind # "none"
    /\ n.cap > 0 => \A res \in c.fixed \cup {r[2] : r \in c.rows} : res <= n.cap
    /\ c.kind = "time" => \E d \in RowDays(c) : d <= FirstDay /\ \E e \in RowDays(c) : e >= LastDay

\* cube.satisfies asks the rows: for the coarsest resolution, and the first and the
\* last day, not those between.
Meets(c, n) ==
    /\ c.kind = n.kind
    /\ n.cap > 0 => /\ HasRows(c)
                    /\ \A res \in c.fixed \cup {r[2] : r \in c.rows} : res <= n.cap
    /\ n.kind = "static" => c.fixed # {}
    /\ n.kind = "time" => \E d \in RowDays(c) : d <= FirstDay /\ \E e \in RowDays(c) : e >= LastDay
Met(n) == Meets(dataCube[n.name], n)

\* What missing() lists before a run.
Missing == {i \in DOMAIN Needs : Needs[i].required /\ ~Met(Needs[i])}

Record(what) == report' = Append(report, what) /\ need' = need + 1
\* Mutated form: the error of an optional need is not recorded.
GiveUpSilently(error) ==
    IF This.required THEN dataPhase' = "raised" /\ UNCHANGED <<report, need>>
    ELSE dataPhase' = "resolving" /\ need' = need + 1 /\ UNCHANGED report

GiveUp(error) ==
    IF This.required THEN dataPhase' = "raised" /\ UNCHANGED <<report, need>>
    ELSE dataPhase' = "resolving" /\ Record(error)

InCube ==
    /\ dataPhase = "resolving" /\ need <= Len(Needs) /\ Met(This)
    /\ Record("cube")
    /\ UNCHANGED <<dataSetup, dataPhase, dataCube, fetched, sourceVars>>
NoProducer ==
    /\ dataPhase = "resolving" /\ need <= Len(Needs) /\ ~Met(This)
    /\ dataSetup.makers[This.name] = {}
    /\ GiveUp("no_producer")
    /\ UNCHANGED <<dataSetup, dataCube, fetched, sourceVars>>

\* write_static and write_3d put another array in its place; rows of other days,
\* and of the other kind, stay.
Rewritten(v, days) ==
    LET c == dataCube[v]
    IN  IF dataSetup.kinds[v] = "static"
        THEN [c EXCEPT !.kind = "static", !.res = dataSetup.resolution, !.axis = {}, !.fixed = {dataSetup.resolution}]
        ELSE [c EXCEPT !.kind = "time", !.res = dataSetup.resolution, !.axis = days,
                       !.rows = {r \in @ : r[1] \notin days} \cup (days \X {dataSetup.resolution})]
Written(vs, days) == [v \in NeedVars |-> IF v \in vs THEN Rewritten(v, days) ELSE dataCube[v]]

\* The producer writes all it makes, for the days asked for that there are; one
\* that raises has written some of it.
InvokeProducer(days) ==
    /\ dataPhase = "resolving" /\ need <= Len(Needs) /\ ~Met(This)
    /\ dataSetup.makers[This.name] # {}
    /\ dataCube' = Written(dataSetup.makers[This.name], days)
    /\ dataPhase' = "rechecking"
    /\ UNCHANGED <<dataSetup, need, report, fetched, sourceVars>>
ProducerRaises ==
    /\ dataPhase = "resolving" /\ need <= Len(Needs) /\ ~Met(This)
    /\ dataSetup.makers[This.name] # {}
    /\ \E vs \in SUBSET dataSetup.makers[This.name] : dataCube' = Written(vs, WindowDays)
    /\ GiveUp("producer_failed")
    /\ UNCHANGED <<dataSetup, fetched, sourceVars>>

\* Mutated form: a producer that ran has done what it should.
RecheckNot ==
    /\ dataPhase = "rechecking" /\ dataPhase' = "resolving" /\ Record("producer")
    /\ UNCHANGED <<dataSetup, dataCube, fetched, sourceVars>>

Recheck ==
    /\ dataPhase = "rechecking"
    /\ IF Met(This) THEN dataPhase' = "resolving" /\ Record("producer")
       ELSE GiveUp("producer_ran_but_not_satisfied")
    /\ UNCHANGED <<dataSetup, dataCube, fetched, sourceVars>>
Resolved ==
    /\ dataPhase = "resolving" /\ need > Len(Needs)
    /\ dataPhase' = "resolved" /\ need' = 1
    /\ UNCHANGED <<dataSetup, dataCube, report, fetched, sourceVars>>

\* fetch asks only for rows of any kind, and reads the array; a time variable is
\* cut to the window, and what is stored as static has no time axis to cut.
Refused(c, n) == IF HasRows(c) THEN c.kind = "static" /\ n.kind = "time" ELSE n.required
Cut(c, n) ==
    [kind |-> IF HasRows(c) THEN c.kind ELSE "none", res |-> c.res,
     days |-> IF n.kind = "time" THEN c.axis \cap FirstDay .. dataSetup.request.to ELSE c.axis]
FetchNeed ==
    /\ dataPhase = "resolved" /\ need <= Len(Needs)
    /\ IF Refused(dataCube[This.name], This) THEN dataPhase' = "fetch raised" /\ UNCHANGED <<fetched, need>>
       ELSE fetched' = Append(fetched, Cut(dataCube[This.name], This)) /\ need' = need + 1 /\ UNCHANGED dataPhase
    /\ UNCHANGED <<dataSetup, dataCube, report, sourceVars>>
Fetched ==
    /\ dataPhase = "resolved" /\ need > Len(Needs)
    /\ dataPhase' = "fetched"
    /\ UNCHANGED <<dataSetup, dataCube, need, report, fetched, sourceVars>>

-----------------------------------------------------------------------------
(* Data sources. *)

Rank(s) == dataSetup.sources[s].rank
NameOf(s) == dataSetup.sources[s].name

\* Mutated form: a source is put before those of its rank.
PlaceBefore(s, p) == \A i \in DOMAIN ranked : i < p <=> Rank(ranked[i]) > Rank(s)

\* After those of its rank and above.
Place(s, p) == \A i \in DOMAIN ranked : i < p <=> Rank(ranked[i]) >= Rank(s)
AddSource(s) ==
    /\ s \notin {added[i] : i \in DOMAIN added} /\ asked.found = {}
    /\ \E p \in 1..(Len(ranked) + 1) :
         /\ Place(s, p)
         /\ ranked' = [i \in 1..(Len(ranked) + 1) |-> IF i < p THEN ranked[i] ELSE IF i = p THEN s ELSE ranked[i - 1]]
    /\ added' = Append(added, s)
    /\ UNCHANGED <<dataSetup, resolveVars, asked>>

\* first_hit, when those in empty cover nothing or raise; and fetch of its asset by
\* the name of its source.
FirstHit(empty) ==
    /\ asked.found = {}
    /\ \E i \in DOMAIN ranked :
         /\ ranked[i] \notin empty /\ \A j \in 1..(i - 1) : ranked[j] \in empty
         /\ asked' = [found |-> {ranked[i]}, empty |-> empty,
                      read |-> {added[k] : k \in {m \in DOMAIN added :
                                 /\ NameOf(added[m]) = NameOf(ranked[i])
                                 /\ \A l \in 1..(m - 1) : NameOf(added[l]) # NameOf(ranked[i])}}]
    /\ UNCHANGED <<dataSetup, resolveVars, ranked, added>>

DataNext ==
    \/ InCube \/ NoProducer \/ ProducerRaises \/ Recheck \/ Resolved \/ FetchNeed \/ Fetched
    \/ \E days \in {WindowDays, WindowDays \ {LastDay}} : InvokeProducer(days)
    \/ \E s \in Sources : AddSource(s)
    \/ \E empty \in SUBSET Sources : FirstHit(empty)

DataSpec == DataInit /\ [][DataNext]_dataVars

-----------------------------------------------------------------------------
\* The type of the state; there is one entry per need that is done with.
DataTypeOK ==
    /\ dataCube \in [NeedVars -> Contents]
    /\ dataPhase \in {"refused", "resolving", "rechecking", "raised", "resolved", "fetched", "fetch raised"}
    /\ dataPhase \in {"resolving", "rechecking", "raised"} => Len(report) = need - 1
    /\ dataPhase \in {"resolved", "fetched"} => Len(report) = Len(Needs) /\ Len(fetched) = need - 1

\* Needs that are made by one producer are all required, and alike in kind and
\* resolution.
MadeAlike ==
    \A i, j \in DOMAIN Needs : i # j /\ Needs[i].name \in dataSetup.makers[Needs[j].name] =>
        /\ Needs[j].required /\ Needs[i].kind = Needs[j].kind /\ Needs[i].cap = Needs[j].cap
        /\ dataSetup.kinds[Needs[i].name] = dataSetup.kinds[Needs[j].name]

\* What resolve reports as satisfied the cube still satisfies when it returns,
\* though producers ran after the need was looked at.  (A producer of several
\* variables that is run for one need may replace what another relied on by
\* less, if they are not alike.)
ReportHolds ==
    dataPhase \in {"resolved", "fetched"} /\ MadeAlike =>
        \A i \in DOMAIN Needs : report[i] \in {"cube", "producer"} => Met(Needs[i])

\* After resolve returned, fetch does not fail and has every required need at its
\* resolution, and for the whole window unless the array has gaps or lacks days
\* that have rows.  (An optional need that is stored as another kind makes it
\* raise.)
Gapless(days) == \A d, e \in days : d..e \subseteq days
FetchServesNeeds ==
    MadeAlike =>
    /\ dataPhase = "fetch raised" => \E i \in DOMAIN Needs :
          ~Needs[i].required /\ dataCube[Needs[i].name].kind # Needs[i].kind
    /\ dataPhase = "fetched" =>
          \A i \in DOMAIN Needs : Needs[i].required =>
            LET c == dataCube[Needs[i].name] IN
            /\ fetched[i].kind = Needs[i].kind
            /\ Needs[i].kind = "time" /\ Gapless(c.axis) /\ RowDays(c) \subseteq c.axis =>
                 WindowDays \subseteq fetched[i].days
            /\ Needs[i].cap > 0 /\ (Needs[i].kind = "static" \/ fetched[i].days # {}) =>
                 fetched[i].res <= Needs[i].cap

\* Days that have rows and are not in the array had them before, of a need that
\* no other need's producer makes: what was not in the cube is served.
StaleRowsAreOld ==
    dataPhase # "refused" =>
        \A i \in DOMAIN Needs :
            (\A j \in DOMAIN Needs \ {i} : Needs[i].name \notin dataSetup.makers[Needs[j].name]) =>
                LET c == dataCube[Needs[i].name]
                IN  RowDays(c) \ c.axis \subseteq RowDays(dataSetup.cached[Needs[i].name])

\* first_hit takes the source of the highest rank that has something, the one that
\* was registered first of equals, and the asset is read by the source that found
\* it as long as no two have one name.
Before(s, t) == \E i, j \in DOMAIN added : i < j /\ added[i] = s /\ added[j] = t
BestSource ==
    \A s \in asked.found :
        /\ \A t \in {added[i] : i \in DOMAIN added} \ (asked.empty \cup {s}) :
             Rank(t) < Rank(s) \/ (Rank(t) = Rank(s) /\ Before(s, t))
        /\ (\A t, u \in Sources : t # u => NameOf(t) # NameOf(u)) => asked.read = {s}

\* Needs that are reported satisfied are and stay so, are served as far as the array
\* has what the rows claim, and assets come from the best source there is
\* (data_adapter.py:161-330, store.py:123-131 and 447-488, datasource.py:98-148).
NeedsAreServed == ReportHolds /\ FetchServesNeeds /\ StaleRowsAreOld /\ BestSource
=============================================================================
