--------------------------- MODULE PipelineBuilder ---------------------------
(***************************************************************************)
(* The ProducerRegistry (engine/registry.py) and the Pipeline built over   *)
(* it (engine/pipeline.py).  A caller registers, replaces and unregisters  *)
(* producers, then builds a plan: from targets, by the depth-first walk of *)
(* requires and produces, or as a chain; edits it by add and remove; and   *)
(* has it layered, as PipelineRunner and explain() do.                     *)
(*                                                                         *)
(* The order of a producer's requires only decides the order of the nodes, *)
(* which nothing depends on: the walk takes them in any order.             *)
(***************************************************************************)
EXTENDS Integers, Sequences, FiniteSets

CONSTANTS Names,       \* of producers
          Variables,
          NoName,
          PlanSetups   \* what a caller may do

Offer == [name : Names, produces : SUBSET Variables, requires : SUBSET Variables]

ASSUME PlanAssumption ==
    /\ NoName \notin Names
    /\ \A s \in PlanSetups :
         /\ s.offers \subseteq Offer        \* the producers there are
         /\ s.replaces \in BOOLEAN          \* register(..., replace=True) is used
         /\ s.targets \subseteq Variables   \* from_targets
         /\ s.chain \in Seq(SUBSET Names)   \* or chain, when it is not empty
         /\ s.edits \in Nat                 \* calls of add and remove

VARIABLES planSetup,
          byName,     \* name -> its producer, as a set of at most one offer
          owner,      \* variable -> name, or NoName
          phase,      \* registering, walking, built, layering, layered, raised
          after,      \* node -> the nodes it comes after
          walk,       \* the visits under way, innermost last
          edits,      \* edits made
          remaining,  \* node -> dependencies not yet in a layer
          layers      \* the layers so far

planVars == <<planSetup, byName, owner, phase, after, walk, edits, remaining, layers>>
registry == <<byName, owner>>
layering == <<remaining, layers>>

NoNodes == [n \in {} |-> {}]

PlanStart(s) ==
    /\ planSetup = s /\ phase = "registering" /\ edits = 0
    /\ byName = [n \in Names |-> {}] /\ owner = [v \in Variables |-> NoName]
    /\ after = NoNodes /\ walk = <<>> /\ remaining = NoNodes /\ layers = <<>>
PlanInit == \E s \in PlanSetups : PlanStart(s)

-----------------------------------------------------------------------------
(* The registry. *)

\* Mutated form: the owners of the variables are not looked at.
RefusesNames(o) == ~planSetup.replaces /\ byName[o.name] # {}

Refuses(o) ==
    /\ ~planSetup.replaces
    /\ byName[o.name] # {} \/ \E v \in o.produces : owner[v] \notin {NoName, o.name}

\* Mutated form: a producer may declare that it makes nothing.
RegisterAny(o) ==
    /\ phase = "registering" /\ ~Refuses(o)
    /\ byName' = [byName EXCEPT ![o.name] = {o}]
    /\ owner' = [v \in Variables |-> IF v \in o.produces THEN o.name ELSE owner[v]]
    /\ UNCHANGED <<planSetup, phase, after, walk, edits, layering>>

Register(o) ==
    /\ phase = "registering" /\ o.produces # {} /\ ~Refuses(o)
    /\ byName' = [byName EXCEPT ![o.name] = {o}]
    /\ owner' = [v \in Variables |-> IF v \in o.produces THEN o.name ELSE owner[v]]
    /\ UNCHANGED <<planSetup, phase, after, walk, edits, layering>>

\* Only the variables that are still its own go with it.
Unregister(n) ==
    /\ phase = "registering" /\ byName[n] # {}
    /\ byName' = [byName EXCEPT ![n] = {}]
    /\ owner' = [v \in Variables |->
                    IF owner[v] = n /\ \E o \in byName[n] : v \in o.produces THEN NoName ELSE owner[v]]
    /\ UNCHANGED <<planSetup, phase, after, walk, edits, layering>>

HasVariable(v) == owner[v] # NoName
\* producer_for, as a set: empty when it raises KeyError.
ProducerFor(v) == IF HasVariable(v) THEN byName[owner[v]] ELSE {}

-----------------------------------------------------------------------------
(* Building. *)

\* add: the dependencies of an existing node are joined.
Added(nodes, n, deps) ==
    [m \in DOMAIN nodes \cup {n} |->
        IF m # n THEN nodes[m] ELSE deps \cup IF n \in DOMAIN nodes THEN nodes[n] ELSE {}]

\* Mutated form: each layer is put after the first.
ChainedOnFirst(links) ==
    [n \in UNION {links[i] : i \in DOMAIN links} |->
        UNION {links[1] : i \in {j \in DOMAIN links : n \in links[j] /\ j > 1}}]

\* chain: a step named twice comes after both of its predecessors.
Chained(links) ==
    [n \in UNION {links[i] : i \in DOMAIN links} |->
        UNION {links[i - 1] : i \in {j \in DOMAIN links : n \in links[j] /\ j > 1}}]
Chain ==
    /\ phase = "registering" /\ planSetup.chain # <<>>
    /\ after' = Chained(planSetup.chain) /\ phase' = "built"
    /\ UNCHANGED <<planSetup, registry, walk, edits, layering>>

\* from_targets: the outermost frame of the walk holds the targets.
FromTargets ==
    /\ phase = "registering" /\ planSetup.targets # {}
    /\ walk' = <<[name |-> NoName, requires |-> {}, todo |-> planSetup.targets]>>
    /\ phase' = "walking"
    /\ UNCHANGED <<planSetup, registry, after, edits, layering>>

Frame == walk[Len(walk)]
OnStack == {walk[i].name : i \in 2..Len(walk)}
Visited(v) == SubSeq(walk, 1, Len(walk) - 1) \o <<[Frame EXCEPT !.todo = @ \ {v}]>>

\* Mutated form: a producer counts as seen while it is being visited.
SeenOrOnStack == DOMAIN after \cup OnStack

Seen == DOMAIN after

\* A requirement that nobody produces is not visited; a target is, and raises.
Pass(v) ==
    /\ phase = "walking" /\ v \in Frame.todo
    /\ IF HasVariable(v) THEN \E o \in ProducerFor(v) : o.name \in Seen ELSE Len(walk) > 1
    /\ walk' = Visited(v)
    /\ UNCHANGED <<planSetup, registry, phase, after, edits, layering>>
Visit(v) ==
    /\ phase = "walking" /\ v \in Frame.todo
    /\ \E o \in ProducerFor(v) :
         /\ o.name \notin OnStack \cup Seen
         /\ walk' = Visited(v) \o <<[name |-> o.name, requires |-> o.requires, todo |-> o.requires]>>
    /\ UNCHANGED <<planSetup, registry, phase, after, edits, layering>>
VisitRaises(v) ==
    /\ phase = "walking" /\ v \in Frame.todo
    /\ IF ProducerFor(v) = {} THEN (HasVariable(v) \/ Len(walk) = 1) /\ phase' = "KeyError"
       ELSE (\E o \in ProducerFor(v) : o.name \in OnStack \ Seen) /\ phase' = "RuntimeError"
    /\ UNCHANGED <<planSetup, registry, after, walk, edits, layering>>

\* Mutated form: what was there already is left out.
UpstreamNew(requires, n) == {o.name : o \in UNION {ProducerFor(v) : v \in requires}} \ (Seen \cup {n})

Upstream(requires, n) == {o.name : o \in UNION {ProducerFor(v) : v \in requires}} \ {n}
Leave ==
    /\ phase = "walking" /\ Frame.todo = {} /\ Len(walk) > 1
    /\ after' = Added(after, Frame.name, Upstream(Frame.requires, Frame.name))
    /\ walk' = SubSeq(walk, 1, Len(walk) - 1)
    /\ UNCHANGED <<planSetup, registry, phase, edits, layering>>
Walked ==
    /\ phase = "walking" /\ Frame.todo = {} /\ Len(walk) = 1
    /\ walk' = <<>> /\ phase' = "built"
    /\ UNCHANGED <<planSetup, registry, after, edits, layering>>

Edit == phase = "built" /\ edits < planSetup.edits /\ edits' = edits + 1
Add(n, deps) ==
    /\ Edit /\ after' = Added(after, n, deps)
    /\ UNCHANGED <<planSetup, registry, phase, walk, layering>>
\* remove: also of a name that is not a node, which others may come after.
Remove(n) ==
    /\ Edit
    /\ after' = [m \in DOMAIN after \ {n} |-> after[m] \ {n}]
    /\ UNCHANGED <<planSetup, registry, phase, walk, layering>>

-----------------------------------------------------------------------------
(* topological_layers. *)

Closed(nodes) == \A n \in DOMAIN nodes : nodes[n] \subseteq DOMAIN nodes

StartLayers ==
    /\ phase = "built"
    /\ IF Closed(after) THEN phase' = "layering" /\ remaining' = after
       ELSE phase' = "unknown nodes" /\ UNCHANGED remaining
    /\ UNCHANGED <<planSetup, registry, after, walk, edits, layers>>

\* Mutated form: only the sources are ready.
ReadySources == {n \in DOMAIN remaining : after[n] = {}}
\* Mutated form: one dependency may be in the same layer.
ReadyEarly == {n \in DOMAIN remaining : \A d \in remaining[n] : remaining[d] = {}}

Ready == {n \in DOMAIN remaining : remaining[n] = {}}
TakeLayer ==
    /\ phase = "layering" /\ Ready # {}
    /\ layers' = Append(layers, Ready)
    /\ remaining' = [n \in DOMAIN remaining \ Ready |-> remaining[n] \ Ready]
    /\ UNCHANGED <<planSetup, registry, phase, after, walk, edits>>
EndLayers ==
    /\ phase = "layering" /\ Ready = {}
    /\ phase' = IF remaining = NoNodes THEN "layered" ELSE "cycle"
    /\ UNCHANGED <<planSetup, registry, after, walk, edits, layering>>

PlanNext ==
    \/ \E o \in planSetup.offers : Register(o)
    \/ \E n \in Names : Unregister(n)
    \/ Chain \/ FromTargets \/ Leave \/ Walked
    \/ \E v \in Variables : Pass(v) \/ Visit(v) \/ VisitRaises(v)
    \/ \E n \in Names : Remove(n) \/ \E deps \in SUBSET Names : Add(n, deps)
    \/ StartLayers \/ TakeLayer \/ EndLayers

PlanSpec == PlanInit /\ [][PlanNext]_planVars

-----------------------------------------------------------------------------
Phases == {"registering", "walking", "KeyError", "RuntimeError", "built", "unknown nodes",
           "layering", "layered", "cycle"}

\* The type of the state; a walk is under way in its phase and has its targets
\* at the bottom; what is left to layer are nodes.
PlanTypeOK ==
    /\ byName \in [Names -> SUBSET Offer] /\ owner \in [Variables -> Names \cup {NoName}]
    /\ \A n \in Names : \A o \in byName[n] : o.name = n /\ o.produces # {}
    /\ phase \in Phases /\ edits \in Nat
    /\ DOMAIN after \subseteq Names /\ \A n \in DOMAIN after : after[n] \subseteq Names
    /\ phase = "walking" => Len(walk) > 0 /\ walk[1].name = NoName
    /\ DOMAIN remaining \subseteq DOMAIN after

\* While nobody replaces, a variable has an owner exactly when a registered
\* producer makes it, and that is the owner: calls that were refused and producers
\* that left change nothing of it.  (With replace=True neither half holds: the
\* map keeps what the replaced producer made, and forgets what its owner lost.)
OwnersProduce ==
    ~planSetup.replaces =>
        \A v \in Variables, n \in Names :
            owner[v] = n <=> \E o \in byName[n] : v \in o.produces

\* What from_targets builds can always be layered: the cycles are found by the
\* walk, whatever was registered, and every dependency became a node.
WalkedPlanIsLayered ==
    planSetup.chain = <<>> /\ edits = 0 => phase \notin {"unknown nodes", "cycle"}

\* Every node's producers of what it requires come before it, and the targets'
\* are among the nodes.
WalkedPlanIsComplete ==
    planSetup.chain = <<>> /\ edits = 0 /\ phase = "built" =>
        /\ \A v \in planSetup.targets : \E o \in ProducerFor(v) : o.name \in DOMAIN after
        /\ \A n \in DOMAIN after : \A o \in byName[n] : \A v \in o.requires :
             HasVariable(v) => owner[v] \in after[n] \cup {n}

\* A chain of steps that are all different comes back as its layers.
ChainIsLayered ==
    /\ phase = "layered" /\ edits = 0 /\ planSetup.chain # <<>>
    /\ \A i \in DOMAIN planSetup.chain : planSetup.chain[i] # {}
    /\ \A i, j \in DOMAIN planSetup.chain : i # j => planSetup.chain[i] \cap planSetup.chain[j] = {}
    => layers = planSetup.chain

\* A node is in one layer, after the layers of all it depends on, and when the
\* layering ends well every node is in one.
InLayers == UNION {layers[i] : i \in DOMAIN layers}
LayersInOrder ==
    /\ \A i \in DOMAIN layers : \A n \in layers[i] : \A d \in after[n] :
         \E j \in 1..(i - 1) : d \in layers[j]
    /\ \A i, j \in DOMAIN layers : i # j => layers[i] \cap layers[j] = {}
    /\ phase = "layered" => InLayers = DOMAIN after

\* "cycle in pipeline DAG" is raised only of a cycle: some nodes each depend on
\* another of them.
CycleIsReal ==
    phase = "cycle" =>
        \E C \in SUBSET DOMAIN after : C # {} /\ \A n \in C : after[n] \cap C # {}

\* The registry knows who makes what, from_targets builds a complete plan in which
\* it finds every cycle, and the layers of any plan are in the order of its edges
\* (registry.py:48-76, pipeline.py:109-255).
PlanIsSound ==
    OwnersProduce /\ WalkedPlanIsLayered /\ WalkedPlanIsComplete /\ LayersInOrder /\ CycleIsReal
=============================================================================
