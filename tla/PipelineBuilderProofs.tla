------------------------ MODULE PipelineBuilderProofs ------------------------
(***************************************************************************)
(* For any producers and calls: the registry knows who makes what, a plan  *)
(* made from targets is complete and has no cycle, and its layers respect  *)
(* its dependencies, those of the links of a chain among them.             *)
(***************************************************************************)
EXTENDS PipelineBuilder, SequenceTheorems, TLAPS

Layering == {"layering", "layered", "cycle"}
FrameType == [name : Names \cup {NoName}, requires : SUBSET Variables, todo : SUBSET Variables]

RegistryInv ==
    /\ planSetup \in PlanSetups
    /\ byName \in [Names -> SUBSET Offer] /\ owner \in [Variables -> Names \cup {NoName}]
    /\ \A n \in Names : \A o \in byName[n] : o.name = n /\ o.produces # {}
    /\ \A n \in Names : \A o, p \in byName[n] : o = p
    /\ OwnersProduce

NodesInv ==
    /\ phase \in Phases /\ edits \in Nat
    /\ DOMAIN after \subseteq Names /\ after \in [DOMAIN after -> SUBSET Names]
    /\ phase = "registering" => after = NoNodes
    /\ phase \in {"registering", "walking"} => edits = 0

\* Every set of nodes has one that depends on none of the others.
Acyclic == \A C \in SUBSET DOMAIN after : C # {} => \E n \in C : after[n] \cap C = {}

\* What a frame of the walk has to visit, and where the producer of what it has
\* visited is: done with, or in the next frame.
Wanted(i) == IF i = 1 THEN planSetup.targets ELSE walk[i].requires
Reached(i) == Seen \cup {walk[j].name : j \in {k \in DOMAIN walk : k = i + 1}}
VisitOK(i, v) ==
    /\ HasVariable(v) => ProducerFor(v) # {}
    /\ i = 1 => HasVariable(v)
    /\ \A o \in ProducerFor(v) : o.name \in Reached(i)

WalkInv ==
    phase = "walking" =>
        /\ walk \in Seq(FrameType) /\ Len(walk) > 0 /\ walk[1].name = NoName
        /\ \A i \in DOMAIN walk : i > 1 =>
              /\ walk[i].name \in Names \ Seen
              /\ \E o \in byName[walk[i].name] : o.requires = walk[i].requires
        /\ \A i, j \in DOMAIN walk : i # j => walk[i].name # walk[j].name
        /\ \A i \in DOMAIN walk : \A v \in Wanted(i) \ walk[i].todo : VisitOK(i, v)

FromWalk == phase = "walking" \/ (planSetup.chain = <<>> /\ edits = 0)
TargetsAreNodes == \A v \in planSetup.targets : \E o \in ProducerFor(v) : o.name \in DOMAIN after
RequiredAreNodes ==
    \A n \in DOMAIN after : \A o \in byName[n] : \A v \in o.requires :
        HasVariable(v) => owner[v] \in after[n] \cup {n}

PlanInv ==
    FromWalk => /\ Closed(after) /\ Acyclic /\ RequiredAreNodes
                /\ phase = "built" => TargetsAreNodes
                /\ phase # "unknown nodes"

LayerInv ==
    /\ layers \in Seq(SUBSET Names) /\ LayersInOrder /\ CycleIsReal
    /\ phase \notin Layering => layers = <<>> /\ remaining = NoNodes
    /\ phase \in Layering =>
         /\ Closed(after)
         /\ remaining \in [DOMAIN remaining -> SUBSET Names] /\ DOMAIN remaining \subseteq DOMAIN after
         /\ \A n \in DOMAIN remaining : remaining[n] = after[n] \cap DOMAIN remaining
         /\ InLayers = DOMAIN after \ DOMAIN remaining

PlanIInv == RegistryInv /\ NodesInv /\ WalkInv /\ PlanInv /\ LayerInv

-----------------------------------------------------------------------------
\* The producer of a variable is the one its owner names.
LEMMA ProducerIsOwner ==
    ASSUME RegistryInv, NEW v \in Variables, NEW o \in ProducerFor(v)
    PROVE  o \in Offer /\ o.name = owner[v] /\ o.name \in Names /\ HasVariable(v)
           /\ \A p \in ProducerFor(v) : p = o
  BY DEF RegistryInv, ProducerFor, HasVariable

\* What the assumption says of the setup.
LEMMA PlanSetupType ==
    ASSUME planSetup \in PlanSetups
    PROVE  /\ planSetup.offers \subseteq Offer /\ planSetup.targets \subseteq Variables
           /\ planSetup.chain \in Seq(SUBSET Names) /\ NoName \notin Names
  BY PlanAssumption

LEMMA PlanInitially == PlanInit => PlanIInv
<1> SUFFICES ASSUME NEW s \in PlanSetups, PlanStart(s) PROVE PlanIInv
  BY DEF PlanInit
<1>1. RegistryInv
  BY PlanAssumption DEF PlanStart, RegistryInv, OwnersProduce
<1>2. NodesInv
  BY DEF PlanStart, NodesInv, NoNodes, Phases
<1>3. WalkInv
  BY DEF PlanStart, WalkInv
<1>4. PlanInv
  BY DEF PlanStart, PlanInv, Closed, Acyclic, RequiredAreNodes, NoNodes
<1>5. LayerInv
  BY DEF PlanStart, LayerInv, LayersInOrder, CycleIsReal, Layering, NoNodes
<1> QED
  BY <1>1, <1>2, <1>3, <1>4, <1>5 DEF PlanIInv

-----------------------------------------------------------------------------
(* --- the registry -------------------------------------------------------- *)

\* While producers register there is no plan to keep.
LEMMA OnlyRegistry ==
    ASSUME PlanIInv, phase = "registering", RegistryInv',
           UNCHANGED <<planSetup, phase, after, walk, edits, layering>>
    PROVE  PlanIInv'
<1>1. NodesInv' /\ LayerInv'
  BY DEF PlanIInv, NodesInv, LayerInv, LayersInOrder, CycleIsReal, InLayers, Closed, layering, Layering
<1>2. WalkInv' /\ PlanInv'
  BY DEF PlanIInv, NodesInv, NoNodes, WalkInv, PlanInv, Closed, Acyclic, RequiredAreNodes
<1> QED
  BY <1>1, <1>2 DEF PlanIInv

LEMMA RegisterKeeps ==
    ASSUME PlanIInv, NEW o \in planSetup.offers, Register(o)
    PROVE  PlanIInv'
<1>1. /\ RegistryInv /\ o \in Offer /\ o.name \in Names /\ o.produces \subseteq Variables /\ NoName \notin Names
  BY PlanSetupType DEF PlanIInv, RegistryInv, Offer
<1>2. /\ byName' = [byName EXCEPT ![o.name] = {o}] /\ o.produces # {} /\ ~Refuses(o)
      /\ owner' = [v \in Variables |-> IF v \in o.produces THEN o.name ELSE owner[v]]
      /\ planSetup' = planSetup /\ phase = "registering"
      /\ UNCHANGED <<planSetup, phase, after, walk, edits, layering>>
  BY DEF Register
<1>3. OwnersProduce'
  <2> SUFFICES ASSUME ~planSetup.replaces, NEW v \in Variables, NEW n \in Names
               PROVE  owner'[v] = n <=> \E p \in byName'[n] : v \in p.produces
    BY <1>2 DEF OwnersProduce
  <2>1. byName[o.name] = {} /\ \A w \in o.produces : owner[w] \in {NoName, o.name}
    BY <1>2 DEF Refuses
  <2>2. owner[v] = n <=> \E p \in byName[n] : v \in p.produces
    BY <1>1 DEF RegistryInv, OwnersProduce
  <2>3. CASE n = o.name
    BY <1>1, <1>2, <2>1, <2>2, <2>3 DEF RegistryInv
  <2>4. CASE n # o.name
    BY <1>1, <1>2, <2>1, <2>2, <2>4 DEF RegistryInv
  <2> QED
    BY <2>3, <2>4
<1>4. RegistryInv'
  BY <1>1, <1>2, <1>3 DEF RegistryInv
<1> QED
  BY <1>2, <1>4, OnlyRegistry

LEMMA UnregisterKeeps ==
    ASSUME PlanIInv, NEW n \in Names, Unregister(n)
    PROVE  PlanIInv'
<1>1. RegistryInv /\ NoName \notin Names
  BY PlanSetupType DEF PlanIInv, RegistryInv
<1>2. /\ byName' = [byName EXCEPT ![n] = {}]
      /\ owner' = [v \in Variables |->
                     IF owner[v] = n /\ \E o \in byName[n] : v \in o.produces THEN NoName ELSE owner[v]]
      /\ planSetup' = planSetup /\ phase = "registering"
      /\ UNCHANGED <<planSetup, phase, after, walk, edits, layering>>
  BY DEF Unregister
<1>3. OwnersProduce'
  BY <1>1, <1>2 DEF RegistryInv, OwnersProduce
<1>4. RegistryInv'
  BY <1>1, <1>2, <1>3 DEF RegistryInv
<1> QED
  BY <1>2, <1>4, OnlyRegistry

-----------------------------------------------------------------------------
(* --- building ------------------------------------------------------------ *)

\* Outside the registry and the walk, RegistryInv and what it is about stay.
LEMMA RegistryStays ==
    ASSUME RegistryInv, UNCHANGED <<planSetup, registry>>
    PROVE  RegistryInv' /\ \A v : /\ HasVariable(v)' <=> HasVariable(v)
                                  /\ ProducerFor(v)' = ProducerFor(v)
  BY DEF RegistryInv, OwnersProduce, registry, HasVariable, ProducerFor

\* Without layers, LayerInv holds whatever the nodes are.
LEMMA NoLayers ==
    ASSUME LayerInv, phase \notin Layering, phase' \notin Layering, UNCHANGED layering
    PROVE  LayerInv'
  BY DEF LayerInv, LayersInOrder, CycleIsReal, Layering, layering, NoNodes

LEMMA ChainKeeps ==
    ASSUME PlanIInv, Chain
    PROVE  PlanIInv'
<1>1. /\ after' = Chained(planSetup.chain) /\ phase = "registering" /\ phase' = "built"
      /\ planSetup.chain # <<>> /\ planSetup' = planSetup /\ edits' = edits
      /\ UNCHANGED <<planSetup, registry>> /\ UNCHANGED layering
  BY DEF Chain
<1>2. planSetup.chain \in Seq(SUBSET Names)
  BY PlanSetupType DEF PlanIInv, RegistryInv
<1>3. \A i \in DOMAIN planSetup.chain : planSetup.chain[i] \subseteq Names
  BY <1>2
<1>4. DOMAIN after' \subseteq Names /\ after' \in [DOMAIN after' -> SUBSET Names]
  <2> DEFINE links == planSetup.chain
  <2>1. \A i \in {j \in DOMAIN links : j > 1} : links[i - 1] \subseteq Names
    BY <1>2, <1>3
  <2> QED
    BY <1>1, <1>3, <2>1 DEF Chained
<1>5. NodesInv'
  BY <1>1, <1>4 DEF PlanIInv, NodesInv, Phases
<1>6. LayerInv'
  BY <1>1, NoLayers DEF PlanIInv, Layering
<1> QED
  BY <1>1, <1>5, <1>6, RegistryStays DEF PlanIInv, WalkInv, PlanInv, FromWalk

LEMMA FromTargetsKeeps ==
    ASSUME PlanIInv, FromTargets
    PROVE  PlanIInv'
<1>1. /\ walk' = <<[name |-> NoName, requires |-> {}, todo |-> planSetup.targets]>>
      /\ phase = "registering" /\ phase' = "walking" /\ after' = after /\ edits' = edits
      /\ UNCHANGED <<planSetup, registry>> /\ UNCHANGED layering /\ planSetup' = planSetup
  BY DEF FromTargets
<1>2. planSetup.targets \subseteq Variables
  BY PlanSetupType DEF PlanIInv, RegistryInv
<1>3. NodesInv' /\ after' = NoNodes
  BY <1>1 DEF PlanIInv, NodesInv, Phases
<1>4. LayerInv'
  BY <1>1, NoLayers DEF PlanIInv, Layering
<1>5. WalkInv'
  <2>1. walk' \in Seq(FrameType)
    BY <1>1, <1>2 DEF FrameType
  <2>2. Len(walk') = 1 /\ DOMAIN walk' = {1} /\ walk'[1].name = NoName /\ walk'[1].todo = planSetup.targets
    BY <1>1
  <2>3. \A i \in DOMAIN walk' : Wanted(i)' \ walk'[i].todo = {}
    BY <1>1, <2>2 DEF Wanted
  <2> QED
    BY <1>1, <2>1, <2>2, <2>3 DEF WalkInv
<1>6. PlanInv'
  BY <1>1, <1>3 DEF PlanInv, Closed, Acyclic, RequiredAreNodes, NoNodes
<1> QED
  BY <1>1, <1>3, <1>4, <1>5, <1>6, RegistryStays DEF PlanIInv

\* What every step of the walk keeps.
LEMMA WalkStep ==
    ASSUME PlanIInv, phase = "walking", phase' \notin Layering \cup {"registering"}, phase' \in Phases,
           UNCHANGED <<planSetup, registry, edits, layering>>
    PROVE  /\ RegistryInv' /\ LayerInv' /\ edits = 0 /\ edits' = 0
           /\ \A v : (HasVariable(v)' <=> HasVariable(v)) /\ ProducerFor(v)' = ProducerFor(v)
           /\ Closed(after) /\ Acyclic /\ RequiredAreNodes
           /\ after' = after => NodesInv' /\ Closed(after)' /\ Acyclic' /\ RequiredAreNodes'
<1>1. RegistryInv' /\ \A v : (HasVariable(v)' <=> HasVariable(v)) /\ ProducerFor(v)' = ProducerFor(v)
  BY RegistryStays DEF PlanIInv
<1>2. LayerInv'
  BY NoLayers DEF PlanIInv, Layering
<1>3. Closed(after) /\ Acyclic /\ RequiredAreNodes /\ edits = 0 /\ edits' = 0
  BY DEF PlanIInv, PlanInv, FromWalk, NodesInv
<1>4. ASSUME after' = after PROVE NodesInv' /\ Closed(after)' /\ Acyclic' /\ RequiredAreNodes'
  <2>1. NodesInv' /\ Closed(after)' /\ Acyclic'
    BY <1>3, <1>4 DEF PlanIInv, NodesInv, Closed, Acyclic
  <2>2. RequiredAreNodes'
    BY <1>1, <1>3, <1>4 DEF RequiredAreNodes, registry
  <2> QED
    BY <2>1, <2>2
<1> QED
  BY <1>1, <1>2, <1>3, <1>4

\* All of a sequence but its last element.
LEMMA Front ==
    ASSUME NEW S, NEW w \in Seq(S), Len(w) > 0
    PROVE  /\ SubSeq(w, 1, Len(w) - 1) \in Seq(S) /\ Len(SubSeq(w, 1, Len(w) - 1)) = Len(w) - 1
           /\ \A i \in 1 .. (Len(w) - 1) : SubSeq(w, 1, Len(w) - 1)[i] = w[i]
<1>1. Len(w) - 1 \in Nat /\ \A i \in 1 .. (Len(w) - 1) : w[i] \in S
  OBVIOUS
<1>2. /\ SubSeq(w, 1, Len(w) - 1) \in Seq(S)
      /\ Len(SubSeq(w, 1, Len(w) - 1)) = IF 1 <= Len(w) - 1 THEN Len(w) - 1 - 1 + 1 ELSE 0
      /\ \A i \in 1 .. (Len(w) - 1 - 1 + 1) : SubSeq(w, 1, Len(w) - 1)[i] = w[1 + i - 1]
  BY <1>1, SubSeqProperties
<1>3. (IF 1 <= Len(w) - 1 THEN Len(w) - 1 - 1 + 1 ELSE 0) = Len(w) - 1
  <2>1. \A n \in Nat : (IF 1 <= n THEN n - 1 + 1 ELSE 0) = n
    OBVIOUS
  <2> QED
    BY <1>1, <2>1
<1>4. 1 .. (Len(w) - 1 - 1 + 1) = 1 .. (Len(w) - 1) /\ \A i \in 1 .. (Len(w) - 1) : 1 + i - 1 = i
  BY <1>1
<1>5. \A i \in 1 .. (Len(w) - 1) : SubSeq(w, 1, Len(w) - 1)[i] = w[i]
  BY <1>2, <1>4
<1>6. Len(SubSeq(w, 1, Len(w) - 1)) = Len(w) - 1
  BY <1>2, <1>3
<1> QED
  BY <1>2, <1>5, <1>6

\* Visited(v) only takes v from the innermost frame.
LEMMA VisitedFrames ==
    ASSUME walk \in Seq(FrameType), Len(walk) > 0, NEW v \in Variables
    PROVE  /\ Visited(v) \in Seq(FrameType) /\ Len(Visited(v)) = Len(walk)
           /\ DOMAIN Visited(v) = DOMAIN walk /\ DOMAIN walk = 1 .. Len(walk)
           /\ \A i \in DOMAIN walk : /\ Visited(v)[i].name = walk[i].name
                                     /\ Visited(v)[i].requires = walk[i].requires
                                     /\ i # Len(walk) => Visited(v)[i].todo = walk[i].todo
           /\ Visited(v)[Len(walk)].todo = Frame.todo \ {v}
<1> DEFINE f == [Frame EXCEPT !.todo = @ \ {v}]
           s == SubSeq(walk, 1, Len(walk) - 1)
<1>1. Frame \in FrameType
  BY DEF Frame
<1>2. f \in FrameType /\ f.name = Frame.name /\ f.requires = Frame.requires /\ f.todo = Frame.todo \ {v}
  BY <1>1 DEF FrameType
<1>3. /\ s \in Seq(FrameType) /\ Len(s) = Len(walk) - 1
      /\ \A i \in 1 .. (Len(walk) - 1) : s[i] = walk[i]
  BY Front
<1> HIDE DEF f, s
<1>4. s \o <<f>> \in Seq(FrameType) /\ Len(s \o <<f>>) = Len(walk)
  BY <1>2, <1>3
<1>5. \A i \in 1 .. (Len(walk) - 1) : (s \o <<f>>)[i] = walk[i]
  BY <1>2, <1>3
<1>6. (s \o <<f>>)[Len(walk)] = f
  BY <1>2, <1>3
<1>7. Visited(v) = s \o <<f>>
  BY DEF Visited, s, f
<1>8. \A i \in DOMAIN walk : i = Len(walk) \/ i \in 1 .. (Len(walk) - 1)
  OBVIOUS
<1>9. \A i \in DOMAIN walk : /\ Visited(v)[i].name = walk[i].name
                             /\ Visited(v)[i].requires = walk[i].requires
                             /\ i # Len(walk) => Visited(v)[i].todo = walk[i].todo
  BY <1>2, <1>5, <1>6, <1>7, <1>8 DEF Frame
<1>10. Visited(v)[Len(walk)].todo = Frame.todo \ {v}
  BY <1>2, <1>6, <1>7
<1>11. Visited(v) \in Seq(FrameType) /\ Len(Visited(v)) = Len(walk)
  BY <1>4, <1>7
<1>12. DOMAIN walk = 1 .. Len(walk) /\ DOMAIN Visited(v) = 1 .. Len(walk)
  BY <1>11
<1> QED
  BY <1>9, <1>10, <1>11, <1>12, Zenon

\* After a step that leaves registry and nodes alone, visits are as good as before
\* if what could be reached from a frame still can.
LEMMA VisitStays ==
    ASSUME UNCHANGED after, NEW i \in Nat, NEW v, VisitOK(i, v), Reached(i) \subseteq Reached(i)',
           (HasVariable(v)' <=> HasVariable(v)) /\ ProducerFor(v)' = ProducerFor(v)
    PROVE  VisitOK(i, v)'
  BY DEF VisitOK

LEMMA PassKeeps ==
    ASSUME PlanIInv, NEW v \in Variables, Pass(v)
    PROVE  PlanIInv'
<1>1. /\ phase = "walking" /\ phase' = phase /\ walk' = Visited(v) /\ after' = after
      /\ planSetup' = planSetup
      /\ UNCHANGED <<planSetup, registry, edits, layering>> /\ v \in Frame.todo
      /\ IF HasVariable(v) THEN \E o \in ProducerFor(v) : o.name \in Seen ELSE Len(walk) > 1
  BY DEF Pass
<1>2. phase' \notin Layering \cup {"registering"} /\ phase' \in Phases
  BY <1>1 DEF Layering, Phases
<1>3. /\ RegistryInv' /\ LayerInv' /\ NodesInv' /\ Closed(after)' /\ Acyclic' /\ RequiredAreNodes'
      /\ \A w : (HasVariable(w)' <=> HasVariable(w)) /\ ProducerFor(w)' = ProducerFor(w)
  BY <1>1, <1>2, WalkStep
<1>4. PlanInv'
  BY <1>1, <1>3 DEF PlanInv
<1>5. walk \in Seq(FrameType) /\ Len(walk) > 0 /\ RegistryInv
  BY <1>1 DEF PlanIInv, WalkInv
<1>6. /\ walk' \in Seq(FrameType) /\ Len(walk') = Len(walk) /\ DOMAIN walk' = DOMAIN walk
      /\ \A i \in DOMAIN walk : walk'[i].name = walk[i].name /\ walk'[i].requires = walk[i].requires
      /\ \A i \in DOMAIN walk : i # Len(walk) => walk'[i].todo = walk[i].todo
      /\ walk'[Len(walk)].todo = Frame.todo \ {v} /\ Frame = walk[Len(walk)]
      /\ DOMAIN walk = 1 .. Len(walk)
  BY <1>1, <1>5, VisitedFrames DEF Frame
<1>7. \A i \in DOMAIN walk : Wanted(i)' = Wanted(i) /\ Reached(i)' = Reached(i)
  BY <1>1, <1>6 DEF Wanted, Reached, Seen
<1>8. VisitOK(Len(walk), v)
  <2>1. CASE HasVariable(v)
    <3>1. \A o \in ProducerFor(v) : o.name \in Seen
      BY <1>1, <1>5, <2>1, ProducerIsOwner
    <3> QED
      BY <1>1, <2>1, <3>1 DEF VisitOK, Reached
  <2>2. CASE ~HasVariable(v)
    <3>1. Len(walk) > 1
      BY <2>2 DEF Pass
    <3>2. Len(walk) # 1
      <4>1. Len(walk) \in Nat
        BY <1>5
      <4>2. ASSUME NEW k \in Nat, k > 1 PROVE k # 1
        BY <4>2
      <4> QED
        BY <3>1, <4>1, <4>2
    <3>3. ProducerFor(v) = {}
      BY <2>2, Zenon DEF ProducerFor
    <3> QED
      BY <2>2, <3>2, <3>3 DEF VisitOK
  <2> QED
    BY <2>1, <2>2
<1>9. ASSUME NEW i \in DOMAIN walk', NEW w \in Wanted(i)' \ walk'[i].todo PROVE VisitOK(i, w)'
  <2>1. i \in DOMAIN walk /\ i \in Nat /\ w \in Wanted(i)
    BY <1>6, <1>7, <1>9
  <2>2. VisitOK(i, w)
    <3>1. CASE w \notin walk[i].todo
      BY <1>1, <2>1, <3>1 DEF PlanIInv, WalkInv
    <3>2. CASE w \in walk[i].todo
      BY <1>6, <1>8, <1>9, <2>1, <3>2
    <3> QED
      BY <3>1, <3>2
  <2> QED
    BY <1>1, <1>3, <1>7, <2>1, <2>2, VisitStays
<1>10. WalkInv'
  <2>1. walk'[1].name = NoName
    BY <1>1, <1>5, <1>6 DEF PlanIInv, WalkInv
  <2>2. \A i \in DOMAIN walk' : i > 1 =>
          /\ walk'[i].name \in Names \ Seen'
          /\ \E o \in byName'[walk'[i].name] : o.requires = walk'[i].requires
    BY <1>1, <1>6 DEF PlanIInv, WalkInv, Seen, registry
  <2>3. \A i, j \in DOMAIN walk' : i # j => walk'[i].name # walk'[j].name
    BY <1>1, <1>6 DEF PlanIInv, WalkInv
  <2> QED
    BY <1>5, <1>6, <1>9, <2>1, <2>2, <2>3 DEF WalkInv
<1> QED
  BY <1>3, <1>4, <1>10 DEF PlanIInv

LEMMA VisitKeeps ==
    ASSUME PlanIInv, NEW v \in Variables, Visit(v)
    PROVE  PlanIInv'
<1>0. PICK o \in ProducerFor(v) :
        /\ o.name \notin OnStack \cup Seen
        /\ walk' = Visited(v) \o <<[name |-> o.name, requires |-> o.requires, todo |-> o.requires]>>
  BY DEF Visit
<1>1. /\ phase = "walking" /\ phase' = phase /\ after' = after /\ planSetup' = planSetup
      /\ UNCHANGED <<planSetup, registry, edits, layering>> /\ v \in Frame.todo
  BY DEF Visit
<1>2. phase' \notin Layering \cup {"registering"} /\ phase' \in Phases
  BY <1>1 DEF Layering, Phases
<1>3. /\ RegistryInv' /\ LayerInv' /\ NodesInv' /\ Closed(after)' /\ Acyclic' /\ RequiredAreNodes'
      /\ \A w : (HasVariable(w)' <=> HasVariable(w)) /\ ProducerFor(w)' = ProducerFor(w)
  BY <1>1, <1>2, WalkStep
<1>4. PlanInv'
  BY <1>1, <1>3 DEF PlanInv
<1>5. walk \in Seq(FrameType) /\ Len(walk) > 0 /\ RegistryInv
  BY <1>1 DEF PlanIInv, WalkInv
<1>o. /\ o \in Offer /\ o.name = owner[v] /\ o.name \in Names /\ HasVariable(v)
      /\ o \in byName[o.name] /\ o.requires \subseteq Variables /\ NoName \notin Names
      /\ \A p \in ProducerFor(v) : p = o
  BY <1>5, ProducerIsOwner, PlanSetupType DEF ProducerFor, Offer, RegistryInv
<1> DEFINE f == [name |-> o.name, requires |-> o.requires, todo |-> o.requires]
           s == Visited(v)
<1>f. f \in FrameType /\ f.name = o.name /\ f.requires = o.requires /\ f.todo = o.requires
  BY <1>o DEF FrameType
<1>s. /\ s \in Seq(FrameType) /\ Len(s) = Len(walk) /\ DOMAIN walk = 1 .. Len(walk)
      /\ \A i \in DOMAIN walk : s[i].name = walk[i].name /\ s[i].requires = walk[i].requires
      /\ \A i \in DOMAIN walk : i # Len(walk) => s[i].todo = walk[i].todo
      /\ s[Len(walk)].todo = Frame.todo \ {v} /\ Frame = walk[Len(walk)]
  BY <1>5, VisitedFrames DEF Frame
<1>w. walk' = s \o <<f>>
  BY <1>0
<1> HIDE DEF f, s
<1>6. /\ walk' \in Seq(FrameType) /\ Len(walk') = Len(walk) + 1
      /\ \A i \in 1 .. Len(walk) : walk'[i] = s[i]
      /\ walk'[Len(walk) + 1] = f
  BY <1>s, <1>f, <1>w
<1>7. DOMAIN walk' = DOMAIN walk \cup {Len(walk) + 1} /\ Len(walk) \in Nat
  BY <1>5, <1>6, <1>s
<1>8. \A i \in DOMAIN walk : Wanted(i)' = Wanted(i)
  BY <1>1, <1>6, <1>s DEF Wanted
<1>9. \A i \in DOMAIN walk : Reached(i) \subseteq Reached(i)'
  <2> SUFFICES ASSUME NEW i \in DOMAIN walk, NEW n \in Reached(i) PROVE n \in Reached(i)'
    OBVIOUS
  <2>1. CASE n \in Seen
    BY <1>1, <2>1 DEF Reached, Seen
  <2>2. CASE i + 1 \in DOMAIN walk /\ n = walk[i + 1].name
    <3>1. i + 1 \in DOMAIN walk' /\ walk'[i + 1].name = n
      BY <1>6, <1>7, <1>s, <2>2
    <3> QED
      BY <3>1 DEF Reached
  <2> QED
    BY <2>1, <2>2 DEF Reached
<1>k. PICK k \in Nat : k = Len(walk)
  BY <1>7
<1>10. VisitOK(k, v)'
  <2>1. o.name \in Reached(k)'
    BY <1>6, <1>7, <1>f, <1>k DEF Reached
  <2>2. \A p \in ProducerFor(v)' : p.name \in Reached(k)'
    BY <1>3, <1>o, <2>1
  <2>3. HasVariable(v)' /\ ProducerFor(v)' # {}
    BY <1>3, <1>o
  <2> QED
    BY <2>2, <2>3 DEF VisitOK
<1>11. ASSUME NEW i \in DOMAIN walk', NEW w \in Wanted(i)' \ walk'[i].todo PROVE VisitOK(i, w)'
  <2>1. CASE i = Len(walk) + 1
    <3>1. i # 1
      BY <1>5, <2>1
    <3>2. Wanted(i)' = o.requires
      BY <1>6, <1>f, <2>1, <3>1 DEF Wanted
    <3> QED
      BY <1>6, <1>f, <1>11, <2>1, <3>2
  <2>2. CASE i = Len(walk) /\ w = v
    BY <1>10, <1>k, <2>2
  <2>3. CASE i \in DOMAIN walk /\ ~(i = Len(walk) /\ w = v)
    <3>1. i \in Nat /\ w \in Wanted(i) \ walk[i].todo
      BY <1>6, <1>8, <1>s, <1>11, <2>3
    <3>2. VisitOK(i, w)
      BY <1>1, <2>3, <3>1 DEF PlanIInv, WalkInv
    <3> QED
      BY <1>1, <1>3, <1>9, <2>3, <3>1, <3>2, VisitStays
  <2> QED
    BY <1>7, <2>1, <2>2, <2>3
<1>12. \A i \in DOMAIN walk : walk[i].name # o.name
  <2>1. \A i \in DOMAIN walk : i = 1 \/ i \in 2 .. Len(walk)
    BY <1>s
  <2>2. walk[1].name = NoName
    BY <1>1 DEF PlanIInv, WalkInv
  <2> QED
    BY <1>0, <1>o, <2>1, <2>2 DEF OnStack
<1>13. WalkInv'
  <2>1. walk'[1].name = NoName
    BY <1>1, <1>5, <1>6, <1>s DEF PlanIInv, WalkInv
  <2>2. \A i \in DOMAIN walk' : i > 1 =>
          /\ walk'[i].name \in Names \ Seen'
          /\ \E p \in byName'[walk'[i].name] : p.requires = walk'[i].requires
    <3> SUFFICES ASSUME NEW i \in DOMAIN walk', i > 1
                 PROVE  /\ walk'[i].name \in Names \ Seen'
                        /\ \E p \in byName'[walk'[i].name] : p.requires = walk'[i].requires
      OBVIOUS
    <3>0. byName' = byName /\ Seen' = Seen
      BY <1>1 DEF registry, Seen
    <3>1. CASE i = Len(walk) + 1
      BY <1>0, <1>6, <1>f, <1>o, <3>0, <3>1
    <3>2. CASE i \in DOMAIN walk
      <4>1. walk'[i].name = walk[i].name /\ walk'[i].requires = walk[i].requires
        BY <1>6, <1>s, <3>2
      <4> QED
        BY <1>1, <3>0, <3>2, <4>1 DEF PlanIInv, WalkInv
    <3> QED
      BY <1>7, <3>1, <3>2
  <2>3. \A i, j \in DOMAIN walk' : i # j => walk'[i].name # walk'[j].name
    <3>1. \A i \in DOMAIN walk : walk'[i].name = walk[i].name /\ i # Len(walk) + 1
      BY <1>6, <1>s
    <3>2. walk'[Len(walk) + 1].name = o.name
      BY <1>6, <1>f
    <3>3. \A i, j \in DOMAIN walk : i # j => walk[i].name # walk[j].name
      BY <1>1 DEF PlanIInv, WalkInv
    <3> QED
      BY <1>7, <1>12, <3>1, <3>2, <3>3
  <2>4. Len(walk') > 0
    BY <1>6, <1>7
  <2> QED
    BY <1>6, <1>11, <2>1, <2>2, <2>3, <2>4 DEF WalkInv
<1> QED
  BY <1>3, <1>4, <1>13 DEF PlanIInv

LEMMA VisitRaisesKeeps ==
    ASSUME PlanIInv, NEW v \in Variables, VisitRaises(v)
    PROVE  PlanIInv'
<1>1. /\ phase = "walking" /\ phase' \in {"KeyError", "RuntimeError"} /\ after' = after
      /\ UNCHANGED <<planSetup, registry, edits, layering>>
  BY DEF VisitRaises
<1>2. phase' \notin Layering \cup {"registering"} /\ phase' \in Phases
  BY <1>1 DEF Layering, Phases
<1> QED
  BY <1>1, <1>2, WalkStep DEF PlanIInv, PlanInv, WalkInv

LEMMA LeaveKeeps ==
    ASSUME PlanIInv, Leave
    PROVE  PlanIInv'
<1> DEFINE m == Frame.name
           u == Upstream(Frame.requires, Frame.name)
<1>1. /\ phase = "walking" /\ phase' = phase /\ planSetup' = planSetup /\ Frame.todo = {} /\ Len(walk) > 1
      /\ after' = Added(after, m, u) /\ walk' = SubSeq(walk, 1, Len(walk) - 1)
      /\ UNCHANGED <<planSetup, registry, edits, layering>>
  BY DEF Leave
<1>2. phase' \notin Layering \cup {"registering"} /\ phase' \in Phases
  BY <1>1 DEF Layering, Phases
<1>3. /\ RegistryInv' /\ LayerInv' /\ edits' = 0 /\ Closed(after) /\ Acyclic /\ RequiredAreNodes
      /\ \A w : (HasVariable(w)' <=> HasVariable(w)) /\ ProducerFor(w)' = ProducerFor(w)
  BY <1>1, <1>2, WalkStep
<1>4. /\ walk \in Seq(FrameType) /\ Len(walk) \in DOMAIN walk /\ Frame = walk[Len(walk)]
      /\ RegistryInv /\ DOMAIN walk = 1 .. Len(walk)
  BY <1>1 DEF PlanIInv, WalkInv, Frame
<1>5. m \in Names \ DOMAIN after /\ \E o \in byName[m] : o.requires = Frame.requires
  BY <1>1, <1>4 DEF PlanIInv, WalkInv, Seen
<1>6. \A w \in Frame.requires : VisitOK(Len(walk), w)
  BY <1>1, <1>4 DEF PlanIInv, WalkInv, Wanted
<1>7. Reached(Len(walk)) = DOMAIN after
  <2>1. Len(walk) + 1 \notin DOMAIN walk
    BY <1>4
  <2> QED
    BY <2>1 DEF Reached, Seen
<1>8. Frame.requires \subseteq Variables
  <2>1. Frame \in FrameType
    BY <1>4
  <2> QED
    BY <2>1 DEF FrameType
<1>9. u \subseteq DOMAIN after /\ m \notin u
  <2>1. \A w \in Frame.requires : \A o \in ProducerFor(w) : o.name \in DOMAIN after
    BY <1>6, <1>7 DEF VisitOK
  <2> QED
    BY <2>1 DEF Upstream
<1>10. \A w \in Frame.requires : HasVariable(w) => owner[w] \in u \cup {m}
  <2> SUFFICES ASSUME NEW w \in Frame.requires, HasVariable(w) PROVE owner[w] \in u \cup {m}
    OBVIOUS
  <2>1. PICK o \in ProducerFor(w) : TRUE
    BY <1>6 DEF VisitOK
  <2>2. o.name = owner[w]
    BY <1>4, <1>8, <2>1, ProducerIsOwner
  <2> QED
    BY <2>1, <2>2 DEF Upstream
<1> HIDE DEF u, m
<1>11. /\ DOMAIN after' = DOMAIN after \cup {m} /\ after'[m] = u
       /\ \A n \in DOMAIN after : after'[n] = after[n]
  BY <1>1, <1>5 DEF Added
<1>12. DOMAIN after' \subseteq Names /\ after' \in [DOMAIN after' -> SUBSET Names]
  <2>1. DOMAIN after \subseteq Names /\ after \in [DOMAIN after -> SUBSET Names]
    BY DEF PlanIInv, NodesInv
  <2>2. \A n \in DOMAIN after' : after'[n] \subseteq Names
    BY <1>5, <1>9, <1>11, <2>1
  <2>3. after' = [n \in DOMAIN after' |-> after'[n]]
    BY <1>1 DEF Added
  <2> QED
    BY <1>5, <1>11, <2>1, <2>2, <2>3
<1>13. NodesInv'
  BY <1>1, <1>2, <1>3, <1>12 DEF NodesInv
<1>14. Closed(after)'
  BY <1>3, <1>9, <1>11 DEF Closed
<1>15. Acyclic'
  <2> SUFFICES ASSUME NEW C \in SUBSET DOMAIN after', C # {} PROVE \E n \in C : after'[n] \cap C = {}
    BY DEF Acyclic
  <2>1. CASE C \subseteq {m}
    BY <1>5, <1>9, <1>11, <2>1
  <2>2. CASE C \ {m} # {}
    <3>1. C \ {m} \in SUBSET DOMAIN after
      BY <1>11
    <3>2. PICK n \in C \ {m} : after[n] \cap (C \ {m}) = {}
      BY <1>3, <2>2, <3>1 DEF Acyclic
    <3>3. m \notin after[n]
      BY <1>3, <1>5, <3>1, <3>2 DEF Closed
    <3> QED
      BY <1>11, <3>1, <3>2, <3>3
  <2> QED
    BY <2>1, <2>2
<1>16. RequiredAreNodes'
  <2> SUFFICES ASSUME NEW n \in DOMAIN after', NEW o \in byName'[n], NEW w \in o.requires, HasVariable(w)'
               PROVE  owner'[w] \in after'[n] \cup {n}
    BY DEF RequiredAreNodes
  <2>0. owner' = owner /\ byName' = byName /\ HasVariable(w)
    BY <1>1, <1>3 DEF registry
  <2>1. CASE n = m
    <3>1. o.requires = Frame.requires
      BY <1>4, <1>5, <2>0, <2>1 DEF RegistryInv
    <3> QED
      BY <1>10, <1>11, <2>0, <2>1, <3>1
  <2>2. CASE n # m
    BY <1>3, <1>11, <2>0, <2>2 DEF RequiredAreNodes
  <2> QED
    BY <2>1, <2>2
<1>17. PlanInv'
  BY <1>1, <1>14, <1>15, <1>16 DEF PlanInv
<1>18. /\ walk' \in Seq(FrameType) /\ Len(walk') = Len(walk) - 1 /\ DOMAIN walk' = 1 .. (Len(walk) - 1)
       /\ \A i \in DOMAIN walk' : walk'[i] = walk[i] /\ i \in DOMAIN walk /\ i # Len(walk)
  BY <1>1, <1>4, Front
<1>19. \A i \in DOMAIN walk' : Reached(i) \subseteq Reached(i)' /\ Wanted(i)' = Wanted(i)
  <2> SUFFICES ASSUME NEW i \in DOMAIN walk' PROVE Reached(i) \subseteq Reached(i)' /\ Wanted(i)' = Wanted(i)
    OBVIOUS
  <2>1. Wanted(i)' = Wanted(i)
    BY <1>1, <1>18 DEF Wanted
  <2>2. ASSUME NEW n \in Reached(i) PROVE n \in Reached(i)'
    <3>1. CASE n \in Seen
      BY <1>11, <3>1 DEF Reached, Seen
    <3>2. CASE i + 1 \in DOMAIN walk /\ i + 1 # Len(walk) /\ n = walk[i + 1].name
      <4>1. i + 1 \in DOMAIN walk' /\ walk'[i + 1].name = n
        BY <1>4, <1>18, <3>2
      <4> QED
        BY <4>1 DEF Reached
    <3>3. CASE i + 1 = Len(walk) /\ n = walk[i + 1].name
      <4>1. n = m
        BY <1>4, <3>3 DEF m
      <4> QED
        BY <1>11, <4>1 DEF Reached, Seen
    <3> QED
      BY <2>2, <3>1, <3>2, <3>3 DEF Reached
  <2> QED
    BY <2>1, <2>2
<1>20. ASSUME NEW i \in DOMAIN walk', NEW w \in Wanted(i)' \ walk'[i].todo PROVE VisitOK(i, w)'
  <2>1. i \in DOMAIN walk /\ w \in Wanted(i) \ walk[i].todo
    BY <1>18, <1>19, <1>20
  <2>2. VisitOK(i, w)
    BY <1>1, <2>1 DEF PlanIInv, WalkInv
  <2> QED
    BY <1>3, <1>19, <2>2 DEF VisitOK
<1>21. WalkInv'
  <2>1. walk'[1].name = NoName /\ Len(walk') > 0
    BY <1>1, <1>4, <1>18 DEF PlanIInv, WalkInv
  <2>2. \A i, j \in DOMAIN walk' : i # j => walk'[i].name # walk'[j].name
    BY <1>1, <1>18 DEF PlanIInv, WalkInv
  <2>3. \A i \in DOMAIN walk' : walk'[i].name # m
    BY <1>1, <1>4, <1>18 DEF PlanIInv, WalkInv, m
  <2>4. \A i \in DOMAIN walk' : i > 1 =>
          /\ walk'[i].name \in Names \ Seen'
          /\ \E o \in byName'[walk'[i].name] : o.requires = walk'[i].requires
    <3> SUFFICES ASSUME NEW i \in DOMAIN walk', i > 1
                 PROVE  /\ walk'[i].name \in Names \ Seen'
                        /\ \E o \in byName'[walk'[i].name] : o.requires = walk'[i].requires
      OBVIOUS
    <3>1. walk'[i] = walk[i] /\ i \in DOMAIN walk
      BY <1>18
    <3>2. /\ walk[i].name \in Names \ Seen
          /\ \E o \in byName[walk[i].name] : o.requires = walk[i].requires
      BY <1>1, <3>1 DEF PlanIInv, WalkInv
    <3>3. byName' = byName /\ Seen' = Seen \cup {m}
      BY <1>1, <1>11 DEF registry, Seen
    <3>4. walk'[i].name # m
      BY <2>3
    <3> QED
      BY <3>1, <3>2, <3>3, <3>4
  <2> QED
    BY <1>18, <1>20, <2>1, <2>2, <2>4 DEF WalkInv
<1> QED
  BY <1>3, <1>13, <1>17, <1>21 DEF PlanIInv

LEMMA WalkedKeeps ==
    ASSUME PlanIInv, Walked
    PROVE  PlanIInv'
<1>1. /\ phase = "walking" /\ phase' = "built" /\ after' = after /\ Frame.todo = {} /\ Len(walk) = 1
      /\ planSetup' = planSetup /\ UNCHANGED <<planSetup, registry, edits, layering>>
  BY DEF Walked
<1>2. phase' \notin Layering \cup {"registering"} /\ phase' \in Phases
  BY <1>1 DEF Layering, Phases
<1>3. /\ RegistryInv' /\ LayerInv' /\ NodesInv' /\ Closed(after)' /\ Acyclic' /\ RequiredAreNodes'
      /\ \A w : (HasVariable(w)' <=> HasVariable(w)) /\ ProducerFor(w)' = ProducerFor(w)
  BY <1>1, <1>2, WalkStep
<1>4. TargetsAreNodes'
  <2> SUFFICES ASSUME NEW v \in planSetup.targets
               PROVE  \E o \in ProducerFor(v) : o.name \in DOMAIN after
    BY <1>1, <1>3 DEF TargetsAreNodes
  <2>1. 1 \in DOMAIN walk /\ walk[1].todo = {}
    BY <1>1 DEF PlanIInv, WalkInv, Frame
  <2>2. VisitOK(1, v)
    BY <1>1, <2>1 DEF PlanIInv, WalkInv, Wanted
  <2>3. Reached(1) = DOMAIN after
    BY <1>1 DEF Reached, Seen, PlanIInv, WalkInv
  <2> QED
    BY <2>2, <2>3 DEF VisitOK
<1> QED
  BY <1>1, <1>3, <1>4 DEF PlanIInv, PlanInv, WalkInv

-----------------------------------------------------------------------------
(* --- edits and layers ---------------------------------------------------- *)

LEMMA EditKeeps ==
    ASSUME PlanIInv, NEW n \in Names, Remove(n) \/ \E deps \in SUBSET Names : Add(n, deps)
    PROVE  PlanIInv'
<1>1. /\ phase = "built" /\ phase' = "built" /\ edits' = edits + 1 /\ planSetup' = planSetup
      /\ UNCHANGED <<planSetup, registry>> /\ UNCHANGED layering
  BY DEF Remove, Add, Edit
<1>2. edits' \in Nat /\ edits' # 0
  BY <1>1 DEF PlanIInv, NodesInv
<1>3. DOMAIN after' \subseteq Names /\ after' \in [DOMAIN after' -> SUBSET Names]
  <2>1. DOMAIN after \subseteq Names /\ \A m \in DOMAIN after : after[m] \subseteq Names
    BY DEF PlanIInv, NodesInv
  <2>2. CASE Remove(n)
    BY <2>1, <2>2 DEF Remove
  <2>3. ASSUME NEW deps \in SUBSET Names, Add(n, deps)
        PROVE  DOMAIN after' \subseteq Names /\ after' \in [DOMAIN after' -> SUBSET Names]
    BY <2>1, <2>3 DEF Add, Added
  <2> QED
    BY <2>2, <2>3
<1>4. NodesInv' /\ PlanInv' /\ WalkInv'
  BY <1>1, <1>2, <1>3 DEF NodesInv, PlanInv, FromWalk, WalkInv, Phases
<1>5. LayerInv'
  BY <1>1, NoLayers DEF PlanIInv, Layering
<1> QED
  BY <1>1, <1>4, <1>5, RegistryStays DEF PlanIInv

\* What the layering keeps of everything before it.
LEMMA LayeringKeeps ==
    ASSUME PlanIInv, phase \in Layering \cup {"built"}, phase' \in Layering,
           UNCHANGED <<planSetup, registry, after, walk, edits>>
    PROVE  RegistryInv' /\ NodesInv' /\ WalkInv' /\ PlanInv'
<1>1. RegistryInv' /\ \A v : (HasVariable(v)' <=> HasVariable(v)) /\ ProducerFor(v)' = ProducerFor(v)
  BY RegistryStays DEF PlanIInv
<1>2. NodesInv' /\ WalkInv'
  BY DEF PlanIInv, NodesInv, WalkInv, Layering, Phases
<1>3. PlanInv'
  BY <1>1 DEF PlanIInv, PlanInv, FromWalk, Layering, Closed, Acyclic, RequiredAreNodes, registry
<1> QED
  BY <1>1, <1>2, <1>3

LEMMA StartLayersKeeps ==
    ASSUME PlanIInv, StartLayers
    PROVE  PlanIInv'
<1>1. /\ phase = "built" /\ UNCHANGED <<planSetup, registry, after, walk, edits>> /\ layers' = layers
      /\ layers = <<>> /\ remaining = NoNodes
      /\ DOMAIN after \subseteq Names /\ after \in [DOMAIN after -> SUBSET Names]
  BY DEF StartLayers, PlanIInv, LayerInv, Layering, NodesInv
<1>2. CASE Closed(after)
  <2>1. phase' = "layering" /\ remaining' = after
    BY <1>2 DEF StartLayers
  <2>2. LayerInv'
    BY <1>1, <1>2, <2>1 DEF LayerInv, LayersInOrder, CycleIsReal, InLayers, Layering, Closed
  <2>3. phase' \in Layering
    BY <2>1 DEF Layering
  <2> QED
    BY <1>1, <2>2, <2>3, LayeringKeeps DEF PlanIInv
<1>3. CASE ~Closed(after)
  <2>1. phase' = "unknown nodes" /\ remaining' = remaining
    BY <1>3 DEF StartLayers
  <2>2. ~FromWalk
    BY <1>3 DEF PlanIInv, PlanInv
  <2>3. PlanInv'
    BY <1>1, <2>1, <2>2 DEF PlanInv, FromWalk
  <2>4. NodesInv' /\ WalkInv'
    BY <1>1, <2>1 DEF PlanIInv, NodesInv, WalkInv, Phases
  <2>5. LayerInv'
    BY <1>1, <2>1, NoLayers DEF PlanIInv, Layering, layering
  <2> QED
    BY <1>1, <2>3, <2>4, <2>5, RegistryStays DEF PlanIInv
<1> QED
  BY <1>2, <1>3

LEMMA TakeLayerKeeps ==
    ASSUME PlanIInv, TakeLayer
    PROVE  PlanIInv'
<1>1. /\ phase = "layering" /\ phase' = phase /\ UNCHANGED <<planSetup, registry, after, walk, edits>>
      /\ layers' = Append(layers, Ready) /\ after' = after
      /\ remaining' = [n \in DOMAIN remaining \ Ready |-> remaining[n] \ Ready]
  BY DEF TakeLayer
<1>2. /\ layers \in Seq(SUBSET Names) /\ LayersInOrder /\ Closed(after)
      /\ remaining \in [DOMAIN remaining -> SUBSET Names] /\ DOMAIN remaining \subseteq DOMAIN after
      /\ \A n \in DOMAIN remaining : remaining[n] = after[n] \cap DOMAIN remaining
      /\ InLayers = DOMAIN after \ DOMAIN remaining
      /\ DOMAIN after \subseteq Names
  BY <1>1 DEF PlanIInv, LayerInv, NodesInv, Layering
<1>3. PICK k \in Nat : k = Len(layers) /\ DOMAIN layers = 1 .. k
  BY <1>2
<1>r. PICK R \in SUBSET DOMAIN remaining : R = Ready
  BY DEF Ready
<1>4. /\ layers' \in Seq(SUBSET Names) /\ DOMAIN layers' = 1 .. (k + 1)
      /\ \A i \in 1 .. k : layers'[i] = layers[i]
      /\ layers'[k + 1] = R
  <2>1. R \in SUBSET Names
    BY <1>2, <1>r
  <2> QED
    BY <1>1, <1>2, <1>3, <1>r, <2>1
<1>5. \A i \in DOMAIN layers : layers[i] \cap DOMAIN remaining = {}
  BY <1>2 DEF InLayers
<1>6. \A n \in R : \A d \in after[n] : \E j \in 1 .. k : d \in layers[j]
  <2> SUFFICES ASSUME NEW n \in R, NEW d \in after[n] PROVE \E j \in 1 .. k : d \in layers[j]
    OBVIOUS
  <2>1. d \in DOMAIN after \ DOMAIN remaining
    BY <1>2, <1>r DEF Ready, Closed
  <2> QED
    BY <1>2, <1>3, <2>1 DEF InLayers
<1>7. LayersInOrder'
  <2>1. ASSUME NEW i \in DOMAIN layers', NEW n \in layers'[i], NEW d \in after'[n]
        PROVE  \E j \in 1 .. (i - 1) : d \in layers'[j]
    <3>1. CASE i = k + 1
      BY <1>1, <1>4, <1>6, <2>1, <3>1
    <3>2. CASE i \in 1 .. k
      <4>1. n \in layers[i] /\ d \in after[n]
        BY <1>1, <1>4, <2>1, <3>2
      <4>2. PICK j \in 1 .. (i - 1) : d \in layers[j]
        BY <1>2, <1>3, <3>2, <4>1 DEF LayersInOrder
      <4> QED
        BY <1>4, <3>2, <4>2
    <3> QED
      BY <1>4, <3>1, <3>2
  <2>2. ASSUME NEW i \in DOMAIN layers', NEW j \in DOMAIN layers', i # j
        PROVE  layers'[i] \cap layers'[j] = {}
    <3>1. \A l \in 1 .. k : layers'[l] = layers[l] /\ layers[l] \cap R = {}
      BY <1>3, <1>4, <1>5, <1>r
    <3>2. \A l, o \in 1 .. k : l # o => layers[l] \cap layers[o] = {}
      BY <1>2, <1>3 DEF LayersInOrder
    <3>3. \A l \in DOMAIN layers' : l = k + 1 \/ l \in 1 .. k
      BY <1>4
    <3> QED
      BY <1>4, <2>2, <3>1, <3>2, <3>3
  <2>3. phase' # "layered"
    BY <1>1
  <2> QED
    BY <2>1, <2>2, <2>3 DEF LayersInOrder
<1>8. InLayers' = InLayers \cup R
  BY <1>3, <1>4 DEF InLayers
<1>9. DOMAIN remaining' = DOMAIN remaining \ R
  BY <1>1, <1>r
<1>10. InLayers' = DOMAIN after' \ DOMAIN remaining'
  BY <1>1, <1>2, <1>8, <1>9, <1>r
<1>11. /\ remaining' \in [DOMAIN remaining' -> SUBSET Names] /\ DOMAIN remaining' \subseteq DOMAIN after'
       /\ \A n \in DOMAIN remaining' : remaining'[n] = after'[n] \cap DOMAIN remaining'
  BY <1>1, <1>2, <1>9, <1>r
<1>12. Closed(after)' /\ CycleIsReal'
  BY <1>1, <1>2 DEF Closed, CycleIsReal
<1>13. phase' \in Layering
  BY <1>1 DEF Layering
<1>14. LayerInv'
  BY <1>4, <1>7, <1>10, <1>11, <1>12, <1>13 DEF LayerInv
<1> QED
  BY <1>1, <1>13, <1>14, LayeringKeeps DEF PlanIInv, Layering

LEMMA EndLayersKeeps ==
    ASSUME PlanIInv, EndLayers
    PROVE  PlanIInv'
<1>1. /\ phase = "layering" /\ Ready = {} /\ UNCHANGED <<planSetup, registry, after, walk, edits>>
      /\ layers' = layers /\ remaining' = remaining /\ after' = after
      /\ phase' = IF remaining = NoNodes THEN "layered" ELSE "cycle"
  BY DEF EndLayers, layering
<1>2. /\ layers \in Seq(SUBSET Names) /\ LayersInOrder /\ Closed(after)
      /\ remaining \in [DOMAIN remaining -> SUBSET Names] /\ DOMAIN remaining \subseteq DOMAIN after
      /\ \A n \in DOMAIN remaining : remaining[n] = after[n] \cap DOMAIN remaining
      /\ InLayers = DOMAIN after \ DOMAIN remaining
  BY <1>1 DEF PlanIInv, LayerInv, Layering
<1>3. phase' \in Layering /\ phase' \in {"layered", "cycle"}
  BY <1>1 DEF Layering
<1>4. LayersInOrder'
  <2>1. phase' = "layered" => InLayers' = DOMAIN after'
    BY <1>1, <1>2 DEF InLayers, NoNodes
  <2> QED
    BY <1>1, <1>2, <2>1 DEF LayersInOrder
<1>5. CycleIsReal'
  <2> SUFFICES ASSUME phase' = "cycle"
               PROVE  \E C \in SUBSET DOMAIN after' : C # {} /\ \A n \in C : after'[n] \cap C # {}
    BY DEF CycleIsReal
  <2>1. remaining # NoNodes
    BY <1>1
  <2>2. DOMAIN remaining # {}
    BY <1>2, <2>1 DEF NoNodes
  <2>3. \A n \in DOMAIN remaining : after[n] \cap DOMAIN remaining # {}
    BY <1>1, <1>2 DEF Ready
  <2>4. DOMAIN remaining \in SUBSET DOMAIN after' /\ after' = after
    BY <1>1, <1>2
  <2> QED
    BY <2>2, <2>3, <2>4
<1>6. LayerInv'
  BY <1>1, <1>2, <1>3, <1>4, <1>5 DEF LayerInv, InLayers, Closed
<1> QED
  BY <1>1, <1>3, <1>6, LayeringKeeps DEF PlanIInv, Layering

-----------------------------------------------------------------------------
LEMMA PlanInductive == PlanIInv /\ [PlanNext]_planVars => PlanIInv'
<1> SUFFICES ASSUME PlanIInv, [PlanNext]_planVars PROVE PlanIInv'
  OBVIOUS
<1>1. CASE UNCHANGED planVars
  <2>1. /\ UNCHANGED <<planSetup, registry>> /\ phase' = phase /\ after' = after /\ walk' = walk
        /\ edits' = edits /\ layers' = layers /\ remaining' = remaining /\ byName' = byName
        /\ owner' = owner /\ planSetup' = planSetup
    BY <1>1 DEF planVars, registry, layering
  <2>2. RegistryInv' /\ \A v : (HasVariable(v)' <=> HasVariable(v)) /\ ProducerFor(v)' = ProducerFor(v)
    BY <2>1, RegistryStays DEF PlanIInv
  <2>3. NodesInv' /\ LayerInv'
    BY <2>1 DEF PlanIInv, NodesInv, LayerInv, LayersInOrder, CycleIsReal, InLayers, Closed
  <2>4. WalkInv'
    BY <2>1, <2>2 DEF PlanIInv, WalkInv, VisitOK, Wanted, Reached, Seen
  <2>5. PlanInv'
    BY <2>1, <2>2 DEF PlanIInv, PlanInv, FromWalk, Closed, Acyclic, RequiredAreNodes, TargetsAreNodes
  <2> QED
    BY <2>2, <2>3, <2>4, <2>5 DEF PlanIInv
<1>2. ASSUME NEW o \in planSetup.offers, Register(o) PROVE PlanIInv'
  BY <1>2, RegisterKeeps
<1>3. ASSUME NEW n \in Names, Unregister(n) PROVE PlanIInv'
  BY <1>3, UnregisterKeeps
<1>4. CASE Chain
  BY <1>4, ChainKeeps
<1>5. CASE FromTargets
  BY <1>5, FromTargetsKeeps
<1>6. CASE Leave \/ Walked
  BY <1>6, LeaveKeeps, WalkedKeeps
<1>7. ASSUME NEW v \in Variables, Pass(v) \/ Visit(v) \/ VisitRaises(v) PROVE PlanIInv'
  BY <1>7, PassKeeps, VisitKeeps, VisitRaisesKeeps
<1>8. ASSUME NEW n \in Names, Remove(n) \/ \E deps \in SUBSET Names : Add(n, deps) PROVE PlanIInv'
  BY <1>8, EditKeeps
<1>9. CASE StartLayers \/ TakeLayer \/ EndLayers
  BY <1>9, StartLayersKeeps, TakeLayerKeeps, EndLayersKeeps
<1> QED
  BY <1>1, <1>2, <1>3, <1>4, <1>5, <1>6, <1>7, <1>8, <1>9 DEF PlanNext

LEMMA PlanInvariant == PlanSpec => []PlanIInv
  BY PlanInitially, PlanInductive, PTL DEF PlanSpec

\* The registry and the pipeline keep to their types, and a walk has its targets
\* at the bottom (pipeline.py:109-143).
THEOREM PlanType == PlanSpec => []PlanTypeOK
<1>1. PlanIInv => PlanTypeOK
  BY DEF PlanIInv, RegistryInv, NodesInv, WalkInv, LayerInv, PlanTypeOK, NoNodes
<1> QED
  BY <1>1, PlanInvariant, PTL

\* Without replace=True the owner of a variable is the producer that makes it, after
\* any calls of register and unregister (registry.py:48-76).
THEOREM OwnersAreProducers == PlanSpec => []OwnersProduce
<1>1. PlanIInv => OwnersProduce
  BY DEF PlanIInv, RegistryInv
<1> QED
  BY <1>1, PlanInvariant, PTL

\* A pipeline made from targets has no cycle that its layering would find: the walk
\* of from_targets finds them all, for any producers.
THEOREM WalkedIsLayered == PlanSpec => []WalkedPlanIsLayered
<1>1. ASSUME PlanIInv, planSetup.chain = <<>>, edits = 0 PROVE phase \notin {"unknown nodes", "cycle"}
  <2>1. FromWalk /\ Acyclic /\ phase # "unknown nodes"
    BY <1>1 DEF FromWalk, PlanIInv, PlanInv
  <2>2. phase # "cycle"
    BY <1>1, <2>1 DEF PlanIInv, LayerInv, CycleIsReal, Acyclic
  <2> QED
    BY <2>1, <2>2
<1>2. PlanIInv => WalkedPlanIsLayered
  BY <1>1 DEF WalkedPlanIsLayered
<1> QED
  BY <1>2, PlanInvariant, PTL

\* and holds every producer its nodes depend on, before them.
THEOREM WalkedIsComplete == PlanSpec => []WalkedPlanIsComplete
<1>1. PlanIInv => WalkedPlanIsComplete
  BY DEF PlanIInv, PlanInv, FromWalk, TargetsAreNodes, RequiredAreNodes, WalkedPlanIsComplete
<1> QED
  BY <1>1, PlanInvariant, PTL

\* topological_layers puts a node in one layer, after all it depends on, for any
\* pipeline, edited or not.
THEOREM LayersAreInOrder == PlanSpec => []LayersInOrder
<1>1. PlanIInv => LayersInOrder
  BY DEF PlanIInv, LayerInv
<1> QED
  BY <1>1, PlanInvariant, PTL

\* The RuntimeError of pipeline.py:249 is raised only of a cycle.
THEOREM CyclesAreReal == PlanSpec => []CycleIsReal
<1>1. PlanIInv => CycleIsReal
  BY DEF PlanIInv, LayerInv
<1> QED
  BY <1>1, PlanInvariant, PTL

\* Registry, walk and layers together, for any registry, targets, chains and edits.
THEOREM PlanSound == PlanSpec => []PlanIsSound
  BY OwnersAreProducers, WalkedIsLayered, WalkedIsComplete, LayersAreInOrder, CyclesAreReal, PTL
     DEF PlanIsSound

(* --- chains ---------------------------------------------------------------- *)

\* A pipeline is built in one way: as a chain, or from targets.
OneWay == \A s \in PlanSetups : s.chain = <<>> \/ s.targets = {}

ProperChain ==
    /\ planSetup.chain # <<>>
    /\ \A i \in DOMAIN planSetup.chain : planSetup.chain[i] # {}
    /\ \A i, j \in DOMAIN planSetup.chain : i # j => planSetup.chain[i] \cap planSetup.chain[j] = {}

\* The layers taken are the first links.
ChainInv ==
    /\ phase # "walking"
    /\ edits = 0 /\ phase \in {"built"} \cup Layering => after = Chained(planSetup.chain)
    /\ edits = 0 => \A i \in DOMAIN layers : i \in DOMAIN planSetup.chain /\ layers[i] = planSetup.chain[i]

\* A node of a link is after the whole link before, and nothing else.
LEMMA ChainedLinks ==
    ASSUME planSetup \in PlanSetups, ProperChain
    PROVE  /\ DOMAIN Chained(planSetup.chain) = UNION {planSetup.chain[i] : i \in DOMAIN planSetup.chain}
           /\ \A i \in DOMAIN planSetup.chain : \A n \in planSetup.chain[i] :
                 Chained(planSetup.chain)[n] = IF i > 1 THEN planSetup.chain[i - 1] ELSE {}
<1> DEFINE c == planSetup.chain
<1>1. c \in Seq(SUBSET Names)
  BY PlanSetupType
<1>2. ASSUME NEW i \in DOMAIN c, NEW n \in c[i]
      PROVE  Chained(c)[n] = IF i > 1 THEN c[i - 1] ELSE {}
  <2>1. n \in UNION {c[j] : j \in DOMAIN c}
    BY <1>2
  <2>2. Chained(c)[n] = UNION {c[j - 1] : j \in {l \in DOMAIN c : n \in c[l] /\ l > 1}}
    BY <2>1 DEF Chained
  <2>3. \A j \in DOMAIN c : n \in c[j] => j = i
    BY <1>2 DEF ProperChain
  <2>4. {l \in DOMAIN c : n \in c[l] /\ l > 1} = IF i > 1 THEN {i} ELSE {}
    BY <1>2, <2>3
  <2> QED
    BY <2>2, <2>4
<1> QED
  BY <1>2 DEF Chained

\* When k layers have been taken the next is link k + 1, and after the last there is none.
LEMMA NextLink ==
    ASSUME PlanIInv, ProperChain, ChainInv, edits = 0, phase = "layering",
           NEW k \in Nat, k = Len(layers)
    PROVE  /\ k <= Len(planSetup.chain)
           /\ k < Len(planSetup.chain) => Ready = planSetup.chain[k + 1]
           /\ k = Len(planSetup.chain) => DOMAIN remaining = {}
<1> DEFINE c == planSetup.chain
<1>1. PICK m \in Nat : m = Len(c) /\ DOMAIN c = 1 .. m
  BY PlanSetupType DEF PlanIInv, RegistryInv
<1>2. /\ DOMAIN layers = 1 .. k /\ after = Chained(c)
      /\ \A n \in DOMAIN remaining : remaining[n] = after[n] \cap DOMAIN remaining
      /\ DOMAIN remaining = DOMAIN after \ InLayers
  <2>1. layers \in Seq(SUBSET Names) /\ after = Chained(c)
    BY DEF PlanIInv, LayerInv, ChainInv, Layering
  <2>2. /\ DOMAIN remaining \subseteq DOMAIN after /\ InLayers = DOMAIN after \ DOMAIN remaining
        /\ \A n \in DOMAIN remaining : remaining[n] = after[n] \cap DOMAIN remaining
    BY DEF PlanIInv, LayerInv, Layering
  <2>3. DOMAIN layers = 1 .. k
    BY <2>1
  <2>4. DOMAIN remaining = DOMAIN after \ InLayers
    BY <2>2
  <2> QED
    BY <2>1, <2>2, <2>3, <2>4
<1>3. \A i \in 1 .. k : i \in 1 .. m /\ layers[i] = c[i]
  BY <1>1, <1>2 DEF ChainInv
<1>4. k <= m
  <2>1. CASE k = 0
    BY <2>1
  <2>2. CASE k > 0
    <3>1. k \in 1 .. k
      BY <2>2
    <3> QED
      BY <1>3, <3>1
  <2> QED
    BY <2>1, <2>2
<1>5. \A n : n \in DOMAIN remaining <=> \E i \in 1 .. m : i > k /\ n \in c[i]
  <2>1. \A n : n \in DOMAIN after <=> \E i \in 1 .. m : n \in c[i]
    BY <1>1, <1>2, ChainedLinks DEF PlanIInv, RegistryInv
  <2>2. \A n : n \in InLayers <=> \E i \in 1 .. k : n \in c[i]
    BY <1>2, <1>3 DEF InLayers
  <2>3. \A i, j \in 1 .. m : i # j => c[i] \cap c[j] = {}
    BY <1>1 DEF ProperChain
  <2>4. \A i \in 1 .. m : i \in 1 .. k \/ i > k
    BY <1>4
  <2>5. \A i \in 1 .. k : i \in 1 .. m /\ ~(i > k)
    BY <1>4
  <2> QED
    BY <1>2, <2>1, <2>2, <2>3, <2>4, <2>5
<1>6. \A i \in 1 .. m : \A n \in c[i] : after[n] = IF i > 1 THEN c[i - 1] ELSE {}
  BY <1>1, <1>2, ChainedLinks DEF PlanIInv, RegistryInv
<1>7. ASSUME k < m PROVE Ready = c[k + 1]
  <2>0. k + 1 \in 1 .. m /\ k + 1 > k
    BY <1>7
  <2>1. ASSUME NEW n \in c[k + 1] PROVE n \in Ready
    <3>1. n \in DOMAIN remaining
      BY <1>5, <2>0, <2>1
    <3>2. after[n] \cap DOMAIN remaining = {}
      <4>1. CASE k = 0
        BY <1>6, <2>0, <2>1, <4>1
      <4>2. CASE k > 0
        <5>1. after[n] = c[k]
          BY <1>6, <2>0, <2>1, <4>2
        <5>2. k \in 1 .. m /\ k \in 1 .. k
          BY <1>7, <4>2
        <5>3. c[k] \subseteq InLayers
          BY <1>2, <1>3, <5>2 DEF InLayers
        <5> QED
          BY <1>2, <5>1, <5>3
      <4> QED
        BY <4>1, <4>2
    <3> QED
      BY <1>2, <3>1, <3>2 DEF Ready
  <2>2. ASSUME NEW n \in Ready PROVE n \in c[k + 1]
    <3>1. n \in DOMAIN remaining /\ after[n] \cap DOMAIN remaining = {}
      BY <1>2, <2>2 DEF Ready
    <3>2. PICK i \in 1 .. m : i > k /\ n \in c[i]
      BY <1>5, <3>1
    <3>3. SUFFICES ASSUME i # k + 1 PROVE FALSE
      BY <3>2
    <3>4. i - 1 \in 1 .. m /\ i - 1 > k /\ i > 1
      BY <3>2, <3>3
    <3>5. c[i - 1] \subseteq DOMAIN remaining
      BY <1>5, <3>4
    <3>6. c[i - 1] # {}
      BY <1>1, <3>4 DEF ProperChain
    <3>7. after[n] = c[i - 1]
      BY <1>6, <3>2, <3>4
    <3> QED
      BY <3>1, <3>5, <3>6, <3>7
  <2> QED
    BY <2>1, <2>2
<1>8. k = m => DOMAIN remaining = {}
  <2>1. k = m => \A i \in 1 .. m : ~(i > k)
    OBVIOUS
  <2> QED
    BY <1>5, <2>1
<1> QED
  BY <1>1, <1>4, <1>7, <1>8

LEMMA ChainStep ==
    ASSUME OneWay, PlanIInv, ProperChain => ChainInv, [PlanNext]_planVars
    PROVE  (ProperChain => ChainInv)'
<1>1. planSetup' = planSetup
  BY DEF PlanNext, planVars, Register, Unregister, Chain, FromTargets, Leave, Walked, Pass, Visit, VisitRaises,
     Add, Remove, StartLayers, TakeLayer, EndLayers
<1> SUFFICES ASSUME ProperChain PROVE ChainInv'
  BY <1>1 DEF ProperChain
<1>2. ChainInv /\ planSetup \in PlanSetups /\ planSetup.targets = {}
  BY DEF OneWay, ProperChain, PlanIInv, RegistryInv
<1>3. CASE UNCHANGED planVars
  BY <1>2, <1>3 DEF planVars, ChainInv, Layering
<1>4. CASE (\E o \in planSetup.offers : Register(o)) \/ \E n \in Names : Unregister(n)
  BY <1>1, <1>2, <1>4 DEF Register, Unregister, layering, ChainInv, Layering
<1>5. CASE Chain
  BY <1>1, <1>2, <1>5 DEF Chain, layering, ChainInv, Layering
<1>6. ~FromTargets /\ ~Leave /\ ~Walked /\ \A v \in Variables : ~Pass(v) /\ ~Visit(v) /\ ~VisitRaises(v)
  BY <1>2 DEF FromTargets, Leave, Walked, Pass, Visit, VisitRaises, ChainInv
<1>7. CASE \E n \in Names : Remove(n) \/ \E deps \in SUBSET Names : Add(n, deps)
  <2>1. edits' = edits + 1 /\ phase' = "built" /\ edits \in Nat
    BY <1>7 DEF Remove, Add, Edit, PlanIInv, NodesInv
  <2> QED
    BY <1>1, <2>1 DEF ChainInv
<1>8. CASE StartLayers
  BY <1>1, <1>2, <1>8 DEF StartLayers, ChainInv, Layering
<1>9. CASE TakeLayer
  <2>1. /\ phase = "layering" /\ Ready # {} /\ UNCHANGED <<phase, after, edits>>
        /\ layers' = Append(layers, Ready) /\ layers \in Seq(SUBSET Names)
        /\ planSetup.chain \in Seq(SUBSET Names)
    BY <1>2, <1>9, PlanSetupType DEF TakeLayer, PlanIInv, LayerInv
  <2>2. PICK k \in Nat : k = Len(layers) /\ DOMAIN layers = 1 .. k
    BY <2>1
  <2>3. ASSUME edits = 0, NEW i \in DOMAIN layers'
        PROVE  i \in DOMAIN planSetup.chain /\ layers'[i] = planSetup.chain[i]
    <3>1. /\ k < Len(planSetup.chain) /\ Ready = planSetup.chain[k + 1]
      <4>1. DOMAIN remaining # {}
        BY <2>1 DEF Ready
      <4> QED
        BY <1>2, <2>1, <2>2, <2>3, <4>1, NextLink
    <3>2. i \in 1 .. (k + 1)
      BY <2>1, <2>2
    <3>3. CASE i = k + 1
      <4>1. i \in DOMAIN planSetup.chain
        BY <2>1, <3>1, <3>3
      <4>2. layers'[k + 1] = Ready
        BY <2>1, <2>2
      <4> QED
        BY <3>1, <3>3, <4>1, <4>2
    <3>4. CASE i \in 1 .. k
      <4>1. layers'[i] = layers[i]
        BY <2>1, <2>2, <3>4
      <4> QED
        BY <1>2, <2>2, <2>3, <3>4, <4>1 DEF ChainInv
    <3> QED
      BY <3>2, <3>3, <3>4
  <2> QED
    BY <1>1, <1>2, <2>1, <2>3 DEF ChainInv
<1>10. CASE EndLayers
  BY <1>1, <1>2, <1>10 DEF EndLayers, layering, ChainInv, Layering
<1> QED
  BY <1>3, <1>4, <1>5, <1>6, <1>7, <1>8, <1>9, <1>10 DEF PlanNext

\* A chain of steps that are all different, in links that are not empty, is layered
\* as it was written (pipeline.py:97-107, topological_layers).
THEOREM ChainsKeepTheirLinks == ASSUME OneWay PROVE PlanSpec => []ChainIsLayered
<1>1. PlanInit => (ProperChain => ChainInv)
  BY DEF PlanInit, PlanStart, ChainInv, Layering
<1>2. PlanIInv /\ (ProperChain => ChainInv) /\ [PlanNext]_planVars => (ProperChain => ChainInv)'
  BY OneWay, ChainStep
<1>3. PlanIInv /\ (ProperChain => ChainInv) => ChainIsLayered
  <2> SUFFICES ASSUME PlanIInv, ProperChain, ChainInv, phase = "layered", edits = 0
               PROVE  layers = planSetup.chain
    BY DEF ChainIsLayered, ProperChain
  <2> DEFINE c == planSetup.chain
  <2>1. /\ layers \in Seq(SUBSET Names) /\ c \in Seq(SUBSET Names)
        /\ InLayers = DOMAIN after /\ after = Chained(c)
    BY PlanSetupType DEF PlanIInv, RegistryInv, LayerInv, LayersInOrder, ChainInv, Layering
  <2>2. PICK k \in Nat, m \in Nat : /\ k = Len(layers) /\ DOMAIN layers = 1 .. k
                                    /\ m = Len(c) /\ DOMAIN c = 1 .. m
    BY <2>1
  <2>3. \A i \in 1 .. k : i \in 1 .. m /\ layers[i] = c[i]
    BY <2>2 DEF ChainInv
  <2>4. ASSUME NEW i \in 1 .. m PROVE i \in 1 .. k
    <3>1. PICK n : n \in c[i]
      BY <2>2 DEF ProperChain
    <3>2. n \in DOMAIN after
      BY <2>1, <2>2, <3>1, ChainedLinks DEF PlanIInv, RegistryInv
    <3>3. PICK j \in 1 .. k : n \in layers[j]
      BY <2>1, <2>2, <3>2 DEF InLayers
    <3>4. j = i
      BY <2>2, <2>3, <3>1, <3>3 DEF ProperChain
    <3> QED
      BY <3>4
  <2>5. k = m
    <3>1. k <= m
      <4>1. k = 0 \/ k \in 1 .. k
        OBVIOUS
      <4> QED
        BY <2>3, <4>1
    <3>2. m <= k
      <4>1. m = 0 \/ m \in 1 .. m
        OBVIOUS
      <4> QED
        BY <2>4, <4>1
    <3> QED
      BY <3>1, <3>2
  <2> QED
    BY <2>1, <2>2, <2>3, <2>5
<1> QED
  BY <1>1, <1>2, <1>3, PlanInvariant, PTL DEF PlanSpec
=============================================================================
