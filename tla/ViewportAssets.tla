---------------------------- MODULE ViewportAssets ----------------------------
(***************************************************************************)
(* What the viewer shows of the selected STEP model.  Four asynchronous    *)
(* flows meet in one page:                                                 *)
(*                                                                         *)
(*   - the mesh load (useCadAssets.loadMeshForEntry): fetch the package    *)
(*     descriptor, tessellate every component at level 0, publish;         *)
(*   - the topology load (loadReferencesForEntry): fetch the descriptor,   *)
(*     then the selector bundles of the expanded nodes, publish picking;   *)
(*   - the level-of-detail scheduler (lodScheduler.js): after the camera   *)
(*     settles, re-tessellate one component at a time and swap it in;      *)
(*   - React's effects (CadWorkspace.js), which start and cancel the       *)
(*     loads when what they depend on changes, some time after it did.     *)
(*                                                                         *)
(* An entry is one version of one file.  Component ids are content         *)
(* addresses, so the same id is the same geometry in every package.  A     *)
(* tessellation is its level: 0 is what every load starts from.            *)
(***************************************************************************)
EXTENDS Integers, FiniteSets, Sequences

CONSTANTS Entry,        \* versions of files the catalogue may offer
          Assembly,     \* those shown as an assembly tree; the others are parts
          File,         \* the file of an entry
          Cid,          \* component ids
          Package,      \* the components of an entry's package
          Chord,        \* the chord tolerance of level 0, 1, ... (LOD_CHORD_LEVELS)
          Zooms,        \* camera samples: projected size of each component
          Broken,       \* entries whose artifact cannot be fetched
          MaxEvents,    \* bound on what the user does
          MaxFaults,    \* bound on requests that fail
          None

ASSUME EntryAssumption ==
  /\ Assembly \subseteq Entry /\ Broken \subseteq Entry
  /\ File \in [Entry -> STRING]
  /\ Package \in [Entry -> SUBSET Cid]
  /\ Zooms \subseteq [Cid -> Nat]
  /\ Chord \in Seq(Nat) /\ Len(Chord) > 0
  /\ MaxEvents \in Nat /\ MaxFaults \in Nat

VARIABLES
  selected, rendered,   \* selectedEntry; its artifact is "rendered" (assets not stripped)
  expanded,             \* components whose tree nodes the user expanded
  due,                  \* effects whose dependencies changed and that have not run yet
  mesh,                 \* meshState: the entry drawn and each component's level
  meshLoad,             \* the load that owns requestIdRef, or None
  refs,                 \* referenceState: the nodes made pickable and their levels
  topologyLoad,         \* the load that owns referenceRequestIdRef, or None
  topologyStatus,       \* referenceStatus
  composition,          \* referenceCompositionRef
  lod,                  \* lodPackageRef
  lodPackage,           \* lodPackage, the React state
  descriptor,           \* PACKAGE_DESCRIPTOR_CACHE: absent, ready or whose request it is
  level, failed,        \* the scheduler's components and its failed memo
  inFlight,             \* the level being tessellated
  sample, timer,        \* lastSample and the debounce
  sampled,              \* history: the camera moved since the scheduler got its components
  events, faults

pageVars == <<selected, rendered, expanded>>
meshVars == <<mesh, meshLoad>>
topologyVars == <<refs, topologyLoad, topologyStatus, composition>>
lodVars == <<lod, lodPackage>>
schedulerVars == <<level, failed, inFlight, sample, timer, sampled>>
vars == <<pageVars, due, meshVars, topologyVars, lodVars, descriptor, schedulerVars, events, faults>>

Levels == 0..(Len(Chord) - 1)
Missing == -1   \* a bundle whose fetch failed: the component has no picking
ChordAt(l) == Chord[l + 1]

\* Tessellations, what is drawn and what is picked.
Tessellations == UNION {[S -> Levels] : S \in SUBSET Cid}
Shape == [entry : Entry, level : Tessellations]
Picking == [entry : Entry, nodes : SUBSET Cid,
            level : UNION {[S -> Levels \cup {Missing}] : S \in SUBSET Cid}]
MeshLoads == [entry : Entry, stage : {"descriptor", "components", "null"}]
TopologyLoads == [entry : Entry, nodes : SUBSET Cid, stage : {"descriptor", "bundles", "null"},
                  level : Tessellations]

ASSUME NoneAssumption ==
  /\ None \notin Entry
  /\ None \notin Shape /\ None \notin Picking /\ None \notin MeshLoads /\ None \notin TopologyLoads

-----------------------------------------------------------------------------
(* The policy (lodPolicy.js).  An error is ChordAt(level) * zoom, in          *)
(* hundredths of a pixel; the band is 1.25 px up, 0.6 px down.                *)

ErrorPx(zoom, l) == ChordAt(l) * zoom
Upgrades(zoom, l) == ErrorPx(zoom, l) > 125 /\ l + 1 \in Levels
\* Faulty: the band is tested at the current level, not at the coarser one.
DowngradesByCurrent(zoom, l) == l > 0 /\ ErrorPx(zoom, l) < 60
Downgrades(zoom, l) == l > 0 /\ ErrorPx(zoom, l - 1) < 60

NextLevel(zoom, l) ==
  IF Upgrades(zoom, l) THEN l + 1 ELSE IF Downgrades(zoom, l) THEN l - 1 ELSE l

Plan(lv, f, z) ==
  {c \in DOMAIN lv : NextLevel(z[c], lv[c]) # lv[c] /\ <<c, NextLevel(z[c], lv[c])>> \notin f}

Worst(lv, f, z) ==
  {c \in Plan(lv, f, z) :
     \A d \in Plan(lv, f, z) : ErrorPx(z[c], lv[c]) >= ErrorPx(z[d], lv[d])}

\* evaluate: what is in flight afterwards, given what was
Evaluate(lv, f, z, now) ==
  IF now # None \/ z = None \/ Plan(lv, f, z) = {}
    THEN {now}
    ELSE {[cid |-> c, level |-> NextLevel(z[c], lv[c])] : c \in Worst(lv, f, z)}

-----------------------------------------------------------------------------
Init ==
  /\ selected = None /\ rendered = FALSE /\ expanded = {}
  /\ due = {}
  /\ mesh = None /\ meshLoad = None
  /\ refs = None /\ topologyLoad = None /\ topologyStatus = "idle" /\ composition = None
  /\ lod = None /\ lodPackage = None
  /\ descriptor = [e \in Entry |-> "absent"]
  /\ level = <<>> /\ failed = {} /\ inFlight = None /\ sample = None /\ timer = FALSE
  /\ sampled = FALSE
  /\ events = 0 /\ faults = 0

Event == events < MaxEvents /\ events' = events + 1 /\ UNCHANGED faults
Fault == faults < MaxFaults /\ faults' = faults + 1 /\ UNCHANGED events

\* Faulty: a mesh of the same file matches, whatever its version.
MeshMatchesFile == selected # None /\ rendered /\ mesh # None /\ File[mesh.entry] = File[selected]
MeshMatches == selected # None /\ rendered /\ mesh # None /\ mesh.entry = selected
MeshFiles == IF meshLoad = None THEN {} ELSE {File[meshLoad.entry]}

\* The nodes whose topology is wanted: a part wants its one component, an
\* assembly what is expanded of the tree its mesh brought.
Requested ==
  IF selected = None \/ ~rendered THEN {}
  ELSE IF selected \notin Assembly THEN Package[selected]
  ELSE IF MeshMatches THEN expanded \cap Package[selected]
  ELSE {}

ReferencesMatch ==
  refs # None /\ refs.entry = selected /\ refs.nodes = Requested

-----------------------------------------------------------------------------
(* The user, and the catalogue and artifact hooks above this one.             *)

Select(e, ready) ==
  /\ Event /\ e # selected
  /\ selected' = e /\ rendered' = ready
  /\ due' = due \cup {"mesh", "topology"}
  /\ UNCHANGED <<expanded, meshVars, topologyVars, lodVars, descriptor, schedulerVars>>

\* The catalogue is published again: the same entry, as a new object.
Refresh ==
  /\ Event /\ selected # None
  /\ due' = due \cup {"mesh", "topology"}
  /\ UNCHANGED <<pageVars, meshVars, topologyVars, lodVars, descriptor, schedulerVars>>

ArtifactReady ==
  /\ selected # None /\ ~rendered
  /\ rendered' = TRUE
  /\ due' = due \cup {"mesh", "topology"}
  /\ UNCHANGED <<selected, expanded, meshVars, topologyVars, lodVars, descriptor, schedulerVars, events, faults>>

Toggle(c) ==
  /\ Event /\ MeshMatches /\ selected \in Assembly /\ c \in Package[selected]
  /\ expanded' = IF c \in expanded THEN expanded \ {c} ELSE expanded \cup {c}
  /\ due' = due \cup {"topology"}
  /\ UNCHANGED <<selected, rendered, meshVars, topologyVars, lodVars, descriptor, schedulerVars>>

-----------------------------------------------------------------------------
(* The descriptor of a package: one promise per entry, shared by both loads,  *)
(* that carries the abort signal of the load that asked first.                *)

\* Aborting a load fails the promise it owns: the promise answers null and
\* leaves the cache, after the effects of this commit have run.
Owns(load, owner) == load # None /\ descriptor[load.entry] = owner
AfterAbort(load, owner) ==
  IF Owns(load, owner) THEN [descriptor EXCEPT ![load.entry] = "absent"] ELSE descriptor

Waits(load, e) == load # None /\ load.entry = e /\ load.stage = "descriptor"

\* A load that was waiting for the descriptor of e is answered null.
Disappoint(load, e) == IF Waits(load, e) THEN [load EXCEPT !.stage = "null"] ELSE load

AskDescriptor(d, e, owner) == IF d[e] = "absent" THEN [d EXCEPT ![e] = owner] ELSE d

\* The levels a topology load must prefer to level 0 (componentLodBundleByCid).
Swapped(e, nodes) ==
  [c \in nodes |->
     IF lod # None /\ File[lod.entry] = File[e] /\ c \in DOMAIN lod.level THEN lod.level[c] ELSE 0]

TopologyAfterDescriptor(load) ==
  [load EXCEPT !.stage = "bundles", !.level = Swapped(load.entry, load.nodes)]

DescriptorArrives(e) ==
  /\ descriptor[e] \in {"mesh", "topology"} /\ e \notin Broken
  /\ descriptor' = [descriptor EXCEPT ![e] = "ready"]
  /\ meshLoad' = IF Waits(meshLoad, e) THEN [meshLoad EXCEPT !.stage = "components"] ELSE meshLoad
  /\ topologyLoad' = IF Waits(topologyLoad, e) THEN TopologyAfterDescriptor(topologyLoad)
                                                ELSE topologyLoad
  /\ UNCHANGED <<pageVars, due, mesh, refs, topologyStatus, composition, lodVars, schedulerVars, events, faults>>

DescriptorFails(e) ==
  /\ descriptor[e] \in {"mesh", "topology"}
  /\ IF e \in Broken THEN UNCHANGED <<events, faults>> ELSE Fault
  /\ descriptor' = [descriptor EXCEPT ![e] = "absent"]
  /\ meshLoad' = Disappoint(meshLoad, e)
  /\ topologyLoad' = Disappoint(topologyLoad, e)
  /\ UNCHANGED <<pageVars, due, mesh, refs, topologyStatus, composition, lodVars, schedulerVars>>

-----------------------------------------------------------------------------
(* The mesh load.                                                             *)

\* cancelMeshLoad: the topology load may share the promise it aborts.
CancelMesh ==
  /\ meshLoad' = None
  /\ descriptor' = AfterAbort(meshLoad, "mesh")
  /\ topologyLoad' = IF Owns(meshLoad, "mesh") THEN Disappoint(topologyLoad, meshLoad.entry)
                                               ELSE topologyLoad
  /\ UNCHANGED <<refs, topologyStatus>>

\* loadMeshForEntry up to its first await.
StartMeshLoad(e) ==
  LET d == AfterAbort(meshLoad, "mesh")
  IN /\ descriptor' = AskDescriptor(d, e, "mesh")
     /\ meshLoad' = [entry |-> e, stage |-> IF d[e] = "ready" THEN "components" ELSE "descriptor"]
     /\ topologyLoad' = IF Owns(meshLoad, "mesh") THEN Disappoint(topologyLoad, meshLoad.entry)
                                                  ELSE topologyLoad
     /\ lod' = None /\ lodPackage' = None /\ composition' = None
     /\ due' = (due \ {"mesh"}) \cup (IF lodPackage = None THEN {} ELSE {"lod"})
     /\ UNCHANGED <<mesh, refs, topologyStatus>>

MeshEffect ==
  /\ "mesh" \in due /\ "lod" \notin due
  /\ \/ /\ selected = None
        /\ CancelMesh
        /\ due' = due \ {"mesh"}
        /\ UNCHANGED <<mesh, composition, lodVars>>
     \/ /\ selected # None /\ (File[selected] \in MeshFiles \/ MeshMatches)
        /\ due' = due \ {"mesh"}
        /\ UNCHANGED <<meshVars, topologyVars, lodVars, descriptor>>
     \/ /\ selected # None /\ File[selected] \notin MeshFiles /\ ~MeshMatches /\ ~rendered
        /\ CancelMesh
        /\ mesh' = None
        /\ due' = (due \ {"mesh"}) \cup {"topology"}
        /\ UNCHANGED <<composition, lodVars>>
     \/ /\ selected # None /\ File[selected] \notin MeshFiles /\ ~MeshMatches /\ rendered
        /\ StartMeshLoad(selected)
  /\ UNCHANGED <<pageVars, schedulerVars, events, faults>>

MeshArrives ==
  /\ meshLoad # None /\ meshLoad.stage = "components"
  /\ mesh' = [entry |-> meshLoad.entry, level |-> [c \in Package[meshLoad.entry] |-> 0]]
  /\ lod' = mesh' /\ lodPackage' = meshLoad.entry
  /\ meshLoad' = None
  /\ due' = due \cup {"lod", "mesh", "topology"}
  /\ UNCHANGED <<pageVars, topologyVars, descriptor, schedulerVars, events, faults>>

\* The error is shown and the load is over; the effect that depends on
\* meshLoadInProgress runs again.
MeshEndsInError ==
  /\ meshLoad' = None
  /\ due' = due \cup {"mesh"}
  /\ UNCHANGED <<pageVars, mesh, topologyVars, lodVars, descriptor, schedulerVars>>

MeshFails == meshLoad # None /\ meshLoad.stage = "components" /\ Fault /\ MeshEndsInError

\* "is not a component-GLB package": the descriptor was null.
MeshGetsNull ==
  meshLoad # None /\ meshLoad.stage = "null" /\ MeshEndsInError /\ UNCHANGED <<events, faults>>

-----------------------------------------------------------------------------
(* The topology load.                                                         *)

CancelTopology ==
  /\ topologyLoad' = None
  /\ descriptor' = AfterAbort(topologyLoad, "topology")
  /\ meshLoad' = IF Owns(topologyLoad, "topology") THEN Disappoint(meshLoad, topologyLoad.entry) ELSE meshLoad

\* loadReferencesForEntry up to its first await.  The load it aborts may own
\* the promise for the same entry; that one is still in the cache, and answers
\* the new load null.
StartTopologyLoad(e, nodes) ==
  LET poisoned == Owns(topologyLoad, "topology") /\ topologyLoad.entry = e
      d == AfterAbort(topologyLoad, "topology")
      load == [entry |-> e, nodes |-> nodes, stage |-> "descriptor", level |-> <<>>]
  IN /\ descriptor' = IF poisoned THEN d ELSE AskDescriptor(d, e, "topology")
     /\ topologyLoad' = IF poisoned THEN Disappoint(load, e)
                        ELSE IF d[e] = "ready" THEN TopologyAfterDescriptor(load) ELSE load
     /\ meshLoad' = IF Owns(topologyLoad, "topology") THEN Disappoint(meshLoad, topologyLoad.entry) ELSE meshLoad
     /\ topologyStatus' = "loading"

TopologyEffect ==
  /\ "topology" \in due /\ due \cap {"lod", "mesh"} = {}
  /\ due' = due \ {"topology"}
  /\ \/ /\ selected = None
        /\ CancelTopology
        /\ UNCHANGED <<refs, topologyStatus>>
     \/ /\ selected # None /\ Requested = {}
        /\ CancelTopology
        /\ refs' = None
        /\ topologyStatus' = IF rendered THEN "idle" ELSE "disabled"
     \/ /\ Requested # {} /\ ReferencesMatch
        /\ UNCHANGED <<refs, topologyLoad, topologyStatus, meshLoad, descriptor>>
     \/ /\ Requested # {} /\ ~ReferencesMatch
        /\ StartTopologyLoad(selected, Requested)
        /\ UNCHANGED refs
  /\ UNCHANGED <<pageVars, mesh, composition, lodVars, schedulerVars, events, faults>>

\* Without a descriptor the load asks for a whole-package bundle, which a
\* package does not have.
TopologyGetsNull ==
  /\ topologyLoad # None /\ topologyLoad.stage = "null" /\ "topology" \notin due
  /\ topologyLoad' = None /\ topologyStatus' = "error"
  /\ UNCHANGED <<pageVars, due, meshVars, refs, composition, lodVars, descriptor, schedulerVars, events, faults>>

\* A bundle that cannot be fetched leaves its component out (.catch(() => null)).
TopologyArrives(lost) ==
  /\ topologyLoad # None /\ topologyLoad.stage = "bundles"
  /\ lost \subseteq {c \in topologyLoad.nodes : topologyLoad.level[c] = 0}
  /\ IF lost = {} THEN UNCHANGED <<events, faults>> ELSE Fault
  /\ refs' = [entry |-> topologyLoad.entry, nodes |-> topologyLoad.nodes,
              level |-> [c \in topologyLoad.nodes |->
                           IF c \in lost THEN Missing ELSE topologyLoad.level[c]]]
  /\ composition' = refs'
  /\ topologyStatus' = "ready" /\ topologyLoad' = None
  /\ due' = due \cup {"topology"}
  /\ UNCHANGED <<pageVars, meshVars, lodVars, descriptor, schedulerVars>>

-----------------------------------------------------------------------------
(* The level-of-detail scheduler.                                             *)

\* Faulty: a component the scheduler already knows keeps its level.
LodEffectKeeps ==
  /\ "lod" \in due
  /\ due' = due \ {"lod"}
  /\ level' = IF lodPackage = None THEN <<>>
              ELSE [c \in Package[lodPackage] |-> IF c \in DOMAIN level THEN level[c] ELSE 0]
  /\ UNCHANGED failed
  /\ inFlight' = None
  /\ sampled' = FALSE
  /\ UNCHANGED <<pageVars, meshVars, topologyVars, lodVars, descriptor, sample, timer, events, faults>>

\* setComponents, from the effect on lodPackage: levels restart at 0 and the
\* load in flight is aborted, which parks it and drains the plan again.
LodEffect ==
  /\ "lod" \in due
  /\ due' = due \ {"lod"}
  /\ level' = IF lodPackage = None THEN <<>> ELSE [c \in Package[lodPackage] |-> 0]
  /\ IF inFlight = None
       THEN UNCHANGED <<failed, inFlight>>
       ELSE /\ failed' = failed \cup {<<inFlight.cid, inFlight.level>>}
            /\ inFlight' \in Evaluate(level', failed', sample, None)
  /\ sampled' = FALSE
  /\ UNCHANGED <<pageVars, meshVars, topologyVars, lodVars, descriptor, sample, timer, events, faults>>

CameraMoves(z) ==
  /\ Event /\ DOMAIN level # {}
  /\ sample' = z /\ failed' = {} /\ timer' = TRUE /\ sampled' = TRUE
  /\ UNCHANGED <<pageVars, due, meshVars, topologyVars, lodVars, descriptor, level, inFlight>>

Debounced ==
  /\ timer
  /\ timer' = FALSE
  /\ inFlight' \in Evaluate(level, failed, sample, inFlight)
  /\ UNCHANGED <<pageVars, due, meshVars, topologyVars, lodVars, descriptor, level, failed, sample, sampled, events, faults>>

\* Faulty: the swapped composition is shown but not remembered.
RecomposeForgets(c, l) ==
  /\ UNCHANGED composition
  /\ IF /\ composition # None /\ refs # None /\ c \in composition.nodes
        /\ File[composition.entry] = File[lod.entry] /\ File[refs.entry] = File[composition.entry]
       THEN refs' = [composition EXCEPT !.level[c] = l]
       ELSE UNCHANGED refs

\* recomposeReferenceStateForLod: picking moves to the level the mesh moved to,
\* if the remembered composition is of this file and has the component.
Recompose(c, l) ==
  IF composition # None /\ File[composition.entry] = File[lod.entry] /\ c \in composition.nodes
    THEN /\ composition' = [composition EXCEPT !.level[c] = l]
         /\ refs' = IF refs # None /\ File[refs.entry] = File[composition.entry]
                      THEN composition' ELSE refs
    ELSE UNCHANGED <<refs, composition>>

Put(f, c, l) == [d \in {c} \cup DOMAIN f |-> IF d = c THEN l ELSE f[d]]

\* applyComponentLodPayload
Apply(c, l) ==
  IF lod = None
    THEN UNCHANGED <<mesh, refs, composition, lod, due>>
    ELSE /\ lod' = [lod EXCEPT !.level = Put(lod.level, c, l)]
         /\ mesh' = IF mesh # None /\ File[mesh.entry] = File[lod.entry] THEN lod' ELSE mesh
         /\ due' = IF mesh' = mesh THEN due ELSE due \cup {"mesh", "topology"}
         /\ Recompose(c, l)

LevelArrives ==
  /\ inFlight # None
  /\ IF inFlight.cid \in DOMAIN level
       THEN /\ level' = [level EXCEPT ![inFlight.cid] = inFlight.level]
            /\ Apply(inFlight.cid, inFlight.level)
       ELSE UNCHANGED <<level, mesh, refs, composition, lod, due>>
  /\ inFlight' \in Evaluate(level', failed, sample, None)
  /\ UNCHANGED <<pageVars, meshLoad, topologyLoad, topologyStatus, lodPackage, descriptor,
                 failed, sample, timer, sampled, events, faults>>

LevelFails ==
  /\ inFlight # None /\ Fault
  /\ failed' = failed \cup {<<inFlight.cid, inFlight.level>>}
  /\ inFlight' \in Evaluate(level, failed', sample, None)
  /\ UNCHANGED <<pageVars, due, meshVars, topologyVars, lodVars, descriptor, level, sample, timer, sampled>>

-----------------------------------------------------------------------------
User ==
  \/ \E e \in Entry, ready \in BOOLEAN : Select(e, ready)
  \/ Refresh
  \/ \E c \in Cid : Toggle(c)
  \/ \E z \in Zooms : CameraMoves(z)

Effects == LodEffect \/ MeshEffect \/ TopologyEffect

Answers ==
  \/ \E e \in Entry : DescriptorArrives(e)
  \/ MeshArrives \/ MeshGetsNull
  \/ TopologyArrives({}) \/ TopologyGetsNull
  \/ LevelArrives

Failures ==
  \/ \E e \in Entry : DescriptorFails(e)
  \/ MeshFails
  \/ LevelFails
  \/ \E lost \in SUBSET Cid : lost # {} /\ TopologyArrives(lost)

Next == User \/ ArtifactReady \/ Effects \/ Answers \/ Debounced \/ Failures

\* React runs its effects, timers fire and requests are answered.  What the
\* user does, and failures of the network, need not happen.
Fairness ==
  /\ WF_vars(LodEffect) /\ WF_vars(MeshEffect) /\ WF_vars(TopologyEffect)
  /\ WF_vars(ArtifactReady) /\ WF_vars(Debounced)
  /\ \A e \in Entry : WF_vars(DescriptorArrives(e)) /\ WF_vars(e \in Broken /\ DescriptorFails(e))
  /\ WF_vars(MeshArrives) /\ WF_vars(MeshGetsNull)
  /\ WF_vars(TopologyArrives({})) /\ WF_vars(TopologyGetsNull) /\ WF_vars(LevelArrives)

Spec == Init /\ [][Next]_vars /\ Fairness
-----------------------------------------------------------------------------
(* Properties.                                                                *)

\* Every flow's state has the shape its readers expect: a picking state has a
\* level for exactly its nodes, a topology load that waits for its descriptor
\* has taken no levels yet, and the request that owns a descriptor promise is
\* one of the two loads, still waiting for it.
ViewportTypeOK ==
  /\ selected \in Entry \cup {None} /\ rendered \in BOOLEAN /\ expanded \subseteq Cid
  /\ due \subseteq {"lod", "mesh", "topology"}
  /\ mesh \in Shape \cup {None} /\ lod \in Shape \cup {None} /\ lodPackage \in Entry \cup {None}
  /\ refs \in Picking \cup {None} /\ composition \in Picking \cup {None}
  /\ refs # None => DOMAIN refs.level = refs.nodes
  /\ meshLoad \in MeshLoads \cup {None} /\ topologyLoad \in TopologyLoads \cup {None}
  /\ topologyLoad # None =>
       DOMAIN topologyLoad.level = IF topologyLoad.stage = "bundles" THEN topologyLoad.nodes ELSE {}
  /\ topologyStatus \in {"idle", "disabled", "loading", "ready", "error"}
  /\ topologyStatus = "loading" => topologyLoad # None
  /\ \A e \in Entry :
       /\ descriptor[e] = "mesh" => Waits(meshLoad, e)
       /\ descriptor[e] = "topology" => Waits(topologyLoad, e)
  /\ inFlight # None => inFlight.cid \in Cid /\ inFlight.level \in Levels

\* The scheduler plans from its own copy of the levels.  Through every swap,
\* reload and stripped artifact, once it has been handed the package on screen
\* it takes no component for finer than what is drawn: one that is would never
\* be refined.  (It may take one for coarser: a level asked for the last package
\* may land after the new mesh is published and before the effect that resets
\* the scheduler.)
NeverTakenForFiner ==
  "lod" \notin due /\ lodPackage # None /\ mesh # None /\ mesh.entry = lodPackage
    => \A c \in DOMAIN level : level[c] <= mesh.level[c]

\* What is picked is always the remembered composition, so that the next swap
\* starts from all the swaps before it and not only from the last load.
PickingFollowsComposition ==
  composition # None /\ refs # None /\ refs.entry = composition.entry /\ refs.nodes = composition.nodes
    => refs.level = composition.level

\* Once the user and the network are quiet, the page draws the selected entry,
\* whatever was loading when it was selected, picks what the user expanded (or
\* says why not), and waits for no load.
ShowsSelection ==
  <>[](selected # None => /\ mesh # None /\ mesh.entry = selected /\ meshLoad = None
                          /\ topologyLoad = None
                          /\ (Requested = {} \/ ReferencesMatch \/ topologyStatus = "error"))

\* Once the camera is still, every component the scheduler was sampled for is
\* at a level the policy leaves alone, or parked because that level failed.
LodSettles ==
  <>[](sampled => \A c \in DOMAIN level :
                    \/ NextLevel(sample[c], level[c]) = level[c]
                    \/ <<c, NextLevel(sample[c], level[c])>> \in failed)

\* "the display mesh and the selector runtime must always come from ONE
\* tessellation of each component" (packageReferenceComposition.js).
OneTessellation ==
  mesh # None /\ refs # None /\ mesh.entry = selected /\ ReferencesMatch
    => \A c \in refs.nodes : refs.level[c] \in {Missing, mesh.level[c]}

\* "Never cache a failed/aborted resolve: the next caller should retry"
\* (useCadAssets.js): while no request has failed, no topology load ends in error.
AbortIsNotAnError == topologyStatus # "error"

\* A load that cannot succeed ends, and its error stays on screen.
FailedLoadStays == <>[](meshLoad = None)
=============================================================================
