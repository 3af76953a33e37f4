----------------------------- MODULE ModelStore -----------------------------
(***************************************************************************)
(* Concurrent builds of one model against the store.  There is no lock:    *)
(* every build loads the sources, hashes them, writes its objects, its     *)
(* outputs and its record, and the publish rule decides whose record       *)
(* stays, while the author edits and any build may be killed.              *)
(*                                                                         *)
(* A model is of one kind: "step" writes a document and its sidecar,       *)
(* "mesh" has declared meshes cut from its tree after the record is        *)
(* published, "drawing" writes a .dxf and has no tree.  A tree, a document *)
(* or a mesh is identified by the sources it was made from.                *)
(***************************************************************************)
EXTENDS Integers, FiniteSets

CONSTANTS Builders,     \* the processes that may build the model
          Kinds,        \* the kinds of model considered
          MaxEdits,     \* bound on the edits
          MaxKills,     \* bound on the builds killed
          EditedUnhashed \* files that may change between their load and their hash

ASSUME KindsAssumption == Kinds \subseteq {"step", "mesh", "drawing"}
ASSUME BoundsAssumption == MaxEdits \in Nat /\ MaxKills \in Nat

VARIABLES kind,         \* what the model's decorators declare
          version,      \* the sources on disk
          record,       \* the model's record in the index, or NoRecord
          objects,      \* the complete trees in the object store
          disk,         \* the outputs beside the model
          build,        \* what each builder is doing
          kills

storeVars == <<kind, version, record, objects, disk, build, kills>>

\* The script, a helper it imports at its top, a helper its body imports.
Files == {"script", "helper", "lazy"}
Sources == [Files -> 0..(MaxEdits + 1)]
None == [f \in Files |-> 0]

Outputs(k) == CASE k = "step" -> {"step", "sidecar"}
                [] k = "mesh" -> {"mesh"}
                [] k = "drawing" -> {"dxf"}

\* hashed: the closure.  outs: the sha of each output.  document: the tree a
\* mesh's entry says it was cut from.
NoRecord == [hashed |-> None, tree |-> None, outs |-> <<>>, document |-> None]

\* gate.stale, clauses 1, 2, 4 and 5.
StaleRecord(r) ==
    \/ r = NoRecord
    \/ r.hashed # version
    \/ kind # "drawing" /\ r.tree \notin objects
    \/ \E o \in DOMAIN r.outs : r.outs[o] = None \/ disk[o] # r.outs[o]

Stale == StaleRecord(record)

\* mesh_export.mesh_export_current, for the tree the record names.
MeshCurrent ==
    /\ record.document = record.tree
    /\ disk["mesh"] # None
    /\ disk["mesh"] = record.outs["mesh"]

-----------------------------------------------------------------------------
\* ran: the sources as they were loaded.  hashed: as they were hashed.  sha: the
\* hash of an output read back.  seen: a record read before.  saw: the outputs the
\* publish rule looked at with it.  cut: the tree a mesh is made from.
Idle == [phase |-> "idle", ran |-> None, hashed |-> None, sha |-> None,
         seen |-> NoRecord, saw |-> <<>>, cut |-> None]

At(b, p) == build[b].phase = p
Move(b, p) == build' = [build EXCEPT ![b].phase = p]

StoreInit ==
    /\ kind \in Kinds
    /\ version = [f \in Files |-> 1]
    /\ record = NoRecord
    /\ objects = {}
    /\ disk = [o \in Outputs(kind) |-> None]
    /\ build = [b \in Builders |-> Idle]
    /\ kills = 0

\* A file some build has loaded and not hashed yet.
Unhashed(f) == \E b \in Builders : build[b].ran[f] # build[b].hashed[f] /\ build[b].hashed[f] = 0

\* The author saves a file.
Edit(f) ==
    /\ \A g \in Files \ {f} : version[g] = 1
    /\ version[f] <= MaxEdits
    /\ f \in EditedUnhashed \/ ~Unhashed(f)
    /\ version' = [version EXCEPT ![f] = @ + 1]
    /\ UNCHANGED <<kind, record, objects, disk, build, kills>>

\* The gate says build.
Request(b) ==
    /\ At(b, "idle")
    /\ Stale
    /\ Move(b, "load")
    /\ UNCHANGED <<kind, version, record, objects, disk, kills>>

\* The gate says current: only a mesh can be owed.
RequestCurrent(b) ==
    /\ At(b, "idle")
    /\ ~Stale
    /\ kind = "mesh" /\ ~MeshCurrent
    /\ Move(b, "pick")
    /\ UNCHANGED <<kind, version, record, objects, disk, kills>>

\* The loader reads and runs the script, whose first lines import the helper.
LoadScript(b) ==
    /\ At(b, "load")
    /\ build' = [build EXCEPT ![b].phase = "import", ![b].ran["script"] = version["script"]]
    /\ UNCHANGED <<kind, version, record, objects, disk, kills>>

LoadHelper(b) ==
    /\ At(b, "import")
    /\ build' = [build EXCEPT ![b].phase = "note", ![b].ran["helper"] = version["helper"]]
    /\ UNCHANGED <<kind, version, record, objects, disk, kills>>

\* ExecutionHashes opens and the script is noted.  A drawing's closure does not
\* come from these hashes.
NoteScript(b) ==
    /\ At(b, "note")
    /\ build' = [build EXCEPT ![b].phase = "body",
                              ![b].hashed["script"] = IF kind = "drawing" THEN @
                                                      ELSE version["script"]]
    /\ UNCHANGED <<kind, version, record, objects, disk, kills>>

\* Faulty: a file imported by the body is hashed with the rest, afterwards.
RunBodyUnhashed(b) ==
    /\ At(b, "body")
    /\ build' = [build EXCEPT ![b].phase = "closure", ![b].ran["lazy"] = version["lazy"]]
    /\ UNCHANGED <<kind, version, record, objects, disk, kills>>

\* The body imports its helper: the exec hook hashes it as it runs.
RunBody(b) ==
    /\ At(b, "body")
    /\ build' = [build EXCEPT ![b].phase = "closure",
                              ![b].ran["lazy"] = version["lazy"],
                              ![b].hashed["lazy"] = IF kind = "drawing" THEN @
                                                    ELSE version["lazy"]]
    /\ UNCHANGED <<kind, version, record, objects, disk, kills>>

\* build_closure, or capture_runtime_closure for a drawing: what has no hash yet
\* is hashed now.
Close(b) ==
    /\ At(b, "closure")
    /\ build' = [build EXCEPT ![b].hashed = [f \in Files |-> IF @[f] = 0 THEN version[f] ELSE @[f]],
                              ![b].phase = IF kind = "drawing" THEN "dxf" ELSE "objects"]
    /\ UNCHANGED <<kind, version, record, objects, disk, kills>>

\* Faulty: the record is published before the tree is in the store.
WriteObjectsLate(b) ==
    /\ At(b, "objects")
    /\ Move(b, IF kind = "step" THEN "sidecar" ELSE "decide")
    /\ UNCHANGED <<kind, version, record, objects, disk, kills>>

\* Components, then the tree.
WriteObjects(b) ==
    /\ At(b, "objects")
    /\ objects' = objects \cup {build[b].ran}
    /\ Move(b, IF kind = "step" THEN "sidecar" ELSE "decide")
    /\ UNCHANGED <<kind, version, record, disk, kills>>

\* The outputs go to their final place: sidecar, then document.
WriteSidecar(b) ==
    /\ At(b, "sidecar")
    /\ disk' = [disk EXCEPT !["sidecar"] = build[b].ran]
    /\ Move(b, "step")
    /\ UNCHANGED <<kind, version, record, objects, kills>>

WriteStep(b) ==
    /\ At(b, "step")
    /\ disk' = [disk EXCEPT !["step"] = build[b].ran]
    /\ Move(b, "readback")
    /\ UNCHANGED <<kind, version, record, objects, kills>>

WriteDxf(b) ==
    /\ At(b, "dxf")
    /\ disk' = [disk EXCEPT !["dxf"] = build[b].ran]
    /\ Move(b, "readback")
    /\ UNCHANGED <<kind, version, record, objects, kills>>

\* The sha of a sidecar or a drawing is taken from the file at its place; that
\* of a document comes from the bytes its exporter wrote.
ReadBack(b) ==
    /\ At(b, "readback")
    /\ build' = [build EXCEPT ![b].phase = "decide",
                              ![b].sha = disk[IF kind = "step" THEN "sidecar" ELSE "dxf"]]
    /\ UNCHANGED <<kind, version, record, objects, disk, kills>>

-----------------------------------------------------------------------------
\* Faulty: any record is taken for a current one.
MayPublishFirst(b) == b \in Builders /\ record = NoRecord

\* Faulty: the last build wins.
MayPublishAlways(b) == b \in Builders

\* publish.decide: never replace a current record with a stale one.
MayPublish(b) == build[b].hashed = version \/ Stale

\* The record is assembled, over the mesh entry of an earlier one, and decided.
Decide(b) ==
    /\ At(b, "decide")
    /\ build' = [build EXCEPT
            ![b].seen = record, ![b].saw = disk,
            ![b].phase = IF MayPublish(b) THEN "record"
                         ELSE IF kind = "mesh" THEN "pick" ELSE "done"]
    /\ UNCHANGED <<kind, version, record, objects, disk, kills>>

\* What it declares is what it lists; a mesh is listed before it is cut.
RecordOf(b) ==
    LET own == [o \in Outputs(kind) |->
            CASE o = "step" -> build[b].ran
              [] o = "mesh" -> IF build[b].seen = NoRecord THEN None ELSE build[b].seen.outs["mesh"]
              [] OTHER -> build[b].sha]
    IN  [hashed |-> build[b].hashed,
         tree |-> IF kind = "drawing" THEN None ELSE build[b].ran,
         outs |-> own,
         document |-> build[b].seen.document]

WriteRecord(b) ==
    /\ At(b, "record")
    /\ record' = RecordOf(b)
    /\ Move(b, IF kind = "mesh" THEN "pick" ELSE "done")
    /\ UNCHANGED <<kind, version, objects, disk, kills>>

\* _produce_declared_mesh_exports: the mesh is owed to the tree on record.
PickTree(b) ==
    /\ At(b, "pick")
    /\ build' = [build EXCEPT ![b].phase = IF MeshCurrent THEN "done" ELSE "mesh",
                              ![b].cut = record.tree]
    /\ UNCHANGED <<kind, version, record, objects, disk, kills>>

\* The tessellator runs and writes the file.
WriteMesh(b) ==
    /\ At(b, "mesh")
    /\ disk' = [disk EXCEPT !["mesh"] = build[b].cut]
    /\ Move(b, "ledger")
    /\ UNCHANGED <<kind, version, record, objects, kills>>

\* record_mesh_export: the record and the file are read, ...
ReadLedger(b) ==
    /\ At(b, "ledger")
    /\ build' = [build EXCEPT ![b].phase = "entry", ![b].seen = record, ![b].sha = disk["mesh"]]
    /\ UNCHANGED <<kind, version, record, objects, disk, kills>>

\* ... and the record is written back with the mesh's entry in it.
WriteEntry(b) ==
    /\ At(b, "entry")
    /\ record' = [build[b].seen EXCEPT !.outs["mesh"] = build[b].sha, !.document = build[b].cut]
    /\ Move(b, "done")
    /\ UNCHANGED <<kind, version, objects, disk, kills>>

\* The build is over; its process may serve another request.
Finish(b) ==
    /\ At(b, "done")
    /\ build' = [build EXCEPT ![b] = Idle]
    /\ UNCHANGED <<kind, version, record, objects, disk, kills>>

\* Interrupted, cancelled or crashed.
Kill(b) ==
    /\ ~At(b, "idle")
    /\ kills < MaxKills
    /\ kills' = kills + 1
    /\ build' = [build EXCEPT ![b] = Idle]
    /\ UNCHANGED <<kind, version, record, objects, disk>>

Step(b) ==
    \/ LoadScript(b) \/ LoadHelper(b) \/ NoteScript(b) \/ RunBody(b) \/ Close(b)
    \/ WriteObjects(b) \/ WriteSidecar(b) \/ WriteStep(b) \/ WriteDxf(b) \/ ReadBack(b)
    \/ Decide(b) \/ WriteRecord(b)
    \/ PickTree(b) \/ WriteMesh(b) \/ ReadLedger(b) \/ WriteEntry(b) \/ Finish(b)

StoreNext ==
    \/ \E f \in Files : Edit(f)
    \/ \E b \in Builders : Request(b) \/ RequestCurrent(b) \/ Step(b) \/ Kill(b)

(***************************************************************************)
(* Fairness.  A build that is not killed goes on; as long as the gate      *)
(* finds work the author asks again.  Nobody has to edit or kill.          *)
(***************************************************************************)
StoreSpec ==
    /\ StoreInit /\ [][StoreNext]_storeVars
    /\ \A b \in Builders : WF_storeVars(Step(b)) /\ WF_storeVars(Request(b) \/ RequestCurrent(b))

-----------------------------------------------------------------------------
Phases == {"idle", "load", "import", "note", "body", "closure", "objects", "sidecar", "step",
           "dxf", "readback", "decide", "record", "pick", "mesh", "ledger", "entry", "done"}
Records == {NoRecord} \cup
    [hashed : Sources, tree : Sources, outs : [Outputs(kind) -> Sources], document : Sources]

\* Types; the outputs on disk and in a record are those the model declares.
StoreTypeOK ==
    /\ kind \in Kinds
    /\ version \in Sources
    /\ record \in Records
    /\ objects \subseteq Sources
    /\ disk \in [Outputs(kind) -> Sources]
    /\ build \in [Builders -> [phase : Phases, ran : Sources, hashed : Sources, sha : Sources,
                               seen : Records, saw : {<<>>} \cup [Outputs(kind) -> Sources],
                               cut : Sources]]
    /\ kills \in 0..MaxKills

\* Publish order: whatever is killed and whenever, a record's tree is in the
\* store, so a current model can always be read.
RecordHasTree == record # NoRecord /\ kind # "drawing" => record.tree \in objects

\* When the gate says current, the tree on record and the document beside the
\* model were made by the sources now on disk.
GateTellsTruth ==
    ~Stale => /\ kind # "drawing" => record.tree = version
              /\ kind = "step" => disk["step"] = version

\* The publish rule: publishing, a build puts a stale record over a current one
\* only if the record or an output has changed since the build looked.
StaleNeverReplacesCurrent ==
    [][\A b \in Builders :
          (At(b, "record") /\ record' = RecordOf(b) /\ ~Stale)
              => build[b].hashed = version \/ record # build[b].seen \/ disk # build[b].saw]_storeVars

Alone == Cardinality({b \in Builders : ~At(b, "idle")}) <= 1

\* What the rule cannot prevent the next request repairs: once the edits and the
\* kills are over the model becomes current and stays so.  Builds of a mesh model
\* that overlap for ever can undo each other's entries for ever.
SettlesCurrent == (kind = "mesh" => <>[]Alone) => <>[]~Stale

\* "The disk never goes backwards": no build puts a document of older sources
\* beside a model that is current.
DocumentNeverGoesBackwards ==
    [][(kind = "step" /\ ~Stale) => disk'["step"] \in {disk["step"], version}]_storeVars

\* A declared output that is not what the sources on disk make is seen by the
\* gate: what a current model has beside it, sidecar, drawing and the mesh its
\* ledger calls current included, is of the current sources.
OutputsAreCurrent ==
    ~Stale => \A o \in DOMAIN disk : (o = "mesh" => MeshCurrent) => disk[o] = version
=============================================================================
