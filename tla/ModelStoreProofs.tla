-------------------------- MODULE ModelStoreProofs --------------------------
(***************************************************************************)
(* Theorems about ModelStore, for any number of builders, edits and kills. *)
(***************************************************************************)
EXTENDS ModelStore, TLAPS

BuildState == [phase : Phases, ran : Sources, hashed : Sources, sha : Sources,
               seen : Records, saw : {<<>>} \cup [Outputs(kind) -> Sources], cut : Sources]
FullRecord == [hashed : Sources, tree : Sources, outs : [Outputs(kind) -> Sources],
               document : Sources]

\* Nothing on disk is at version 0, and neither is what a closed build or a record
\* hashed: that is what tells a record from no record.
Hashed == {"objects", "sidecar", "step", "dxf", "readback", "decide", "record"}
VersionsSet ==
    /\ \A f \in Files : version[f] # 0
    /\ \A b \in Builders : build[b].phase \in Hashed => \A f \in Files : build[b].hashed[f] # 0
    /\ record # NoRecord => \A f \in Files : record.hashed[f] # 0
    /\ \A b \in Builders :
          build[b].seen # NoRecord => \A f \in Files : build[b].seen.hashed[f] # 0

\* Each kind of model has its own path through the phases.
PathOfKind ==
    \A b \in Builders :
        /\ build[b].phase \in {"sidecar", "step"} => kind = "step"
        /\ build[b].phase \in {"pick", "mesh", "ledger", "entry"} => kind = "mesh"
        /\ build[b].phase = "dxf" => kind = "drawing"
        /\ build[b].phase = "readback" => kind \in {"step", "drawing"}
        /\ build[b].phase = "objects" => kind # "drawing"

\* A mesh is cut when there is a record, and no record goes away.
MeshHasRecord ==
    \A b \in Builders :
        /\ build[b].phase \in {"pick", "mesh", "ledger"} => record # NoRecord
        /\ build[b].phase = "entry" => build[b].seen # NoRecord

TypeIInv == StoreTypeOK /\ VersionsSet /\ PathOfKind /\ MeshHasRecord

-----------------------------------------------------------------------------
\* None has version 0 everywhere, and so has only the absence of a record.
LEMMA NoneIsASource == None \in Sources /\ \A f \in Files : None[f] = 0
  BY BoundsAssumption DEF None, Sources

LEMMA RecordsAreFull == Records = {NoRecord} \cup FullRecord
  BY DEF Records, FullRecord

LEMMA FullIsRecord == \A r \in FullRecord : (\E f \in Files : r.hashed[f] # 0) => r # NoRecord
  BY NoneIsASource DEF FullRecord, NoRecord

LEMMA TypeInit == StoreInit => TypeIInv
<1> SUFFICES ASSUME StoreInit PROVE TypeIInv
  OBVIOUS
<1> USE NoneIsASource, BoundsAssumption
<1>1. StoreTypeOK
  <2>1. version \in Sources
    BY DEF StoreInit, Sources
  <2>2. disk \in [Outputs(kind) -> Sources]
    BY DEF StoreInit
  <2>3. Idle \in BuildState
    BY DEF Idle, BuildState, Phases, Records
  <2>4. build \in [Builders -> BuildState]
    BY <2>3 DEF StoreInit
  <2>5. QED
    BY <2>1, <2>2, <2>4 DEF StoreInit, StoreTypeOK, BuildState, Records
<1>2. VersionsSet /\ PathOfKind /\ MeshHasRecord
  BY DEF StoreInit, VersionsSet, PathOfKind, MeshHasRecord, Idle, Hashed
<1>3. QED
  BY <1>1, <1>2 DEF TypeIInv

\* What a step that moves one builder leaves to be shown of that builder.
Sound(s, r) ==
    /\ s \in BuildState
    /\ s.phase \in Hashed => \A f \in Files : s.hashed[f] # 0
    /\ s.seen # NoRecord => \A f \in Files : s.seen.hashed[f] # 0
    /\ s.phase \in {"sidecar", "step"} => kind = "step"
    /\ s.phase \in {"pick", "mesh", "ledger", "entry"} => kind = "mesh"
    /\ s.phase = "dxf" => kind = "drawing"
    /\ s.phase = "readback" => kind \in {"step", "drawing"}
    /\ s.phase = "objects" => kind # "drawing"
    /\ s.phase \in {"pick", "mesh", "ledger"} => r # NoRecord
    /\ s.phase = "entry" => s.seen # NoRecord

LEMMA EachSound == TypeIInv => \A b \in Builders : Sound(build[b], record)
  BY DEF TypeIInv, StoreTypeOK, VersionsSet, PathOfKind, MeshHasRecord, Sound, BuildState

LEMMA BuilderMoves ==
  ASSUME TypeIInv, NEW b \in Builders, NEW s,
         build' = [build EXCEPT ![b] = s], Sound(s, record'),
         UNCHANGED <<kind, version>>,
         record' \in Records, record # NoRecord => record' # NoRecord,
         record' # NoRecord => \A f \in Files : record'.hashed[f] # 0,
         objects' \subseteq Sources, disk' \in [Outputs(kind) -> Sources],
         kills' \in 0..MaxKills
  PROVE  TypeIInv'
<1>1. Records' = Records /\ Outputs(kind)' = Outputs(kind)
  BY DEF Records, Outputs
<1>2. \A c \in Builders : Sound(build'[c], record')
  <2>1. \A c \in Builders : Sound(build[c], record)
    BY EachSound
  <2>2. \A c \in Builders : Sound(build[c], record')
    BY <2>1 DEF Sound
  <2>3. QED
    BY <2>2 DEF TypeIInv, StoreTypeOK, BuildState
<1>3. build' \in [Builders -> BuildState]
  BY <1>2 DEF Sound, TypeIInv, StoreTypeOK, BuildState
<1>4. StoreTypeOK'
  BY <1>1, <1>3 DEF StoreTypeOK, BuildState, TypeIInv
<1>5. VersionsSet' /\ PathOfKind' /\ MeshHasRecord'
  BY <1>2 DEF VersionsSet, PathOfKind, MeshHasRecord, Sound, TypeIInv
<1>6. QED
  BY <1>4, <1>5 DEF TypeIInv

\* Each kind's outputs.
LEMMA OutputsOf ==
    /\ Outputs("step") = {"step", "sidecar"}
    /\ Outputs("mesh") = {"mesh"}
    /\ Outputs("drawing") = {"dxf"}
  BY Zenon DEF Outputs

LEMMA RecordOfFull ==
  ASSUME TypeIInv, NEW b \in Builders, build[b].phase = "record"
  PROVE  /\ RecordOf(b) \in FullRecord /\ RecordOf(b) # NoRecord
         /\ \A f \in Files : RecordOf(b).hashed[f] # 0
<1> DEFINE own == [o \in Outputs(kind) |->
            CASE o = "step" -> build[b].ran
              [] o = "mesh" -> IF build[b].seen = NoRecord THEN None ELSE build[b].seen.outs["mesh"]
              [] OTHER -> build[b].sha]
<1>1. Sound(build[b], record) /\ kind \in {"step", "mesh", "drawing"}
  BY EachSound, KindsAssumption DEF TypeIInv, StoreTypeOK
<1>2. build[b].ran \in Sources /\ build[b].sha \in Sources /\ build[b].hashed \in Sources
  BY <1>1 DEF Sound, BuildState
<1>3. build[b].seen = NoRecord \/ build[b].seen \in FullRecord
  BY <1>1, RecordsAreFull DEF Sound, BuildState
<1>4. own \in [Outputs(kind) -> Sources]
  <2>1. ASSUME NEW o \in Outputs(kind) PROVE own[o] \in Sources
    <3>1. CASE o = "step"
      BY <1>2, <3>1
    <3>2. CASE o = "mesh"
      <4>1. kind = "mesh"
        BY <1>1, <3>2, OutputsOf
      <4>2. build[b].seen = NoRecord \/ build[b].seen.outs["mesh"] \in Sources
        BY <1>3, <4>1, OutputsOf DEF FullRecord
      <4>3. QED
        BY <3>2, <4>2, NoneIsASource
    <3>3. CASE o # "step" /\ o # "mesh"
      BY <1>2, <3>3
    <3>4. QED
      BY <3>1, <3>2, <3>3
  <2>2. QED
    BY <2>1
<1>5. build[b].seen.document \in Sources
  BY <1>3, NoneIsASource DEF FullRecord, NoRecord
<1>6. RecordOf(b) \in FullRecord
  BY <1>2, <1>4, <1>5, NoneIsASource DEF RecordOf, FullRecord
<1>7. \A f \in Files : RecordOf(b).hashed[f] # 0
  BY <1>1 DEF Sound, Hashed, RecordOf
<1>8. QED
  BY <1>6, <1>7, FullIsRecord DEF Files

\* A builder's step changes its own state alone; new is that state after the step.
LEMMA TypeStep == TypeIInv /\ [StoreNext]_storeVars => TypeIInv'
<1> SUFFICES ASSUME TypeIInv, [StoreNext]_storeVars PROVE TypeIInv'
  OBVIOUS
<1> USE KindsAssumption, BoundsAssumption, NoneIsASource
<1>1. /\ kind \in {"step", "mesh", "drawing"} /\ version \in Sources /\ record \in Records
      /\ objects \subseteq Sources /\ disk \in [Outputs(kind) -> Sources] /\ kills \in 0..MaxKills
      /\ \A f \in Files : version[f] # 0
      /\ record # NoRecord => \A f \in Files : record.hashed[f] # 0
  BY DEF TypeIInv, StoreTypeOK, VersionsSet
<1>2. ASSUME NEW f \in Files, Edit(f) PROVE TypeIInv'
  <2>1. version' \in Sources /\ \A g \in Files : version'[g] # 0
    BY <1>1, <1>2 DEF Edit, Sources
  <2>2. Records' = Records /\ Outputs(kind)' = Outputs(kind)
    BY <1>2 DEF Edit, Records, Outputs
  <2>3. StoreTypeOK'
    BY <1>2, <2>1, <2>2 DEF Edit, TypeIInv, StoreTypeOK
  <2>4. VersionsSet' /\ PathOfKind' /\ MeshHasRecord'
    BY <1>2, <2>1 DEF Edit, TypeIInv, VersionsSet, PathOfKind, MeshHasRecord
  <2>5. QED
    BY <2>3, <2>4 DEF TypeIInv
<1>3. ASSUME NEW b \in Builders, Request(b) \/ RequestCurrent(b) \/ Step(b) \/ Kill(b)
      PROVE  TypeIInv'
  <2> DEFINE old == build[b]
  <2>1. /\ Sound(old, record) /\ b \in DOMAIN build
        /\ old.ran \in Sources /\ old.sha \in Sources /\ old.cut \in Sources
        /\ Sound(Idle, record)
    <3>1. Sound(old, record) /\ b \in DOMAIN build
      BY EachSound DEF TypeIInv, StoreTypeOK
    <3>2. Sound(Idle, record)
      BY DEF Sound, Idle, BuildState, Phases, Records, Hashed
    <3>3. QED
      BY <3>1, <3>2 DEF Sound, BuildState
  <2>2. record = NoRecord \/ record \in FullRecord
    BY <1>1, RecordsAreFull
  <2>3. ASSUME Request(b) PROVE TypeIInv'
    <3> DEFINE new == [old EXCEPT !.phase = "load"]
    <3>1. Sound(new, record')
      BY <1>1, <2>1, <2>3 DEF Request, At, Move, Sound, BuildState, Phases, Hashed
    <3>2. build' = [build EXCEPT ![b] = new]
      BY <2>1, <2>3 DEF Request, Move
    <3>3. QED
      BY <1>1, <2>1, <2>3, <3>1, <3>2, BuilderMoves DEF Request
  <2>4. ASSUME RequestCurrent(b) PROVE TypeIInv'
    <3> DEFINE new == [old EXCEPT !.phase = "pick"]
    <3>1. Sound(new, record')
      BY <1>1, <2>1, <2>4 DEF RequestCurrent, At, Move, Sound, BuildState, Phases, Hashed, Stale, StaleRecord
    <3>2. build' = [build EXCEPT ![b] = new]
      BY <2>1, <2>4 DEF RequestCurrent, Move
    <3>3. QED
      BY <1>1, <2>1, <2>4, <3>1, <3>2, BuilderMoves DEF RequestCurrent
  <2>5. ASSUME LoadScript(b) PROVE TypeIInv'
    <3> DEFINE new == [old EXCEPT !.phase = "import", !.ran["script"] = version["script"]]
    <3>1. Sound(new, record')
      BY <1>1, <2>1, <2>5 DEF LoadScript, At, Move, Sound, BuildState, Phases, Hashed, Sources, Files
    <3>2. build' = [build EXCEPT ![b] = new]
      BY <2>1, <2>5 DEF LoadScript, Move
    <3>3. QED
      BY <1>1, <2>1, <2>5, <3>1, <3>2, BuilderMoves DEF LoadScript
  <2>6. ASSUME LoadHelper(b) PROVE TypeIInv'
    <3> DEFINE new == [old EXCEPT !.phase = "note", !.ran["helper"] = version["helper"]]
    <3>1. Sound(new, record')
      BY <1>1, <2>1, <2>6 DEF LoadHelper, At, Move, Sound, BuildState, Phases, Hashed, Sources, Files
    <3>2. build' = [build EXCEPT ![b] = new]
      BY <2>1, <2>6 DEF LoadHelper, Move
    <3>3. QED
      BY <1>1, <2>1, <2>6, <3>1, <3>2, BuilderMoves DEF LoadHelper
  <2>7. ASSUME NoteScript(b) PROVE TypeIInv'
    <3> DEFINE new == [old EXCEPT !.phase = "body",
                               !.hashed["script"] = IF kind = "drawing" THEN @ ELSE version["script"]]
    <3>1. Sound(new, record')
      BY <1>1, <2>1, <2>7 DEF NoteScript, At, Move, Sound, BuildState, Phases, Hashed, Sources, Files
    <3>2. build' = [build EXCEPT ![b] = new]
      BY <2>1, <2>7 DEF NoteScript, Move
    <3>3. QED
      BY <1>1, <2>1, <2>7, <3>1, <3>2, BuilderMoves DEF NoteScript
  <2>8. ASSUME RunBody(b) PROVE TypeIInv'
    <3> DEFINE new == [old EXCEPT !.phase = "closure", !.ran["lazy"] = version["lazy"],
                               !.hashed["lazy"] = IF kind = "drawing" THEN @ ELSE version["lazy"]]
    <3>1. Sound(new, record')
      BY <1>1, <2>1, <2>8 DEF RunBody, At, Move, Sound, BuildState, Phases, Hashed, Sources, Files
    <3>2. build' = [build EXCEPT ![b] = new]
      BY <2>1, <2>8 DEF RunBody, Move
    <3>3. QED
      BY <1>1, <2>1, <2>8, <3>1, <3>2, BuilderMoves DEF RunBody
  <2>9. ASSUME Close(b) PROVE TypeIInv'
    <3> DEFINE new == [old EXCEPT !.hashed = [f \in Files |-> IF @[f] = 0 THEN version[f] ELSE @[f]],
                               !.phase = IF kind = "drawing" THEN "dxf" ELSE "objects"]
    <3>1. Sound(new, record')
      BY <1>1, <2>1, <2>9 DEF Close, At, Move, Sound, BuildState, Phases, Hashed, Sources, Files
    <3>2. build' = [build EXCEPT ![b] = new]
      BY <2>1, <2>9 DEF Close, Move
    <3>3. QED
      BY <1>1, <2>1, <2>9, <3>1, <3>2, BuilderMoves DEF Close
  <2>10. ASSUME WriteObjects(b) PROVE TypeIInv'
    <3> DEFINE new == [old EXCEPT !.phase = IF kind = "step" THEN "sidecar" ELSE "decide"]
    <3>1. objects' \subseteq Sources
      BY <1>1, <2>1, <2>10 DEF WriteObjects
    <3>2. Sound(new, record')
      BY <1>1, <2>1, <2>10, <3>1 DEF WriteObjects, At, Move, Sound, BuildState, Phases, Hashed
    <3>3. build' = [build EXCEPT ![b] = new]
      BY <2>1, <2>10 DEF WriteObjects, Move
    <3>4. QED
      BY <1>1, <2>1, <2>10, <3>1, <3>2, <3>3, BuilderMoves DEF WriteObjects
  <2>11. ASSUME WriteSidecar(b) PROVE TypeIInv'
    <3> DEFINE new == [old EXCEPT !.phase = "step"]
    <3>1. disk' \in [Outputs(kind) -> Sources]
      BY <1>1, <2>1, <2>11 DEF WriteSidecar
    <3>2. Sound(new, record')
      BY <1>1, <2>1, <2>11, <3>1 DEF WriteSidecar, At, Move, Sound, BuildState, Phases, Hashed
    <3>3. build' = [build EXCEPT ![b] = new]
      BY <2>1, <2>11 DEF WriteSidecar, Move
    <3>4. QED
      BY <1>1, <2>1, <2>11, <3>1, <3>2, <3>3, BuilderMoves DEF WriteSidecar
  <2>12. ASSUME WriteStep(b) PROVE TypeIInv'
    <3> DEFINE new == [old EXCEPT !.phase = "readback"]
    <3>1. disk' \in [Outputs(kind) -> Sources]
      BY <1>1, <2>1, <2>12 DEF WriteStep
    <3>2. Sound(new, record')
      BY <1>1, <2>1, <2>12, <3>1 DEF WriteStep, At, Move, Sound, BuildState, Phases, Hashed
    <3>3. build' = [build EXCEPT ![b] = new]
      BY <2>1, <2>12 DEF WriteStep, Move
    <3>4. QED
      BY <1>1, <2>1, <2>12, <3>1, <3>2, <3>3, BuilderMoves DEF WriteStep
  <2>13. ASSUME WriteDxf(b) PROVE TypeIInv'
    <3> DEFINE new == [old EXCEPT !.phase = "readback"]
    <3>1. disk' \in [Outputs(kind) -> Sources]
      BY <1>1, <2>1, <2>13 DEF WriteDxf
    <3>2. Sound(new, record')
      BY <1>1, <2>1, <2>13, <3>1 DEF WriteDxf, At, Move, Sound, BuildState, Phases, Hashed
    <3>3. build' = [build EXCEPT ![b] = new]
      BY <2>1, <2>13 DEF WriteDxf, Move
    <3>4. QED
      BY <1>1, <2>1, <2>13, <3>1, <3>2, <3>3, BuilderMoves DEF WriteDxf
  <2>14. ASSUME ReadBack(b) PROVE TypeIInv'
    <3> DEFINE new == [old EXCEPT !.phase = "decide",
                               !.sha = disk[IF kind = "step" THEN "sidecar" ELSE "dxf"]]
    <3>1. disk[IF kind = "step" THEN "sidecar" ELSE "dxf"] \in Sources
      BY <1>1, <2>1, <2>14, OutputsOf DEF ReadBack, At, Sound
    <3>2. Sound(new, record')
      BY <1>1, <2>1, <2>14, <3>1 DEF ReadBack, At, Move, Sound, BuildState, Phases, Hashed
    <3>3. build' = [build EXCEPT ![b] = new]
      BY <2>1, <2>14 DEF ReadBack, Move
    <3>4. QED
      BY <1>1, <2>1, <2>14, <3>1, <3>2, <3>3, BuilderMoves DEF ReadBack
  <2>15. ASSUME Decide(b) PROVE TypeIInv'
    <3> DEFINE new == [old EXCEPT !.seen = record, !.saw = disk,
                               !.phase = IF MayPublish(b) THEN "record"
                                         ELSE IF kind = "mesh" THEN "pick" ELSE "done"]
    <3>1. MayPublish(b) \/ record # NoRecord
      BY DEF MayPublish, Stale, StaleRecord
    <3>2. Sound(new, record')
      BY <1>1, <2>1, <2>15, <3>1 DEF Decide, At, Move, Sound, BuildState, Phases, Hashed
    <3>3. build' = [build EXCEPT ![b] = new]
      BY <2>1, <2>15 DEF Decide, Move
    <3>4. QED
      BY <1>1, <2>1, <2>15, <3>1, <3>2, <3>3, BuilderMoves DEF Decide
  <2>16. ASSUME WriteRecord(b) PROVE TypeIInv'
    <3> DEFINE new == [old EXCEPT !.phase = IF kind = "mesh" THEN "pick" ELSE "done"]
    <3>1. record' \in Records /\ record' # NoRecord /\ \A f \in Files : record'.hashed[f] # 0
      BY <2>16, RecordOfFull, RecordsAreFull DEF WriteRecord, At
    <3>2. Sound(new, record')
      BY <1>1, <2>1, <2>16, <3>1 DEF WriteRecord, At, Move, Sound, BuildState, Phases, Hashed
    <3>3. build' = [build EXCEPT ![b] = new]
      BY <2>1, <2>16 DEF WriteRecord, Move
    <3>4. QED
      BY <1>1, <2>1, <2>16, <3>1, <3>2, <3>3, BuilderMoves DEF WriteRecord
  <2>17. ASSUME PickTree(b) PROVE TypeIInv'
    <3> DEFINE new == [old EXCEPT !.phase = IF MeshCurrent THEN "done" ELSE "mesh", !.cut = record.tree]
    <3>1. record.tree \in Sources
      BY <2>1, <2>2, <2>17 DEF PickTree, At, Sound, FullRecord
    <3>2. Sound(new, record')
      BY <1>1, <2>1, <2>17, <3>1 DEF PickTree, At, Move, Sound, BuildState, Phases, Hashed
    <3>3. build' = [build EXCEPT ![b] = new]
      BY <2>1, <2>17 DEF PickTree, Move
    <3>4. QED
      BY <1>1, <2>1, <2>17, <3>1, <3>2, <3>3, BuilderMoves DEF PickTree
  <2>18. ASSUME WriteMesh(b) PROVE TypeIInv'
    <3> DEFINE new == [old EXCEPT !.phase = "ledger"]
    <3>1. disk' \in [Outputs(kind) -> Sources]
      BY <1>1, <2>1, <2>18 DEF WriteMesh
    <3>2. Sound(new, record')
      BY <1>1, <2>1, <2>18, <3>1 DEF WriteMesh, At, Move, Sound, BuildState, Phases, Hashed
    <3>3. build' = [build EXCEPT ![b] = new]
      BY <2>1, <2>18 DEF WriteMesh, Move
    <3>4. QED
      BY <1>1, <2>1, <2>18, <3>1, <3>2, <3>3, BuilderMoves DEF WriteMesh
  <2>19. ASSUME ReadLedger(b) PROVE TypeIInv'
    <3> DEFINE new == [old EXCEPT !.phase = "entry", !.seen = record, !.sha = disk["mesh"]]
    <3>1. disk["mesh"] \in Sources
      BY <1>1, <2>1, <2>19, OutputsOf DEF ReadLedger, At, Sound
    <3>2. Sound(new, record')
      BY <1>1, <2>1, <2>19, <3>1 DEF ReadLedger, At, Move, Sound, BuildState, Phases, Hashed
    <3>3. build' = [build EXCEPT ![b] = new]
      BY <2>1, <2>19 DEF ReadLedger, Move
    <3>4. QED
      BY <1>1, <2>1, <2>19, <3>1, <3>2, <3>3, BuilderMoves DEF ReadLedger
  <2>20. ASSUME WriteEntry(b) PROVE TypeIInv'
    <3> DEFINE new == [old EXCEPT !.phase = "done"]
    <3>1. kind = "mesh" /\ old.seen \in FullRecord /\ old.seen # NoRecord
      BY <2>1, <2>20, RecordsAreFull DEF WriteEntry, At, Sound, BuildState
    <3>2. record' \in FullRecord /\ record'.hashed = old.seen.hashed
      BY <2>1, <2>20, <3>1, OutputsOf DEF WriteEntry, FullRecord
    <3>3. record' \in Records /\ record' # NoRecord /\ \A f \in Files : record'.hashed[f] # 0
      BY <2>1, <3>1, <3>2, FullIsRecord, RecordsAreFull DEF Sound, Files
    <3>4. Sound(new, record')
      BY <1>1, <2>1, <2>20, <3>1, <3>2, <3>3 DEF WriteEntry, At, Move, Sound, BuildState, Phases, Hashed
    <3>5. build' = [build EXCEPT ![b] = new]
      BY <2>1, <2>20 DEF WriteEntry, Move
    <3>6. QED
      BY <1>1, <2>1, <2>20, <3>1, <3>2, <3>3, <3>4, <3>5, BuilderMoves DEF WriteEntry
  <2>21. ASSUME Finish(b) PROVE TypeIInv'
    <3> DEFINE new == Idle
    <3>1. Sound(new, record')
      BY <1>1, <2>1, <2>21 DEF Finish, At, Move, Sound, BuildState, Phases, Hashed
    <3>2. build' = [build EXCEPT ![b] = new]
      BY <2>1, <2>21 DEF Finish, Move
    <3>3. QED
      BY <1>1, <2>1, <2>21, <3>1, <3>2, BuilderMoves DEF Finish
  <2>22. ASSUME Kill(b) PROVE TypeIInv'
    <3> DEFINE new == Idle
    <3>1. kills' \in 0..MaxKills
      BY <1>1, <2>22 DEF Kill
    <3>2. Sound(new, record')
      BY <1>1, <2>1, <2>22, <3>1 DEF Kill, At, Move, Sound, BuildState, Phases, Hashed
    <3>3. build' = [build EXCEPT ![b] = new]
      BY <2>1, <2>22 DEF Kill, Move
    <3>4. QED
      BY <1>1, <2>1, <2>22, <3>1, <3>2, <3>3, BuilderMoves DEF Kill
  <2>23. QED
    BY <1>3, <2>3, <2>4, <2>5, <2>6, <2>7, <2>8, <2>9, <2>10, <2>11, <2>12, <2>13, <2>14, <2>15, <2>16, <2>17, <2>18, <2>19, <2>20, <2>21, <2>22 DEF Step
<1>4. CASE UNCHANGED storeVars
  <2>1. Records' = Records /\ Outputs(kind)' = Outputs(kind)
    BY <1>4 DEF storeVars, Records, Outputs
  <2>2. QED
    BY <1>4, <2>1 DEF storeVars, TypeIInv, StoreTypeOK, VersionsSet, PathOfKind, MeshHasRecord
<1>5. QED
  BY <1>2, <1>3, <1>4 DEF StoreNext

\* Everything keeps its type, and a record, once there, stays.
THEOREM StoreTyped == StoreSpec => []StoreTypeOK
<1>1. TypeIInv => StoreTypeOK
  BY DEF TypeIInv
<1>2. QED
  BY <1>1, TypeInit, TypeStep, PTL DEF StoreSpec

-----------------------------------------------------------------------------
\* From its objects on, a build's tree is in the store; so is that of every record
\* it has read.  Nothing was hashed from a version yet to come, and a build that
\* goes to publish found its own hashes current or the record it saw stale.
Written == {"sidecar", "step", "readback", "decide", "record"}
Kept(s, v, o) ==
    /\ kind # "drawing" /\ s.seen # NoRecord => s.seen.tree \in o
    /\ kind # "drawing" /\ s.phase \in Written => s.ran \in o
    /\ \A f \in Files : s.hashed[f] <= v[f] /\ s.seen.hashed[f] <= v[f]
    /\ s.phase = "record" =>
          \/ s.hashed = v \/ s.seen = NoRecord \/ s.seen.hashed # v
          \/ \E p \in DOMAIN s.seen.outs : s.seen.outs[p] = None \/ s.saw[p] # s.seen.outs[p]

KeepIInv ==
    /\ RecordHasTree
    /\ \A f \in Files : record.hashed[f] <= version[f]
    /\ \A b \in Builders : Kept(build[b], version, objects)

LEMMA KeepInit == StoreInit => KeepIInv
  BY DEF StoreInit, KeepIInv, RecordHasTree, Kept, Idle, Written, NoRecord, None

\* A builder's state stays sound when versions and objects only grow.
LEMMA KeptGrows ==
  ASSUME TypeIInv, NEW s \in BuildState, NEW v \in Sources, NEW o,
         Kept(s, version, objects), objects \subseteq o,
         \A f \in Files : version[f] <= v[f]
  PROVE  Kept(s, v, o)
<1>1. /\ version \in Sources /\ s.hashed \in Sources /\ s.seen.hashed \in Sources
  BY NoneIsASource, RecordsAreFull DEF TypeIInv, StoreTypeOK, BuildState, FullRecord, NoRecord
<1>2. \A f \in Files : s.hashed[f] <= v[f] /\ s.seen.hashed[f] <= v[f]
  BY <1>1, BoundsAssumption DEF Kept, Sources
<1>3. ASSUME version # v PROVE s.seen.hashed # v
  <2>1. PICK f \in Files : version[f] # v[f]
    BY <1>1, <1>3 DEF Sources
  <2>2. s.seen.hashed[f] # v[f]
    BY <1>1, <2>1, BoundsAssumption DEF Kept, Sources
  <2>3. QED
    BY <2>2
<1>4. QED
  BY <1>2, <1>3 DEF Kept

LEMMA RecordOfParts ==
  ASSUME NEW b \in Builders
  PROVE  /\ RecordOf(b).hashed = build[b].hashed
         /\ RecordOf(b).tree = IF kind = "drawing" THEN None ELSE build[b].ran
         /\ kind = "step" => RecordOf(b).outs["step"] = build[b].ran
<1>1. /\ RecordOf(b).hashed = build[b].hashed
      /\ RecordOf(b).tree = IF kind = "drawing" THEN None ELSE build[b].ran
  BY DEF RecordOf
<1>2. ASSUME kind = "step" PROVE RecordOf(b).outs["step"] = build[b].ran
  <2>1. "step" \in Outputs(kind)
    BY <1>2, OutputsOf
  <2>2. QED
    BY <2>1 DEF RecordOf
<1>3. QED
  BY <1>1, <1>2

LEMMA KeptIdle == TypeIInv => Kept(Idle, version, objects)
<1> SUFFICES ASSUME TypeIInv PROVE Kept(Idle, version, objects)
  OBVIOUS
<1>1. version \in Sources
  BY DEF TypeIInv, StoreTypeOK
<1>2. Idle.hashed = None /\ Idle.seen = NoRecord /\ NoRecord.hashed = None /\ Idle.phase = "idle"
  BY DEF Idle, NoRecord
<1>3. QED
  BY <1>1, <1>2, NoneIsASource, BoundsAssumption DEF Kept, Sources, Written

LEMMA KeepStep == TypeIInv /\ KeepIInv /\ [StoreNext]_storeVars => KeepIInv'
<1> SUFFICES ASSUME TypeIInv, KeepIInv, [StoreNext]_storeVars PROVE KeepIInv'
  OBVIOUS
<1> USE BoundsAssumption
<1>1. /\ version \in Sources /\ build \in [Builders -> BuildState]
      /\ record \in Records /\ record.hashed \in Sources
      /\ kind \in {"step", "mesh", "drawing"}
  BY NoneIsASource, RecordsAreFull, KindsAssumption
  DEF TypeIInv, StoreTypeOK, BuildState, FullRecord, NoRecord
<1>2. ASSUME NEW f \in Files, Edit(f) PROVE KeepIInv'
  <2>1. version' \in Sources /\ \A g \in Files : version[g] <= version'[g]
    BY <1>1, <1>2 DEF Edit, Sources
  <2>2. \A b \in Builders : Kept(build[b], version', objects)
    BY <1>1, <2>1, KeptGrows DEF KeepIInv
  <2>3. \A g \in Files : record.hashed[g] <= version'[g]
    BY <1>1, <2>1 DEF KeepIInv, Sources
  <2>4. QED
    BY <1>2, <2>2, <2>3 DEF Edit, KeepIInv, RecordHasTree, Kept
<1>3. ASSUME NEW b \in Builders, Request(b) \/ RequestCurrent(b) \/ Step(b) \/ Kill(b)
      PROVE  KeepIInv'
  <2> DEFINE Goal == /\ Kept(build'[b], version, objects')
                     /\ kind # "drawing" /\ record' # NoRecord => record'.tree \in objects'
                     /\ \A f \in Files : record'.hashed[f] <= version[f]
  <2>1. /\ Sound(build[b], record) /\ build[b] \in BuildState /\ b \in DOMAIN build
        /\ Kept(build[b], version, objects)
        /\ kind # "drawing" /\ record # NoRecord => record.tree \in objects
        /\ \A f \in Files : record.hashed[f] <= version[f]
    BY <1>1, EachSound DEF KeepIInv, RecordHasTree
  <2>2. /\ UNCHANGED <<kind, version>> /\ objects \subseteq objects'
        /\ \A c \in Builders \ {b} : build'[c] = build[c]
    BY <1>1, <1>3 DEF Request, RequestCurrent, Step, Kill, LoadScript, LoadHelper, NoteScript,
       RunBody, Close, WriteObjects, WriteSidecar, WriteStep, WriteDxf, ReadBack, Decide,
       WriteRecord, PickTree, WriteMesh, ReadLedger, WriteEntry, Finish, Move
  <2>3. ASSUME Request(b) PROVE Goal
    BY <1>1, <2>1, <2>3 DEF Request, At, Move, Kept, Written, BuildState, Sources, Files
  <2>4. ASSUME RequestCurrent(b) PROVE Goal
    BY <1>1, <2>1, <2>4 DEF RequestCurrent, At, Move, Kept, Written, BuildState, Sources, Files
  <2>5. ASSUME LoadScript(b) PROVE Goal
    BY <1>1, <2>1, <2>5 DEF LoadScript, At, Move, Kept, Written, BuildState, Sources, Files
  <2>6. ASSUME LoadHelper(b) PROVE Goal
    BY <1>1, <2>1, <2>6 DEF LoadHelper, At, Move, Kept, Written, BuildState, Sources, Files
  <2>7. ASSUME NoteScript(b) PROVE Goal
    <3> DEFINE old == build[b]
               new == [old EXCEPT !.phase = "body",
                   !.hashed["script"] = IF kind = "drawing" THEN @ ELSE version["script"]]
    <3>1. build'[b] = new /\ objects' = objects /\ record' = record
      BY <2>1, <2>7 DEF NoteScript
    <3>2. /\ new.seen = old.seen /\ new.phase \notin Written
          /\ \A f \in Files : new.hashed[f] = old.hashed[f] \/ new.hashed[f] = version[f]
      BY <2>1 DEF BuildState, Sources, Files, Written
    <3>3. \A f \in Files : version[f] \in Int
      BY <1>1 DEF Sources
    <3>4. QED
      BY <2>1, <3>1, <3>2, <3>3 DEF Kept, Written
  <2>8. ASSUME RunBody(b) PROVE Goal
    <3> DEFINE old == build[b]
               new == [old EXCEPT !.phase = "closure", !.ran["lazy"] = version["lazy"],
                   !.hashed["lazy"] = IF kind = "drawing" THEN @ ELSE version["lazy"]]
    <3>1. build'[b] = new /\ objects' = objects /\ record' = record
      BY <2>1, <2>8 DEF RunBody
    <3>2. /\ new.seen = old.seen /\ new.phase \notin Written
          /\ \A f \in Files : new.hashed[f] = old.hashed[f] \/ new.hashed[f] = version[f]
      BY <2>1 DEF BuildState, Sources, Files, Written
    <3>3. \A f \in Files : version[f] \in Int
      BY <1>1 DEF Sources
    <3>4. QED
      BY <2>1, <3>1, <3>2, <3>3 DEF Kept, Written
  <2>9. ASSUME Close(b) PROVE Goal
    <3> DEFINE old == build[b]
               new == [old EXCEPT
                   !.hashed = [f \in Files |-> IF @[f] = 0 THEN version[f] ELSE @[f]],
                   !.phase = IF kind = "drawing" THEN "dxf" ELSE "objects"]
    <3>1. build'[b] = new /\ objects' = objects /\ record' = record
      BY <2>1, <2>9 DEF Close
    <3>2. /\ new.seen = old.seen /\ new.phase \notin Written
          /\ \A f \in Files : new.hashed[f] = old.hashed[f] \/ new.hashed[f] = version[f]
      BY <2>1 DEF BuildState, Sources, Files, Written
    <3>3. \A f \in Files : version[f] \in Int
      BY <1>1 DEF Sources
    <3>4. QED
      BY <2>1, <3>1, <3>2, <3>3 DEF Kept, Written
  <2>10. ASSUME WriteObjects(b) PROVE Goal
    BY <1>1, <2>1, <2>10 DEF WriteObjects, At, Move, Kept, Written, BuildState, Sources, Files
  <2>11. ASSUME WriteSidecar(b) PROVE Goal
    BY <1>1, <2>1, <2>11 DEF WriteSidecar, At, Move, Kept, Written, BuildState, Sources, Files
  <2>12. ASSUME WriteStep(b) PROVE Goal
    BY <1>1, <2>1, <2>12 DEF WriteStep, At, Move, Kept, Written, BuildState, Sources, Files
  <2>13. ASSUME WriteDxf(b) PROVE Goal
    BY <1>1, <2>1, <2>13 DEF WriteDxf, At, Move, Kept, Written, BuildState, Sound
  <2>14. ASSUME ReadBack(b) PROVE Goal
    BY <1>1, <2>1, <2>14 DEF ReadBack, At, Move, Kept, Written, BuildState, Sources, Files
  <2>15. ASSUME Decide(b) PROVE Goal
    <3> DEFINE old == build[b]
               new == [old EXCEPT !.seen = record, !.saw = disk,
                                  !.phase = IF MayPublish(b) THEN "record"
                                            ELSE IF kind = "mesh" THEN "pick" ELSE "done"]
    <3>1. build'[b] = new /\ objects' = objects /\ record' = record /\ old.phase = "decide"
      BY <2>1, <2>15 DEF Decide, At
    <3>2. /\ new.seen = record /\ new.saw = disk /\ new.hashed = old.hashed /\ new.ran = old.ran
          /\ new.phase \in Written => new.phase = "record" /\ MayPublish(b)
      BY <2>1 DEF BuildState, Written
    <3>3. MayPublish(b) => \/ new.hashed = version \/ record = NoRecord \/ record.hashed # version
                          \/ \E p \in DOMAIN record.outs :
                                record.outs[p] = None \/ disk[p] # record.outs[p]
      BY <2>1, <3>2 DEF MayPublish, Stale, StaleRecord
    <3>4. new.phase = "record" => MayPublish(b)
      BY <3>2 DEF Written
    <3>5. QED
      BY <2>1, <3>1, <3>2, <3>3, <3>4 DEF Kept, Written
  <2>16. ASSUME WriteRecord(b) PROVE Goal
    <3> DEFINE old == build[b]
               new == [old EXCEPT !.phase = IF kind = "mesh" THEN "pick" ELSE "done"]
    <3>1. /\ build'[b] = new /\ objects' = objects /\ record' = RecordOf(b)
          /\ old.phase = "record"
      BY <2>1, <2>16 DEF WriteRecord, Move, At
    <3>2. new.seen = old.seen /\ new.hashed = old.hashed /\ new.phase \in {"pick", "done"}
      BY <2>1 DEF BuildState
    <3>3. QED
      BY <2>1, <3>1, <3>2, RecordOfParts DEF Kept, Written
  <2>17. ASSUME PickTree(b) PROVE Goal
    BY <1>1, <2>1, <2>17 DEF PickTree, At, Move, Kept, Written, BuildState, Sources, Files
  <2>18. ASSUME WriteMesh(b) PROVE Goal
    BY <1>1, <2>1, <2>18 DEF WriteMesh, At, Move, Kept, Written, BuildState, Sources, Files
  <2>19. ASSUME ReadLedger(b) PROVE Goal
    BY <1>1, <2>1, <2>19 DEF ReadLedger, At, Move, Kept, Written, BuildState, Sources, Files
  <2>20. ASSUME WriteEntry(b) PROVE Goal
    <3> DEFINE old == build[b]
               new == [old EXCEPT !.phase = "done"]
    <3>1. build'[b] = new /\ objects' = objects /\ old.phase = "entry"
      BY <2>1, <2>20 DEF WriteEntry, Move, At
    <3>2. new.seen = old.seen /\ new.hashed = old.hashed /\ new.phase = "done"
      BY <2>1 DEF BuildState
    <3>3. old.seen \in FullRecord /\ old.seen # NoRecord
      BY <2>1, <3>1, RecordsAreFull DEF Sound, BuildState
    <3>4. record'.hashed = old.seen.hashed /\ record'.tree = old.seen.tree
      BY <2>20, <3>3 DEF WriteEntry, FullRecord
    <3>5. QED
      BY <2>1, <3>1, <3>2, <3>3, <3>4 DEF Kept, Written
  <2>21. ASSUME Finish(b) PROVE Goal
    BY <2>1, <2>21, KeptIdle DEF Finish
  <2>22. ASSUME Kill(b) PROVE Goal
    BY <2>1, <2>22, KeptIdle DEF Kill
  <2>23. Goal
    BY <1>3, <2>3, <2>4, <2>5, <2>6, <2>7, <2>8, <2>9, <2>10, <2>11, <2>12, <2>13, <2>14, <2>15, <2>16, <2>17, <2>18, <2>19, <2>20, <2>21, <2>22 DEF Step
  <2>24. \A c \in Builders \ {b} : Kept(build[c], version, objects')
    BY <1>1, <2>2, KeptGrows DEF KeepIInv, Sources
  <2>25. QED
    BY <2>2, <2>23, <2>24 DEF KeepIInv, RecordHasTree, Kept
<1>4. CASE UNCHANGED storeVars
  BY <1>4 DEF storeVars, KeepIInv, RecordHasTree, Kept
<1>5. QED
  BY <1>2, <1>3, <1>4 DEF StoreNext

\* Whatever is killed and whenever, the tree of the record is in the store: what
\* the gate calls current can be read.
THEOREM StoreKeepsTrees == StoreSpec => []RecordHasTree
<1>1. TypeIInv /\ KeepIInv => RecordHasTree
  BY DEF KeepIInv
<1>2. QED
  BY <1>1, TypeInit, TypeStep, KeepInit, KeepStep, PTL DEF StoreSpec

\* A build publishes a stale record over a current one only if the record or an
\* output has changed since it looked.
THEOREM PublishRule == StoreSpec => StaleNeverReplacesCurrent
<1> DEFINE Late == \A b \in Builders :
          (At(b, "record") /\ record' = RecordOf(b) /\ ~Stale)
              => build[b].hashed = version \/ record # build[b].seen \/ disk # build[b].saw
<1>1. TypeIInv /\ KeepIInv => Late
  <2> SUFFICES ASSUME TypeIInv, KeepIInv, NEW b \in Builders, At(b, "record"), ~Stale,
                      build[b].hashed # version, record = build[b].seen, disk = build[b].saw
               PROVE  FALSE
    OBVIOUS
  <2>1. /\ build[b].seen # NoRecord /\ build[b].seen.hashed = version
        /\ \A p \in DOMAIN build[b].seen.outs :
              build[b].seen.outs[p] # None /\ build[b].saw[p] = build[b].seen.outs[p]
    BY DEF Stale, StaleRecord
  <2>2. Kept(build[b], version, objects) /\ build[b].phase = "record"
    BY DEF KeepIInv, At
  <2>3. QED
    BY <2>1, <2>2 DEF Kept
<1>2. TypeIInv /\ KeepIInv /\ [StoreNext]_storeVars => [Late]_storeVars
  BY <1>1
<1>3. QED
  BY <1>2, TypeInit, TypeStep, KeepInit, KeepStep, PTL DEF StoreSpec, StaleNeverReplacesCurrent

-----------------------------------------------------------------------------
\* What a build hashed is what it loaded, what it loaded and has not hashed is
\* still on disk, and a record's tree, and document, were made from its hashes.
TrueRecord(r) ==
    r # NoRecord => r.tree = r.hashed /\ (kind = "step" => r.outs["step"] = r.tree)

Loaded(s, v) ==
    /\ \A f \in Files : s.hashed[f] # 0 => s.hashed[f] = s.ran[f]
    /\ \A f \in Files : s.ran[f] # 0 /\ s.hashed[f] = 0 => s.ran[f] = v[f]
    /\ s.ran["lazy"] # 0 => s.hashed["lazy"] # 0
    /\ s.phase \in {"idle", "load", "import", "note"} => \A f \in Files : s.hashed[f] = 0
    /\ s.phase \in {"import", "note", "body", "closure"} => s.ran["script"] # 0
    /\ s.phase \in {"note", "body", "closure"} => s.ran["helper"] # 0
    /\ s.phase = "closure" => s.ran["lazy"] # 0
    /\ TrueRecord(s.seen)

TruthIInv ==
    kind # "drawing" => TrueRecord(record) /\ \A b \in Builders : Loaded(build[b], version)

LEMMA LoadedIdle == Loaded(Idle, version)
<1>1. Idle.hashed = None /\ Idle.ran = None /\ Idle.seen = NoRecord /\ Idle.phase = "idle"
  BY DEF Idle
<1>2. QED
  BY <1>1, NoneIsASource DEF Loaded, TrueRecord, Files

LEMMA TruthInit == StoreInit => TruthIInv
  BY LoadedIdle DEF StoreInit, TruthIInv, TrueRecord

LEMMA TruthStep ==
  ASSUME EditedUnhashed \subseteq {"lazy"}, TypeIInv, TruthIInv, [StoreNext]_storeVars
  PROVE  TruthIInv'
<1> USE BoundsAssumption
<1>1. /\ version \in Sources /\ build \in [Builders -> BuildState] /\ record \in Records
      /\ \A f \in Files : version[f] # 0
  BY DEF TypeIInv, StoreTypeOK, BuildState, VersionsSet
<1>2. ASSUME NEW f \in Files, Edit(f) PROVE TruthIInv'
  <2>1. version' = [version EXCEPT ![f] = @ + 1] /\ UNCHANGED <<kind, record, build>>
    BY <1>2 DEF Edit
  <2>2. ASSUME NEW b \in Builders, kind # "drawing" PROVE Loaded(build[b], version')
    <3>1. Loaded(build[b], version)
      BY <2>2 DEF TruthIInv
    <3>2. build[b].ran[f] = 0 \/ build[b].hashed[f] # 0
      <4>1. CASE f = "lazy"
        BY <3>1, <4>1 DEF Loaded
      <4>2. CASE f # "lazy"
        BY <1>2, <4>2 DEF Edit, Unhashed
      <4>3. QED
        BY <4>1, <4>2
    <3>3. \A g \in Files \ {f} : version'[g] = version[g]
      BY <1>1, <2>1 DEF Sources
    <3>4. QED
      BY <3>1, <3>2, <3>3 DEF Loaded
  <2>3. QED
    BY <2>1, <2>2 DEF TruthIInv, TrueRecord, Loaded
<1>3. ASSUME NEW b \in Builders, Request(b) \/ RequestCurrent(b) \/ Step(b) \/ Kill(b)
      PROVE  TruthIInv'
  <2>0. SUFFICES ASSUME kind # "drawing" PROVE TruthIInv'
    <3>1. UNCHANGED kind
      BY <1>3 DEF Request, RequestCurrent, Step, Kill, LoadScript, LoadHelper, NoteScript,
         RunBody, Close, WriteObjects, WriteSidecar, WriteStep, WriteDxf, ReadBack, Decide,
         WriteRecord, PickTree, WriteMesh, ReadLedger, WriteEntry, Finish
    <3>2. QED
      BY <2>0, <3>1 DEF TruthIInv
  <2> DEFINE Goal == Loaded(build'[b], version) /\ TrueRecord(record')
  <2>1. /\ Sound(build[b], record) /\ build[b] \in BuildState /\ b \in DOMAIN build
        /\ Loaded(build[b], version) /\ TrueRecord(record)
    BY <1>1, <2>0, EachSound DEF TruthIInv
  <2>2. /\ UNCHANGED <<kind, version>>
        /\ \A c \in Builders \ {b} : build'[c] = build[c]
    BY <1>1, <1>3 DEF Request, RequestCurrent, Step, Kill, LoadScript, LoadHelper, NoteScript,
       RunBody, Close, WriteObjects, WriteSidecar, WriteStep, WriteDxf, ReadBack, Decide,
       WriteRecord, PickTree, WriteMesh, ReadLedger, WriteEntry, Finish, Move
  <2>3. ASSUME Request(b) PROVE Goal
    BY <1>1, <2>0, <2>1, <2>3 DEF Request, At, Move, Loaded, BuildState, Sources, Files
  <2>4. ASSUME RequestCurrent(b) PROVE Goal
    BY <1>1, <2>0, <2>1, <2>4 DEF RequestCurrent, At, Move, Loaded, BuildState, Sources, Files
  <2>5. ASSUME LoadScript(b) PROVE Goal
    BY <1>1, <2>0, <2>1, <2>5 DEF LoadScript, At, Move, Loaded, BuildState, Sources, Files
  <2>6. ASSUME LoadHelper(b) PROVE Goal
    BY <1>1, <2>0, <2>1, <2>6 DEF LoadHelper, At, Move, Loaded, BuildState, Sources, Files
  <2>7. ASSUME NoteScript(b) PROVE Goal
    BY <1>1, <2>0, <2>1, <2>7 DEF NoteScript, At, Move, Loaded, BuildState, Sources, Files
  <2>8. ASSUME RunBody(b) PROVE Goal
    BY <1>1, <2>0, <2>1, <2>8 DEF RunBody, At, Move, Loaded, BuildState, Sources, Files
  <2>9. ASSUME Close(b) PROVE Goal
    BY <1>1, <2>0, <2>1, <2>9 DEF Close, At, Move, Loaded, BuildState, Sources, Files
  <2>10. ASSUME WriteObjects(b) PROVE Goal
    BY <1>1, <2>0, <2>1, <2>10 DEF WriteObjects, At, Move, Loaded, BuildState, Sources, Files
  <2>11. ASSUME WriteSidecar(b) PROVE Goal
    BY <1>1, <2>0, <2>1, <2>11 DEF WriteSidecar, At, Move, Loaded, BuildState, Sources, Files
  <2>12. ASSUME WriteStep(b) PROVE Goal
    BY <1>1, <2>0, <2>1, <2>12 DEF WriteStep, At, Move, Loaded, BuildState, Sources, Files
  <2>13. ASSUME WriteDxf(b) PROVE Goal
    BY <2>0, <2>1, <2>13 DEF WriteDxf, At, Sound
  <2>14. ASSUME ReadBack(b) PROVE Goal
    BY <1>1, <2>0, <2>1, <2>14 DEF ReadBack, At, Move, Loaded, BuildState, Sources, Files
  <2>15. ASSUME Decide(b) PROVE Goal
    BY <1>1, <2>0, <2>1, <2>15 DEF Decide, At, Move, Loaded, BuildState, Sources, Files
  <2>16. ASSUME WriteRecord(b) PROVE Goal
    <3>1. /\ build'[b] = [build[b] EXCEPT !.phase = IF kind = "mesh" THEN "pick" ELSE "done"]
          /\ record' = RecordOf(b) /\ build[b].phase = "record"
      BY <2>1, <2>16 DEF WriteRecord, Move, At
    <3>2. build[b].ran = build[b].hashed
      <4>1. \A f \in Files : build[b].ran[f] = build[b].hashed[f]
        BY <2>1, <3>1 DEF Sound, Hashed, Loaded
      <4>2. QED
        BY <2>1, <4>1 DEF BuildState, Sources
    <3>3. TrueRecord(record')
      BY <2>0, <3>1, <3>2, RecordOfParts DEF TrueRecord
    <3>4. Loaded(build'[b], version)
      BY <2>1, <3>1 DEF Loaded, BuildState
    <3>5. QED
      BY <3>3, <3>4
  <2>17. ASSUME PickTree(b) PROVE Goal
    BY <1>1, <2>0, <2>1, <2>17 DEF PickTree, At, Move, Loaded, BuildState, Sources, Files
  <2>18. ASSUME WriteMesh(b) PROVE Goal
    BY <1>1, <2>0, <2>1, <2>18 DEF WriteMesh, At, Move, Loaded, BuildState, Sources, Files
  <2>19. ASSUME ReadLedger(b) PROVE Goal
    BY <1>1, <2>0, <2>1, <2>19 DEF ReadLedger, At, Move, Loaded, BuildState, Sources, Files
  <2>20. ASSUME WriteEntry(b) PROVE Goal
    <3>1. /\ build'[b] = [build[b] EXCEPT !.phase = "done"] /\ build[b].phase = "entry"
          /\ kind = "mesh" /\ build[b].seen \in FullRecord /\ build[b].seen # NoRecord
      BY <2>1, <2>20, RecordsAreFull DEF WriteEntry, Move, At, Sound, BuildState
    <3>2. record'.hashed = build[b].seen.hashed /\ record'.tree = build[b].seen.tree
      BY <2>20, <3>1 DEF WriteEntry, FullRecord
    <3>3. TrueRecord(record')
      BY <2>1, <3>1, <3>2 DEF TrueRecord, Loaded
    <3>4. Loaded(build'[b], version)
      BY <2>1, <3>1 DEF Loaded, BuildState
    <3>5. QED
      BY <3>3, <3>4
  <2>21. ASSUME Finish(b) PROVE Goal
    BY <2>1, <2>21, LoadedIdle DEF Finish
  <2>22. ASSUME Kill(b) PROVE Goal
    BY <2>1, <2>22, LoadedIdle DEF Kill
  <2>23. Goal
    BY <1>3, <2>3, <2>4, <2>5, <2>6, <2>7, <2>8, <2>9, <2>10, <2>11, <2>12, <2>13, <2>14, <2>15, <2>16, <2>17, <2>18, <2>19, <2>20, <2>21, <2>22 DEF Step
  <2>24. QED
    BY <2>0, <2>2, <2>23 DEF TruthIInv, TrueRecord, Loaded
<1>4. CASE UNCHANGED storeVars
  BY <1>4 DEF storeVars, TruthIInv, TrueRecord, Loaded
<1>5. QED
  BY <1>2, <1>3, <1>4 DEF StoreNext

\* If only what a body imports can change between being loaded and being hashed,
\* the gate tells the truth: what it calls current was made from what is on disk.
THEOREM GateIsTruthful ==
  ASSUME EditedUnhashed \subseteq {"lazy"}
  PROVE  StoreSpec => []GateTellsTruth
<1>1. TypeIInv /\ TruthIInv => GateTellsTruth
  <2> SUFFICES ASSUME TypeIInv, TruthIInv, ~Stale, kind # "drawing"
               PROVE  record.tree = version /\ (kind = "step" => disk["step"] = version)
    BY DEF GateTellsTruth
  <2>1. record # NoRecord /\ record.hashed = version /\ record.tree = version
    BY DEF TruthIInv, TrueRecord, Stale, StaleRecord
  <2>2. ASSUME kind = "step" PROVE disk["step"] = version
    <3>1. record \in FullRecord
      BY <2>1, RecordsAreFull DEF TypeIInv, StoreTypeOK
    <3>2. "step" \in DOMAIN record.outs
      BY <2>2, <3>1, OutputsOf DEF FullRecord
    <3>3. disk["step"] = record.outs["step"]
      BY <3>2 DEF Stale, StaleRecord
    <3>4. QED
      BY <2>1, <2>2, <3>3 DEF TruthIInv, TrueRecord
  <2>3. QED
    BY <2>1, <2>2
<1>2. TypeIInv /\ TruthIInv /\ [StoreNext]_storeVars => TruthIInv'
  BY TruthStep
<1>3. QED
  BY <1>1, <1>2, TypeInit, TypeStep, TruthInit, PTL DEF StoreSpec
=============================================================================
