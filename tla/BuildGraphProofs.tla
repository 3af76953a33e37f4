-------------------------- MODULE BuildGraphProofs --------------------------
(***************************************************************************)
(* Theorems about BuildGraph, for any models and calls between them, any   *)
(* number of slots, requests and edits.                                    *)
(***************************************************************************)
EXTENDS BuildGraph, FiniteSetTheorems, WellFoundedInduction, TLAPS

\* What a request is made of.
Versions == 1..(MaxEdits + 1)
Dict(keys, values) == UNION {[D -> values] : D \in SUBSET keys}
Hashes == [of : {"script", "listed", "all"}, at : Versions]
JobType ==
    [model : Models, parent : Nat, asked : [Models -> Versions], key : Hashes, phase : Phases,
     ran : Nat, called : Nat, sub : Dict(Models, Nat), pins : Dict(Models, Trees),
     awaits : Nat, code : {0, 1}, tree : Trees, dead : BOOLEAN]

\* A record composes the source that ran and what its children were pinned at.
RecordType == [ran : Nat, tree : Trees, pins : Dict(Models, Trees)]
RecordOK(m) ==
    record[m] # NoRecord =>
        /\ record[m].tree = {<<m, record[m].ran>>} \cup UNION Range(record[m].pins)
        /\ DOMAIN record[m].pins \subseteq Callees(m) \ {m}
Recorded == record \in [Models -> RecordType] /\ \A m \in Models : RecordOK(m)
Shape ==
    /\ version \in [Models -> Versions]
    /\ script \in [Models -> Versions] /\ \A m \in Models : script[m] <= version[m]
    /\ Recorded
    /\ jobs \in Seq(JobType) /\ Len(jobs) <= MaxJobs

\* What holds of request j and those it refers to.
Building == {"building", "waiting", "resuming"}
RefersOK(j) ==
    /\ jobs[j].parent \in 0..(j - 1)
    /\ jobs[j].awaits \in 0..Len(jobs)
    /\ \A c \in DOMAIN jobs[j].sub :
          jobs[j].sub[c] \in Job /\ jobs[jobs[j].sub[c]].parent = j
PinsOK(j) == DOMAIN jobs[j].pins \cup DOMAIN jobs[j].sub \subseteq Callees(jobs[j].model) \ {jobs[j].model}
JoinedTo(j, i) == i \in Job /\ Key(i) = Key(j) /\ jobs[i].parent # 0 /\ jobs[j].parent # 0
JoinedOK(j) == jobs[j].phase = "joined" => JoinedTo(j, jobs[j].awaits)

\* What it was, is being or has been built from.
Since(j) == Owed(j)..version[jobs[j].model]
SourceOK(j) ==
    /\ \A m \in Models : jobs[j].asked[m] <= version[m]
    /\ jobs[j].key.at <= jobs[j].asked[jobs[j].model]
    /\ jobs[j].phase \in Building => jobs[j].ran \in Since(j)
    /\ (jobs[j].phase \in {"ending", "ended"} /\ jobs[j].code = 0) =>
          \E v \in Since(j) : <<jobs[j].model, v>> \in jobs[j].tree

JobOK(j) == RefersOK(j) /\ PinsOK(j) /\ JoinedOK(j) /\ SourceOK(j)

\* The broker's two tables.
SlotsOK ==
    /\ asking = {j \in Job : jobs[j].phase \in {"queued", "resuming"}}
    /\ holding = {j \in Job : jobs[j].phase = "building"}
    /\ Cardinality(holding) <= Limit
Registered(j) == jobs[j].parent # 0 /\ (Running(j) \/ jobs[j].phase = "ending")
InflightOK ==
    /\ \A k \in DOMAIN inflight :
          inflight[k] \in Job /\ Key(inflight[k]) = k /\ jobs[inflight[k]].parent # 0
    /\ \A j \in Job : Registered(j) => Key(j) \in DOMAIN inflight /\ inflight[Key(j)] = j

BuildIInv == Shape /\ (\A j \in Job : JobOK(j)) /\ SlotsOK /\ InflightOK

-----------------------------------------------------------------------------
(* Dictionaries, sequences of requests, and the gate. *)

LEMMA PutIn ==
    ASSUME NEW K, NEW V, NEW f \in Dict(K, V), NEW k \in K, NEW v \in V
    PROVE  /\ Put(f, k, v) \in Dict(K, V)
           /\ DOMAIN Put(f, k, v) = DOMAIN f \cup {k}
           /\ Put(f, k, v)[k] = v
           /\ \A i \in DOMAIN f : i # k => Put(f, k, v)[i] = f[i]
<1>1. PICK D \in SUBSET K : f \in [D -> V]
  BY DEF Dict
<1>2. Put(f, k, v) \in [D \cup {k} -> V] /\ D \cup {k} \in SUBSET K
  BY <1>1 DEF Put
<1>3. Put(f, k, v) \in Dict(K, V)
  BY <1>2 DEF Dict
<1>4. QED
  BY <1>1, <1>3 DEF Put

LEMMA EmptyDict == ASSUME NEW K, NEW V PROVE <<>> \in Dict(K, V)
<1>1. <<>> \in [{} -> V]
  OBVIOUS
<1>2. QED
  BY <1>1 DEF Dict

LEMMA DictValue ==
    ASSUME NEW K, NEW V, NEW f \in Dict(K, V)
    PROVE  DOMAIN f \subseteq K /\ \A k \in DOMAIN f : f[k] \in V
  BY DEF Dict

\* A model the gate lets pass has a record of its source as it is on disk.
LEMMA GatePasses ==
    ASSUME Shape, NEW m \in Models, ~Stale(m)
    PROVE  <<m, version[m]>> \in record[m].tree /\ record[m].tree \in Trees
  BY DEF Stale, Outdated, Shape, Recorded, RecordOK, RecordType

LEMMA JobsAre == ASSUME Shape PROVE Job = 1..Len(jobs) /\ Len(jobs) \in Nat
  BY DEF Shape, Job

LEMMA VersionsAre ==
    ASSUME Shape, NEW j \in Job
    PROVE  /\ jobs[j].model \in Models /\ jobs[j].key.at \in Nat /\ Owed(j) \in Nat
           /\ \A m \in Models : version[m] \in Nat /\ jobs[j].asked[m] \in Nat
<1>1. jobs[j] \in JobType /\ version \in [Models -> Versions]
  BY JobsAre DEF Shape
<1>2. /\ jobs[j].asked \in [Models -> Versions] /\ jobs[j].model \in Models
      /\ jobs[j].key.at \in Versions
  BY <1>1 DEF JobType, Hashes
<1>3. Versions \subseteq Nat
  BY BuildAssumption DEF Versions
<1>4. QED
  BY <1>1, <1>2, <1>3 DEF Owed

\* What is owed is no newer than what was asked for.
LEMMA OwedIs ==
    ASSUME Shape, NEW j \in Job, SourceOK(j)
    PROVE  Owed(j) <= version[jobs[j].model] /\ Owed(j) <= jobs[j].asked[jobs[j].model]
  BY VersionsAre DEF SourceOK, Owed

\* What the gate hashes is of the source as it is.
LEMMA HashedIs ==
    ASSUME Shape, NEW m \in Models
    PROVE  Hashed(m) \in Hashes /\ Hashed(m).at <= version[m]
<1>1. version[m] \in Versions /\ script[m] \in Versions /\ script[m] <= version[m]
  BY DEF Shape
<1>2. version[m] \in Int
  BY <1>1, BuildAssumption DEF Versions
<1>3. QED
  BY <1>1, <1>2 DEF Hashed, Hashes

LEMMA CalleeIs ==
    ASSUME Shape, NEW j \in Job, CallsLeft(j)
    PROVE  Callee(j) \in Models /\ Callee(j) \in Callees(jobs[j].model)
<1>1. jobs[j] \in JobType
  BY JobsAre DEF Shape
<1>2. Children[jobs[j].model] \in Seq(Models) /\ jobs[j].called \in Nat
  BY <1>1, BuildAssumption DEF JobType
<1>3. jobs[j].called + 1 \in 1..Len(Children[jobs[j].model])
  BY <1>2 DEF CallsLeft
<1>4. QED
  BY <1>2, <1>3 DEF Callee, Callees, Range

\* One request changes; another may be new.
Same(r, s) ==
    r.model = s.model /\ r.parent = s.parent /\ r.asked = s.asked /\ r.key = s.key
OneChanges(j, r) ==
    /\ r \in JobType /\ Same(r, jobs[j])
    /\ jobs' = [jobs EXCEPT ![j] = r]
Fresh(i) ==
    \E m \in Models, p \in 0..(i - 1) : jobs'[i] = NewJob(m, p)
Frame(j) ==
    /\ jobs' \in Seq(JobType) /\ Len(jobs') \in Nat
    /\ Len(jobs) <= Len(jobs') /\ Len(jobs') <= MaxJobs
    /\ \A i \in Job : Same(jobs'[i], jobs[i]) /\ (i # j => jobs'[i] = jobs[i])
    /\ \A i \in (Len(jobs) + 1)..Len(jobs') : Fresh(i)

LEMMA OneFrame ==
    ASSUME Shape, NEW j \in Job, NEW r, OneChanges(j, r)
    PROVE  Frame(j) /\ Len(jobs') = Len(jobs) /\ jobs'[j] = r
<1>1. jobs \in Seq(JobType) /\ j \in 1..Len(jobs)
  BY JobsAre DEF Shape
<1>2. jobs' \in Seq(JobType) /\ Len(jobs') = Len(jobs) /\ jobs'[j] = r
      /\ \A i \in 1..Len(jobs) : i # j => jobs'[i] = jobs[i]
  BY <1>1 DEF OneChanges
<1>3. QED
  BY <1>2, JobsAre DEF OneChanges, Frame, Same, Shape

LEMMA NoneFrame ==
    ASSUME Shape, jobs' = jobs
    PROVE  Frame(0)
  BY JobsAre DEF Frame, Same, Shape

LEMMA FreshSent ==
    ASSUME Shape, NEW j, Frame(j)
    PROVE  \A i \in Job' \ Job : jobs'[i].phase = "sent"
<1> SUFFICES ASSUME NEW i \in Job' \ Job PROVE jobs'[i].phase = "sent"
  OBVIOUS
<1>1. i \in (Len(jobs) + 1)..Len(jobs')
  BY JobsAre DEF Job, Frame
<1>2. Fresh(i)
  BY <1>1 DEF Frame
<1>3. QED
  BY <1>2 DEF Fresh, NewJob

\* The other requests stay well: what they refer to keeps its source, and what
\* has ended does not change any more.
LEMMA OthersKept ==
    ASSUME Shape, \A i \in Job : JobOK(i), NEW j, Frame(j),
           j \in Job => jobs[j].phase # "ended",
           version' \in [Models -> Versions], \A m \in Models : version[m] <= version'[m]
    PROVE  \A i \in Job : i # j => JobOK(i)'
<1> SUFFICES ASSUME NEW i \in Job, i # j PROVE JobOK(i)'
  OBVIOUS
<1>1. JobOK(i) /\ jobs'[i] = jobs[i] /\ Job \subseteq Job' /\ Job = 1..Len(jobs) /\ Job' = 1..Len(jobs')
  BY JobsAre DEF Frame, Job
<1>2. jobs[i] \in JobType /\ Len(jobs) \in Nat /\ Len(jobs') \in Nat /\ Len(jobs) <= Len(jobs')
  BY JobsAre DEF Shape, Frame
<1>3. RefersOK(i)'
  <2>1. RefersOK(i)
    BY <1>1 DEF JobOK
  <2>2. jobs'[i].parent \in 0..(i - 1) /\ jobs'[i].awaits \in 0..Len(jobs')
    BY <1>1, <1>2, <2>1 DEF RefersOK
  <2>3. \A c \in DOMAIN jobs[i].sub : jobs[i].sub[c] \in Job' /\ jobs'[jobs[i].sub[c]].parent = i
    BY <1>1, <2>1 DEF RefersOK, Frame, Same
  <2>4. QED
    BY <1>1, <2>2, <2>3 DEF RefersOK
<1>4. PinsOK(i)'
  BY <1>1 DEF JobOK, PinsOK
<1>5. JoinedOK(i)'
  BY <1>1 DEF JobOK, JoinedOK, JoinedTo, Key, Frame, Same
<1>6. SourceOK(i)'
  <2>1. \A m \in Models : version[m] \in Nat /\ version'[m] \in Nat /\ jobs[i].asked[m] \in Nat
    <3>1. Versions \subseteq Nat
      BY BuildAssumption DEF Versions
    <3>2. QED
      BY <3>1, VersionsAre
  <2>2. jobs[i].model \in Models
    BY <1>2 DEF JobType
  <2>3. Owed(i)' = Owed(i) /\ \A v : v \in Since(i) => v \in Owed(i)..version'[jobs[i].model]
    BY <1>1, <2>1, <2>2, VersionsAre DEF Since, Owed
  <2>4. \A m \in Models : jobs[i].asked[m] <= version'[m]
    BY <1>1, <2>1 DEF JobOK, SourceOK
  <2>5. QED
    BY <1>1, <2>3, <2>4 DEF JobOK, SourceOK, Since
<1>7. QED
  BY <1>3, <1>4, <1>5, <1>6 DEF JobOK

LEMMA FreshOK ==
    ASSUME Shape, NEW j, Frame(j),
           version' \in [Models -> Versions], \A m \in Models : version[m] <= version'[m]
    PROVE  \A i \in (Len(jobs) + 1)..Len(jobs') : JobOK(i)'
<1> SUFFICES ASSUME NEW i \in (Len(jobs) + 1)..Len(jobs') PROVE JobOK(i)'
  OBVIOUS
<1>1. PICK m \in Models, p \in 0..(i - 1) : jobs'[i] = NewJob(m, p)
  BY DEF Frame, Fresh
<1>2. /\ jobs'[i].model = m /\ jobs'[i].parent = p /\ jobs'[i].asked = version
      /\ jobs'[i].phase = "sent" /\ jobs'[i].sub = <<>> /\ jobs'[i].awaits = 0
      /\ jobs'[i].pins = <<>> /\ jobs'[i].key.at <= version[m]
  BY <1>1, HashedIs DEF NewJob
<1>3. RefersOK(i)'
  BY <1>2 DEF RefersOK, Frame
<1>4. PinsOK(i)'
  BY <1>2 DEF PinsOK
<1>5. JoinedOK(i)' /\ SourceOK(i)'
  BY <1>2 DEF JoinedOK, SourceOK, Building
<1>6. QED
  BY <1>3, <1>4, <1>5 DEF JobOK

\* The requests after a step: those there were but one, that one, the new ones.
LEMMA AllKept ==
    ASSUME Shape, \A i \in Job : JobOK(i), NEW j, Frame(j),
           j \in Job => jobs[j].phase # "ended" /\ JobOK(j)',
           version' \in [Models -> Versions], \A m \in Models : version[m] <= version'[m]
    PROVE  \A i \in Job' : JobOK(i)'
<1>1. \A i \in Job : JobOK(i)'
  BY OthersKept
<1>2. \A i \in (Len(jobs) + 1)..Len(jobs') : JobOK(i)'
  BY FreshOK
<1>3. \A i \in Job' : i \in Job \/ i \in (Len(jobs) + 1)..Len(jobs')
  BY JobsAre DEF Job, Frame
<1>4. QED
  BY <1>1, <1>2, <1>3

\* A slot is asked for, held and let go of in the phases that say so.
SlotMoves(j) ==
    LET at == jobs'[j].phase
    IN  /\ asking' = IF at \in {"queued", "resuming"} THEN asking \cup {j} ELSE asking \ {j}
        /\ holding' = IF at = "building" THEN holding \cup {j} ELSE holding \ {j}
        /\ (at = "building" /\ j \notin holding) => Cardinality(holding) < Limit

LEMMA HoldingFinite == ASSUME Shape, SlotsOK PROVE IsFiniteSet(holding)
<1>1. holding \subseteq 1..Len(jobs)
  BY JobsAre DEF SlotsOK
<1>2. IsFiniteSet(1..Len(jobs))
  BY JobsAre, FS_Interval
<1>3. QED
  BY <1>1, <1>2, FS_Subset

LEMMA SlotsKept ==
    ASSUME Shape, SlotsOK, NEW j, Frame(j),
           IF j \in Job THEN SlotMoves(j) ELSE asking' = asking /\ holding' = holding
    PROVE  SlotsOK'
<1>1. Job = 1..Len(jobs) /\ Job' = 1..Len(jobs') /\ Len(jobs) \in Nat /\ Len(jobs') \in Nat
      /\ Len(jobs) <= Len(jobs')
  BY JobsAre DEF Job, Frame
<1>2. \A i \in Job' \ Job : jobs'[i].phase = "sent"
  BY FreshSent
<1>3. \A i \in Job : i # j => jobs'[i] = jobs[i]
  BY DEF Frame
<1>4. /\ asking' = {i \in Job' : jobs'[i].phase \in {"queued", "resuming"}}
      /\ holding' = {i \in Job' : jobs'[i].phase = "building"}
  <2>1. CASE j \in Job
    BY <1>1, <1>2, <1>3, <2>1 DEF SlotsOK, SlotMoves
  <2>2. CASE j \notin Job
    BY <1>1, <1>2, <1>3, <2>2 DEF SlotsOK
  <2>3. QED
    BY <2>1, <2>2
<1>5. Cardinality(holding') <= Limit
  <2>1. IsFiniteSet(holding) /\ Cardinality(holding) <= Limit /\ Cardinality(holding) \in Nat /\ Limit \in Nat
    BY HoldingFinite, FS_CardinalityType, BuildAssumption DEF SlotsOK
  <2>2. CASE holding' \subseteq holding
    BY <2>1, <2>2, FS_Subset, FS_CardinalityType
  <2>3. CASE holding' = holding \cup {j} /\ j \notin holding /\ Cardinality(holding) < Limit
    <3>1. Cardinality(holding \cup {j}) = Cardinality(holding) + 1
      BY <2>1, <2>3, FS_AddElement
    <3>2. QED
      BY <2>1, <2>3, <3>1
  <2>4. QED
    BY <2>2, <2>3 DEF SlotMoves
<1>6. QED
  BY <1>4, <1>5 DEF SlotsOK

\* The registry stays right when nothing is entered or taken out of it.
LEMMA RegistryKept ==
    ASSUME Shape, InflightOK, NEW j, Frame(j), inflight' = inflight,
           j \in Job => (Registered(j)' => Registered(j))
    PROVE  InflightOK'
<1>1. Job = 1..Len(jobs) /\ Job' = 1..Len(jobs') /\ Job \subseteq Job'
  BY JobsAre DEF Job, Frame
<1>2. \A i \in Job : Key(i)' = Key(i)
  BY DEF Frame, Same, Key
<1>3. \A k \in DOMAIN inflight' :
        inflight'[k] \in Job' /\ Key(inflight[k])' = k /\ jobs'[inflight[k]].parent # 0
  BY <1>1, <1>2 DEF InflightOK, Frame, Same
<1>4. \A i \in Job : i # j => (Registered(i)' => Registered(i))
  BY DEF Registered, Running, Frame
<1>5. \A i \in Job' \ Job : ~Registered(i)'
  <2>1. \A i \in Job' \ Job : jobs'[i].phase = "sent"
    BY FreshSent
  <2>2. QED
    BY <2>1 DEF Registered, Running
<1>6. \A i \in Job' : Registered(i)' => Key(i)' \in DOMAIN inflight' /\ inflight'[Key(i)'] = i
  BY <1>2, <1>4, <1>5 DEF InflightOK
<1>7. QED
  BY <1>3, <1>6 DEF InflightOK, Key

\* ... and when what is entered is a request of the source it is entered under.
LEMMA EntriesKept ==
    ASSUME Shape, NEW j, Frame(j), Len(jobs') = Len(jobs), NEW entries, inflight' = entries,
           \A k \in DOMAIN entries :
               entries[k] \in Job /\ Key(entries[k]) = k /\ jobs[entries[k]].parent # 0,
           \A i \in Job : Registered(i)' => Key(i) \in DOMAIN entries /\ entries[Key(i)] = i
    PROVE  InflightOK'
<1>1. Job' = Job
  BY JobsAre DEF Job, Frame
<1>2. \A i \in Job : Key(i)' = Key(i)
  BY DEF Frame, Same, Key
<1>3. \A k \in DOMAIN entries :
        entries[k] \in Job' /\ Key(entries[k])' = k /\ jobs'[entries[k]].parent # 0
  BY <1>1, <1>2 DEF Frame, Same
<1>4. \A i \in Job' : Registered(i)' => Key(i)' \in DOMAIN entries /\ entries[Key(i)'] = i
  BY <1>1, <1>2
<1>5. QED
  BY <1>3, <1>4 DEF InflightOK, Key

\* The records and the sources stay as they are.
LEMMA RecordsStay == ASSUME Shape, record' = record PROVE Recorded'
  BY DEF Shape, Recorded, RecordOK

LEMMA SourcesStay ==
    ASSUME Shape, version' = version, script' = script
    PROVE  /\ version' \in [Models -> Versions] /\ script' \in [Models -> Versions]
           /\ \A m \in Models : version[m] <= version'[m] /\ script'[m] <= version'[m]
  BY VersionsAre, BuildAssumption DEF Shape, Versions

LEMMA StepKept ==
    ASSUME BuildIInv, NEW j \in Job, Frame(j), jobs[j].phase # "ended", JobOK(j)',
           version' = version, script' = script, Recorded',
           SlotMoves(j), inflight' = inflight, Registered(j)' => Registered(j)
    PROVE  BuildIInv'
<1>1. Shape /\ (\A i \in Job : JobOK(i)) /\ SlotsOK /\ InflightOK
  BY DEF BuildIInv
<1>2. version' \in [Models -> Versions] /\ \A m \in Models : version[m] <= version'[m]
  <2>1. version \in [Models -> Versions] /\ \A m \in Models : version[m] \in Int
    BY <1>1, BuildAssumption DEF Shape, Versions
  <2>2. \A m \in Models : version[m] <= version[m]
    BY <2>1
  <2>3. QED
    BY <2>1, <2>2
<1>3. Shape'
  BY <1>1, SourcesStay DEF Shape, Frame
<1>4. \A i \in Job' : JobOK(i)'
  BY <1>1, <1>2, AllKept
<1>5. SlotsOK' /\ InflightOK'
  BY <1>1, SlotsKept, RegistryKept
<1>6. QED
  BY <1>3, <1>4, <1>5 DEF BuildIInv

\* A step of request j that calls nothing.
LEMMA QuietKept ==
    ASSUME BuildIInv, NEW j \in Job, NEW r, OneChanges(j, r), jobs[j].phase # "ended",
           r.sub = jobs[j].sub, r.awaits \in 0..Len(jobs),
           DOMAIN r.pins \subseteq Callees(jobs[j].model) \ {jobs[j].model},
           r.phase = "joined" => JoinedTo(j, r.awaits),
           r.phase \in Building => r.ran \in Since(j),
           (r.phase \in {"ending", "ended"} /\ r.code = 0) =>
               \E v \in Since(j) : <<jobs[j].model, v>> \in r.tree,
           version' = version
    PROVE  JobOK(j)' /\ Frame(j) /\ jobs'[j] = r
<1>1. Shape /\ JobOK(j) /\ Frame(j) /\ Len(jobs') = Len(jobs) /\ jobs'[j] = r /\ Same(r, jobs[j])
  BY OneFrame DEF BuildIInv, OneChanges
<1>2. Job' = Job
  BY <1>1, JobsAre DEF Job, Frame
<1>3. RefersOK(j)'
  <2>1. RefersOK(j)
    BY <1>1 DEF JobOK
  <2>2. QED
    BY <1>1, <1>2, <2>1 DEF RefersOK, Same, Frame
<1>4. PinsOK(j)'
  BY <1>1 DEF JobOK, PinsOK, Same
<1>5. JoinedOK(j)'
  <2>1. \A i \in Job : Key(i)' = Key(i)
    BY <1>1 DEF Key, Frame, Same
  <2>2. QED
    BY <1>1, <1>2, <2>1 DEF JoinedOK, JoinedTo, Key, Frame, Same
<1>6. SourceOK(j)'
  BY <1>1 DEF JobOK, SourceOK, Since, Owed, Same
<1>7. QED
  BY <1>1, <1>3, <1>4, <1>5, <1>6 DEF JobOK

LEMMA QuietStep ==
    ASSUME BuildIInv, NEW j \in Job, NEW r, OneChanges(j, r), jobs[j].phase # "ended",
           r.sub = jobs[j].sub, r.awaits \in 0..Len(jobs),
           r.pins = jobs[j].pins
               \/ DOMAIN r.pins \subseteq Callees(jobs[j].model) \ {jobs[j].model},
           r.phase # "joined", r.phase \in Building => r.ran \in Since(j),
           (r.phase \in {"ending", "ended"} /\ r.code = 0) =>
               \E v \in Since(j) : <<jobs[j].model, v>> \in r.tree,
           version' = version, script' = script, Recorded',
           SlotMoves(j), inflight' = inflight, Registered(j)' => Registered(j)
    PROVE  BuildIInv'
<1>1. DOMAIN r.pins \subseteq Callees(jobs[j].model) \ {jobs[j].model}
  BY DEF BuildIInv, JobOK, PinsOK
<1>2. JobOK(j)' /\ Frame(j)
  BY <1>1, QuietKept
<1>3. QED
  BY <1>2, StepKept

-----------------------------------------------------------------------------
(* The actions. *)

\* The record of request j with another phase.
LEMMA Rephased ==
    ASSUME Shape, NEW j \in Job, NEW p \in Phases, jobs' = [jobs EXCEPT ![j].phase = p]
    PROVE  \E r : /\ r = [jobs[j] EXCEPT !.phase = p] /\ OneChanges(j, r) /\ jobs'[j] = r
<1>1. jobs \in Seq(JobType) /\ jobs[j] \in JobType
  BY JobsAre DEF Shape
<1> DEFINE r == [jobs[j] EXCEPT !.phase = p]
<1>2. jobs' = [jobs EXCEPT ![j] = r]
  OBVIOUS
<1>3. r \in JobType /\ Same(r, jobs[j])
  BY <1>1 DEF JobType, Same
<1>4. OneChanges(j, r)
  BY <1>2, <1>3 DEF OneChanges
<1>5. jobs'[j] = r
  BY <1>4, OneFrame
<1>6. QED
  BY <1>4, <1>5

LEMMA StartRequestedStep ==
    ASSUME BuildIInv, NEW j \in Job, StartRequested(j) PROVE BuildIInv'
<1>1. Shape /\ SlotsOK /\ JobOK(j) /\ jobs[j].phase = "sent"
  BY DEF BuildIInv, StartRequested
<1>2. PICK r : /\ r = [jobs[j] EXCEPT !.phase = "gate"] /\ OneChanges(j, r) /\ jobs'[j] = r
  BY <1>1, Rephased DEF StartRequested, Phases
<1>3. r.phase = "gate" /\ r.sub = jobs[j].sub /\ r.pins = jobs[j].pins /\ r.awaits = jobs[j].awaits
  BY <1>1, <1>2, JobsAre DEF Shape, JobType
<1>4. SlotMoves(j)
  BY <1>1, <1>2, <1>3 DEF SlotMoves, StartRequested, SlotsOK
<1>5. Registered(j)' => Registered(j)
  BY <1>2 DEF StartRequested, OneChanges, Same, Registered
<1>6. QED
  BY <1>1, <1>2, <1>3, <1>4, <1>5, QuietStep, RecordsStay
     DEF StartRequested, JobOK, RefersOK, Building, Shape

\* The run of request j is over, with its slot.
Result(j, code, tree) ==
    code = 0 => \E v \in Since(j) : <<jobs[j].model, v>> \in tree
LEMMA EndingStep ==
    ASSUME BuildIInv, NEW j \in Job, Running(j), NEW code \in {0, 1}, NEW tree \in Trees,
           Ending(j, code, tree), Result(j, code, tree), version' = version, script' = script,
           inflight' = inflight,
           Recorded'
    PROVE  BuildIInv'
<1>1. Shape /\ JobOK(j) /\ jobs[j] \in JobType /\ jobs \in Seq(JobType)
  BY JobsAre DEF BuildIInv, Shape
<1> DEFINE r == [jobs[j] EXCEPT !.phase = "ending", !.code = code, !.tree = tree, !.awaits = 0]
<1>2. jobs' = [jobs EXCEPT ![j] = r]
  BY <1>1 DEF Ending
<1>3. /\ r \in JobType /\ Same(r, jobs[j]) /\ r.phase = "ending" /\ r.code = code /\ r.tree = tree
      /\ r.awaits = 0 /\ r.sub = jobs[j].sub /\ r.pins = jobs[j].pins
  BY <1>1 DEF JobType, Same, Phases
<1> HIDE DEF r
<1>4. OneChanges(j, r) /\ jobs'[j] = r
  BY <1>1, <1>2, <1>3, OneFrame DEF OneChanges
<1>5. SlotMoves(j)
  BY <1>3, <1>4 DEF SlotMoves, Ending, Release
<1>6. Registered(j)' => Registered(j)
  BY <1>3, <1>4 DEF Registered, Same
<1>7. r.awaits \in 0..Len(jobs)
  BY <1>1, <1>3, JobsAre
<1>8. jobs[j].phase # "ended" /\ r.phase # "joined" /\ r.phase \notin Building
  BY <1>3 DEF Running, Building
<1>9. QED
  BY <1>3, <1>4, <1>5, <1>6, <1>7, <1>8, QuietStep, RecordsStay DEF Result

LEMMA SkipCurrentStep ==
    ASSUME BuildIInv, NEW j \in Job, SkipCurrent(j) PROVE BuildIInv'
<1>1. Shape /\ JobOK(j) /\ jobs[j] \in JobType
  BY JobsAre DEF BuildIInv, Shape
<1> DEFINE m == jobs[j].model
<1>2. m \in Models /\ ~Stale(m) /\ Ending(j, 0, record[m].tree) /\ Running(j)
      /\ UNCHANGED <<version, script, record, inflight>>
  BY <1>1 DEF SkipCurrent, JobType, Running
<1>3. <<m, version[m]>> \in record[m].tree /\ record[m].tree \in Trees
  BY <1>1, <1>2, GatePasses
<1>4. version[m] \in Since(j)
  <2>1. Owed(j) <= version[m]
    BY <1>1, OwedIs DEF JobOK
  <2>2. version[m] \in Nat /\ Owed(j) \in Nat
    BY <1>1, <1>2, VersionsAre
  <2>3. QED
    BY <2>1, <2>2 DEF Since
<1>5. Result(j, 0, record[m].tree)
  BY <1>3, <1>4 DEF Result
<1> HIDE DEF m
<1>6. QED
  BY <1>1, <1>2, <1>3, <1>5, EndingStep, RecordsStay

\* A run that ends in an error.
LEMMA FailingStep ==
    ASSUME BuildIInv, NEW j \in Job, Running(j), Ending(j, 1, {}),
           UNCHANGED <<version, script, record, inflight>>
    PROVE  BuildIInv'
<1>1. {} \in Trees /\ Result(j, 1, {})
  BY DEF Trees, Result
<1>2. Recorded'
  BY RecordsStay DEF BuildIInv
<1>3. QED
  BY <1>1, <1>2, EndingStep

LEMMA FailStep ==
    ASSUME BuildIInv, NEW j \in Job, CallItself(j) \/ ChildFailed(j) \/ BodyFails(j)
    PROVE  BuildIInv'
<1>1. Running(j) /\ Ending(j, 1, {}) /\ UNCHANGED <<version, script, record, inflight>>
  BY DEF CallItself, ChildFailed, BodyFails, InBody, Forced, Running
<1>2. QED
  BY <1>1, FailingStep

LEMMA PublishStep ==
    ASSUME BuildIInv, NEW j \in Job, Publish(j) PROVE BuildIInv'
<1>1. Shape /\ JobOK(j) /\ jobs[j] \in JobType
  BY JobsAre DEF BuildIInv, Shape
<1> DEFINE m == jobs[j].model
           tree == {<<m, jobs[j].ran>>} \cup UNION Range(jobs[j].pins)
<1>2. /\ jobs[j].phase = "building" /\ Ending(j, 0, tree) /\ version' = version /\ inflight' = inflight
      /\ record' = IF jobs[j].ran = version[m] \/ Stale(m)
                   THEN [record EXCEPT ![m] = [ran |-> jobs[j].ran, tree |-> tree,
                                               pins |-> jobs[j].pins]]
                   ELSE record
      /\ script' = script
  BY DEF Publish, InBody
<1>3. m \in Models /\ jobs[j].pins \in Dict(Models, Trees)
  BY <1>1 DEF JobType
<1>4. jobs[j].ran \in Since(j) /\ jobs[j].ran \in Versions
  <2>1. jobs[j].ran \in Since(j)
    BY <1>1, <1>2 DEF JobOK, SourceOK, Building
  <2>2. version[m] \in Versions /\ Owed(j) \in Versions
    BY <1>1, <1>3 DEF Shape, JobType, Owed, Hashes
  <2>3. QED
    BY <2>1, <2>2, BuildAssumption DEF Since, Versions
<1>5. tree \in Trees
  <2>1. \A t \in Range(jobs[j].pins) : t \in Trees
    BY <1>3, DictValue DEF Range
  <2>2. QED
    BY <1>3, <1>4, <2>1 DEF Trees, Versions
<1>6. Result(j, 0, tree)
  BY <1>4 DEF Result
<1>7. Recorded'
  <2> DEFINE new == [ran |-> jobs[j].ran, tree |-> tree, pins |-> jobs[j].pins]
  <2>1. jobs[j].ran \in Nat
    BY <1>4, BuildAssumption DEF Versions
  <2>2. new \in RecordType
    BY <1>3, <1>5, <2>1 DEF RecordType
  <2>3. DOMAIN jobs[j].pins \subseteq Callees(m) \ {m}
    BY <1>1 DEF JobOK, PinsOK
  <2>4. new.tree = {<<m, new.ran>>} \cup UNION Range(new.pins)
    OBVIOUS
  <2>5. new.pins = jobs[j].pins
    OBVIOUS
  <2>6. record \in [Models -> RecordType] /\ \A d \in Models : RecordOK(d)
    BY <1>1 DEF Shape, Recorded
  <2>7. record' = record \/ record' = [record EXCEPT ![m] = new]
    BY <1>2
  <2> HIDE DEF new
  <2>8. CASE record' = [record EXCEPT ![m] = new]
    BY <1>3, <2>2, <2>3, <2>4, <2>5, <2>6, <2>8 DEF Recorded, RecordOK
  <2>9. CASE record' = record
    BY <2>6, <2>9 DEF Recorded, RecordOK
  <2>10. QED
    BY <2>7, <2>8, <2>9
<1> HIDE DEF m, tree
<1>8. Running(j)
  BY <1>2 DEF Running
<1>9. QED
  BY <1>2, <1>5, <1>6, <1>7, <1>8, EndingStep

LEMMA AskSlotStep ==
    ASSUME BuildIInv, NEW j \in Job, AskSlot(j) PROVE BuildIInv'
<1>1. /\ Shape /\ SlotsOK /\ JobOK(j) /\ jobs[j].phase = "gate" /\ asking' = asking \cup {j}
      /\ holding' = holding /\ version' = version /\ script' = script /\ record' = record /\ inflight' = inflight
      /\ jobs' = [jobs EXCEPT ![j].phase = "queued"]
  BY DEF BuildIInv, AskSlot, Slots!Ask
<1>2. PICK r : /\ r = [jobs[j] EXCEPT !.phase = "queued"] /\ OneChanges(j, r) /\ jobs'[j] = r
  BY <1>1, Rephased DEF Phases
<1>3. r.phase = "queued" /\ r.sub = jobs[j].sub /\ r.pins = jobs[j].pins /\ r.awaits = jobs[j].awaits
  BY <1>1, <1>2, JobsAre DEF Shape, JobType
<1>4. SlotMoves(j)
  BY <1>1, <1>2, <1>3 DEF SlotMoves, SlotsOK
<1>5. Registered(j)' => Registered(j)
  BY <1>1, <1>2 DEF OneChanges, Same, Registered, Running
<1>6. QED
  BY <1>1, <1>2, <1>3, <1>4, <1>5, QuietStep, RecordsStay DEF JobOK, RefersOK, Building, Shape

LEMMA AskAgainStep ==
    ASSUME BuildIInv, NEW j \in Job, AskAgain(j) PROVE BuildIInv'
<1>1. /\ Shape /\ SlotsOK /\ JobOK(j) /\ jobs[j].phase = "waiting" /\ asking' = asking \cup {j}
      /\ holding' = holding /\ version' = version /\ script' = script /\ record' = record /\ inflight' = inflight
      /\ jobs' = [jobs EXCEPT ![j].phase = "resuming"]
  BY DEF BuildIInv, AskAgain, Slots!Ask
<1>2. PICK r : /\ r = [jobs[j] EXCEPT !.phase = "resuming"] /\ OneChanges(j, r) /\ jobs'[j] = r
  BY <1>1, Rephased DEF Phases
<1>3. /\ r.phase = "resuming" /\ r.sub = jobs[j].sub /\ r.pins = jobs[j].pins
      /\ r.awaits = jobs[j].awaits /\ r.ran = jobs[j].ran
  BY <1>1, <1>2, JobsAre DEF Shape, JobType
<1>4. SlotMoves(j)
  BY <1>1, <1>2, <1>3 DEF SlotMoves, SlotsOK
<1>5. Registered(j)' => Registered(j)
  BY <1>1, <1>2 DEF OneChanges, Same, Registered, Running
<1>6. r.ran \in Since(j)
  BY <1>1, <1>3 DEF JobOK, SourceOK, Building
<1>7. QED
  BY <1>1, <1>2, <1>3, <1>4, <1>5, <1>6, QuietStep, RecordsStay DEF JobOK, RefersOK, Shape

LEMMA TakeSlotStep ==
    ASSUME BuildIInv, NEW j \in Job, TakeSlot(j) PROVE BuildIInv'
<1>1. /\ Shape /\ SlotsOK /\ JobOK(j) /\ j \in asking /\ Cardinality(holding) < Limit
      /\ asking' = asking \ {j} /\ holding' = holding \cup {j}
      /\ version' = version /\ script' = script /\ record' = record /\ inflight' = inflight
  <2>1. Slots!Cardinality(holding) = Cardinality(holding)
    BY Zenon DEF Slots!Cardinality, Cardinality
  <2>2. QED
    BY <2>1 DEF BuildIInv, TakeSlot, Slots!Take
<1>2. jobs[j] \in JobType /\ jobs \in Seq(JobType) /\ jobs[j].phase \in {"queued", "resuming"}
  BY <1>1, JobsAre DEF Shape, SlotsOK
<1> DEFINE m == jobs[j].model
           ran == IF jobs[j].phase = "queued" THEN version[m] ELSE jobs[j].ran
           r == [jobs[j] EXCEPT !.phase = "building", !.ran = ran]
<1>3. jobs' = [jobs EXCEPT ![j] = r]
  BY <1>2 DEF TakeSlot
<1>4. m \in Models /\ version[m] \in Nat /\ Owed(j) \in Nat
  BY <1>1, <1>2, VersionsAre
<1>5. ran \in Since(j) /\ ran \in Nat
  <2>1. Owed(j) <= version[m]
    BY <1>1, OwedIs DEF JobOK
  <2>2. jobs[j].phase = "resuming" => jobs[j].ran \in Since(j)
    BY <1>1 DEF JobOK, SourceOK, Building
  <2>3. QED
    BY <1>2, <1>4, <2>1, <2>2 DEF Since
<1>6. /\ r \in JobType /\ Same(r, jobs[j]) /\ r.phase = "building" /\ r.ran = ran
      /\ r.awaits = jobs[j].awaits /\ r.sub = jobs[j].sub /\ r.pins = jobs[j].pins
  BY <1>2, <1>5 DEF JobType, Same, Phases
<1> HIDE DEF r, ran
<1>7. OneChanges(j, r) /\ jobs'[j] = r
  BY <1>1, <1>3, <1>6, OneFrame DEF OneChanges
<1>8. SlotMoves(j)
  BY <1>1, <1>6, <1>7 DEF SlotMoves
<1>9. Registered(j)' => Registered(j)
  BY <1>2, <1>6, <1>7 DEF Registered, Same, Running
<1>10. QED
  BY <1>1, <1>2, <1>5, <1>6, <1>7, <1>8, <1>9, QuietStep, RecordsStay DEF JobOK, RefersOK, Shape

LEMMA CallAgainStep ==
    ASSUME BuildIInv, NEW j \in Job, CallAgain(j) PROVE BuildIInv'
<1>1. /\ Shape /\ SlotsOK /\ JobOK(j) /\ jobs[j].phase = "building" /\ asking' = asking
      /\ holding' = holding /\ version' = version /\ script' = script /\ record' = record /\ inflight' = inflight
  BY DEF BuildIInv, CallAgain, InBody
<1>2. jobs[j] \in JobType /\ jobs \in Seq(JobType)
  BY <1>1, JobsAre DEF Shape
<1> DEFINE r == [jobs[j] EXCEPT !.called = @ + 1]
<1>3. jobs' = [jobs EXCEPT ![j] = r]
  BY <1>2 DEF CallAgain
<1>4. /\ r \in JobType /\ Same(r, jobs[j]) /\ r.phase = "building" /\ r.ran = jobs[j].ran
      /\ r.awaits = jobs[j].awaits /\ r.sub = jobs[j].sub /\ r.pins = jobs[j].pins
  <2>1. jobs[j].called + 1 \in Nat
    BY <1>2 DEF JobType
  <2>2. QED
    BY <1>1, <1>2, <2>1 DEF JobType, Same
<1> HIDE DEF r
<1>5. OneChanges(j, r) /\ jobs'[j] = r
  BY <1>1, <1>3, <1>4, OneFrame DEF OneChanges
<1>6. SlotMoves(j)
  BY <1>1, <1>4, <1>5 DEF SlotMoves, SlotsOK
<1>7. Registered(j)' => Registered(j)
  BY <1>1, <1>4, <1>5 DEF Registered, Same, Running
<1>8. r.ran \in Since(j)
  BY <1>1, <1>4 DEF JobOK, SourceOK, Building
<1>9. QED
  BY <1>1, <1>4, <1>5, <1>6, <1>7, <1>8, QuietStep, RecordsStay DEF JobOK, RefersOK, Shape

LEMMA YieldStep ==
    ASSUME BuildIInv, NEW j \in Job, Yield(j) PROVE BuildIInv'
<1>1. /\ Shape /\ SlotsOK /\ JobOK(j) /\ jobs[j].phase = "building" /\ asking' = asking \ {j}
      /\ holding' = holding \ {j} /\ version' = version /\ script' = script /\ record' = record /\ inflight' = inflight
  BY DEF BuildIInv, Yield, InBody, Slots!Leave
<1>2. jobs[j] \in JobType /\ jobs \in Seq(JobType)
  BY <1>1, JobsAre DEF Shape
<1>3. PICK c \in Promised(j) :
        jobs' = [jobs EXCEPT ![j].phase = "waiting", ![j].awaits = jobs[j].sub[c]]
  BY DEF Yield
<1>4. jobs[j].sub[c] \in 1..Len(jobs) /\ jobs[j].sub[c] \in Nat
  BY <1>1, JobsAre DEF Promised, JobOK, RefersOK
<1> DEFINE r == [jobs[j] EXCEPT !.phase = "waiting", !.awaits = jobs[j].sub[c]]
<1>5. jobs' = [jobs EXCEPT ![j] = r]
  BY <1>2, <1>3
<1>6. /\ r \in JobType /\ Same(r, jobs[j]) /\ r.phase = "waiting" /\ r.ran = jobs[j].ran
      /\ r.awaits = jobs[j].sub[c] /\ r.sub = jobs[j].sub /\ r.pins = jobs[j].pins
  BY <1>2, <1>4 DEF JobType, Same, Phases
<1> HIDE DEF r
<1>7. OneChanges(j, r) /\ jobs'[j] = r
  BY <1>1, <1>5, <1>6, OneFrame DEF OneChanges
<1>8. SlotMoves(j)
  BY <1>1, <1>6, <1>7 DEF SlotMoves
<1>9. Registered(j)' => Registered(j)
  BY <1>1, <1>6, <1>7 DEF Registered, Same, Running
<1>10. r.ran \in Since(j) /\ r.awaits \in 0..Len(jobs)
  BY <1>1, <1>4, <1>6, JobsAre DEF JobOK, SourceOK, Building
<1>11. QED
  BY <1>1, <1>6, <1>7, <1>8, <1>9, <1>10, QuietStep, RecordsStay DEF Shape

LEMMA WorkerEndsStep ==
    ASSUME BuildIInv, NEW j \in Job, WorkerEnds(j) PROVE BuildIInv'
<1>1. /\ Shape /\ Running(j) /\ asking' = asking \ {j}
      /\ holding' = holding \ {j} /\ version' = version /\ script' = script /\ record' = record /\ inflight' = inflight
  BY DEF BuildIInv, WorkerEnds, Release
<1>2. jobs[j] \in JobType /\ jobs \in Seq(JobType)
  BY <1>1, JobsAre DEF Shape
<1> DEFINE r == [jobs[j] EXCEPT !.phase = "ending", !.code = 1, !.awaits = 0, !.dead = TRUE]
<1>3. jobs' = [jobs EXCEPT ![j] = r]
  BY <1>2 DEF WorkerEnds
<1>4. /\ r \in JobType /\ Same(r, jobs[j]) /\ r.phase = "ending" /\ r.code = 1
      /\ r.awaits = 0 /\ r.sub = jobs[j].sub /\ r.pins = jobs[j].pins
  BY <1>2 DEF JobType, Same, Phases
<1> HIDE DEF r
<1>5. OneChanges(j, r) /\ jobs'[j] = r
  BY <1>1, <1>3, <1>4, OneFrame DEF OneChanges
<1>6. SlotMoves(j)
  BY <1>1, <1>4, <1>5 DEF SlotMoves
<1>7. Registered(j)' => Registered(j)
  BY <1>1, <1>4, <1>5 DEF Registered, Same
<1>8. r.awaits \in 0..Len(jobs) /\ jobs[j].phase # "ended"
  BY <1>1, <1>4, JobsAre DEF Running
<1>9. QED
  BY <1>1, <1>4, <1>5, <1>6, <1>7, <1>8, QuietStep, RecordsStay DEF Building, Shape

LEMMA SpawnRaisesStep ==
    ASSUME BuildIInv, NEW j \in Job, SpawnRaises(j) PROVE BuildIInv'
<1>1. /\ Shape /\ SlotsOK /\ JobOK(j) /\ jobs[j].phase = "gate" /\ asking' = asking
      /\ holding' = holding /\ version' = version /\ script' = script /\ record' = record /\ inflight' = inflight
      /\ jobs' = [jobs EXCEPT ![j].phase = "sent"]
  BY DEF BuildIInv, SpawnRaises
<1>2. PICK r : /\ r = [jobs[j] EXCEPT !.phase = "sent"] /\ OneChanges(j, r) /\ jobs'[j] = r
  BY <1>1, Rephased DEF Phases
<1>3. r.phase = "sent" /\ r.sub = jobs[j].sub /\ r.pins = jobs[j].pins /\ r.awaits = jobs[j].awaits
  BY <1>1, <1>2, JobsAre DEF Shape, JobType
<1>4. SlotMoves(j)
  BY <1>1, <1>2, <1>3 DEF SlotMoves, SlotsOK
<1>5. Registered(j)' => Registered(j)
  BY <1>2, <1>3 DEF Registered, Running
<1>6. QED
  BY <1>1, <1>2, <1>3, <1>4, <1>5, QuietStep, RecordsStay DEF JobOK, RefersOK, Building, Shape

\* A joined request is answered like the one it joined, which asked for the
\* same source.
LEMMA FinishJoinedStep ==
    ASSUME BuildIInv, NEW j \in Job, FinishJoined(j) PROVE BuildIInv'
<1> DEFINE i == jobs[j].awaits
<1>1. /\ Shape /\ SlotsOK /\ JobOK(j) /\ jobs[j].phase = "joined" /\ Over(i) /\ asking' = asking
      /\ holding' = holding /\ version' = version /\ script' = script /\ record' = record /\ inflight' = inflight
  BY DEF BuildIInv, FinishJoined
<1>2. i \in Job /\ JoinedTo(j, i) /\ Key(i) = Key(j) /\ JobOK(i)
  BY <1>1 DEF BuildIInv, JobOK, JoinedOK, JoinedTo
<1>3. jobs[j] \in JobType /\ jobs[i] \in JobType /\ jobs \in Seq(JobType)
  BY <1>1, <1>2, JobsAre DEF Shape
<1>4. jobs[i].model = jobs[j].model /\ Since(i) = Since(j)
  BY <1>2 DEF Key, Since, Owed, JoinedTo
<1> DEFINE code == jobs[i].code
           tree == jobs[i].tree
           r == [jobs[j] EXCEPT !.phase = "ended", !.awaits = 0, !.code = code, !.tree = tree]
<1>5. jobs' = [jobs EXCEPT ![j] = r]
  BY <1>3 DEF FinishJoined
<1>6. code = 0 => \E v \in Since(j) : <<jobs[j].model, v>> \in tree
  BY <1>1, <1>2, <1>4 DEF JobOK, SourceOK, Over
<1>7. code \in {0, 1} /\ tree \in Trees
  BY <1>3 DEF JobType
<1> HIDE DEF code, tree
<1>8. /\ r \in JobType /\ Same(r, jobs[j]) /\ r.phase = "ended" /\ r.code = code /\ r.tree = tree
      /\ r.awaits = 0 /\ r.sub = jobs[j].sub /\ r.pins = jobs[j].pins
  BY <1>3, <1>7 DEF JobType, Same, Phases
<1> HIDE DEF r
<1>9. OneChanges(j, r) /\ jobs'[j] = r
  BY <1>1, <1>5, <1>8, OneFrame DEF OneChanges
<1>10. SlotMoves(j)
  BY <1>1, <1>8, <1>9 DEF SlotMoves, SlotsOK
<1>11. Registered(j)' => Registered(j)
  BY <1>8, <1>9 DEF Registered, Running
<1>12. r.awaits \in 0..Len(jobs) /\ jobs[j].phase # "ended" /\ r.phase \notin Building
  BY <1>1, <1>8, JobsAre DEF Building
<1>13. QED
  BY <1>1, <1>6, <1>8, <1>9, <1>10, <1>11, <1>12, QuietStep, RecordsStay DEF Shape

\* The broker's registry: an entry comes, an entry goes.
LEMMA ClaimStep ==
    ASSUME BuildIInv, NEW j \in Job, Claim(j) PROVE BuildIInv'
<1>1. /\ Shape /\ SlotsOK /\ InflightOK /\ JobOK(j) /\ (\A i \in Job : JobOK(i)) /\ jobs[j].phase = "sent"
      /\ asking' = asking /\ holding' = holding /\ version' = version /\ script' = script /\ record' = record
      /\ inflight' = Put(inflight, Key(j), j) /\ Key(j) \notin DOMAIN inflight
      /\ jobs[j].parent # 0
      /\ jobs' = [jobs EXCEPT ![j].phase = "gate"]
  BY DEF BuildIInv, Claim
<1>2. PICK r : /\ r = [jobs[j] EXCEPT !.phase = "gate"] /\ OneChanges(j, r) /\ jobs'[j] = r
  BY <1>1, Rephased DEF Phases
<1>3. r.phase = "gate" /\ r.sub = jobs[j].sub /\ r.pins = jobs[j].pins /\ r.awaits = jobs[j].awaits
  BY <1>1, <1>2, JobsAre DEF Shape, JobType
<1>4. JobOK(j)' /\ Frame(j)
  <2>1. r.awaits \in 0..Len(jobs)
    BY <1>1, <1>3 DEF JobOK, RefersOK
  <2>2. DOMAIN r.pins \subseteq Callees(jobs[j].model) \ {jobs[j].model}
    BY <1>1, <1>3 DEF JobOK, PinsOK
  <2>3. QED
    BY <1>1, <1>2, <1>3, <2>1, <2>2, QuietKept DEF Building
<1>5. \A i \in Job' : JobOK(i)'
  <2>1. version' \in [Models -> Versions] /\ \A m \in Models : version[m] <= version'[m]
    BY <1>1, VersionsAre DEF Shape
  <2>2. QED
    BY <1>1, <1>4, <2>1, AllKept
<1>6. SlotsOK'
  <2>1. SlotMoves(j)
    BY <1>1, <1>2, <1>3 DEF SlotMoves, SlotsOK
  <2>2. QED
    BY <1>1, <1>4, <2>1, SlotsKept
<1>7. InflightOK'
  <2> DEFINE entries == Put(inflight, Key(j), j)
  <2>1. \A k \in DOMAIN entries :
          entries[k] \in Job /\ Key(entries[k]) = k /\ jobs[entries[k]].parent # 0
    BY <1>1 DEF InflightOK, Put
  <2>2. \A i \in Job : i # j => (Registered(i)' => Registered(i))
    BY <1>4 DEF Registered, Running, Frame
  <2>3. \A i \in Job : Registered(i)' => Key(i) \in DOMAIN entries /\ entries[Key(i)] = i
    BY <1>1, <2>2 DEF InflightOK, Put
  <2> HIDE DEF entries
  <2>4. inflight' = entries /\ Len(jobs') = Len(jobs)
    BY <1>1, <1>2, OneFrame DEF entries
  <2>5. QED
    BY <1>1, <1>4, <2>1, <2>3, <2>4, EntriesKept
<1>8. Shape'
  BY <1>1, <1>4, RecordsStay, SourcesStay DEF Shape, Frame
<1>9. QED
  BY <1>5, <1>6, <1>7, <1>8 DEF BuildIInv

LEMMA FinishStep ==
    ASSUME BuildIInv, NEW j \in Job, Finish(j) PROVE BuildIInv'
<1>1. /\ Shape /\ SlotsOK /\ InflightOK /\ JobOK(j) /\ (\A i \in Job : JobOK(i)) /\ jobs[j].phase = "ending"
      /\ asking' = asking /\ holding' = holding /\ version' = version /\ script' = script /\ record' = record
      /\ inflight' = [k \in {k \in DOMAIN inflight : inflight[k] # j} |-> inflight[k]]
      /\ jobs' = [jobs EXCEPT ![j].phase = "ended"]
  BY DEF BuildIInv, Finish
<1>2. PICK r : /\ r = [jobs[j] EXCEPT !.phase = "ended"] /\ OneChanges(j, r) /\ jobs'[j] = r
  BY <1>1, Rephased DEF Phases
<1>3. /\ r.phase = "ended" /\ r.sub = jobs[j].sub /\ r.pins = jobs[j].pins /\ r.awaits = jobs[j].awaits
      /\ r.code = jobs[j].code /\ r.tree = jobs[j].tree
  BY <1>1, <1>2, JobsAre DEF Shape, JobType
<1>4. JobOK(j)' /\ Frame(j)
  <2>1. r.awaits \in 0..Len(jobs)
    BY <1>1, <1>3 DEF JobOK, RefersOK
  <2>2. DOMAIN r.pins \subseteq Callees(jobs[j].model) \ {jobs[j].model}
    BY <1>1, <1>3 DEF JobOK, PinsOK
  <2>3. r.code = 0 => \E v \in Since(j) : <<jobs[j].model, v>> \in r.tree
    BY <1>1, <1>3 DEF JobOK, SourceOK
  <2>4. QED
    BY <1>1, <1>2, <1>3, <2>1, <2>2, <2>3, QuietKept DEF Building
<1>5. \A i \in Job' : JobOK(i)'
  <2>1. version' \in [Models -> Versions] /\ \A m \in Models : version[m] <= version'[m]
    BY <1>1, VersionsAre DEF Shape
  <2>2. QED
    BY <1>1, <1>4, <2>1, AllKept
<1>6. SlotsOK'
  <2>1. SlotMoves(j)
    BY <1>1, <1>2, <1>3 DEF SlotMoves, SlotsOK
  <2>2. QED
    BY <1>1, <1>4, <2>1, SlotsKept
<1>7. InflightOK'
  <2> DEFINE entries == [k \in {k \in DOMAIN inflight : inflight[k] # j} |-> inflight[k]]
  <2>1. \A k \in DOMAIN entries :
          entries[k] \in Job /\ Key(entries[k]) = k /\ jobs[entries[k]].parent # 0
    BY <1>1 DEF InflightOK
  <2>2. \A i \in Job : Registered(i)' => i # j /\ Registered(i)
    BY <1>2, <1>3, <1>4 DEF Registered, Running, Frame
  <2>3. \A i \in Job : Registered(i)' => Key(i) \in DOMAIN entries /\ entries[Key(i)] = i
    BY <1>1, <2>2 DEF InflightOK
  <2> HIDE DEF entries
  <2>4. inflight' = entries /\ Len(jobs') = Len(jobs)
    BY <1>1, <1>2, OneFrame DEF entries
  <2>5. QED
    BY <1>1, <1>4, <2>1, <2>3, <2>4, EntriesKept
<1>8. Shape'
  BY <1>1, <1>4, RecordsStay, SourcesStay DEF Shape, Frame
<1>9. QED
  BY <1>5, <1>6, <1>7, <1>8 DEF BuildIInv

LEMMA JoinStep ==
    ASSUME BuildIInv, NEW j \in Job, Join(j) PROVE BuildIInv'
<1> DEFINE i == inflight[Key(j)]
           r == [jobs[j] EXCEPT !.phase = "joined", !.awaits = i]
<1>1. /\ Shape /\ SlotsOK /\ InflightOK /\ JobOK(j) /\ jobs[j].phase = "sent" /\ Key(j) \in DOMAIN inflight
      /\ asking' = asking /\ holding' = holding /\ version' = version /\ script' = script /\ record' = record
      /\ inflight' = inflight
      /\ jobs[j].parent # 0
  BY DEF BuildIInv, Join
<1>2. jobs[j] \in JobType /\ jobs \in Seq(JobType)
  BY <1>1, JobsAre DEF Shape
<1>3. JoinedTo(j, i) /\ i \in 0..Len(jobs) /\ i \in Nat
  BY <1>1, JobsAre DEF InflightOK, JoinedTo
<1>4. jobs' = [jobs EXCEPT ![j] = r]
  BY <1>2 DEF Join
<1> HIDE DEF i
<1>5. /\ r \in JobType /\ Same(r, jobs[j]) /\ r.phase = "joined" /\ r.awaits = i
      /\ r.sub = jobs[j].sub /\ r.pins = jobs[j].pins
  BY <1>2, <1>3 DEF JobType, Same, Phases
<1> HIDE DEF r
<1>6. OneChanges(j, r) /\ jobs'[j] = r
  BY <1>1, <1>4, <1>5, OneFrame DEF OneChanges
<1>7. DOMAIN r.pins \subseteq Callees(jobs[j].model) \ {jobs[j].model}
  BY <1>1, <1>5 DEF JobOK, PinsOK
<1>8. JobOK(j)' /\ Frame(j)
  BY <1>1, <1>3, <1>5, <1>6, <1>7, QuietKept DEF Building
<1>9. SlotMoves(j)
  BY <1>1, <1>5, <1>6 DEF SlotMoves, SlotsOK
<1>10. Registered(j)' => Registered(j)
  BY <1>5, <1>6 DEF Registered, Running
<1>11. QED
  BY <1>1, <1>8, <1>9, <1>10, StepKept, RecordsStay DEF Shape

LEMMA CallCurrentStep ==
    ASSUME BuildIInv, NEW j \in Job, CallCurrent(j) PROVE BuildIInv'
<1>1. /\ Shape /\ SlotsOK /\ JobOK(j) /\ jobs[j].phase = "building" /\ asking' = asking
      /\ holding' = holding /\ version' = version /\ script' = script /\ record' = record /\ inflight' = inflight
      /\ Callee(j) \notin Known(j) \cup {jobs[j].model} /\ CallsLeft(j) /\ ~Stale(Callee(j))
  BY DEF BuildIInv, CallCurrent, InBody
<1>2. jobs[j] \in JobType /\ jobs \in Seq(JobType)
  BY <1>1, JobsAre DEF Shape
<1>3. PICK c \in Models, t \in Trees :
        c \in Callees(jobs[j].model) \ {jobs[j].model} /\ c = Callee(j) /\ t = record[c].tree
  BY <1>1, CalleeIs, GatePasses
<1>4. /\ jobs[j].pins \in Dict(Models, Trees) /\ jobs[j].called + 1 \in Nat
      /\ c \notin DOMAIN jobs[j].sub
  BY <1>1, <1>2, <1>3 DEF JobType, Known
<1> DEFINE p == Put(jobs[j].pins, c, t)
           r == [jobs[j] EXCEPT !.called = @ + 1, !.pins = p]
<1>5. jobs' = [jobs EXCEPT ![j] = r]
  BY <1>2, <1>3 DEF CallCurrent
<1>6. p \in Dict(Models, Trees) /\ DOMAIN p = DOMAIN jobs[j].pins \cup {c}
  <2>1. jobs[j].pins \in Dict(Models, Trees) /\ c \in Models /\ t \in Trees
    BY <1>3, <1>4
  <2>2. \A f \in Dict(Models, Trees) :
          Put(f, c, t) \in Dict(Models, Trees) /\ DOMAIN Put(f, c, t) = DOMAIN f \cup {c}
    BY <2>1, PutIn
  <2>3. QED
    BY <2>1, <2>2
<1> HIDE DEF p
<1>7. /\ r \in JobType /\ Same(r, jobs[j]) /\ r.phase = "building" /\ r.ran = jobs[j].ran
      /\ r.awaits = jobs[j].awaits /\ r.sub = jobs[j].sub /\ r.pins = p
  BY <1>1, <1>2, <1>4, <1>6 DEF JobType, Same
<1> HIDE DEF r
<1>8. OneChanges(j, r) /\ jobs'[j] = r
  BY <1>1, <1>5, <1>7, OneFrame DEF OneChanges
<1>9. DOMAIN r.pins \subseteq Callees(jobs[j].model) \ {jobs[j].model}
  BY <1>1, <1>3, <1>6, <1>7 DEF JobOK, PinsOK
<1>10. SlotMoves(j) /\ (Registered(j)' => Registered(j))
  BY <1>1, <1>7, <1>8 DEF SlotMoves, SlotsOK, Registered, Running, Same
<1>11. r.ran \in Since(j) /\ r.awaits \in 0..Len(jobs)
  BY <1>1, <1>7 DEF JobOK, SourceOK, RefersOK, Building
<1>12. QED
  BY <1>1, <1>7, <1>8, <1>9, <1>10, <1>11, QuietStep, RecordsStay DEF Shape

LEMMA PinChildStep ==
    ASSUME BuildIInv, NEW j \in Job, PinChild(j) PROVE BuildIInv'
<1>1. /\ Shape /\ SlotsOK /\ JobOK(j) /\ asking' = asking
      /\ holding' = holding /\ version' = version /\ script' = script /\ record' = record /\ inflight' = inflight
  BY DEF BuildIInv, PinChild
<1>2. PICK c \in Models :
        /\ Forced(j, c) /\ jobs[jobs[j].sub[c]].code = 0
        /\ jobs' = [jobs EXCEPT ![j].pins = Put(@, c, record[c].tree), ![j].awaits = 0]
  BY DEF PinChild
<1>3. jobs[j] \in JobType /\ jobs \in Seq(JobType) /\ jobs[j].phase = "building"
  BY <1>1, <1>2, JobsAre DEF Shape, Forced
<1>4. jobs[j].pins \in Dict(Models, Trees) /\ record[c].tree \in Trees
  BY <1>1, <1>2, <1>3 DEF JobType, Shape, Recorded, RecordType
<1> DEFINE p == Put(jobs[j].pins, c, record[c].tree)
           r == [jobs[j] EXCEPT !.pins = p, !.awaits = 0]
<1>5. jobs' = [jobs EXCEPT ![j] = r]
  BY <1>2, <1>3
<1>6. p \in Dict(Models, Trees) /\ DOMAIN p = DOMAIN jobs[j].pins \cup {c}
  BY <1>2, <1>4, PutIn
<1> HIDE DEF p
<1>7. /\ r \in JobType /\ Same(r, jobs[j]) /\ r.phase = "building" /\ r.ran = jobs[j].ran
      /\ r.awaits = 0 /\ r.sub = jobs[j].sub /\ r.pins = p
  BY <1>3, <1>6 DEF JobType, Same
<1> HIDE DEF r
<1>8. OneChanges(j, r) /\ jobs'[j] = r
  BY <1>1, <1>5, <1>7, OneFrame DEF OneChanges
<1>9. DOMAIN r.pins \subseteq Callees(jobs[j].model) \ {jobs[j].model}
  BY <1>1, <1>2, <1>6, <1>7 DEF JobOK, PinsOK, Forced, Promised
<1>10. SlotMoves(j) /\ (Registered(j)' => Registered(j))
  BY <1>1, <1>3, <1>7, <1>8 DEF SlotMoves, SlotsOK, Registered, Running, Same
<1>11. r.ran \in Since(j) /\ r.awaits \in 0..Len(jobs)
  BY <1>1, <1>3, <1>7, JobsAre DEF JobOK, SourceOK, Building
<1>12. QED
  BY <1>1, <1>3, <1>7, <1>8, <1>9, <1>10, <1>11, QuietStep, RecordsStay DEF Shape

\* Requests that call or are made: a new one at the end.
LEMMA NewJobIs ==
    ASSUME Shape, NEW m \in Models, NEW p \in Nat
    PROVE  NewJob(m, p) \in JobType
<1>1. <<>> \in Dict(Models, Nat) /\ <<>> \in Dict(Models, Trees) /\ {} \in Trees
  BY EmptyDict DEF Trees
<1>2. version \in [Models -> Versions] /\ "sent" \in Phases
  BY DEF Shape, Phases
<1>3. Hashed(m) \in Hashes
  BY HashedIs
<1>4. QED
  BY <1>1, <1>2, <1>3 DEF NewJob, JobType

LEMMA CallStaleStep ==
    ASSUME BuildIInv, NEW j \in Job, CallStale(j) PROVE BuildIInv'
<1>1. /\ Shape /\ SlotsOK /\ JobOK(j) /\ jobs[j].phase = "building" /\ asking' = asking
      /\ holding' = holding /\ version' = version /\ script' = script /\ record' = record /\ inflight' = inflight
      /\ Callee(j) \notin Known(j) \cup {jobs[j].model} /\ CallsLeft(j) /\ Len(jobs) < MaxJobs
  BY DEF BuildIInv, CallStale, InBody
<1>2. /\ jobs[j] \in JobType /\ jobs \in Seq(JobType) /\ Len(jobs) \in Nat
      /\ Job = 1..Len(jobs) /\ j \in Nat
  BY <1>1, JobsAre DEF Shape
<1>3. PICK c \in Models, i \in Nat :
        c \in Callees(jobs[j].model) \ {jobs[j].model} /\ c = Callee(j) /\ i = Len(jobs) + 1
  <2>1. Len(jobs) + 1 \in Nat
    BY <1>2
  <2>2. QED
    BY <1>1, <2>1, CalleeIs
<1>4. /\ jobs[j].sub \in Dict(Models, Nat) /\ jobs[j].called + 1 \in Nat
      /\ c \notin DOMAIN jobs[j].pins
  BY <1>1, <1>2, <1>3 DEF JobType, Known
<1> DEFINE s == Put(jobs[j].sub, c, i)
           r == [jobs[j] EXCEPT !.called = @ + 1, !.sub = s]
           new == NewJob(c, j)
<1>5. jobs' = Append([jobs EXCEPT ![j] = r], new)
  BY <1>2, <1>3 DEF CallStale
<1>6. /\ s \in Dict(Models, Nat) /\ DOMAIN s = DOMAIN jobs[j].sub \cup {c} /\ s[c] = i
      /\ \A d \in DOMAIN jobs[j].sub : d # c => s[d] = jobs[j].sub[d]
  <2>1. PICK D \in SUBSET Models : jobs[j].sub \in [D -> Nat]
    BY <1>4 DEF Dict
  <2>2. s \in [D \cup {c} -> Nat] /\ D \cup {c} \in SUBSET Models
    BY <1>3, <2>1 DEF Put
  <2>3. s \in Dict(Models, Nat)
    BY <2>2 DEF Dict
  <2>4. QED
    BY <2>1, <2>3 DEF Put
<1> HIDE DEF s
<1>7. /\ r \in JobType /\ Same(r, jobs[j]) /\ r.phase = "building" /\ r.ran = jobs[j].ran
      /\ r.awaits = jobs[j].awaits /\ r.sub = s /\ r.pins = jobs[j].pins
  BY <1>1, <1>2, <1>4, <1>6 DEF JobType, Same
<1>8. new \in JobType /\ new.parent = j
  <2>1. new.parent = j
    BY DEF NewJob
  <2>2. QED
    BY <1>1, <1>2, <1>3, <2>1, NewJobIs
<1> HIDE DEF r
<1>9. /\ jobs' \in Seq(JobType) /\ Len(jobs') = i /\ jobs'[j] = r /\ jobs'[i] = new
      /\ \A k \in Job : k # j => jobs'[k] = jobs[k]
  <2> HIDE DEF new
  <2>1. [jobs EXCEPT ![j] = r] \in Seq(JobType) /\ Len([jobs EXCEPT ![j] = r]) = Len(jobs)
    BY <1>2, <1>7
  <2>2. QED
    BY <1>2, <1>3, <1>5, <1>8, <2>1
<1>10. Frame(j)
  <2>1. \A k \in (Len(jobs) + 1)..Len(jobs') : k = i
    BY <1>2, <1>3, <1>9
  <2>2. Fresh(i)
    <3>1. j \in 0..(i - 1)
      BY <1>2, <1>3
    <3>2. QED
      BY <1>9, <3>1 DEF Fresh
  <2>3. \A k \in Job : Same(jobs'[k], jobs[k]) /\ (k # j => jobs'[k] = jobs[k])
    BY <1>7, <1>9 DEF Same
  <2>4. Len(jobs') \in Nat /\ Len(jobs) <= Len(jobs') /\ Len(jobs') <= MaxJobs
    BY <1>1, <1>2, <1>3, <1>9, BuildAssumption
  <2>5. QED
    BY <1>9, <2>1, <2>2, <2>3, <2>4 DEF Frame
<1>11. JobOK(j)'
  <2>1. RefersOK(j)'
    <3>1. Job' = 1..i /\ Job \subseteq Job'
      BY <1>2, <1>3, <1>9 DEF Job
    <3>2. \A d \in DOMAIN r.sub : r.sub[d] \in Job' /\ jobs'[r.sub[d]].parent = j
      <4>1. i \in Job' /\ jobs'[i].parent = j
        BY <1>3, <1>8, <1>9, <3>1
      <4>2. \A d \in DOMAIN jobs[j].sub : jobs[j].sub[d] \in Job /\ jobs'[jobs[j].sub[d]].parent = j
        BY <1>1, <1>10 DEF JobOK, RefersOK, Frame, Same
      <4>3. r.sub = s /\ \A d \in DOMAIN s : d = c \/ d \in DOMAIN jobs[j].sub
        BY <1>6, <1>7
      <4>4. QED
        BY <1>6, <3>1, <4>1, <4>2, <4>3
    <3>3. r.parent \in 0..(j - 1) /\ r.awaits \in 0..i
      <4>1. jobs[j].parent \in 0..(j - 1) /\ jobs[j].awaits \in 0..Len(jobs)
        BY <1>1 DEF JobOK, RefersOK
      <4>2. QED
        BY <1>2, <1>3, <1>7, <4>1 DEF Same
    <3>4. QED
      BY <1>9, <3>2, <3>3 DEF RefersOK
  <2>2. PinsOK(j)'
    BY <1>1, <1>3, <1>6, <1>7, <1>9 DEF JobOK, PinsOK, Same
  <2>3. JoinedOK(j)' /\ SourceOK(j)'
    BY <1>1, <1>7, <1>9 DEF JobOK, JoinedOK, SourceOK, Since, Owed, Same, Building
  <2>4. QED
    BY <2>1, <2>2, <2>3 DEF JobOK
<1>12. SlotMoves(j) /\ (Registered(j)' => Registered(j))
  BY <1>1, <1>7, <1>9 DEF SlotMoves, SlotsOK, Registered, Running, Same
<1>13. QED
  BY <1>1, <1>10, <1>11, <1>12, StepKept, RecordsStay DEF Shape

\* A step of nobody's: a request of a user, a save.
LEMMA OutsideStep ==
    ASSUME BuildIInv, Frame(0), version' \in [Models -> Versions],
           \A m \in Models : version[m] <= version'[m],
           script' \in [Models -> Versions], \A m \in Models : script'[m] <= version'[m],
           UNCHANGED <<record, inflight, asking, holding>>
    PROVE  BuildIInv'
<1>1. Shape /\ (\A i \in Job : JobOK(i)) /\ SlotsOK /\ InflightOK /\ 0 \notin Job
  BY JobsAre DEF BuildIInv
<1>2. Shape'
  BY <1>1, RecordsStay DEF Shape, Frame
<1>3. \A i \in Job' : JobOK(i)'
  BY <1>1, AllKept
<1>4. SlotsOK' /\ InflightOK'
  BY <1>1, SlotsKept, RegistryKept
<1>5. QED
  BY <1>2, <1>3, <1>4 DEF BuildIInv

LEMMA RequestStep ==
    ASSUME BuildIInv, NEW m \in Models, Request(m) PROVE BuildIInv'
<1>1. Shape /\ jobs' = Append(jobs, NewJob(m, 0)) /\ Len(jobs) < MaxJobs
      /\ UNCHANGED <<version, script, record, inflight, asking, holding>>
  BY DEF BuildIInv, Request
<1>2. jobs \in Seq(JobType) /\ Len(jobs) \in Nat /\ Job = 1..Len(jobs) /\ NewJob(m, 0) \in JobType
  BY <1>1, JobsAre, NewJobIs DEF Shape
<1>3. /\ jobs' \in Seq(JobType) /\ Len(jobs') = Len(jobs) + 1
      /\ jobs'[Len(jobs) + 1] = NewJob(m, 0) /\ \A k \in Job : jobs'[k] = jobs[k]
  BY <1>1, <1>2
<1>4. Frame(0)
  <2>1. Fresh(Len(jobs) + 1)
    <3>1. 0 \in 0..(Len(jobs) + 1 - 1)
      BY <1>2
    <3>2. QED
      BY <1>3, <3>1 DEF Fresh
  <2>2. Len(jobs') \in Nat /\ Len(jobs) <= Len(jobs') /\ Len(jobs') <= MaxJobs
    BY <1>1, <1>2, <1>3, BuildAssumption
  <2>3. \A k \in (Len(jobs) + 1)..Len(jobs') : k = Len(jobs) + 1
    BY <1>2, <1>3
  <2>4. QED
    BY <1>3, <2>1, <2>2, <2>3 DEF Frame, Same
<1>5. version' \in [Models -> Versions] /\ \A k \in Models : version[k] <= version'[k]
  <2>1. \A k \in Models : version[k] \in Int
    BY <1>1, BuildAssumption DEF Shape, Versions
  <2>2. QED
    BY <1>1, <2>1 DEF Shape
<1>6. script' \in [Models -> Versions] /\ \A k \in Models : script'[k] <= version'[k]
  BY <1>1 DEF Shape
<1>7. QED
  BY <1>1, <1>4, <1>5, <1>6, OutsideStep

LEMMA EditStep ==
    ASSUME BuildIInv, NEW m \in Models, Edit(m) \/ EditHelper(m) PROVE BuildIInv'
<1>1. Shape /\ version[m] <= MaxEdits /\ version' = [version EXCEPT ![m] = @ + 1]
      /\ script' \in {script, [script EXCEPT ![m] = version[m] + 1]}
      /\ UNCHANGED <<record, jobs, inflight, asking, holding>>
  BY DEF BuildIInv, Edit, EditHelper, MayEdit
<1>2. \A k \in Models : version[k] \in Int
  BY <1>1, BuildAssumption DEF Shape, Versions
<1>3. version[m] + 1 \in Versions
  BY <1>1, BuildAssumption DEF Shape, Versions
<1>4. version' \in [Models -> Versions] /\ \A k \in Models : version[k] <= version'[k]
  BY <1>1, <1>2, <1>3 DEF Shape
<1>5. script' \in [Models -> Versions] /\ \A k \in Models : script'[k] <= version'[k]
  <2>1. \A k \in Models : script[k] \in Int /\ script[k] <= version[k]
    BY <1>1, BuildAssumption DEF Shape, Versions
  <2>2. CASE script' = script
    BY <1>1, <1>2, <1>4, <2>1, <2>2 DEF Shape
  <2>3. CASE script' = [script EXCEPT ![m] = version[m] + 1]
    BY <1>1, <1>2, <1>3, <2>1, <2>3 DEF Shape
  <2>4. QED
    BY <1>1, <2>2, <2>3
<1>6. QED
  BY <1>1, <1>4, <1>5, NoneFrame, OutsideStep

LEMMA Initial == Init => BuildIInv
<1> SUFFICES ASSUME Init PROVE BuildIInv
  OBVIOUS
<1>1. Job = {}
  BY DEF Init, Job
<1>2. NoRecord \in RecordType
  BY EmptyDict DEF NoRecord, Trees, RecordType
<1>3. 1 \in Versions
  BY BuildAssumption DEF Versions
<1>4. Shape
  <2>1. jobs \in Seq(JobType) /\ Len(jobs) <= MaxJobs
    BY BuildAssumption DEF Init
  <2>2. Recorded
    BY <1>2 DEF Init, Recorded, RecordOK
  <2>3. QED
    BY <1>3, <2>1, <2>2 DEF Init, Shape
<1>5. SlotsOK
  BY <1>1, FS_EmptySet, BuildAssumption DEF Init, SlotsOK
<1>6. InflightOK
  BY <1>1 DEF Init, InflightOK
<1>7. QED
  BY <1>1, <1>4, <1>5, <1>6 DEF BuildIInv

LEMMA Inductive == BuildIInv /\ [Next]_buildVars => BuildIInv'
<1> SUFFICES ASSUME BuildIInv, [Next]_buildVars PROVE BuildIInv'
  OBVIOUS
<1>1. CASE \E m \in Models : Request(m) \/ Edit(m) \/ EditHelper(m)
  BY <1>1, RequestStep, EditStep
<1>2. ASSUME NEW j \in Job, Start(j) PROVE BuildIInv'
  BY <1>2, StartRequestedStep, ClaimStep, JoinStep, SkipCurrentStep, AskSlotStep DEF Start
<1>3. ASSUME NEW j \in Job, Body(j) PROVE BuildIInv'
  BY <1>3, FailStep, CallAgainStep, CallCurrentStep, CallStaleStep, YieldStep, AskAgainStep,
     PinChildStep, PublishStep DEF Body
<1>4. ASSUME NEW j \in Job, TakeSlot(j) PROVE BuildIInv'
  BY <1>4, TakeSlotStep
<1>5. ASSUME NEW j \in Job, End(j) \/ Fault(j) PROVE BuildIInv'
  BY <1>5, WorkerEndsStep, FinishStep, FinishJoinedStep, FailStep, SpawnRaisesStep
     DEF End, Fault, CancelOrphan, WorkerDies
<1>6. CASE UNCHANGED buildVars
  <2>1. UNCHANGED <<version, script, record, jobs, inflight, asking, holding>>
    BY <1>6 DEF buildVars
  <2>2. Shape /\ \A m \in Models : version[m] \in Int
    BY BuildAssumption DEF BuildIInv, Shape, Versions
  <2>3. version' \in [Models -> Versions] /\ \A m \in Models : version[m] <= version'[m]
    BY <2>1, <2>2 DEF Shape
  <2>4. script' \in [Models -> Versions] /\ \A m \in Models : script'[m] <= version'[m]
    BY <2>1, <2>2 DEF Shape
  <2>5. QED
    BY <2>1, <2>2, <2>3, <2>4, NoneFrame, OutsideStep
<1>7. QED
  BY <1>1, <1>2, <1>3, <1>4, <1>5, <1>6 DEF Next

-----------------------------------------------------------------------------
(* The theorems. *)

\* The tables of the broker, the phases of the requests and what each request
\* refers to agree, and every result comes from a source no older than asked.
THEOREM BuildInvariant == Spec => []BuildIInv
<1>1. QED
  BY Initial, Inductive, PTL DEF Spec

\* Requests, pins and registry entries refer to requests and trees that exist.
THEOREM BuildTyped == Spec => []BuildTypeOK
<1>1. BuildIInv => BuildTypeOK
  <2> SUFFICES ASSUME BuildIInv PROVE BuildTypeOK
    OBVIOUS
  <2>1. Shape /\ InflightOK
    BY DEF BuildIInv
  <2>2. \A j \in Job : RefersOK(j) /\ jobs[j] \in JobType
    BY <2>1, JobsAre DEF BuildIInv, JobOK, Shape
  <2>3. \A j \in Job : Range(jobs[j].pins) \subseteq Trees
    <3> SUFFICES ASSUME NEW j \in Job PROVE Range(jobs[j].pins) \subseteq Trees
      OBVIOUS
    <3>1. jobs[j].pins \in Dict(Models, Trees)
      BY <2>2 DEF JobType
    <3>2. QED
      BY <3>1, DictValue DEF Range
  <2>4. Range(inflight) \subseteq Job
    BY <2>1 DEF InflightOK, Range
  <2>5. \A m \in Models : record[m].tree \in Trees /\ script[m] \in 1..version[m]
    <3>1. \A m \in Models :
            version[m] \in Versions /\ script[m] \in Versions /\ script[m] <= version[m]
      BY <2>1 DEF Shape
    <3>2. \A m \in Models : script[m] \in 1..version[m]
      BY <3>1, BuildAssumption DEF Versions
    <3>3. QED
      BY <2>1, <3>2 DEF Shape, Recorded, RecordType
  <2>6. version \in [Models -> 1..(MaxEdits + 1)] /\ Len(jobs) <= MaxJobs
    BY <2>1 DEF Shape, Versions
  <2>7. \A j \in Job : jobs[j].model \in Models /\ jobs[j].phase \in Phases
    BY <2>2 DEF JobType
  <2>8. \A j \in Job :
          /\ jobs[j].parent \in 0..(j - 1) /\ jobs[j].awaits \in 0..Len(jobs)
          /\ \A c \in DOMAIN jobs[j].sub : jobs[jobs[j].sub[c]].parent = j
    BY <2>2 DEF RefersOK
  <2>9. asking \cup holding \subseteq Job
    BY DEF BuildIInv, SlotsOK
  <2>10. QED
    BY <2>3, <2>4, <2>5, <2>6, <2>7, <2>8, <2>9, Zenon DEF BuildTypeOK
<1>2. QED
  BY <1>1, BuildInvariant, PTL

\* Kernel work is done with a slot, and no more of it at once than there are.
THEOREM KernelWorkInSlot == Spec => []KernelWorkHasSlot
<1>1. BuildIInv => KernelWorkHasSlot
  BY DEF BuildIInv, SlotsOK, KernelWorkHasSlot
<1>2. QED
  BY <1>1, BuildInvariant, PTL

\* What has one key is built by one nested request at a time: the registry has the
\* entry of whoever builds it until that request's thread is done with it.
THEOREM OneBuild == Spec => []OneBuildPerKey
<1>1. BuildIInv => OneBuildPerKey
  BY DEF BuildIInv, InflightOK, Registered, OneBuildPerKey
<1>2. QED
  BY <1>1, BuildInvariant, PTL

\* A request that succeeds was answered from its model's source as it was asked for,
\* as far as its key saw it, or newer, whoever built it.
THEOREM AnswersFresh == Spec => []AnswersRequest
<1>1. BuildIInv => AnswersRequest
  <2> SUFFICES ASSUME BuildIInv, NEW j \in Job, Over(j), jobs[j].code = 0
               PROVE  \E v \in Owed(j)..(MaxEdits + 1) : <<jobs[j].model, v>> \in jobs[j].tree
    BY DEF AnswersRequest
  <2>1. PICK v \in Since(j) : <<jobs[j].model, v>> \in jobs[j].tree
    BY DEF BuildIInv, JobOK, SourceOK, Over
  <2>2. Shape /\ jobs[j].model \in Models
    BY VersionsAre DEF BuildIInv
  <2>3. version[jobs[j].model] \in 1..(MaxEdits + 1) /\ Owed(j) \in Nat
    BY <2>2, VersionsAre DEF Shape, Versions
  <2>4. v \in Owed(j)..(MaxEdits + 1)
    BY <2>1, <2>3, BuildAssumption DEF Since
  <2>5. QED
    BY <2>1, <2>4
<1>2. QED
  BY <1>1, BuildInvariant, PTL

-----------------------------------------------------------------------------
(* No build waits for itself. *)

\* Request j goes on; the others, and what it has called, stay as they are.
Moved(j) ==
    /\ Job' = Job /\ \A i \in Job : i # j => jobs'[i] = jobs[i]
    /\ jobs'[j].model = jobs[j].model /\ jobs'[j].sub = jobs[j].sub

\* A request that some thread or worker answers for; one whose gate is passed.
Started(i) == jobs[i].phase \notin {"sent", "joined"}

\* What request j waits for is a request of a callee, or one that was claimed.
WaitOK(j) ==
    /\ \A c \in DOMAIN jobs[j].sub :
          /\ jobs[jobs[j].sub[c]].model = c
          /\ c \in Callees(jobs[j].model) \ {jobs[j].model}
    /\ jobs[j].phase = "joined" => Started(jobs[j].awaits)
    /\ (jobs[j].phase # "joined" /\ jobs[j].awaits # 0) =>
          /\ jobs[j].phase \in Building
          /\ \E c \in DOMAIN jobs[j].sub : jobs[j].awaits = jobs[j].sub[c]
WaitIInv ==
    /\ \A j \in Job : WaitOK(j)
    /\ \A k \in DOMAIN inflight : Started(inflight[k])

\* The calls go down, but for a model that calls itself.
Acyclic ==
    \E rank \in [Models -> Nat] :
        \A m \in Models : \A c \in Callees(m) \ {m} : rank[c] < rank[m]

\* A step of request j that neither calls nor joins.
GoesOn(j) ==
    /\ Moved(j) /\ jobs'[j].phase \notin {"sent", "joined"}
    /\ \/ jobs'[j].awaits = 0
       \/ /\ jobs'[j].awaits = jobs[j].awaits /\ jobs[j].phase # "joined"
          /\ jobs[j].phase \in Building => jobs'[j].phase \in Building
       \/ /\ jobs'[j].phase \in Building
          /\ \E c \in DOMAIN jobs[j].sub : jobs'[j].awaits = jobs[j].sub[c]
    /\ \/ inflight' = inflight
       \/ inflight' = Put(inflight, Key(j), j)
       \/ inflight' = [k \in {k \in DOMAIN inflight : inflight[k] # j} |-> inflight[k]]

\* The others wait as before: what was answered for still is.
LEMMA OthersWait ==
    ASSUME BuildIInv, \A i \in Job : WaitOK(i), NEW j \in Job, 
           \A i \in Job : i # j => jobs'[i] = jobs[i],
           jobs'[j].model = jobs[j].model, Started(j) => Started(j)'
    PROVE  \A i \in Job : i # j => WaitOK(i)'
<1> SUFFICES ASSUME NEW i \in Job, i # j PROVE WaitOK(i)'
  OBVIOUS
<1>1. jobs'[i] = jobs[i] /\ WaitOK(i) /\ JobOK(i)
  BY DEF BuildIInv
<1>2. \A k \in Job : jobs'[k].model = jobs[k].model /\ (Started(k) => Started(k)')
  BY DEF Started
<1>3. \A c \in DOMAIN jobs[i].sub : jobs[i].sub[c] \in Job
  BY <1>1 DEF JobOK, RefersOK
<1>4. jobs[i].phase = "joined" => jobs[i].awaits \in Job
  BY <1>1 DEF JobOK, JoinedOK, JoinedTo
<1>5. \A c \in DOMAIN jobs'[i].sub :
          /\ jobs'[jobs'[i].sub[c]].model = c
          /\ c \in Callees(jobs'[i].model) \ {jobs'[i].model}
  BY <1>1, <1>2, <1>3 DEF WaitOK
<1>6. jobs'[i].phase = "joined" => jobs'[jobs'[i].awaits].phase \notin {"sent", "joined"}
  BY <1>1, <1>2, <1>4 DEF WaitOK, Started
<1>7. QED
  BY <1>1, <1>5, <1>6 DEF WaitOK, Started

LEMMA GoesOnWait ==
    ASSUME BuildIInv, WaitIInv, NEW j \in Job, GoesOn(j)
    PROVE  WaitIInv'
<1>1. \A i \in Job : i # j => WaitOK(i)'
  BY OthersWait DEF WaitIInv, GoesOn, Moved, Started
<1>2. WaitOK(j)'
  <2>1. WaitOK(j) /\ JobOK(j)
    BY DEF WaitIInv, BuildIInv
  <2>2. \A c \in DOMAIN jobs[j].sub : jobs[j].sub[c] \in Job
    BY <2>1 DEF JobOK, RefersOK
  <2>3. \A k \in Job : jobs'[k].model = jobs[k].model
    BY DEF GoesOn, Moved
  <2>4. \A c \in DOMAIN jobs'[j].sub :
            /\ jobs'[jobs'[j].sub[c]].model = c
            /\ c \in Callees(jobs'[j].model) \ {jobs'[j].model}
    BY <2>1, <2>2, <2>3 DEF WaitOK, GoesOn, Moved
  <2>5. jobs'[j].awaits # 0 =>
            /\ jobs'[j].phase \in Building
            /\ \E c \in DOMAIN jobs'[j].sub : jobs'[j].awaits = jobs'[j].sub[c]
    BY <2>1 DEF WaitOK, GoesOn, Moved
  <2>6. jobs'[j].phase # "joined"
    BY DEF GoesOn
  <2>7. QED
    BY <2>4, <2>5, <2>6 DEF WaitOK
<1>3. \A k \in DOMAIN inflight' :
        inflight'[k] \in Job /\ jobs'[inflight'[k]].phase \notin {"sent", "joined"}
  <2>1. \A k \in DOMAIN inflight : inflight[k] \in Job /\ Started(inflight[k])
    BY DEF WaitIInv, BuildIInv, InflightOK
  <2>2. \A i \in Job : Started(i) => jobs'[i].phase \notin {"sent", "joined"}
    BY DEF GoesOn, Moved, Started
  <2>3. jobs'[j].phase \notin {"sent", "joined"}
    BY DEF GoesOn
  <2>4. CASE inflight' = inflight
    BY <2>1, <2>2, <2>4
  <2>5. CASE inflight' = Put(inflight, Key(j), j)
    BY <2>1, <2>2, <2>3, <2>5 DEF Put
  <2>6. CASE inflight' = [k \in {k \in DOMAIN inflight : inflight[k] # j} |-> inflight[k]]
    BY <2>1, <2>2, <2>6
  <2>7. QED
    BY <2>4, <2>5, <2>6 DEF GoesOn
<1>4. QED
  BY <1>1, <1>2, <1>3 DEF WaitIInv, Started, GoesOn, Moved

LEMMA JoinWait ==
    ASSUME BuildIInv, WaitIInv, NEW j \in Job, Join(j)
    PROVE  WaitIInv'
<1> DEFINE i == inflight[Key(j)]
<1>1. jobs[j] \in JobType /\ jobs \in Seq(JobType) /\ jobs[j].phase = "sent" /\ inflight' = inflight
  BY JobsAre DEF Shape, BuildIInv, Join
<1>2. i \in Job /\ Started(i) /\ i # j /\ i # 0
  BY <1>1, JobsAre DEF WaitIInv, BuildIInv, InflightOK, Join, Started
<1>3. /\ Moved(j) /\ jobs'[j].phase = "joined" /\ jobs'[j].awaits = i
  BY <1>1 DEF Join, Moved, JobType, Job
<1>4. \A k \in Job : k # j => WaitOK(k)'
  BY <1>1, <1>3, OthersWait DEF WaitIInv, Moved, Started
<1>5. WaitOK(j)'
  <2>1. WaitOK(j) /\ JobOK(j)
    BY DEF WaitIInv, BuildIInv
  <2>2. \A c \in DOMAIN jobs[j].sub : jobs[j].sub[c] \in Job
    BY <2>1 DEF JobOK, RefersOK
  <2>3. \A k \in Job : jobs'[k].model = jobs[k].model
    BY <1>3 DEF Moved
  <2>4. \A c \in DOMAIN jobs'[j].sub :
            /\ jobs'[jobs'[j].sub[c]].model = c
            /\ c \in Callees(jobs'[j].model) \ {jobs'[j].model}
    BY <1>3, <2>1, <2>2, <2>3 DEF WaitOK, Moved
  <2>5. jobs'[jobs'[j].awaits].phase \notin {"sent", "joined"}
    BY <1>2, <1>3 DEF Moved, Started
  <2>6. QED
    BY <1>3, <2>4, <2>5 DEF WaitOK, Started
<1>6. \A k \in DOMAIN inflight : inflight[k] \in Job /\ inflight[k] # j /\ Started(inflight[k])
  BY <1>1 DEF WaitIInv, BuildIInv, InflightOK, Started
<1>7. QED
  BY <1>1, <1>3, <1>4, <1>5, <1>6 DEF WaitIInv, Started, Moved

LEMMA CallStaleWait ==
    ASSUME BuildIInv, WaitIInv, NEW j \in Job, CallStale(j)
    PROVE  WaitIInv'
<1>1. /\ jobs[j] \in JobType /\ jobs \in Seq(JobType) /\ Len(jobs) \in Nat /\ Job = 1..Len(jobs)
      /\ jobs[j].phase = "building" /\ jobs[j].awaits = 0 /\ inflight' = inflight
  BY JobsAre DEF Shape, BuildIInv, CallStale, InBody
<1>2. PICK c \in Models, i \in Nat :
        /\ c = Callee(j) /\ i = Len(jobs) + 1
        /\ c \in Callees(jobs[j].model) \ {jobs[j].model}
  <2>1. Len(jobs) + 1 \in Nat
    BY <1>1
  <2>2. Callee(j) \in Models /\ Callee(j) \in Callees(jobs[j].model)
    BY CalleeIs DEF CallStale, BuildIInv
  <2>3. Callee(j) # jobs[j].model
    BY DEF CallStale
  <2>4. QED
    BY <2>1, <2>2, <2>3
<1> DEFINE s == Put(jobs[j].sub, c, i)
           r == [jobs[j] EXCEPT !.called = @ + 1, !.sub = s]
           new == NewJob(c, j)
<1>3. jobs' = Append([jobs EXCEPT ![j] = r], new)
  BY <1>1, <1>2 DEF CallStale
<1>4. /\ r.model = jobs[j].model /\ r.sub = s /\ r.phase = "building" /\ r.awaits = 0
  BY <1>1 DEF JobType
<1>5. new.model = c /\ new.sub = <<>> /\ new.phase = "sent" /\ new.awaits = 0
  BY DEF NewJob
<1>6. /\ DOMAIN s = DOMAIN jobs[j].sub \cup {c} /\ s[c] = i
      /\ \A d \in DOMAIN jobs[j].sub : d # c => s[d] = jobs[j].sub[d]
  BY DEF Put
<1> HIDE DEF s, r, new
<1>7. /\ Job' = 1..i /\ i \notin Job /\ Job \subseteq Job' /\ jobs'[j] = r /\ jobs'[i] = new
      /\ \A k \in Job : k # j => jobs'[k] = jobs[k]
  <2>1. Len([jobs EXCEPT ![j] = r]) = Len(jobs)
    BY <1>1
  <2>2. QED
    BY <1>1, <1>2, <1>3, <2>1 DEF Job
<1>8. \A k \in Job : k # j => WaitOK(k)'
  BY <1>1, <1>4, <1>7, OthersWait DEF WaitIInv, Started
<1>9. WaitOK(j)'
  <2>1. WaitOK(j) /\ JobOK(j)
    BY DEF WaitIInv, BuildIInv
  <2>2. \A d \in DOMAIN jobs[j].sub : jobs[j].sub[d] \in Job /\ jobs'[jobs[j].sub[d]].model = d
    BY <1>4, <1>7, <2>1 DEF JobOK, RefersOK, WaitOK
  <2>3. \A d \in DOMAIN s :
            jobs'[s[d]].model = d /\ d \in Callees(jobs[j].model) \ {jobs[j].model}
    BY <1>2, <1>5, <1>6, <1>7, <2>1, <2>2 DEF WaitOK
  <2>4. QED
    BY <1>4, <1>7, <2>3 DEF WaitOK
<1>10. WaitOK(i)'
  BY <1>5, <1>7 DEF WaitOK
<1>11. \A k \in Job' : k \in Job \/ k = i
  BY <1>1, <1>2, <1>7
<1>12. \A k \in DOMAIN inflight : inflight[k] \in Job /\ jobs'[inflight[k]].phase \notin {"sent", "joined"}
  BY <1>1, <1>4, <1>7 DEF WaitIInv, BuildIInv, InflightOK, Started
<1>13. QED
  BY <1>1, <1>8, <1>9, <1>10, <1>11, <1>12 DEF WaitIInv, Started

\* A new request waits for nothing yet.
LEMMA RequestWait ==
    ASSUME BuildIInv, WaitIInv, NEW m \in Models, Request(m)
    PROVE  WaitIInv'
<1> DEFINE new == NewJob(m, 0)
<1>1. /\ jobs \in Seq(JobType) /\ Len(jobs) \in Nat /\ Job = 1..Len(jobs)
      /\ jobs' = Append(jobs, new) /\ inflight' = inflight
  BY JobsAre DEF Shape, BuildIInv, Request
<1> PICK n \in Nat : n = Len(jobs) + 1
  BY <1>1
<1>2. new.sub = <<>> /\ new.phase = "sent" /\ new.awaits = 0
  BY DEF NewJob
<1> HIDE DEF new
<1>3. /\ Job' = Job \cup {n} /\ jobs'[n] = new
      /\ \A k \in Job : jobs'[k] = jobs[k]
  BY <1>1 DEF Job
<1>4. ASSUME NEW k \in Job PROVE WaitOK(k)'
  <2>1. WaitOK(k) /\ JobOK(k) /\ jobs'[k] = jobs[k]
    BY <1>3 DEF WaitIInv, BuildIInv
  <2>2. \A c \in DOMAIN jobs[k].sub : jobs[k].sub[c] \in Job
    BY <2>1 DEF JobOK, RefersOK
  <2>3. jobs[k].phase = "joined" => jobs[k].awaits \in Job
    BY <2>1 DEF JobOK, JoinedOK, JoinedTo
  <2>4. \A c \in DOMAIN jobs[k].sub :
            jobs'[jobs[k].sub[c]].model = c /\ c \in Callees(jobs[k].model) \ {jobs[k].model}
    BY <1>3, <2>1, <2>2 DEF WaitOK
  <2>5. jobs[k].phase = "joined" => jobs'[jobs[k].awaits].phase \notin {"sent", "joined"}
    BY <1>3, <2>1, <2>3 DEF WaitOK, Started
  <2>6. QED
    BY <2>1, <2>4, <2>5 DEF WaitOK, Started
<1>5. WaitOK(n)'
  BY <1>2, <1>3 DEF WaitOK
<1>6. \A k \in DOMAIN inflight : Started(inflight[k])'
  BY <1>1, <1>3 DEF WaitIInv, BuildIInv, InflightOK, Started
<1>7. QED
  BY <1>1, <1>3, <1>4, <1>5, <1>6 DEF WaitIInv, Started

LEMMA QuietGoesOn ==
    ASSUME BuildIInv, NEW j \in Job,
           \/ StartRequested(j) \/ Claim(j) \/ AskSlot(j) \/ TakeSlot(j) \/ AskAgain(j)
           \/ CallAgain(j) \/ CallCurrent(j) \/ Finish(j), WaitIInv
    PROVE  GoesOn(j)
<1>1. jobs[j] \in JobType /\ jobs \in Seq(JobType)
  BY JobsAre DEF BuildIInv, Shape
<1>2. TakeSlot(j) => jobs[j].phase \in {"queued", "resuming"}
  BY DEF BuildIInv, SlotsOK, TakeSlot, Slots!Take
<1>3. CASE StartRequested(j)
  BY <1>1, <1>3 DEF StartRequested, Moved, JobType, Job, GoesOn, Building
<1>4. CASE Claim(j)
  BY <1>1, <1>4 DEF Claim, Moved, JobType, Job, GoesOn, Building
<1>5. CASE AskSlot(j)
  BY <1>1, <1>5 DEF AskSlot, Moved, JobType, Job, GoesOn, Building
<1>6. CASE TakeSlot(j)
  BY <1>1, <1>2, <1>6 DEF TakeSlot, Moved, JobType, Job, GoesOn, Building
<1>7. CASE AskAgain(j)
  BY <1>1, <1>7 DEF AskAgain, Moved, JobType, Job, GoesOn, Building
<1>8. CASE CallAgain(j)
  BY <1>1, <1>8 DEF CallAgain, InBody, Moved, JobType, Job, GoesOn, Building
<1>9. CASE CallCurrent(j)
  BY <1>1, <1>9 DEF CallCurrent, InBody, Moved, JobType, Job, GoesOn, Building
<1>10. CASE Finish(j)
  BY <1>1, <1>10 DEF Finish, Moved, JobType, Job, GoesOn, Building
<1>11. QED
  BY <1>3, <1>4, <1>5, <1>6, <1>7, <1>8, <1>9, <1>10

LEMMA EndingGoesOn ==
    ASSUME BuildIInv, NEW j \in Job,
           \/ SkipCurrent(j) \/ CallItself(j) \/ ChildFailed(j) \/ Publish(j) \/ BodyFails(j)
           \/ WorkerEnds(j) \/ FinishJoined(j) \/ PinChild(j) \/ Yield(j)
    PROVE  GoesOn(j)
<1>1. jobs[j] \in JobType /\ jobs \in Seq(JobType)
  BY JobsAre DEF BuildIInv, Shape
<1>2. ASSUME NEW code, NEW tree, Ending(j, code, tree), inflight' = inflight PROVE GoesOn(j)
  BY <1>1, <1>2 DEF Ending, Moved, JobType, Job, GoesOn
<1>3. CASE SkipCurrent(j)
  BY <1>2, <1>3 DEF SkipCurrent
<1>4. CASE CallItself(j) \/ ChildFailed(j) \/ BodyFails(j)
  BY <1>2, <1>4 DEF CallItself, ChildFailed, BodyFails
<1>5. CASE Publish(j)
  BY <1>2, <1>5 DEF Publish
<1>6. CASE WorkerEnds(j)
  BY <1>1, <1>6 DEF WorkerEnds, Moved, JobType, Job, GoesOn
<1>7. CASE FinishJoined(j)
  BY <1>1, <1>7 DEF FinishJoined, Moved, JobType, Job, GoesOn
<1>8. CASE PinChild(j)
  BY <1>1, <1>8 DEF PinChild, Forced, Moved, JobType, Job, GoesOn
<1>9. CASE Yield(j)
  <2>1. PICK c \in DOMAIN jobs[j].sub :
          jobs' = [jobs EXCEPT ![j].phase = "waiting", ![j].awaits = jobs[j].sub[c]]
    BY <1>9 DEF Yield, Promised
  <2>2. Moved(j) /\ jobs'[j].phase = "waiting" /\ jobs'[j].awaits = jobs[j].sub[c]
    BY <1>1, <2>1 DEF Moved, JobType, Job
  <2>3. inflight' = inflight
    BY <1>9 DEF Yield
  <2>4. QED
    BY <2>1, <2>2, <2>3 DEF GoesOn, Building
<1>10. QED
  BY <1>3, <1>4, <1>5, <1>6, <1>7, <1>8, <1>9

LEMMA WaitInductive ==
    ASSUME Unspawnable = {}, BuildIInv, WaitIInv, [Next]_buildVars
    PROVE  WaitIInv'
<1>1. ASSUME NEW m \in Models, Edit(m) \/ EditHelper(m) PROVE WaitIInv'
  BY <1>1 DEF Edit, EditHelper, WaitIInv, WaitOK, Started, Job
<1>2. ASSUME NEW j \in Job, Start(j) PROVE WaitIInv'
  BY <1>2, QuietGoesOn, EndingGoesOn, GoesOnWait, JoinWait DEF Start
<1>3. ASSUME NEW j \in Job, Body(j) PROVE WaitIInv'
  BY <1>3, QuietGoesOn, EndingGoesOn, GoesOnWait, CallStaleWait DEF Body
<1>4. ASSUME NEW j \in Job, TakeSlot(j) PROVE WaitIInv'
  BY <1>4, QuietGoesOn, GoesOnWait
<1>5. ASSUME NEW j \in Job, End(j) \/ Fault(j) PROVE WaitIInv'
  <2>1. ~SpawnRaises(j)
    BY DEF SpawnRaises
  <2>2. QED
    BY <1>5, <2>1, QuietGoesOn, EndingGoesOn, GoesOnWait
       DEF End, Fault, CancelOrphan, WorkerDies
<1>6. CASE UNCHANGED buildVars
  BY <1>6 DEF buildVars, WaitIInv, WaitOK, Started, Job
<1>7. QED
  BY <1>1, <1>2, <1>3, <1>4, <1>5, <1>6, RequestWait DEF Next

LEMMA Smallest ==
    ASSUME NEW S \in SUBSET Nat, S # {}
    PROVE  \E x \in S : \A y \in S : x <= y
<1>1. PICK x \in S : \A y \in S : ~(<<y, x>> \in OpToRel(<, Nat))
  BY NatLessThanWellFounded, WFMin
<1>2. \A y \in S : ~(y < x)
  BY <1>1 DEF OpToRel
<1>3. QED
  BY <1>2

\* Whoever is waited for is closer to the bottom of the calls than its waiter.
LEMMA WaitsDown ==
    ASSUME Acyclic, BuildIInv, WaitIInv PROVE NoBuildAwaitsItself
<1>1. PICK rank \in [Models -> Nat] :
        \A m \in Models : \A c \in Callees(m) \ {m} : rank[c] < rank[m]
  BY DEF Acyclic
<1> DEFINE height(j) == 2 * rank[jobs[j].model] + (IF jobs[j].phase = "joined" THEN 1 ELSE 0)
<1>2. \A j \in Job : jobs[j].model \in Models /\ rank[jobs[j].model] \in Nat
  BY VersionsAre DEF BuildIInv
<1>3. \A j \in Job : height(j) \in Nat
  BY <1>2
<1>4. ASSUME NEW j \in Job, jobs[j].awaits # 0
      PROVE  jobs[j].awaits \in Job /\ height(jobs[j].awaits) < height(j)
  <2> DEFINE i == jobs[j].awaits
  <2>1. WaitOK(j) /\ JobOK(j)
    BY DEF WaitIInv, BuildIInv
  <2>2. CASE jobs[j].phase = "joined"
    <3>1. i \in Job /\ jobs[i].model = jobs[j].model /\ jobs[i].phase # "joined"
      BY <2>1, <2>2 DEF WaitOK, JobOK, JoinedOK, JoinedTo, Key, Started
    <3>2. QED
      BY <1>2, <2>2, <3>1
  <2>3. CASE jobs[j].phase # "joined"
    <3>1. PICK c \in DOMAIN jobs[j].sub : i = jobs[j].sub[c]
      BY <1>4, <2>1, <2>3 DEF WaitOK
    <3>2. i \in Job /\ jobs[i].model \in Callees(jobs[j].model) \ {jobs[j].model}
      BY <2>1, <3>1 DEF WaitOK, JobOK, RefersOK
    <3>3. rank[jobs[i].model] < rank[jobs[j].model]
      BY <1>1, <1>2, <3>2
    <3>4. QED
      BY <1>2, <2>3, <3>2, <3>3
  <2>4. QED
    BY <2>2, <2>3
<1>5. SUFFICES ASSUME NEW waiters \in SUBSET {j \in Job : jobs[j].awaits # 0 /\ jobs[j].phase # "building"},
                      waiters # {}
               PROVE  \E j \in waiters : jobs[j].awaits \notin waiters
  BY DEF NoBuildAwaitsItself
<1> HIDE DEF height
<1>6. PICK h \in {height(j) : j \in waiters} : \A g \in {height(j) : j \in waiters} : h <= g
  <2>1. {height(j) : j \in waiters} \in SUBSET Nat /\ {height(j) : j \in waiters} # {}
    BY <1>3, <1>5
  <2>2. QED
    BY <2>1, Smallest
<1>7. PICK j \in waiters : h = height(j)
  BY <1>6
<1>8. ASSUME jobs[j].awaits \in waiters PROVE FALSE
  <2>1. height(j) <= height(jobs[j].awaits)
    BY <1>6, <1>7, <1>8
  <2>2. jobs[j].awaits \in Job /\ height(jobs[j].awaits) < height(j) /\ j \in Job
    BY <1>4, <1>5, <1>7
  <2>3. height(j) \in Nat /\ height(jobs[j].awaits) \in Nat
    BY <1>3, <2>2
  <2>4. QED
    BY <2>1, <2>2, <2>3
<1>9. QED
  BY <1>8

\* No circle of builds that wait for each other, as long as the calls have none
\* and every worker that is needed can be started.
THEOREM NoDeadlock ==
    ASSUME Acyclic, Unspawnable = {} PROVE Spec => []NoBuildAwaitsItself
<1>1. Init => WaitIInv
  BY DEF Init, WaitIInv, Job
<1>2. BuildIInv /\ WaitIInv /\ [Next]_buildVars => WaitIInv'
  BY WaitInductive
<1>3. BuildIInv /\ WaitIInv => NoBuildAwaitsItself
  BY WaitsDown
<1>4. QED
  BY <1>1, <1>2, <1>3, BuildInvariant, PTL DEF Spec

-----------------------------------------------------------------------------
(* The gate and the graph below a model. *)

\* What a model calls, and what that is built from, is what the model is built from.
LEMMA BuiltDown ==
    ASSUME NEW m \in Models, NEW c \in Callees(m), c \in Models
    PROVE  c \in BuiltFrom[m] /\ BuiltFrom[c] \subseteq BuiltFrom[m]
  BY DEF BuiltFrom

\* A model is current only if the models it calls are.
LEMMA CurrentDown ==
    ASSUME NEW m \in Models, ~Stale(m), NEW c \in Callees(m), c \in Models
    PROVE  ~Stale(c)
  BY BuiltDown DEF Stale

Composed(m) == \A t \in record[m].tree : t[2] = version[t[1]]

\* One level: the children the record pins are as their own records have them.
LEMMA ComposedOf ==
    ASSUME Shape, NEW m \in Models, ~Stale(m),
           \A c \in Models : (c \in Callees(m) \ {m} /\ ~Stale(c)) => Composed(c)
    PROVE  Composed(m)
<1>1. /\ record[m].ran = version[m]
      /\ \A c \in DOMAIN record[m].pins : record[m].pins[c] = record[c].tree
      /\ record[m].tree = {<<m, record[m].ran>>} \cup UNION Range(record[m].pins)
      /\ DOMAIN record[m].pins \subseteq Callees(m) \ {m}
  BY DEF Stale, Outdated, Shape, Recorded, RecordOK
<1>2. DOMAIN record[m].pins \subseteq Models
  <2>1. record[m].pins \in Dict(Models, Trees)
    BY DEF Shape, Recorded, RecordType
  <2>2. QED
    BY <2>1, DictValue
<1>3. \A c \in DOMAIN record[m].pins : Composed(c)
  BY <1>1, <1>2, CurrentDown
<1>4. ASSUME NEW t \in record[m].tree PROVE t[2] = version[t[1]]
  <2>1. CASE t = <<m, record[m].ran>>
    BY <1>1, <2>1
  <2>2. CASE t \in UNION Range(record[m].pins)
    <3>1. PICK c \in DOMAIN record[m].pins : t \in record[m].pins[c]
      BY <2>2 DEF Range
    <3>2. QED
      BY <1>1, <1>3, <3>1 DEF Composed
  <2>3. QED
    BY <1>1, <1>4, <2>1, <2>2
<1>5. QED
  BY <1>4 DEF Composed

\* Where the calls go down, a model the gate lets pass is made of sources as they
\* are, all the way: the lowest one that was not would be made of some that are.
LEMMA GateRight ==
    ASSUME Acyclic, Shape PROVE GateSeesGraph
<1>1. PICK rank \in [Models -> Nat] :
        \A m \in Models : \A c \in Callees(m) \ {m} : rank[c] < rank[m]
  BY DEF Acyclic
<1> DEFINE wrong == {m \in Models : ~Stale(m) /\ ~Composed(m)}
           ranks == {rank[m] : m \in wrong}
<1>2. SUFFICES ASSUME wrong # {} PROVE FALSE
  BY DEF GateSeesGraph, Composed
<1>3. ranks \in SUBSET Nat /\ ranks # {}
  BY <1>1, <1>2
<1>4. PICK h \in ranks : \A g \in ranks : h <= g
  BY <1>3, Smallest
<1>5. PICK m \in wrong : h = rank[m]
  BY <1>4
<1>6. ASSUME NEW c \in Models, c \in Callees(m) \ {m}, ~Stale(c) PROVE Composed(c)
  <2>1. rank[c] < rank[m] /\ rank[c] \in Nat /\ rank[m] \in Nat
    BY <1>1, <1>5, <1>6
  <2>2. rank[c] \notin ranks
    BY <1>4, <1>5, <2>1
  <2>3. c \notin wrong
    BY <2>2
  <2>4. QED
    BY <1>6, <2>3
<1>7. Composed(m)
  BY <1>5, <1>6, ComposedOf
<1>8. QED
  BY <1>5, <1>7

\* As long as no models call each other in a circle, the gate misses no edit and no
\* rebuild at any depth.
THEOREM GateIsRight == ASSUME Acyclic PROVE Spec => []GateSeesGraph
<1>1. BuildIInv => GateSeesGraph
  BY GateRight DEF BuildIInv
<1>2. QED
  BY <1>1, BuildInvariant, PTL

-----------------------------------------------------------------------------
\* The requests use the slots as SlotService allows: they ask without one, take
\* one when it is free, and leave.
THEOREM UsesSlots == Spec => Slots!Init /\ [][Slots!Next]_<<asking, holding>>
<1>1. Init => Slots!Init
  BY DEF Init, Slots!Init
<1>2. BuildIInv /\ [Next]_buildVars => [Slots!Next]_<<asking, holding>>
  <2> SUFFICES ASSUME BuildIInv, [Next]_buildVars,
                      ~UNCHANGED <<asking, holding>>
               PROVE  Slots!Next
    OBVIOUS
  <2>1. ASSUME NEW j \in Job, Slots!Ask(j) \/ Slots!Take(j) \/ Slots!Leave(j)
        PROVE  Slots!Next
    <3>1. j \in 1..MaxJobs
      <4>1. Job = 1..Len(jobs) /\ Len(jobs) \in Nat /\ Len(jobs) <= MaxJobs
        BY JobsAre DEF BuildIInv, Shape
      <4>2. QED
        BY <4>1, BuildAssumption
    <3>2. QED
      BY <2>1, <3>1 DEF Slots!Next
  <2>2. ASSUME NEW j \in Job, Release(j) PROVE Slots!Leave(j)
    BY <2>2 DEF Release, Slots!Leave
  <2>3. PICK j \in Job : Start(j) \/ Body(j) \/ TakeSlot(j) \/ End(j) \/ Fault(j)
    BY DEF Next, buildVars, Request, Edit, EditHelper
  <2>4. CASE Start(j)
    BY <2>1, <2>2, <2>4
       DEF Start, StartRequested, Claim, Join, SkipCurrent, AskSlot, Ending
  <2>5. CASE Body(j)
    BY <2>1, <2>2, <2>5
       DEF Body, CallItself, CallAgain, CallCurrent, CallStale, Yield, AskAgain, PinChild,
           ChildFailed, Publish, Ending
  <2>6. CASE TakeSlot(j)
    BY <2>1, <2>6 DEF TakeSlot
  <2>7. CASE End(j) \/ Fault(j)
    BY <2>1, <2>2, <2>7
       DEF End, Fault, CancelOrphan, WorkerDies, WorkerEnds, Finish, FinishJoined, BodyFails,
           SpawnRaises, Ending
  <2>8. QED
    BY <2>3, <2>4, <2>5, <2>6, <2>7
<1>3. QED
  BY <1>1, <1>2, BuildInvariant, PTL DEF Spec
=============================================================================
