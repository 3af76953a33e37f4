----------------------------- MODULE PageProofs -----------------------------
(* Theorems about the page: the hook that compiles the selected document    *)
(* (ArtifactClient), and what is drawn and picked of it (ViewportAssets).   *)
EXTENDS ArtifactClient, ViewportAssets, FiniteSetTheorems, WellFoundedInduction, TLAPS

-----------------------------------------------------------------------------
(* The build POST of an effect                                              *)

(* An effect that has sent its POST reads no status again: it is attached   *)
(* to nothing, and only an attached poll resolves a second time             *)
PostIInv ==
    /\ posts \in {0, 1}
    /\ posts = 1 => get = Idle /\ ~attached

LEMMA ArtifactRecords ==
    /\ Asked # Idle
    /\ \A a : Answer(a) # Idle /\ Answer(a) # Asked /\ Answer(a).st = "answered"
    /\ \A a, b : Answer(a) = Answer(b) => a = b
    /\ Idle.st = "idle" /\ Asked.st = "asked"
    /\ \A r : [st |-> "waiting", run |-> r] \notin {Idle, Asked}
    /\ \A b : [st |-> "built", ok |-> b] \notin {Idle, Asked}
<1>1. Idle.st = "idle" /\ Asked.st = "asked" /\ \A a : Answer(a).st = "answered" /\ Answer(a).val = a
  BY DEF Idle, Asked, Answer
<1>2. /\ \A r : [st |-> "waiting", run |-> r].st = "waiting"
      /\ \A b : [st |-> "built", ok |-> b].st = "built"
  OBVIOUS
<1> QED BY <1>1, <1>2

(* One step of the system                                                   *)
LEMMA PostInductive ==
    ASSUME PostIInv, [ArtifactNext]_artifactVars
    PROVE  PostIInv'
<1> USE DEF PostIInv
<1>1. CASE UNCHANGED artifactVars
  BY <1>1 DEF artifactVars, hook, requests
<1>2. CASE Served
  <2>1. ASSUME NEW r \in Runs, NEW ok \in BOOLEAN, JobEnds(r, ok)
        PROVE  UNCHANGED <<get, attached, posts>>
    BY <2>1 DEF JobEnds
  <2>2. ASSUME ReadFeed \/ ServePoll \/ ServePost \/ ServeOrphan \/ AnswerPost \/ ServeCatalog
        PROVE  UNCHANGED <<get, attached, posts>>
    BY <2>2 DEF ReadFeed, ServePoll, ServePost, ServeOrphan, AnswerPost, ServeCatalog, hook, requests
  <2>3. ASSUME ServeGet
        PROVE  get # Idle /\ UNCHANGED <<attached, posts>>
    BY <2>3, ArtifactRecords DEF ServeGet
  <2> QED BY <1>2, <2>1, <2>2, <2>3 DEF Served
<1>3. CASE Page
  <2>1. ASSUME RefreshArrives \/ PostArrives \/ TimerFires
        PROVE  UNCHANGED <<get, attached, posts>>
    BY <2>1 DEF RefreshArrives, PostArrives, TimerFires, hook, requests
  <2>2. ASSUME RunEffect
        PROVE  posts' = 0
    BY <2>2 DEF RunEffect
  <2>3. ASSUME Resolve
        PROVE  PostIInv'
    <3>1. get # Idle /\ get' = Idle
      BY <2>3, ArtifactRecords DEF Resolve
    <3>2. posts = 0
      BY <3>1
    <3>3. \/ UNCHANGED posts
          \/ attached' = FALSE /\ posts' = posts + 1
      BY <2>3 DEF Resolve
    <3> QED BY <3>1, <3>2, <3>3
  <2>4. ASSUME PollArrives
        PROVE  /\ UNCHANGED <<attached, posts>>
               /\ attached \/ UNCHANGED get
    BY <2>4 DEF PollArrives
  <2> QED BY <1>3, <2>1, <2>2, <2>3, <2>4 DEF Page
<1>4. CASE \/ Edit \/ PeerBuilds \/ Visit \/ RefreshFails \/ PollFails
           \/ GetFails \/ PostLost \/ \E r \in Runs : Forget(r)
  <2>1. get' \in {get, Idle} /\ UNCHANGED <<attached, posts>>
    BY <1>4 DEF Edit, PeerBuilds, Visit, RefreshFails, PollFails, GetFails, PostLost, Forget, hook, requests
  <2> QED BY <2>1
<1> QED BY <1>1, <1>2, <1>3, <1>4 DEF ArtifactNext

(* One effect of the hook sends at most one build POST: the POST stays the  *)
(* only writer (useArtifact)                                                *)
THEOREM OnePost == ArtifactSpec => []OnePostPerEffect
<1>1. ArtifactInit => PostIInv
  BY DEF ArtifactInit, PostIInv
<1>2. PostIInv /\ [ArtifactNext]_artifactVars => PostIInv'
  BY PostInductive
<1>3. PostIInv => OnePostPerEffect
  BY DEF PostIInv, OnePostPerEffect
<1> QED BY <1>1, <1>2, <1>3, PTL DEF ArtifactSpec

-----------------------------------------------------------------------------
(* What a compiling page waits for                                          *)

Watched == get # Idle \/ poll # Idle \/ pollTimer \/ post # Idle

(* Said of the effect that runs, whatever is selected meanwhile             *)
WatchIInv ==
    /\ revision \in Nat
    /\ effect # NoKey /\ ui.key = effect /\ ui.status = "compiling" => Watched

LEMMA Revisions ==
    ASSUME WatchIInv, [ArtifactNext]_artifactVars
    PROVE  revision' \in Nat
<1> USE DEF WatchIInv
<1>1. ASSUME NEW c, NEW e, Publish(c, e)
      PROVE  revision' \in Nat
  BY <1>1 DEF Publish
<1>2. ASSUME RefreshArrives \/ RefreshFails \/ PostArrives
      PROVE  revision' \in Nat
  BY <1>1, <1>2 DEF RefreshArrives, RefreshFails, PostArrives, Receive
<1>3. ASSUME \/ UNCHANGED artifactVars
             \/ \E r \in Runs, ok \in BOOLEAN : JobEnds(r, ok)
             \/ ReadFeed \/ ServeGet \/ ServePoll \/ ServePost \/ ServeOrphan \/ AnswerPost
             \/ ServeCatalog \/ RunEffect \/ Resolve \/ TimerFires \/ PollArrives
             \/ Edit \/ PeerBuilds \/ Visit \/ PollFails \/ GetFails \/ PostLost
             \/ \E r \in Runs : Forget(r)
      PROVE  UNCHANGED revision
  BY <1>3 DEF artifactVars, store, JobEnds, ReadFeed, ServeGet, ServePoll, ServePost, ServeOrphan,
       AnswerPost, ServeCatalog, RunEffect, Resolve, TimerFires, PollArrives, Edit, PeerBuilds,
       Visit, PollFails, GetFails, PostLost, Forget
<1> QED BY <1>2, <1>3 DEF ArtifactNext, Served, Page

LEMMA WatchInductive ==
    ASSUME WatchIInv, [ArtifactNext]_artifactVars
    PROVE  WatchIInv'
<1> DEFINE Busy == effect # NoKey /\ ui.key = effect /\ ui.status = "compiling" => Watched
<1> USE DEF WatchIInv, Watched
<1>1. CASE UNCHANGED <<effect, ui, get, poll, post, pollTimer>>
  BY <1>1, Revisions
<1>2. CASE Served
  <2>1. ASSUME NEW r \in Runs, NEW ok \in BOOLEAN, JobEnds(r, ok)
        PROVE  /\ UNCHANGED <<effect, ui, get, poll, pollTimer>>
               /\ post # Idle => post' # Idle
    BY <2>1, ArtifactRecords DEF JobEnds
  <2>2. ASSUME ServePost \/ AnswerPost
        PROVE  UNCHANGED <<effect, ui, get, poll, pollTimer>> /\ post' # Idle
    BY <2>2, ArtifactRecords DEF ServePost, AnswerPost
  <2>3. ASSUME ReadFeed \/ ServeOrphan \/ ServeCatalog
        PROVE  UNCHANGED <<effect, ui, get, poll, post, pollTimer>>
    BY <2>3 DEF ReadFeed, ServeOrphan, ServeCatalog, hook, requests
  <2>4. ASSUME ServeGet \/ ServePoll
        PROVE  UNCHANGED <<effect, ui>> /\ Watched'
    BY <2>4, ArtifactRecords DEF ServeGet, ServePoll
  <2> QED BY <1>2, <2>1, <2>2, <2>3, <2>4, Revisions DEF Served
<1>3. CASE Page
  <2>1. ASSUME RefreshArrives
        PROVE  UNCHANGED <<effect, ui, get, poll, post, pollTimer>>
    BY <2>1 DEF RefreshArrives, hook, requests
  <2>2. ASSUME RunEffect
        PROVE  effect' = NoKey \/ Watched'
    BY <2>2, ArtifactRecords DEF RunEffect, Key, NoKey
  <2>3. ASSUME Resolve
        PROVE  Watched' \/ ui'.status # "compiling"
    <3>1. CASE pollTimer' = TRUE
      BY <3>1
    <3>2. CASE \E a \in {"rendered", "failed"} : Settle(a)
      BY <3>2 DEF Settle
    <3> QED BY <2>3, <3>1, <3>2 DEF Resolve
  <2>4. ASSUME PostArrives
        PROVE  ui'.status # "compiling"
    BY <2>4 DEF PostArrives, Settle
  <2>5. ASSUME TimerFires
        PROVE  Watched'
    BY <2>5, ArtifactRecords DEF TimerFires
  <2>6. ASSUME PollArrives
        PROVE  Watched'
    BY <2>6, ArtifactRecords DEF PollArrives
  <2> QED BY <1>3, <2>1, <2>2, <2>3, <2>4, <2>5, <2>6, Revisions DEF Page
<1>4. CASE PollFails
  <2>1. Watched'
    BY <1>4 DEF PollFails
  <2> QED BY <2>1, Revisions
<1>5. CASE Edit \/ PeerBuilds \/ Visit \/ RefreshFails \/ \E r \in Runs : Forget(r)
  <2>1. UNCHANGED <<effect, ui, get, poll, post, pollTimer>>
    BY <1>5 DEF Edit, PeerBuilds, Visit, RefreshFails, Forget, hook, requests
  <2> QED BY <2>1, <1>1
<1>6. CASE UNCHANGED artifactVars
  BY <1>1, <1>6 DEF artifactVars, hook, requests
<1>7. CASE GetFails \/ PostLost
  <2>1. ui'.status # "compiling"
    BY <1>7 DEF GetFails, PostLost, Lost, Settle
  <2> QED BY <2>1, Revisions
<1> QED BY <1>2, <1>3, <1>4, <1>5, <1>6, <1>7 DEF ArtifactNext

(* A page that says "compiling" of the selected document has a request on   *)
(* its way or a poll armed: it never waits for nothing (useArtifact)        *)
THEOREM CompilingWatched == ArtifactSpec => []CompilingIsWatched
<1>1. ArtifactInit => WatchIInv
  BY DEF ArtifactInit, WatchIInv
<1>2. WatchIInv /\ [ArtifactNext]_artifactVars => WatchIInv'
  BY WatchInductive
<1>3. WatchIInv => CompilingIsWatched
  <2> SUFFICES ASSUME WatchIInv, Shown = "compiling", effect = Key
               PROVE  Watched
    BY DEF CompilingIsWatched, Watched
  <2>1. visited /\ ui.key = Key /\ ui.status = "compiling"
    BY DEF Shown
  <2>2. effect.rev = revision
    BY <2>1 DEF Key
  <2>3. effect # NoKey
    BY <2>2, BoundsAssumption DEF WatchIInv, NoKey
  <2> QED BY <2>1, <2>3 DEF WatchIInv
<1> QED BY <1>1, <1>2, <1>3, PTL DEF ArtifactSpec

-----------------------------------------------------------------------------
(* The ledger and the compiles of the document                              *)

LEMMA Smallest ==
    ASSUME NEW S \in SUBSET Nat, S # {}
    PROVE  \E x \in S : \A y \in S : x <= y
<1>1. PICK x \in S : \A y \in S : ~(<<y, x>> \in OpToRel(<, Nat))
  BY NatLessThanWellFounded, WFMin
<1>2. \A y \in S : ~(y < x)
  BY <1>1 DEF OpToRel
<1> QED BY <1>2

(* The newest of some jobs                                                  *)
LEMMA LatestIs ==
    ASSUME NEW S \in SUBSET Runs, S # {}
    PROVE  Latest(S) \in S /\ \A q \in S : q <= Latest(S)
<1> DEFINE ages == {MaxRuns - r : r \in S}
<1>1. \A r \in S : r \in Nat /\ MaxRuns - r \in Nat
  BY BoundsAssumption DEF Runs
<1>2. ages \in SUBSET Nat /\ ages # {}
  BY <1>1
<1> HIDE DEF ages
<1>3. PICK a \in ages : \A b \in ages : a <= b
  BY <1>2, Smallest
<1>4. PICK r \in S : a = MaxRuns - r
  BY <1>3 DEF ages
<1>5. ASSUME NEW q \in S
      PROVE  q <= r
  <2>1. MaxRuns - r <= MaxRuns - q
    BY <1>3, <1>4 DEF ages
  <2> QED BY <1>1, <2>1, BoundsAssumption
<1> QED BY <1>5 DEF Latest

(* Nobody rewrites the document past its last version: a build in a         *)
(* terminal, of which there is one at a time, has kept a version for itself *)
LedgerIInv ==
    /\ bytes \in Versions /\ trees \subseteq Versions
    /\ ledger \in [Runs -> Job]
    /\ \A r, q \in Peers : r = q
    /\ Peers # {} => bytes < MaxVersion
    /\ \A r, q \in InFlight : r = q

LEMMA RunsRead ==
    /\ InFlight = {r \in Runs : ledger[r].state = "running" /\ ledger[r].by = "viewer"}
    /\ Peers = {r \in Runs : ledger[r].state = "running" /\ ledger[r].by # "viewer"}
    /\ InFlight' = {r \in Runs : ledger'[r].state = "running" /\ ledger'[r].by = "viewer"}
    /\ Peers' = {r \in Runs : ledger'[r].state = "running" /\ ledger'[r].by # "viewer"}
BY DEF InFlight, Peers, Listed, Seen

LEMMA StartTyped ==
    ASSUME LedgerIInv, NEW by \in {"viewer", "peer"}, StartJob(by)
    PROVE  /\ ledger' \in [Runs -> Job]
           /\ \E r \in Runs :
                 /\ ledger'[r].state = "running" /\ ledger'[r].by = by
                 /\ \A q \in Runs \ {r} : ledger'[q] = ledger[q]
<1>1. PICK r \in Runs : ledger' = [ledger EXCEPT ![r] = [state |-> "running", by |-> by, on |-> bytes]]
  BY DEF StartJob
<1>2. [state |-> "running", by |-> by, on |-> bytes] \in Job
  BY DEF Job, Live, LedgerIInv
<1>3. ledger'[r] = [state |-> "running", by |-> by, on |-> bytes]
  BY <1>1 DEF LedgerIInv
<1>4. \A q \in Runs \ {r} : ledger'[q] = ledger[q]
  BY <1>1 DEF LedgerIInv
<1>5. ledger' \in [Runs -> Job]
  BY <1>1, <1>2 DEF LedgerIInv
<1> QED BY <1>3, <1>4, <1>5

(* The document's compile is started by whoever finds none                  *)
LEMMA CompileKeeps ==
    ASSUME LedgerIInv, Compile, UNCHANGED <<bytes, trees>>
    PROVE  LedgerIInv'
<1>1. CASE UNCHANGED ledger
  BY <1>1, RunsRead DEF LedgerIInv, InFlight, Peers, Listed, Seen
<1>2. CASE InFlight = {} /\ StartJob("viewer")
  <2>1. ledger' \in [Runs -> Job]
    BY <1>2, StartTyped
  <2>2. PICK r \in Runs :
          /\ ledger'[r].state = "running" /\ ledger'[r].by = "viewer"
          /\ \A q \in Runs \ {r} : ledger'[q] = ledger[q]
    BY <1>2, StartTyped
  <2>3. Peers' \subseteq Peers /\ InFlight' \subseteq {r}
    BY <1>2, <2>2, RunsRead
  <2> QED BY <2>1, <2>3 DEF LedgerIInv
<1> QED BY <1>1, <1>2 DEF Compile

LEMMA JobEndsKeeps ==
    ASSUME LedgerIInv, NEW r \in Runs, NEW ok \in BOOLEAN, JobEnds(r, ok)
    PROVE  LedgerIInv'
<1> DEFINE over == [NoJob EXCEPT !.state = IF ok THEN "done" ELSE "failed"]
<1>1. MaxVersion \in Nat /\ bytes \in 0 .. MaxVersion /\ trees \subseteq 0 .. MaxVersion
  BY BoundsAssumption DEF LedgerIInv, Versions
<1>2. over \in Job /\ over.state # "running"
  BY <1>1 DEF NoJob, Job, Live, Versions
<1>3. ledger' = [ledger EXCEPT ![r] = over] /\ ledger[r].state = "running"
  BY DEF JobEnds
<1>4. ledger' \in [Runs -> Job]
  BY <1>2, <1>3 DEF LedgerIInv
<1>5. ledger'[r].state # "running" /\ \A q \in Runs \ {r} : ledger'[q] = ledger[q]
  BY <1>2, <1>3 DEF LedgerIInv
<1>6. InFlight' = InFlight \ {r} /\ Peers' = Peers \ {r}
  BY <1>5, RunsRead
<1>7. CASE r \in InFlight
  <2>1. bytes' = bytes /\ trees' \subseteq trees \cup {ledger[r].on}
    BY <1>7 DEF JobEnds
  <2>2. ledger[r].on \in Versions
    BY DEF LedgerIInv, Job
  <2> QED BY <2>1, <2>2, <1>4, <1>6 DEF LedgerIInv
<1>8. CASE r \notin InFlight
  <2>1. r \in Peers
    BY <1>3, <1>8, RunsRead
  <2>2. Peers' = {} /\ bytes < MaxVersion
    BY <1>6, <2>1 DEF LedgerIInv
  <2>3. \/ UNCHANGED <<bytes, trees>>
        \/ bytes' = bytes + 1 /\ trees' = trees \cup {bytes + 1}
    BY <1>8 DEF JobEnds
  <2>4. bytes \in Versions /\ bytes + 1 \in Versions
    BY <1>1, <2>2 DEF Versions
  <2>5. bytes' \in Versions /\ trees' \subseteq Versions
    BY <1>1, <2>3, <2>4 DEF LedgerIInv
  <2> QED BY <1>4, <1>6, <2>2, <2>5 DEF LedgerIInv
<1> QED BY <1>7, <1>8

LEMMA ForgetKeeps ==
    ASSUME LedgerIInv, NEW r \in Runs, Forget(r)
    PROVE  LedgerIInv'
<1>1. NoJob \in Job /\ NoJob.state # "running"
  BY BoundsAssumption DEF NoJob, Job, Live, Versions
<1>2. ledger' = [ledger EXCEPT ![r] = NoJob] /\ UNCHANGED <<bytes, trees>>
  BY DEF Forget
<1>3. ledger' \in [Runs -> Job]
  BY <1>1, <1>2 DEF LedgerIInv
<1>4. ledger'[r].state # "running" /\ \A q \in Runs \ {r} : ledger'[q] = ledger[q]
  BY <1>1, <1>2 DEF LedgerIInv
<1>5. InFlight' \subseteq InFlight /\ Peers' \subseteq Peers
  BY <1>4, RunsRead
<1> QED BY <1>2, <1>3, <1>5 DEF LedgerIInv

LEMMA EditKeeps ==
    ASSUME LedgerIInv, Edit
    PROVE  LedgerIInv'
<1>1. MaxVersion \in Nat /\ bytes \in 0 .. MaxVersion
  BY BoundsAssumption DEF LedgerIInv, Versions
<1>2. /\ bytes + Cardinality(Peers) < MaxVersion
      /\ bytes' = bytes + 1 /\ UNCHANGED <<trees, ledger>>
  BY DEF Edit
<1>3. Peers' = Peers /\ InFlight' = InFlight
  BY <1>2 DEF Peers, InFlight, Listed, Seen
<1>4. CASE Peers = {}
  <2>1. Cardinality(Peers) = 0
    BY <1>4, FS_EmptySet
  <2> QED BY <1>1, <1>2, <1>3, <1>4, <2>1 DEF LedgerIInv, Versions
<1>5. CASE Peers # {}
  <2>1. PICK r : Peers = {r}
    BY <1>5 DEF LedgerIInv
  <2>2. Cardinality(Peers) = 1
    BY <2>1, FS_Singleton
  <2>3. bytes + 1 \in Versions /\ bytes + 1 < MaxVersion
    BY <1>1, <1>2, <2>2 DEF Versions
  <2> QED BY <1>2, <1>3, <2>3 DEF LedgerIInv
<1> QED BY <1>4, <1>5

LEMMA PeerBuildsKeeps ==
    ASSUME LedgerIInv, PeerBuilds
    PROVE  LedgerIInv'
<1>1. Peers = {} /\ bytes < MaxVersion /\ StartJob("peer") /\ UNCHANGED <<bytes, trees>>
  BY DEF PeerBuilds
<1>2. ledger' \in [Runs -> Job]
  BY <1>1, StartTyped
<1>3. PICK r \in Runs :
        /\ ledger'[r].state = "running" /\ ledger'[r].by = "peer"
        /\ \A q \in Runs \ {r} : ledger'[q] = ledger[q]
  BY <1>1, StartTyped
<1>4. Peers' \subseteq {r} /\ InFlight' \subseteq InFlight
  BY <1>1, <1>3, RunsRead
<1> QED BY <1>1, <1>2, <1>4 DEF LedgerIInv

LEMMA LedgerInductive ==
    ASSUME LedgerIInv, [ArtifactNext]_artifactVars
    PROVE  LedgerIInv'
<1>1. ASSUME UNCHANGED <<bytes, trees, ledger>>
      PROVE  LedgerIInv'
  BY <1>1 DEF LedgerIInv, Peers, InFlight, Listed, Seen
<1>2. CASE \E r \in Runs, ok \in BOOLEAN : JobEnds(r, ok)
  BY <1>2, JobEndsKeeps
<1>3. CASE ServePost \/ ServeOrphan
  BY <1>3, CompileKeeps DEF ServePost, ServeOrphan
<1>4. CASE \E r \in Runs : Forget(r)
  BY <1>4, ForgetKeeps
<1>5. CASE Edit \/ PeerBuilds
  BY <1>5, EditKeeps, PeerBuildsKeeps
<1>6. CASE \/ ReadFeed \/ ServeGet \/ ServePoll \/ AnswerPost \/ ServeCatalog
           \/ Page \/ Visit \/ RefreshFails \/ PollFails \/ GetFails \/ PostLost
           \/ UNCHANGED artifactVars
  <2>1. UNCHANGED <<bytes, trees, ledger>>
    BY <1>6 DEF ReadFeed, ServeGet, ServePoll, AnswerPost, ServeCatalog, Page, RefreshArrives,
         RunEffect, Resolve, PostArrives, TimerFires, PollArrives, Visit, RefreshFails, PollFails,
         GetFails, PostLost, artifactVars, server
  <2> QED BY <1>1, <2>1
<1> QED BY <1>2, <1>3, <1>4, <1>5, <1>6 DEF ArtifactNext, Served

LEMMA LedgerStarts ==
    ASSUME ArtifactInit
    PROVE  LedgerIInv
<1>1. NoJob \in Job /\ NoJob.state # "running"
  BY BoundsAssumption DEF NoJob, Job, Live, Versions
<1>2. ledger = [r \in Runs |-> NoJob] /\ bytes = 0 /\ trees \in SUBSET {0}
  BY DEF ArtifactInit
<1>3. Peers = {} /\ InFlight = {}
  BY <1>1, <1>2, RunsRead
<1>4. 0 \in Versions
  BY BoundsAssumption DEF Versions
<1> QED BY <1>1, <1>2, <1>3, <1>4 DEF LedgerIInv

(* The server runs one compile of the document at a time, whoever asked for *)
(* it and however many of its requests were aborted                         *)
(* (DocumentCompiler.compile)                                               *)
THEOREM OneCompile == ArtifactSpec => []OneCompileAtATime
<1>1. LedgerIInv => OneCompileAtATime
  <2> SUFFICES ASSUME LedgerIInv
               PROVE  Cardinality(InFlight) <= 1
    BY DEF OneCompileAtATime
  <2>1. CASE InFlight = {}
    BY <2>1, FS_EmptySet
  <2>2. CASE InFlight # {}
    <3>1. PICK r \in InFlight : \A q \in InFlight : q = r
      BY <2>2 DEF LedgerIInv
    <3>2. InFlight = {r}
      BY <3>1
    <3>3. Cardinality({r}) = 1
      BY FS_Singleton
    <3> QED BY <3>2, <3>3
  <2> QED BY <2>1, <2>2
<1> QED BY <1>1, LedgerStarts, LedgerInductive, PTL DEF ArtifactSpec

-----------------------------------------------------------------------------
(* The types of the page                                                    *)

Keys == [rev : Nat \cup {Nil}]
Answered == {Answer(s) : s \in Statuses}
Posts ==
    {Idle, Asked} \cup {[st |-> "waiting", run |-> r] : r \in Runs}
        \cup {[st |-> "built", ok |-> k] : k \in BOOLEAN}
        \cup {Answer(a) : a \in [ok : BOOLEAN, catalog : Catalogs]}

StoreTypes ==
    /\ manifest \in Catalogs /\ revision \in Nat /\ broken \in BOOLEAN
    /\ refresh \in {Idle} \cup {Answer(c) : c \in Catalogs}

HookTypes ==
    /\ effect \in Keys
    /\ ui \in [key : Keys, status : {"rendered", "compiling", "failed"},
               progress : Runs \cup {Nil}]
    /\ get \in {Idle, Asked} \cup Answered /\ poll \in {Idle, Asked} \cup Answered
    /\ post \in Posts
    /\ pollTimer \in BOOLEAN /\ attached \in BOOLEAN
    /\ shownRun \in Runs \cup {Nil} /\ posts \in Nat

(* With the versions the ledger still may need, every state has its type    *)
TypeIInv ==
    /\ LedgerIInv /\ StoreTypes /\ HookTypes
    /\ feed \in [Runs -> Live \cup {"unlisted"}] /\ orphan \in BOOLEAN
    /\ visited \in BOOLEAN /\ acts \in 0 .. MaxActs
    /\ excuse \subseteq {"lost", "blamed"}

LEMMA CatalogTyped ==
    ASSUME LedgerIInv
    PROVE  Catalog \in Catalogs
BY DEF Catalog, Catalogs, LedgerIInv

LEMMA StatusTyped ==
    ASSUME TypeIInv
    PROVE  Status \in Statuses
<1> DEFINE running == Listed({"running"}, feed)
<1>1. running \in SUBSET Runs
  BY DEF Listed
<1>2. running # {} => Latest(running) \in Runs
  BY <1>1, LatestIs
<1> HIDE DEF running
<1>3. Snapshot.run \in Runs \cup {Nil}
  BY <1>2 DEF Snapshot, running
<1> QED BY <1>3 DEF Status, Statuses

LEMMA ActTyped ==
    ASSUME acts \in 0 .. MaxActs, Act
    PROVE  acts' \in 0 .. MaxActs
BY BoundsAssumption DEF Act

LEMMA PublishTyped ==
    ASSUME StoreTypes, NEW c \in Catalogs, NEW e \in BOOLEAN, Publish(c, e)
    PROVE  manifest' \in Catalogs /\ revision' \in Nat /\ broken' \in BOOLEAN
BY DEF StoreTypes, Publish

(* What the requests of the hook bring back                                 *)
LEMMA ReadsTyped ==
    ASSUME NEW g \in {Idle, Asked} \cup Answered, g.st = "answered"
    PROVE  g.val \in Statuses
<1>1. PICK s \in Statuses : g = Answer(s)
  BY ArtifactRecords DEF Answered
<1> QED BY <1>1 DEF Answer

LEMMA PostsTyped ==
    ASSUME NEW p \in Posts
    PROVE  /\ p.st = "answered" => p.val \in [ok : BOOLEAN, catalog : Catalogs]
           /\ p.st = "built" => p.ok \in BOOLEAN
<1>1. CASE p \in {Idle, Asked}
  BY <1>1, ArtifactRecords
<1>2. ASSUME NEW r \in Runs, p = [st |-> "waiting", run |-> r]
      PROVE  p.st = "waiting"
  BY <1>2
<1>3. ASSUME NEW k \in BOOLEAN, p = [st |-> "built", ok |-> k]
      PROVE  p.st = "built" /\ p.ok \in BOOLEAN
  BY <1>3
<1>4. ASSUME NEW a \in [ok : BOOLEAN, catalog : Catalogs], p = Answer(a)
      PROVE  p.st = "answered" /\ p.val \in [ok : BOOLEAN, catalog : Catalogs]
  BY <1>4 DEF Answer
<1> QED BY <1>1, <1>2, <1>3, <1>4 DEF Posts

LEMMA ServerTyped ==
    ASSUME TypeIInv, Served \/ Edit \/ PeerBuilds \/ \E r \in Runs : Forget(r)
    PROVE  /\ StoreTypes' /\ HookTypes'
           /\ feed' \in [Runs -> Live \cup {"unlisted"}] /\ orphan' \in BOOLEAN
           /\ visited' \in BOOLEAN /\ acts' \in 0 .. MaxActs
<1> USE DEF TypeIInv
<1> DEFINE Rest == UNCHANGED <<store, bounds, effect, ui, pollTimer, attached, shownRun, posts>>
<1>1. ASSUME NEW r \in Runs, NEW ok \in BOOLEAN, JobEnds(r, ok)
      PROVE  /\ Rest /\ UNCHANGED <<feed, orphan, get, poll>>
             /\ post' \in {post, [st |-> "built", ok |-> ok]}
  BY <1>1 DEF JobEnds, store
<1>2. CASE \E r \in Runs, ok \in BOOLEAN : JobEnds(r, ok)
  <2>1. Rest /\ UNCHANGED <<feed, orphan, get, poll>> /\ post' \in Posts
    BY <1>1, <1>2 DEF HookTypes, Posts
  <2> QED BY <2>1 DEF StoreTypes, HookTypes, store, bounds
<1>3. CASE ReadFeed
  <2>1. Seen \in [Runs -> Live \cup {"unlisted"}]
    BY DEF Seen, LedgerIInv, Job
  <2>2. UNCHANGED <<store, hook, bounds, orphan>> /\ feed' = Seen
    BY <1>3 DEF ReadFeed
  <2> QED BY <2>1, <2>2 DEF StoreTypes, HookTypes, store, bounds, hook, requests
<1>4. CASE ServeGet \/ ServePoll
  <2>1. /\ Rest /\ UNCHANGED <<feed, orphan, post>>
        /\ get' \in {get, Answer(Status)} /\ poll' \in {poll, Answer(Status)}
    BY <1>4 DEF ServeGet, ServePoll, server
  <2>2. Answer(Status) \in Answered
    BY StatusTyped DEF Answered
  <2> QED BY <2>1, <2>2 DEF StoreTypes, HookTypes, store, bounds
<1>5. CASE ServePost
  <2>1. /\ Rest /\ UNCHANGED <<feed, orphan, get, poll>>
        /\ \E r \in Runs : post' = [st |-> "waiting", run |-> r]
    BY <1>5 DEF ServePost
  <2>2. post' \in Posts
    BY <2>1 DEF Posts
  <2> QED BY <2>1, <2>2 DEF StoreTypes, HookTypes, store, bounds
<1>6. CASE AnswerPost
  <2>1. /\ Rest /\ UNCHANGED <<feed, orphan, get, poll>> /\ post.st = "built"
        /\ post' = Answer([ok |-> post.ok, catalog |-> Catalog])
    BY <1>6 DEF AnswerPost, server
  <2>2. post.ok \in BOOLEAN
    BY <2>1, PostsTyped DEF HookTypes
  <2>3. post' \in Posts
    BY <2>1, <2>2, CatalogTyped DEF Posts
  <2> QED BY <2>1, <2>3 DEF StoreTypes, HookTypes, store, bounds
<1>7. CASE ServeOrphan \/ Edit \/ PeerBuilds \/ \E r \in Runs : Forget(r)
  <2>1. /\ UNCHANGED <<store, hook, feed, visited>> /\ orphan' \in {orphan, FALSE}
        /\ acts' = acts \/ Act
    BY <1>7 DEF ServeOrphan, Edit, PeerBuilds, Forget, bounds
  <2>2. acts' \in 0 .. MaxActs
    BY <2>1, ActTyped
  <2>3. StoreTypes' /\ HookTypes'
    BY <2>1 DEF StoreTypes, HookTypes, store, hook, requests
  <2> QED BY <2>1, <2>2, <2>3
<1>8. CASE ServeCatalog
  <2>1. UNCHANGED <<feed, orphan, manifest, revision, broken, hook, bounds>> /\ refresh' = Answer(Catalog)
    BY <1>8 DEF ServeCatalog, server
  <2> QED BY <2>1, CatalogTyped DEF StoreTypes, HookTypes, hook, requests, bounds
<1> QED BY <1>2, <1>3, <1>4, <1>5, <1>6, <1>7, <1>8 DEF Served

LEMMA PageTyped ==
    ASSUME TypeIInv, Page \/ Visit \/ RefreshFails \/ PollFails \/ GetFails \/ PostLost
    PROVE  /\ StoreTypes' /\ HookTypes'
           /\ feed' \in [Runs -> Live \cup {"unlisted"}] /\ orphan' \in BOOLEAN
           /\ visited' \in BOOLEAN /\ acts' \in 0 .. MaxActs
<1> USE DEF TypeIInv
<1>1. CASE RefreshArrives \/ RefreshFails
  <2>1. UNCHANGED <<feed, orphan, hook, visited>> /\ refresh' = Idle /\ (acts' = acts \/ Act)
    BY <1>1 DEF RefreshArrives, RefreshFails, server, bounds
  <2>2. refresh.st = "answered" => refresh.val \in Catalogs
    BY ArtifactRecords DEF StoreTypes, Answer
  <2>3. \E c \in Catalogs, e \in BOOLEAN : Publish(c, e)
    BY <1>1, <2>2 DEF RefreshArrives, RefreshFails, StoreTypes
  <2>4. manifest' \in Catalogs /\ revision' \in Nat /\ broken' \in BOOLEAN
    BY <2>3, PublishTyped
  <2> QED BY <2>1, <2>4, ActTyped DEF StoreTypes, HookTypes, hook, requests
<1>2. CASE RunEffect
  <2>1. /\ UNCHANGED <<feed, store, ui, visited>> /\ orphan' \in {orphan, TRUE}
        /\ acts' = acts \/ Act
        /\ effect' = Key /\ get' \in {Asked, Idle} /\ poll' = Idle /\ post' = Idle
        /\ pollTimer' = FALSE /\ attached' = FALSE /\ shownRun' = Nil /\ posts' = 0
    BY <1>2 DEF RunEffect
  <2>2. Key \in Keys
    BY DEF Key, Keys, StoreTypes
  <2> QED BY <2>1, <2>2, ActTyped DEF StoreTypes, HookTypes, store, Posts
<1>3. CASE Resolve
  <2>1. UNCHANGED <<feed, orphan, store, effect, poll, bounds>> /\ get' = Idle
    BY <1>3 DEF Resolve, server
  <2>2. get.val \in Statuses
    BY <1>3, ReadsTyped DEF Resolve, HookTypes
  <2>3. get.val.run \in Runs \cup {Nil}
    BY <2>2 DEF Statuses
  <2>4. CASE /\ \E a \in {"rendered", "failed"} : Settle(a)
             /\ UNCHANGED <<post, pollTimer, attached, shownRun, posts>>
    BY <2>1, <2>4 DEF Settle, StoreTypes, HookTypes, store, bounds
  <2>5. CASE /\ ShowGenerating(get.val) /\ pollTimer' = TRUE /\ attached' \in BOOLEAN
             /\ \/ UNCHANGED <<post, posts>>
                \/ post' = Asked /\ posts' = posts + 1
    BY <2>1, <2>3, <2>5 DEF ShowGenerating, StoreTypes, HookTypes, store, bounds, Posts
  <2> QED BY <1>3, <2>4, <2>5 DEF Resolve
<1>4. CASE PostArrives
  <2>1. /\ UNCHANGED <<feed, orphan, refresh, effect, get, poll, attached, shownRun, posts, bounds>>
        /\ post' = Idle /\ pollTimer' = FALSE /\ Receive(post.val)
        /\ \E a \in {"rendered", "failed"} : Settle(a)
    BY <1>4 DEF PostArrives, server
  <2>2. post.val \in [ok : BOOLEAN, catalog : Catalogs]
    BY <1>4, PostsTyped DEF PostArrives, HookTypes
  <2>3. manifest' \in Catalogs /\ revision' \in Nat /\ broken' \in BOOLEAN
    BY <2>1, <2>2, PublishTyped DEF Receive, StoreTypes
  <2>4. ui' \in [key : Keys, status : {"rendered", "compiling", "failed"}, progress : Runs \cup {Nil}]
    BY <2>1 DEF Settle, HookTypes
  <2> QED BY <2>1, <2>3, <2>4 DEF StoreTypes, HookTypes, bounds, Posts
<1>5. CASE TimerFires \/ PollFails
  <2>1. /\ UNCHANGED <<feed, orphan, store, effect, ui, get, post, attached, shownRun, posts, visited>>
        /\ poll' \in {Idle, Asked} /\ pollTimer' \in BOOLEAN /\ (acts' = acts \/ Act)
    BY <1>5 DEF TimerFires, PollFails, server, bounds
  <2> QED BY <2>1, ActTyped DEF StoreTypes, HookTypes, store
<1>6. CASE PollArrives
  <2>1. /\ UNCHANGED <<feed, orphan, store, effect, post, attached, posts, bounds>>
        /\ poll' = Idle /\ get' \in {get, Asked} /\ pollTimer' \in BOOLEAN /\ Merge(poll.val)
    BY <1>6 DEF PollArrives, server
  <2>2. poll.val \in Statuses
    BY <1>6, ReadsTyped DEF PollArrives, HookTypes
  <2>3. poll.val.run \in Runs \cup {Nil}
    BY <2>2 DEF Statuses
  <2>4. Reconcile(poll.val).run \in Runs \cup {Nil} /\ Reconcile(poll.val).progress \in Runs \cup {Nil}
    BY <2>3 DEF Reconcile, HookTypes
  <2>5. /\ shownRun' = Reconcile(poll.val).run
        /\ ui' \in {ui, [ui EXCEPT !.progress = Reconcile(poll.val).progress]}
    BY <2>1 DEF Merge
  <2> HIDE DEF TypeIInv
  <2>6. ui' \in [key : Keys, status : {"rendered", "compiling", "failed"}, progress : Runs \cup {Nil}]
    BY <2>4, <2>5 DEF TypeIInv, HookTypes
  <2> QED BY <2>1, <2>4, <2>5, <2>6 DEF TypeIInv, StoreTypes, HookTypes, store, bounds
<1>7. CASE Visit
  <2>1. UNCHANGED <<feed, orphan, store, hook>> /\ visited' \in BOOLEAN /\ Act
    BY <1>7 DEF Visit, server
  <2> QED BY <2>1, ActTyped DEF StoreTypes, HookTypes, store, hook, requests
<1>8. CASE GetFails \/ PostLost
  <2>1. /\ UNCHANGED <<feed, store, effect, poll, attached, shownRun, posts, visited>>
        /\ orphan' \in {orphan, TRUE} /\ get' \in {get, Idle} /\ post' \in {post, Idle}
        /\ pollTimer' = FALSE /\ Settle("failed") /\ Act
    BY <1>8 DEF GetFails, PostLost, Lost, server
  <2>2. ui' \in [key : Keys, status : {"rendered", "compiling", "failed"}, progress : Runs \cup {Nil}]
    BY <2>1 DEF Settle, HookTypes
  <2> QED BY <2>1, <2>2, ActTyped DEF StoreTypes, HookTypes, store, Posts
<1> QED BY <1>1, <1>2, <1>3, <1>4, <1>5, <1>6, <1>7, <1>8 DEF Page

(* The excuses of an effect are the two there are                           *)
LEMMA ExcuseTyped ==
    ASSUME excuse \subseteq {"lost", "blamed"}, [ArtifactNext]_artifactVars
    PROVE  excuse' \subseteq {"lost", "blamed"}
<1>1. CASE RunEffect
  BY <1>1 DEF RunEffect
<1>2. CASE ServeGet
  BY <1>2 DEF ServeGet
<1>3. CASE GetFails \/ PostLost
  BY <1>3 DEF GetFails, PostLost, Lost
<1>4. CASE \/ \E r \in Runs, ok \in BOOLEAN : JobEnds(r, ok)
           \/ ReadFeed \/ ServePoll \/ ServePost \/ ServeOrphan \/ AnswerPost \/ ServeCatalog
           \/ UNCHANGED artifactVars
  BY <1>4 DEF JobEnds, ReadFeed, ServePoll, ServePost, ServeOrphan, AnswerPost, ServeCatalog,
     artifactVars, hook, requests
<1>5. CASE RefreshArrives \/ Resolve \/ PostArrives \/ TimerFires \/ PollArrives
  BY <1>5 DEF RefreshArrives, Resolve, PostArrives, TimerFires, PollArrives, hook, requests
<1>6. CASE Edit \/ PeerBuilds \/ Visit \/ RefreshFails \/ PollFails \/ \E r \in Runs : Forget(r)
  BY <1>6 DEF Edit, PeerBuilds, Visit, RefreshFails, PollFails, Forget, hook, requests
<1> QED BY <1>1, <1>2, <1>3, <1>4, <1>5, <1>6 DEF ArtifactNext, Served, Page

LEMMA ArtifactTypes ==
    ASSUME TypeIInv, [ArtifactNext]_artifactVars
    PROVE  TypeIInv'
<1>1. LedgerIInv'
  BY LedgerInductive DEF TypeIInv
<1>5. excuse' \subseteq {"lost", "blamed"}
  BY ExcuseTyped DEF TypeIInv
<1>2. CASE UNCHANGED artifactVars
  BY <1>1, <1>2, <1>5 DEF artifactVars, server, store, hook, requests, bounds, TypeIInv, StoreTypes, HookTypes
<1>3. CASE Served \/ Edit \/ PeerBuilds \/ \E r \in Runs : Forget(r)
  BY <1>1, <1>3, <1>5, ServerTyped DEF TypeIInv
<1>4. CASE Page \/ Visit \/ RefreshFails \/ PollFails \/ GetFails \/ PostLost
  BY <1>1, <1>4, <1>5, PageTyped DEF TypeIInv
<1> QED BY <1>2, <1>3, <1>4 DEF ArtifactNext

(* Every variable keeps its type                                            *)
THEOREM ArtifactTyped == ArtifactSpec => []ArtifactTypeOK
<1>1. ASSUME ArtifactInit
      PROVE  TypeIInv
  <2>1. LedgerIInv
    BY <1>1, LedgerStarts
  <2>2. feed \in [Runs -> Live \cup {"unlisted"}]
    BY <1>1, <2>1 DEF ArtifactInit, Seen, LedgerIInv, Job
  <2>3. StoreTypes /\ HookTypes
    BY <1>1, <2>1, CatalogTyped DEF ArtifactInit, StoreTypes, HookTypes, NoKey, Keys, Posts
  <2>4. orphan = FALSE /\ visited = TRUE /\ acts = 0 /\ excuse = {}
    BY <1>1 DEF ArtifactInit
  <2>5. acts \in 0 .. MaxActs
    BY <2>4, BoundsAssumption
  <2> QED BY <2>1, <2>2, <2>3, <2>4, <2>5 DEF TypeIInv
<1>2. TypeIInv => ArtifactTypeOK
  BY DEF TypeIInv, StoreTypes, HookTypes, LedgerIInv, ArtifactTypeOK, Keys, Answered
<1> QED BY <1>1, <1>2, ArtifactTypes, PTL DEF ArtifactSpec

-----------------------------------------------------------------------------
(* Mesh, picking and levels: what the flows of the viewport agree on        *)

Swaps == [cid : Cid, level : Levels]

LoadTypes ==
    /\ meshLoad \in MeshLoads \cup {None}
    /\ topologyLoad \in TopologyLoads \cup {None}
    /\ topologyLoad # None =>
         DOMAIN topologyLoad.level = IF topologyLoad.stage = "bundles" THEN topologyLoad.nodes ELSE {}
    /\ descriptor \in [Entry -> {"absent", "ready", "mesh", "topology"}]

(* The load a descriptor's promise belongs to is still there and waits      *)
Owners ==
    \A e \in Entry :
        /\ descriptor[e] = "mesh" => Waits(meshLoad, e)
        /\ descriptor[e] = "topology" => Waits(topologyLoad, e)

LoadsOK ==
    /\ selected \in Entry \cup {None} /\ rendered \in BOOLEAN /\ expanded \subseteq Cid
    /\ LoadTypes /\ Owners
    /\ topologyStatus \in {"idle", "disabled", "loading", "ready", "error"}
    /\ topologyStatus = "loading" => topologyLoad # None
    /\ selected = None => topologyLoad = None

ShownTypes ==
    /\ mesh \in Shape \cup {None}
    /\ lod \in Shape \cup {None} /\ lodPackage \in Entry \cup {None}
    /\ refs \in Picking \cup {None} /\ composition \in Picking \cup {None}
    /\ refs # None => DOMAIN refs.level = refs.nodes
    /\ composition # None => DOMAIN composition.level = composition.nodes

(* The package that is refined is the one on screen, whole, or nothing is   *)
(* on screen                                                                *)
LodOK ==
    /\ lod = None <=> lodPackage = None
    /\ lod # None => /\ mesh \in {None, lod} /\ lod.entry = lodPackage
                     /\ Package[lodPackage] \subseteq DOMAIN lod.level

SchedulerTypes ==
    /\ due \subseteq {"lod", "mesh", "topology"}
    /\ level \in Tessellations /\ inFlight \in Swaps \cup {None}

(* A scheduler that has been told of the package knows no finer level than  *)
(* the package's                                                            *)
SchedulerOK ==
    lod # None /\ "lod" \notin due
      => \A c \in DOMAIN level : c \in DOMAIN lod.level /\ level[c] <= lod.level[c]

ShownOK == ShownTypes /\ LodOK /\ PickingFollowsComposition
KnownOK == SchedulerTypes /\ SchedulerOK
ViewportIInv == LoadsOK /\ ShownOK /\ KnownOK

-----------------------------------------------------------------------------

LEMMA TessellationIs ==
    /\ \A f \in Tessellations : DOMAIN f \subseteq Cid /\ f \in [DOMAIN f -> Levels]
    /\ \A S \in SUBSET Cid : \A f \in [S -> Levels] : f \in Tessellations /\ DOMAIN f = S
BY DEF Tessellations

Pickable == UNION {[S -> Levels \cup {Missing}] : S \in SUBSET Cid}
LEMMA PickableIs ==
    /\ \A f \in Pickable : DOMAIN f \subseteq Cid /\ f \in [DOMAIN f -> Levels \cup {Missing}]
    /\ \A S \in SUBSET Cid : \A f \in [S -> Levels \cup {Missing}] : f \in Pickable /\ DOMAIN f = S
    /\ Picking = [entry : Entry, nodes : SUBSET Cid, level : Pickable]
BY DEF Pickable, Picking

LEMMA LevelsAre ==
    /\ 0 \in Levels /\ Levels \subseteq Nat
    /\ <<>> \in Tessellations
    /\ DOMAIN <<>> = {}
<1>1. Len(Chord) \in Nat /\ Len(Chord) > 0
  BY EntryAssumption
<1>2. 0 \in Levels /\ Levels \subseteq Nat
  BY <1>1 DEF Levels
<1>3. DOMAIN <<>> = {} /\ <<>> \in [{} -> Levels]
  OBVIOUS
<1>4. <<>> \in Tessellations
  BY <1>3 DEF Tessellations
<1> QED BY <1>2, <1>3, <1>4

(* What the scheduler asks for is a level there is                          *)
LEMMA EvaluateTyped ==
    ASSUME NEW lv \in Tessellations, NEW f, NEW z, NEW now \in Swaps \cup {None},
           NEW i \in Evaluate(lv, f, z, now)
    PROVE  i \in Swaps \cup {None}
<1>1. CASE i = now
  BY <1>1
<1>2. CASE \E c \in Worst(lv, f, z) : i = [cid |-> c, level |-> NextLevel(z[c], lv[c])]
  <2>1. PICK c \in DOMAIN lv : i = [cid |-> c, level |-> NextLevel(z[c], lv[c])]
    BY <1>2 DEF Worst, Plan
  <2>2. c \in Cid /\ lv[c] \in Levels
    BY TessellationIs
  <2>3. NextLevel(z[c], lv[c]) \in Levels
    <3>1. lv[c] \in 0 .. (Len(Chord) - 1) /\ Len(Chord) \in Nat
      BY <2>2, EntryAssumption DEF Levels
    <3>2. Upgrades(z[c], lv[c]) => lv[c] + 1 \in Levels
      BY DEF Upgrades
    <3>3. Downgrades(z[c], lv[c]) => lv[c] - 1 \in Levels
      BY <3>1 DEF Downgrades, Levels
    <3> QED BY <2>2, <3>2, <3>3 DEF NextLevel
  <2> QED BY <2>1, <2>2, <2>3 DEF Swaps
<1> QED BY <1>1, <1>2 DEF Evaluate

LEMMA PutIs ==
    ASSUME NEW f \in Tessellations, NEW c \in Cid, NEW l \in Levels
    PROVE  /\ Put(f, c, l) \in Tessellations
           /\ DOMAIN Put(f, c, l) = {c} \cup DOMAIN f
           /\ Put(f, c, l)[c] = l
           /\ \A d \in DOMAIN f \ {c} : Put(f, c, l)[d] = f[d]
<1>1. DOMAIN f \subseteq Cid /\ f \in [DOMAIN f -> Levels]
  BY TessellationIs
<1>2. Put(f, c, l) \in [{c} \cup DOMAIN f -> Levels]
  BY <1>1 DEF Put
<1> QED BY <1>1, <1>2, TessellationIs DEF Put

(* A wait that is disappointed                                              *)
LEMMA DisappointedMesh ==
    ASSUME NEW load \in MeshLoads \cup {None}, NEW e \in Entry
    PROVE  /\ Disappoint(load, e) \in MeshLoads \cup {None}
           /\ \A d \in Entry : Waits(load, d) /\ d # e => Waits(Disappoint(load, e), d)
<1>1. CASE Waits(load, e)
  <2>1. load \in MeshLoads /\ Disappoint(load, e) = [load EXCEPT !.stage = "null"]
    BY <1>1 DEF Waits, Disappoint
  <2> QED BY <1>1, <2>1 DEF MeshLoads, Waits
<1> QED BY <1>1 DEF Disappoint

LevelsTaken(load) == DOMAIN load.level = IF load.stage = "bundles" THEN load.nodes ELSE {}

LEMMA DisappointedTopology ==
    ASSUME NEW load \in TopologyLoads \cup {None}, load # None => LevelsTaken(load), NEW e \in Entry
    PROVE  /\ Disappoint(load, e) \in TopologyLoads \cup {None}
           /\ Disappoint(load, e) = None <=> load = None
           /\ load # None => LevelsTaken(Disappoint(load, e))
           /\ \A d \in Entry : Waits(load, d) /\ d # e => Waits(Disappoint(load, e), d)
<1>1. CASE Waits(load, e)
  <2>1. load \in TopologyLoads /\ Disappoint(load, e) = [load EXCEPT !.stage = "null"]
    BY <1>1 DEF Waits, Disappoint
  <2>2. Disappoint(load, e) \in TopologyLoads
    BY <2>1 DEF TopologyLoads
  <2>3. LevelsTaken(Disappoint(load, e))
    BY <1>1, <2>1 DEF TopologyLoads, LevelsTaken, Waits
  <2>4. \A d \in Entry : Waits(load, d) => d = e
    BY <1>1 DEF Waits
  <2> QED BY <2>1, <2>2, <2>3, <2>4, NoneAssumption
<1> QED BY <1>1 DEF Disappoint

LEMMA SwappedTyped ==
    ASSUME ShownTypes, NEW e \in Entry, NEW nodes \in SUBSET Cid
    PROVE  Swapped(e, nodes) \in [nodes -> Levels]
<1>1. lod # None => lod.level \in [DOMAIN lod.level -> Levels]
  BY TessellationIs DEF ShownTypes, Shape
<1> QED BY <1>1, LevelsAre DEF Swapped

LEMMA TopologyGoesOn ==
    ASSUME ShownTypes, NEW load \in TopologyLoads
    PROVE  /\ TopologyAfterDescriptor(load) \in TopologyLoads
           /\ LevelsTaken(TopologyAfterDescriptor(load))
           /\ TopologyAfterDescriptor(load).stage = "bundles"
<1>1. load.entry \in Entry /\ load.nodes \in SUBSET Cid
  BY DEF TopologyLoads
<1>2. Swapped(load.entry, load.nodes) \in Tessellations /\ DOMAIN Swapped(load.entry, load.nodes) = load.nodes
  BY <1>1, SwappedTyped, TessellationIs
<1> QED BY <1>2 DEF TopologyAfterDescriptor, TopologyLoads, LevelsTaken

-----------------------------------------------------------------------------
(* The loads and their shared promise                                       *)

(* An aborted load takes its promise with it, and disappoints the other     *)
LEMMA AbortMesh ==
    ASSUME LoadTypes, Owners,
           NEW d, d = AfterAbort(meshLoad, "mesh"),
           NEW t, t = IF Owns(meshLoad, "mesh") THEN Disappoint(topologyLoad, meshLoad.entry)
                                                ELSE topologyLoad
    PROVE  /\ d \in [Entry -> {"absent", "ready", "topology"}]
           /\ \A e \in Entry : d[e] = "topology" => Waits(t, e)
           /\ t \in TopologyLoads \cup {None} /\ (t = None <=> topologyLoad = None)
           /\ t # None => LevelsTaken(t)
<1>1. topologyLoad # None => LevelsTaken(topologyLoad)
  BY DEF LoadTypes, LevelsTaken
<1>2. CASE Owns(meshLoad, "mesh")
  <2>1. meshLoad.entry \in Entry /\ descriptor[meshLoad.entry] = "mesh"
    BY <1>2 DEF Owns, LoadTypes, MeshLoads
  <2>2. d = [descriptor EXCEPT ![meshLoad.entry] = "absent"] /\ t = Disappoint(topologyLoad, meshLoad.entry)
    BY <1>2 DEF AfterAbort
  <2>3. \A e \in Entry : descriptor[e] = "mesh" => e = meshLoad.entry
    BY DEF Owners, Waits
  <2>4. d \in [Entry -> {"absent", "ready", "topology"}]
    BY <2>1, <2>2, <2>3 DEF LoadTypes
  <2>5. ASSUME NEW e \in Entry, d[e] = "topology"
        PROVE  Waits(t, e)
    <3>1. descriptor[e] = "topology" /\ e # meshLoad.entry
      BY <2>1, <2>2, <2>5 DEF LoadTypes
    <3>2. Waits(topologyLoad, e)
      BY <3>1 DEF Owners
    <3> QED BY <1>1, <2>1, <2>2, <3>1, <3>2, DisappointedTopology DEF LoadTypes
  <2>6. /\ t \in TopologyLoads \cup {None} /\ (t = None <=> topologyLoad = None)
        /\ t # None => LevelsTaken(t)
    BY <1>1, <2>1, <2>2, DisappointedTopology DEF LoadTypes
  <2> QED BY <2>4, <2>5, <2>6
<1>3. CASE ~Owns(meshLoad, "mesh")
  <2>1. d = descriptor /\ t = topologyLoad
    BY <1>3 DEF AfterAbort
  <2>2. \A e \in Entry : descriptor[e] # "mesh"
    BY <1>3 DEF Owners, Waits, Owns
  <2> QED BY <1>1, <2>1, <2>2 DEF LoadTypes, Owners
<1> QED BY <1>2, <1>3

LEMMA AbortTopology ==
    ASSUME LoadTypes, Owners,
           NEW d, d = AfterAbort(topologyLoad, "topology"),
           NEW m, m = IF Owns(topologyLoad, "topology") THEN Disappoint(meshLoad, topologyLoad.entry)
                                                        ELSE meshLoad
    PROVE  /\ d \in [Entry -> {"absent", "ready", "mesh"}]
           /\ \A e \in Entry : d[e] = "mesh" => Waits(m, e)
           /\ m \in MeshLoads \cup {None}
<1>1. CASE Owns(topologyLoad, "topology")
  <2>1. topologyLoad.entry \in Entry /\ descriptor[topologyLoad.entry] = "topology"
    BY <1>1 DEF Owns, LoadTypes, TopologyLoads
  <2>2. d = [descriptor EXCEPT ![topologyLoad.entry] = "absent"] /\ m = Disappoint(meshLoad, topologyLoad.entry)
    BY <1>1 DEF AfterAbort
  <2>3. \A e \in Entry : descriptor[e] = "topology" => e = topologyLoad.entry
    BY DEF Owners, Waits
  <2>4. d \in [Entry -> {"absent", "ready", "mesh"}]
    BY <2>1, <2>2, <2>3 DEF LoadTypes
  <2>5. ASSUME NEW e \in Entry, d[e] = "mesh"
        PROVE  Waits(m, e)
    <3>1. descriptor[e] = "mesh" /\ e # topologyLoad.entry
      BY <2>1, <2>2, <2>5 DEF LoadTypes
    <3>2. Waits(meshLoad, e)
      BY <3>1 DEF Owners
    <3> QED BY <2>1, <2>2, <3>1, <3>2, DisappointedMesh DEF LoadTypes
  <2>6. m \in MeshLoads \cup {None}
    BY <2>1, <2>2, DisappointedMesh DEF LoadTypes
  <2> QED BY <2>4, <2>5, <2>6
<1>2. CASE ~Owns(topologyLoad, "topology")
  <2>1. d = descriptor /\ m = meshLoad
    BY <1>2 DEF AfterAbort
  <2>2. \A e \in Entry : descriptor[e] # "topology"
    BY <1>2 DEF Owners, Waits, Owns
  <2> QED BY <2>1, <2>2 DEF LoadTypes, Owners
<1> QED BY <1>1, <1>2

(* A promise that answers is nobody's any more                              *)
LEMMA DescriptorKeeps ==
    ASSUME LoadsOK, ShownTypes, NEW e \in Entry, DescriptorArrives(e) \/ DescriptorFails(e)
    PROVE  LoadsOK'
<1>1. LoadTypes /\ Owners /\ (topologyLoad # None => LevelsTaken(topologyLoad))
  BY DEF LoadsOK, LoadTypes, LevelsTaken
<1>2. CASE DescriptorArrives(e)
  <2>1. descriptor' = [descriptor EXCEPT ![e] = "ready"]
    BY <1>2 DEF DescriptorArrives
  <2>2. meshLoad' \in MeshLoads \cup {None} /\ \A d \in Entry \ {e} : Waits(meshLoad, d) => Waits(meshLoad', d)
    <3>1. CASE Waits(meshLoad, e)
      BY <1>1, <1>2, <3>1 DEF DescriptorArrives, LoadTypes, MeshLoads, Waits
    <3>2. CASE ~Waits(meshLoad, e)
      BY <1>1, <1>2, <3>2 DEF DescriptorArrives, LoadTypes
    <3> QED BY <3>1, <3>2
  <2>3. /\ topologyLoad' \in TopologyLoads \cup {None}
        /\ \A d \in Entry \ {e} : Waits(topologyLoad, d) => Waits(topologyLoad', d)
        /\ (topologyLoad = None <=> topologyLoad' = None)
        /\ topologyLoad' # None => LevelsTaken(topologyLoad')
    <3>1. CASE Waits(topologyLoad, e)
      <4>1. topologyLoad \in TopologyLoads /\ topologyLoad.entry = e
        BY <1>1, <3>1 DEF LoadTypes, Waits
      <4>2. topologyLoad' = TopologyAfterDescriptor(topologyLoad)
        BY <1>2, <3>1 DEF DescriptorArrives
      <4>3. topologyLoad' \in TopologyLoads /\ LevelsTaken(topologyLoad')
        BY <4>1, <4>2, TopologyGoesOn
      <4> QED BY <3>1, <4>1, <4>3, NoneAssumption DEF Waits
    <3>2. CASE ~Waits(topologyLoad, e)
      BY <1>1, <1>2, <3>2 DEF DescriptorArrives, LoadTypes
    <3> QED BY <3>1, <3>2
  <2>4. Owners'
    BY <1>1, <2>1, <2>2, <2>3 DEF Owners, LoadTypes
  <2>5. LoadTypes'
    BY <1>1, <2>1, <2>2, <2>3 DEF LoadTypes, LevelsTaken
  <2>6. UNCHANGED <<selected, rendered, expanded, topologyStatus>>
    BY <1>2 DEF DescriptorArrives, pageVars
  <2> QED BY <2>3, <2>4, <2>5, <2>6 DEF LoadsOK
<1>3. CASE DescriptorFails(e)
  <2>1. /\ descriptor' = [descriptor EXCEPT ![e] = "absent"]
        /\ meshLoad' = Disappoint(meshLoad, e) /\ topologyLoad' = Disappoint(topologyLoad, e)
        /\ UNCHANGED <<selected, rendered, expanded, topologyStatus>>
    BY <1>3 DEF DescriptorFails, pageVars
  <2>2. meshLoad' \in MeshLoads \cup {None} /\ \A d \in Entry \ {e} : Waits(meshLoad, d) => Waits(meshLoad', d)
    BY <1>1, <2>1, DisappointedMesh DEF LoadTypes
  <2>3. /\ topologyLoad' \in TopologyLoads \cup {None}
        /\ \A d \in Entry \ {e} : Waits(topologyLoad, d) => Waits(topologyLoad', d)
        /\ (topologyLoad = None <=> topologyLoad' = None)
        /\ topologyLoad' # None => LevelsTaken(topologyLoad')
    BY <1>1, <2>1, DisappointedTopology DEF LoadTypes
  <2>4. Owners'
    BY <1>1, <2>1, <2>2, <2>3 DEF Owners, LoadTypes
  <2>5. LoadTypes'
    BY <1>1, <2>1, <2>2, <2>3 DEF LoadTypes, LevelsTaken
  <2> QED BY <2>1, <2>3, <2>4, <2>5 DEF LoadsOK
<1> QED BY <1>2, <1>3

(* The mesh load is aborted, or ends                                        *)
LEMMA CancelMeshKeeps ==
    ASSUME LoadsOK, CancelMesh, UNCHANGED pageVars
    PROVE  LoadsOK'
<1>1. LoadTypes /\ Owners
  BY DEF LoadsOK
<1>2. /\ meshLoad' = None /\ descriptor' = AfterAbort(meshLoad, "mesh")
      /\ topologyLoad' = IF Owns(meshLoad, "mesh") THEN Disappoint(topologyLoad, meshLoad.entry)
                                                   ELSE topologyLoad
      /\ UNCHANGED <<topologyStatus, selected, rendered, expanded>>
  BY DEF CancelMesh, pageVars
<1>3. /\ descriptor' \in [Entry -> {"absent", "ready", "topology"}]
      /\ \A e \in Entry : descriptor'[e] = "topology" => Waits(topologyLoad', e)
      /\ topologyLoad' \in TopologyLoads \cup {None} /\ (topologyLoad' = None <=> topologyLoad = None)
      /\ topologyLoad' # None => LevelsTaken(topologyLoad')
  BY <1>1, <1>2, AbortMesh
<1> QED BY <1>2, <1>3 DEF LoadsOK, LoadTypes, Owners, LevelsTaken

LEMMA StartMeshKeeps ==
    ASSUME LoadsOK, NEW e \in Entry, StartMeshLoad(e), UNCHANGED pageVars
    PROVE  LoadsOK'
<1>1. LoadTypes /\ Owners
  BY DEF LoadsOK
<1>2. PICK d : d = AfterAbort(meshLoad, "mesh")
  OBVIOUS
<1>3. /\ descriptor' = AskDescriptor(d, e, "mesh")
      /\ meshLoad' = [entry |-> e, stage |-> IF d[e] = "ready" THEN "components" ELSE "descriptor"]
      /\ topologyLoad' = IF Owns(meshLoad, "mesh") THEN Disappoint(topologyLoad, meshLoad.entry)
                                                   ELSE topologyLoad
      /\ UNCHANGED <<topologyStatus, selected, rendered, expanded>>
  BY <1>2 DEF StartMeshLoad, pageVars
<1>4. /\ d \in [Entry -> {"absent", "ready", "topology"}]
      /\ \A x \in Entry : d[x] = "topology" => Waits(topologyLoad', x)
      /\ topologyLoad' \in TopologyLoads \cup {None} /\ (topologyLoad' = None <=> topologyLoad = None)
      /\ topologyLoad' # None => LevelsTaken(topologyLoad')
  BY <1>1, <1>2, <1>3, AbortMesh
<1>5. meshLoad' \in MeshLoads /\ meshLoad' # None
  BY <1>3, NoneAssumption DEF MeshLoads
<1>6. /\ descriptor' \in [Entry -> {"absent", "ready", "mesh", "topology"}]
      /\ \A x \in Entry \ {e} : descriptor'[x] = d[x]
      /\ descriptor'[e] \in {d[e], "mesh"} /\ (descriptor'[e] = "mesh" => d[e] = "absent")
  BY <1>3, <1>4 DEF AskDescriptor
<1>7. Owners'
  <2>1. descriptor'[e] = "mesh" => Waits(meshLoad', e)
    BY <1>3, <1>5, <1>6 DEF Waits
  <2>2. \A x \in Entry : descriptor'[x] = "mesh" => x = e
    BY <1>4, <1>6
  <2>3. \A x \in Entry : descriptor'[x] = "topology" => d[x] = "topology"
    BY <1>6
  <2> QED BY <1>4, <2>1, <2>2, <2>3 DEF Owners
<1> QED BY <1>3, <1>4, <1>5, <1>6, <1>7 DEF LoadsOK, LoadTypes, LevelsTaken

LEMMA MeshOverKeeps ==
    ASSUME LoadsOK, meshLoad # None, meshLoad.stage # "descriptor", meshLoad' = None,
           UNCHANGED <<pageVars, topologyLoad, topologyStatus, descriptor>>
    PROVE  LoadsOK'
<1>1. \A e \in Entry : descriptor[e] # "mesh"
  BY DEF LoadsOK, Owners, Waits
<1>2. UNCHANGED <<selected, rendered, expanded>>
  BY DEF pageVars
<1> QED BY <1>1, <1>2 DEF LoadsOK, LoadTypes, Owners

(* The topology load is aborted, started, or ends                           *)
LEMMA CancelTopologyKeeps ==
    ASSUME LoadsOK, CancelTopology, UNCHANGED pageVars,
           topologyStatus' \in {"idle", "disabled"} \/ (selected = None /\ UNCHANGED topologyStatus)
    PROVE  LoadsOK'
<1>1. LoadTypes /\ Owners
  BY DEF LoadsOK
<1>2. /\ topologyLoad' = None /\ descriptor' = AfterAbort(topologyLoad, "topology")
      /\ meshLoad' = IF Owns(topologyLoad, "topology") THEN Disappoint(meshLoad, topologyLoad.entry)
                                                       ELSE meshLoad
      /\ UNCHANGED <<selected, rendered, expanded>>
  BY DEF CancelTopology, pageVars
<1>3. /\ descriptor' \in [Entry -> {"absent", "ready", "mesh"}]
      /\ \A e \in Entry : descriptor'[e] = "mesh" => Waits(meshLoad', e)
      /\ meshLoad' \in MeshLoads \cup {None}
  BY <1>1, <1>2, AbortTopology
<1> QED BY <1>2, <1>3 DEF LoadsOK, LoadTypes, Owners

LEMMA StartTopologyKeeps ==
    ASSUME LoadsOK, ShownTypes, NEW e \in Entry, NEW nodes \in SUBSET Cid,
           StartTopologyLoad(e, nodes), selected # None, UNCHANGED pageVars
    PROVE  LoadsOK'
<1>1. LoadTypes /\ Owners
  BY DEF LoadsOK
<1>2. PICK d, load, poisoned :
        /\ d = AfterAbort(topologyLoad, "topology")
        /\ load = [entry |-> e, nodes |-> nodes, stage |-> "descriptor", level |-> <<>>]
        /\ poisoned = (Owns(topologyLoad, "topology") /\ topologyLoad.entry = e)
  OBVIOUS
<1>3. /\ descriptor' = IF poisoned THEN d ELSE AskDescriptor(d, e, "topology")
      /\ topologyLoad' = IF poisoned THEN Disappoint(load, e)
                         ELSE IF d[e] = "ready" THEN TopologyAfterDescriptor(load) ELSE load
      /\ meshLoad' = IF Owns(topologyLoad, "topology") THEN Disappoint(meshLoad, topologyLoad.entry)
                                                       ELSE meshLoad
      /\ topologyStatus' = "loading"
      /\ UNCHANGED <<selected, rendered, expanded>>
  BY <1>2 DEF StartTopologyLoad, pageVars
<1>4. /\ d \in [Entry -> {"absent", "ready", "mesh"}]
      /\ \A x \in Entry : d[x] = "mesh" => Waits(meshLoad', x)
      /\ meshLoad' \in MeshLoads \cup {None}
  BY <1>1, <1>2, <1>3, AbortTopology
<1>5. load \in TopologyLoads /\ LevelsTaken(load) /\ Waits(load, e)
  <2>1. load \in TopologyLoads /\ LevelsTaken(load)
    BY <1>2, LevelsAre DEF TopologyLoads, LevelsTaken
  <2> QED BY <1>2, <2>1, NoneAssumption DEF Waits
<1>6. /\ topologyLoad' \in TopologyLoads /\ topologyLoad' # None /\ LevelsTaken(topologyLoad')
      /\ ~poisoned /\ d[e] # "ready" => topologyLoad' = load
  <2>1. topologyLoad' \in {Disappoint(load, e), TopologyAfterDescriptor(load), load}
    BY <1>3
  <2>2. \A t \in {Disappoint(load, e), TopologyAfterDescriptor(load), load} :
          t \in TopologyLoads /\ LevelsTaken(t)
    BY <1>5, DisappointedTopology, TopologyGoesOn, NoneAssumption
  <2> QED BY <1>3, <2>1, <2>2, NoneAssumption
<1>7. /\ descriptor' \in [Entry -> {"absent", "ready", "mesh", "topology"}]
      /\ \A x \in Entry \ {e} : descriptor'[x] = d[x]
      /\ descriptor'[e] \in {d[e], "topology"}
      /\ descriptor'[e] = "topology" => d[e] = "absent" /\ ~poisoned
  BY <1>3, <1>4 DEF AskDescriptor
<1>8. Owners'
  <2>1. descriptor'[e] = "topology" => Waits(topologyLoad', e)
    BY <1>5, <1>6, <1>7
  <2>2. \A x \in Entry : descriptor'[x] = "topology" => x = e
    BY <1>4, <1>7
  <2>3. \A x \in Entry : descriptor'[x] = "mesh" => d[x] = "mesh"
    BY <1>7
  <2> QED BY <1>4, <2>1, <2>2, <2>3 DEF Owners
<1> QED BY <1>3, <1>4, <1>6, <1>7, <1>8 DEF LoadsOK, LoadTypes, LevelsTaken

LEMMA TopologyOverKeeps ==
    ASSUME LoadsOK, topologyLoad # None, topologyLoad.stage # "descriptor", topologyLoad' = None,
           topologyStatus' \in {"error", "ready"},
           UNCHANGED <<pageVars, meshLoad, descriptor>>
    PROVE  LoadsOK'
<1>1. \A e \in Entry : descriptor[e] # "topology"
  BY DEF LoadsOK, Owners, Waits
<1>2. UNCHANGED <<selected, rendered, expanded>>
  BY DEF pageVars
<1> QED BY <1>1, <1>2 DEF LoadsOK, LoadTypes, Owners

LEMMA RequestedIn == ASSUME LoadsOK PROVE Requested \in SUBSET Cid
BY EntryAssumption DEF LoadsOK, Requested

LEMMA LoadsUntouched ==
    ASSUME LoadsOK, UNCHANGED <<selected, rendered, expanded>>,
           UNCHANGED <<meshLoad, topologyLoad, topologyStatus, descriptor>>
    PROVE  LoadsOK'
BY DEF LoadsOK, LoadTypes, Owners, Waits

LEMMA UserKeepsLoads ==
    ASSUME LoadsOK, User \/ ArtifactReady
    PROVE  LoadsOK'
<1>1. UNCHANGED <<meshLoad, topologyLoad, topologyStatus, descriptor>>
  BY DEF User, Select, Refresh, Toggle, CameraMoves, ArtifactReady, meshVars, topologyVars
<1>2. /\ selected' \in Entry \cup {None} /\ rendered' \in BOOLEAN /\ expanded' \subseteq Cid
      /\ selected' = None => selected = None
  <2>1. ASSUME NEW e \in Entry, NEW ready \in BOOLEAN, Select(e, ready)
        PROVE  selected' = e /\ rendered' = ready /\ expanded' = expanded
    BY <2>1 DEF Select
  <2>2. ASSUME NEW c \in Cid, Toggle(c)
        PROVE  /\ UNCHANGED <<selected, rendered>> /\ expanded' \subseteq expanded \cup {c}
    BY <2>2 DEF Toggle
  <2>3. ASSUME Refresh \/ \E z \in Zooms : CameraMoves(z)
        PROVE  UNCHANGED <<selected, rendered, expanded>>
    BY <2>3 DEF Refresh, CameraMoves, pageVars
  <2>4. ASSUME ArtifactReady
        PROVE  UNCHANGED <<selected, expanded>> /\ rendered' = TRUE
    BY <2>4 DEF ArtifactReady
  <2> QED BY <2>1, <2>2, <2>3, <2>4, NoneAssumption DEF User, LoadsOK
<1> QED BY <1>1, <1>2 DEF LoadsOK, LoadTypes, Owners, Waits

LEMMA LoadsInductive ==
    ASSUME LoadsOK, ShownTypes, [Next]_vars
    PROVE  LoadsOK'
<1>1. CASE MeshEffect
  <2>1. UNCHANGED pageVars
    BY <1>1 DEF MeshEffect
  <2>2. CASE CancelMesh
    BY <2>1, <2>2, CancelMeshKeeps
  <2>3. CASE UNCHANGED <<meshVars, topologyVars, lodVars, descriptor>>
    BY <2>1, <2>3, LoadsUntouched DEF pageVars, meshVars, topologyVars
  <2>4. CASE selected # None /\ StartMeshLoad(selected)
    <3>1. selected \in Entry
      BY <2>4 DEF LoadsOK
    <3> QED BY <2>1, <2>4, <3>1, StartMeshKeeps
  <2> QED BY <1>1, <2>2, <2>3, <2>4 DEF MeshEffect
<1>2. CASE MeshArrives \/ MeshFails \/ MeshGetsNull
  BY <1>2, MeshOverKeeps DEF MeshArrives, MeshFails, MeshGetsNull, MeshEndsInError, topologyVars
<1>3. CASE TopologyEffect
  <2>1. UNCHANGED pageVars
    BY <1>3 DEF TopologyEffect
  <2>2. CASE selected = None /\ CancelTopology /\ UNCHANGED <<refs, topologyStatus>>
    BY <2>1, <2>2, CancelTopologyKeeps
  <2>3. CASE CancelTopology /\ topologyStatus' = IF rendered THEN "idle" ELSE "disabled"
    BY <2>1, <2>3, CancelTopologyKeeps
  <2>4. CASE UNCHANGED <<refs, topologyLoad, topologyStatus, meshLoad, descriptor>>
    BY <2>1, <2>4, LoadsUntouched DEF pageVars
  <2>5. CASE Requested # {} /\ StartTopologyLoad(selected, Requested)
    <3>1. selected \in Entry /\ selected # None /\ Requested \in SUBSET Cid
      BY <2>5, RequestedIn DEF LoadsOK, Requested
    <3> QED BY <2>1, <2>5, <3>1, StartTopologyKeeps
  <2> QED BY <1>3, <2>2, <2>3, <2>4, <2>5 DEF TopologyEffect
<1>4. CASE TopologyGetsNull \/ \E lost : TopologyArrives(lost)
  BY <1>4, TopologyOverKeeps DEF TopologyGetsNull, TopologyArrives, meshVars
<1>5. CASE \E e \in Entry : DescriptorArrives(e) \/ DescriptorFails(e)
  BY <1>5, DescriptorKeeps
<1>6. CASE LodEffect \/ Debounced \/ LevelArrives \/ LevelFails \/ UNCHANGED vars
  <2>1. UNCHANGED <<selected, rendered, expanded, meshLoad, topologyLoad, topologyStatus, descriptor>>
    BY <1>6 DEF LodEffect, Debounced, LevelArrives, LevelFails, vars, pageVars, meshVars, topologyVars
  <2> QED BY <2>1, LoadsUntouched
<1>7. CASE User \/ ArtifactReady
  BY <1>7, UserKeepsLoads
<1> QED BY <1>1, <1>2, <1>3, <1>4, <1>5, <1>6, <1>7 DEF Next, Effects, Answers, Failures

-----------------------------------------------------------------------------
(* What is drawn, what is picked and what the scheduler knows               *)

LEMMA ShownUntouched ==
    ASSUME ShownOK, UNCHANGED <<mesh, refs, composition, lod, lodPackage>>
    PROVE  ShownOK'
BY DEF ShownOK, ShownTypes, LodOK, PickingFollowsComposition

LEMMA MeshShown ==
    ASSUME ShownOK, LoadsOK, MeshEffect \/ MeshArrives
    PROVE  ShownOK'
<1>1. CASE MeshEffect
  <2>1. \/ UNCHANGED <<mesh, refs, composition, lod, lodPackage>>
        \/ mesh' = None /\ UNCHANGED <<refs, composition, lod, lodPackage>>
        \/ UNCHANGED <<mesh, refs>> /\ lod' = None /\ lodPackage' = None /\ composition' = None
    BY <1>1 DEF MeshEffect, CancelMesh, StartMeshLoad, meshVars, topologyVars, lodVars
  <2> QED BY <2>1 DEF ShownOK, ShownTypes, LodOK, PickingFollowsComposition
<1>2. CASE MeshArrives
  <2>1. PICK e, zero : e = meshLoad.entry /\ zero = [c \in Package[e] |-> 0]
    OBVIOUS
  <2>2. /\ mesh' = [entry |-> e, level |-> zero] /\ lod' = mesh' /\ lodPackage' = e
        /\ UNCHANGED <<refs, composition>>
    BY <1>2, <2>1 DEF MeshArrives, topologyVars
  <2>3. e \in Entry
    BY <1>2, <2>1 DEF MeshArrives, LoadsOK, LoadTypes, MeshLoads
  <2>4. zero \in Tessellations /\ DOMAIN zero = Package[e]
    BY <2>1, <2>3, LevelsAre, TessellationIs, EntryAssumption
  <2>5. mesh' \in Shape /\ lod' # None /\ lodPackage' # None
    BY <2>2, <2>3, <2>4, NoneAssumption DEF Shape
  <2> QED BY <2>2, <2>3, <2>4, <2>5 DEF ShownOK, ShownTypes, LodOK, PickingFollowsComposition
<1> QED BY <1>1, <1>2

LEMMA TopologyShown ==
    ASSUME ShownOK, LoadsOK, TopologyEffect \/ \E lost : TopologyArrives(lost)
    PROVE  ShownOK'
<1>1. CASE TopologyEffect
  <2>1. refs' \in {refs, None} /\ UNCHANGED <<mesh, composition, lod, lodPackage>>
    BY <1>1 DEF TopologyEffect, lodVars
  <2> QED BY <2>1 DEF ShownOK, ShownTypes, LodOK, PickingFollowsComposition
<1>2. ASSUME NEW lost, TopologyArrives(lost)
      PROVE  ShownOK'
  <2>1. PICK lv : lv = [c \in topologyLoad.nodes |->
                          IF c \in lost THEN Missing ELSE topologyLoad.level[c]]
    OBVIOUS
  <2>2. /\ topologyLoad # None /\ topologyLoad.stage = "bundles"
        /\ refs' = [entry |-> topologyLoad.entry, nodes |-> topologyLoad.nodes, level |-> lv]
        /\ composition' = refs' /\ UNCHANGED <<mesh, lod, lodPackage>>
    BY <1>2, <2>1 DEF TopologyArrives, meshVars, lodVars
  <2>3. /\ topologyLoad \in TopologyLoads
        /\ DOMAIN topologyLoad.level = topologyLoad.nodes
    BY <2>2 DEF LoadsOK, LoadTypes
  <2>4. /\ topologyLoad.entry \in Entry /\ topologyLoad.nodes \in SUBSET Cid
        /\ topologyLoad.level \in [topologyLoad.nodes -> Levels]
    BY <2>3, TessellationIs DEF TopologyLoads
  <2>5. lv \in [topologyLoad.nodes -> Levels \cup {Missing}]
    BY <2>1, <2>4
  <2>6. lv \in Pickable /\ DOMAIN lv = topologyLoad.nodes
    BY <2>4, <2>5, PickableIs
  <2>7. refs' \in Picking /\ DOMAIN refs'.level = refs'.nodes
    BY <2>2, <2>4, <2>6, PickableIs
  <2> QED BY <2>2, <2>7 DEF ShownOK, ShownTypes, LodOK, PickingFollowsComposition
<1> QED BY <1>1, <1>2

(* The swap of one component                                                *)
LEMMA RecomposeKeeps ==
    ASSUME ShownOK, NEW c, NEW l \in Levels, lod # None, Recompose(c, l)
    PROVE  /\ refs' \in Picking \cup {None} /\ composition' \in Picking \cup {None}
           /\ refs' # None => DOMAIN refs'.level = refs'.nodes
           /\ composition' # None => DOMAIN composition'.level = composition'.nodes
           /\ PickingFollowsComposition'
<1>1. CASE UNCHANGED <<refs, composition>>
  BY <1>1 DEF ShownOK, ShownTypes, PickingFollowsComposition
<1>2. CASE composition # None /\ File[composition.entry] = File[lod.entry] /\ c \in composition.nodes
  <2>1. composition \in Picking /\ DOMAIN composition.level = composition.nodes
    BY <1>2 DEF ShownOK, ShownTypes
  <2>2. /\ composition' = [composition EXCEPT !.level[c] = l]
        /\ refs' = IF refs # None /\ File[refs.entry] = File[composition.entry]
                     THEN composition' ELSE refs
    BY <1>2 DEF Recompose
  <2>3. [composition.level EXCEPT ![c] = l] \in Pickable
    BY <2>1, PickableIs
  <2>4. /\ composition' \in Picking /\ DOMAIN composition'.level = composition'.nodes
        /\ composition'.entry = composition.entry
    BY <2>1, <2>2, <2>3, PickableIs
  <2> QED BY <2>2, <2>4 DEF ShownOK, ShownTypes, PickingFollowsComposition
<1> QED BY <1>1, <1>2 DEF Recompose

LEMMA ApplyKeeps ==
    ASSUME ShownOK, NEW c \in Cid, NEW l \in Levels, Apply(c, l), UNCHANGED lodPackage
    PROVE  /\ ShownOK'
           /\ due \subseteq due' /\ due' \subseteq due \cup {"mesh", "topology"}
           /\ lod = None <=> lod' = None
           /\ lod # None => /\ DOMAIN lod'.level = {c} \cup DOMAIN lod.level
                             /\ lod'.level[c] = l
                             /\ \A d \in DOMAIN lod.level \ {c} : lod'.level[d] = lod.level[d]
<1>1. CASE lod = None
  BY <1>1, ShownUntouched DEF Apply
<1>2. CASE lod # None
  <2>1. /\ lod' = [lod EXCEPT !.level = Put(lod.level, c, l)]
        /\ mesh' = IF mesh # None /\ File[mesh.entry] = File[lod.entry] THEN lod' ELSE mesh
        /\ due' = IF mesh' = mesh THEN due ELSE due \cup {"mesh", "topology"}
        /\ Recompose(c, l)
    BY <1>2 DEF Apply
  <2>2. lod \in Shape /\ lod.entry \in Entry /\ lod.level \in Tessellations
    BY <1>2 DEF ShownOK, ShownTypes, Shape
  <2>3. PICK lv : lv = Put(lod.level, c, l)
    OBVIOUS
  <2>4. /\ lv \in Tessellations /\ DOMAIN lv = {c} \cup DOMAIN lod.level /\ lv[c] = l
        /\ \A d \in DOMAIN lod.level \ {c} : lv[d] = lod.level[d]
    BY <2>2, <2>3, PutIs
  <2>5. lod' \in Shape /\ lod'.level = lv /\ lod'.entry = lod.entry
    BY <2>1, <2>2, <2>3, <2>4 DEF Shape
  <2>6. lod' # None
    BY <2>5, NoneAssumption
  <2>7. mesh' \in {None, lod'}
    BY <1>2, <2>1 DEF ShownOK, LodOK
  <2>8. LodOK'
    BY <1>2, <2>4, <2>5, <2>6, <2>7 DEF ShownOK, LodOK
  <2>9. ShownTypes' /\ PickingFollowsComposition'
    <3>1. /\ refs' \in Picking \cup {None} /\ composition' \in Picking \cup {None}
          /\ refs' # None => DOMAIN refs'.level = refs'.nodes
          /\ composition' # None => DOMAIN composition'.level = composition'.nodes
          /\ PickingFollowsComposition'
      BY <1>2, <2>1, RecomposeKeeps
    <3>2. lodPackage' \in Entry \cup {None}
      BY DEF ShownOK, ShownTypes
    <3> QED BY <2>5, <2>7, <3>1, <3>2 DEF ShownTypes
  <2> QED BY <1>2, <2>1, <2>4, <2>5, <2>6, <2>8, <2>9 DEF ShownOK
<1> QED BY <1>1, <1>2

LEMMA LevelArrivesKeeps ==
    ASSUME ShownOK, KnownOK, LevelArrives
    PROVE  ShownOK' /\ KnownOK'
<1>1. UNCHANGED lodPackage /\ inFlight' \in Evaluate(level', failed, sample, None)
  BY DEF LevelArrives
<1>2. inFlight.cid \in Cid /\ inFlight.level \in Levels
  BY DEF LevelArrives, KnownOK, SchedulerTypes, Swaps
<1>3. CASE inFlight.cid \notin DOMAIN level
  <2>1. UNCHANGED <<level, mesh, refs, composition, lod, due>>
    BY <1>3 DEF LevelArrives
  <2>2. ShownOK'
    BY <1>1, <2>1, ShownUntouched
  <2>3. inFlight' \in Swaps \cup {None}
    BY <1>1, <2>1, EvaluateTyped DEF KnownOK, SchedulerTypes
  <2> QED BY <2>1, <2>2, <2>3 DEF KnownOK, SchedulerTypes, SchedulerOK
<1>4. CASE inFlight.cid \in DOMAIN level
  <2>1. PICK c, l : c = inFlight.cid /\ l = inFlight.level
    OBVIOUS
  <2>2. /\ c \in Cid /\ l \in Levels /\ l \in Nat /\ c \in DOMAIN level
        /\ level' = [level EXCEPT ![c] = l] /\ Apply(c, l)
    BY <1>2, <1>4, <2>1, LevelsAre DEF LevelArrives
  <2>3. /\ ShownOK' /\ due \subseteq due' /\ due' \subseteq due \cup {"mesh", "topology"}
        /\ lod = None <=> lod' = None
        /\ lod # None => /\ DOMAIN lod'.level = {c} \cup DOMAIN lod.level
                          /\ lod'.level[c] = l
                          /\ \A d \in DOMAIN lod.level \ {c} : lod'.level[d] = lod.level[d]
    BY <1>1, <2>2, ApplyKeeps
  <2>4. level' \in Tessellations
    BY <2>2, TessellationIs DEF KnownOK, SchedulerTypes
  <2>5. inFlight' \in Swaps \cup {None}
    BY <1>1, <2>4, EvaluateTyped
  <2>6. SchedulerOK'
    BY <2>2, <2>3 DEF KnownOK, SchedulerTypes, SchedulerOK
  <2> QED BY <2>3, <2>4, <2>5, <2>6 DEF KnownOK, SchedulerTypes
<1> QED BY <1>3, <1>4

LEMMA LodEffectKnown ==
    ASSUME ShownOK, KnownOK, LodEffect
    PROVE  KnownOK'
<1>1. /\ level' = IF lodPackage = None THEN <<>> ELSE [c \in Package[lodPackage] |-> 0]
      /\ due' = due \ {"lod"} /\ UNCHANGED lod
      /\ inFlight' = inFlight \/ inFlight' \in Evaluate(level', failed', sample, None)
  BY DEF LodEffect, lodVars
<1>2. CASE lodPackage = None
  <2>1. level' \in Tessellations /\ lod' = None
    BY <1>1, <1>2, LevelsAre DEF ShownOK, LodOK
  <2>2. inFlight' \in Swaps \cup {None}
    BY <1>1, <2>1, EvaluateTyped DEF KnownOK, SchedulerTypes
  <2> QED BY <1>1, <2>1, <2>2 DEF KnownOK, SchedulerTypes, SchedulerOK
<1>3. CASE lodPackage # None
  <2>1. lodPackage \in Entry /\ Package[lodPackage] \in SUBSET Cid
    BY <1>3, EntryAssumption DEF ShownOK, ShownTypes
  <2>2. level' = [c \in Package[lodPackage] |-> 0]
    BY <1>1, <1>3
  <2>3. level' \in Tessellations
    BY <2>1, <2>2, LevelsAre, TessellationIs
  <2>4. inFlight' \in Swaps \cup {None}
    BY <1>1, <2>3, EvaluateTyped DEF KnownOK, SchedulerTypes
  <2>5. \A c \in Package[lodPackage] : c \in DOMAIN lod.level /\ 0 <= lod.level[c]
    <3>1. lod # None /\ lod \in Shape /\ Package[lodPackage] \subseteq DOMAIN lod.level
      BY <1>3 DEF ShownOK, ShownTypes, LodOK
    <3>2. lod.level \in [DOMAIN lod.level -> Levels]
      BY <3>1, TessellationIs DEF Shape
    <3>3. \A n \in Levels : 0 <= n
      BY LevelsAre
    <3> QED BY <3>1, <3>2, <3>3
  <2>6. SchedulerOK'
    BY <1>1, <2>2, <2>5 DEF SchedulerOK
  <2> QED BY <1>1, <2>3, <2>4, <2>6 DEF KnownOK, SchedulerTypes
<1> QED BY <1>2, <1>3

LEMMA ShownKnownInductive ==
    ASSUME LoadsOK, ShownOK, KnownOK, [Next]_vars
    PROVE  ShownOK' /\ KnownOK'
<1>1. CASE MeshEffect
  <2>1. ShownOK'
    BY <1>1, MeshShown
  <2>2. /\ UNCHANGED <<level, inFlight>> /\ due' \subseteq due \cup {"lod", "topology"}
        /\ "lod" \notin due /\ lod' \in {lod, None}
    BY <1>1 DEF MeshEffect, StartMeshLoad, lodVars, schedulerVars
  <2> QED BY <2>1, <2>2 DEF KnownOK, SchedulerTypes, SchedulerOK
<1>2. CASE MeshArrives
  <2>1. ShownOK'
    BY <1>2, MeshShown
  <2>2. UNCHANGED <<level, inFlight>> /\ due' = due \cup {"lod", "mesh", "topology"}
    BY <1>2 DEF MeshArrives, schedulerVars
  <2> QED BY <2>1, <2>2 DEF KnownOK, SchedulerTypes, SchedulerOK
<1>3. CASE TopologyEffect \/ \E lost : TopologyArrives(lost)
  <2>1. ShownOK'
    BY <1>3, TopologyShown
  <2>2. /\ UNCHANGED <<level, inFlight, lod>>
        /\ due' = due \ {"topology"} \/ due' = due \cup {"topology"}
    BY <1>3 DEF TopologyEffect, TopologyArrives, lodVars, schedulerVars
  <2> QED BY <2>1, <2>2 DEF KnownOK, SchedulerTypes, SchedulerOK
<1>4. CASE LevelArrives
  BY <1>4, LevelArrivesKeeps
<1>5. CASE LodEffect
  <2>1. ShownOK'
    BY <1>5, ShownUntouched DEF LodEffect, meshVars, topologyVars, lodVars
  <2> QED BY <1>5, <2>1, LodEffectKnown
<1>6. CASE Debounced \/ LevelFails
  <2>1. ShownOK'
    BY <1>6, ShownUntouched DEF Debounced, LevelFails, meshVars, topologyVars, lodVars
  <2>2. UNCHANGED <<due, level, lod>>
    BY <1>6 DEF Debounced, LevelFails, lodVars
  <2>3. \/ inFlight' \in Evaluate(level, failed, sample, inFlight)
        \/ inFlight' \in Evaluate(level, failed', sample, None)
    BY <1>6 DEF Debounced, LevelFails
  <2>4. inFlight' \in Swaps \cup {None}
    BY <2>3, EvaluateTyped DEF KnownOK, SchedulerTypes
  <2> QED BY <2>1, <2>2, <2>4 DEF KnownOK, SchedulerTypes, SchedulerOK
<1>7. CASE \/ User \/ ArtifactReady \/ MeshFails \/ MeshGetsNull \/ TopologyGetsNull
           \/ \E e \in Entry : DescriptorArrives(e) \/ DescriptorFails(e)
           \/ UNCHANGED vars
  <2>1. UNCHANGED <<mesh, refs, composition, lod, lodPackage>>
    BY <1>7 DEF User, Select, Refresh, Toggle, CameraMoves, ArtifactReady, MeshFails, MeshGetsNull,
         MeshEndsInError, TopologyGetsNull, DescriptorArrives, DescriptorFails, vars, meshVars,
         topologyVars, lodVars
  <2>2. UNCHANGED <<level, inFlight>> /\ due \subseteq due' /\ due' \subseteq due \cup {"mesh", "topology"}
    BY <1>7 DEF User, Select, Refresh, Toggle, CameraMoves, ArtifactReady, MeshFails, MeshGetsNull,
         MeshEndsInError, TopologyGetsNull, DescriptorArrives, DescriptorFails, vars, schedulerVars
  <2>3. ShownOK'
    BY <2>1, ShownUntouched
  <2> QED BY <2>1, <2>2, <2>3 DEF KnownOK, SchedulerTypes, SchedulerOK
<1> QED BY <1>1, <1>2, <1>3, <1>4, <1>5, <1>6, <1>7 DEF Next, Effects, Answers, Failures

LEMMA ViewportInductive ==
    /\ Init => ViewportIInv
    /\ ViewportIInv /\ [Next]_vars => ViewportIInv'
<1>1. ASSUME Init
      PROVE  ViewportIInv
  <2>1. /\ selected = None /\ rendered = FALSE /\ expanded = {} /\ due = {}
        /\ mesh = None /\ meshLoad = None /\ refs = None /\ topologyLoad = None
        /\ topologyStatus = "idle" /\ composition = None /\ lod = None /\ lodPackage = None
        /\ descriptor = [e \in Entry |-> "absent"] /\ level = <<>> /\ inFlight = None
    BY <1>1 DEF Init
  <2>2. LoadsOK
    BY <2>1 DEF LoadsOK, LoadTypes, Owners
  <2>3. ShownOK
    BY <2>1 DEF ShownOK, ShownTypes, LodOK, PickingFollowsComposition
  <2>4. KnownOK
    BY <2>1, LevelsAre DEF KnownOK, SchedulerTypes, SchedulerOK
  <2> QED BY <2>2, <2>3, <2>4 DEF ViewportIInv
<1>2. ASSUME ViewportIInv, [Next]_vars
      PROVE  ViewportIInv'
  BY <1>2, LoadsInductive, ShownKnownInductive DEF ViewportIInv, ShownOK
<1> QED BY <1>1, <1>2

(* Every flow's state has its type; a promise's load is there and waits     *)
THEOREM ViewportTyped == Spec => []ViewportTypeOK
<1>1. ViewportIInv => ViewportTypeOK
  BY DEF ViewportIInv, LoadsOK, LoadTypes, Owners, ShownOK, ShownTypes, KnownOK, SchedulerTypes,
      Swaps, ViewportTypeOK
<1> QED BY <1>1, ViewportInductive, PTL DEF Spec

(* Through every swap, reload and stripped artifact, a scheduler that was   *)
(* handed the package on screen takes no component for finer than it is     *)
(* drawn (lodScheduler, useCadAssets.applyComponentLodPayload)              *)
THEOREM TakenForFiner == Spec => []NeverTakenForFiner
<1>1. ViewportIInv => NeverTakenForFiner
  <2> SUFFICES ASSUME ViewportIInv, "lod" \notin due, lodPackage # None, mesh # None,
                      NEW c \in DOMAIN level
               PROVE  level[c] <= mesh.level[c]
    BY DEF NeverTakenForFiner
  <2>1. lod # None /\ mesh = lod
    BY DEF ViewportIInv, ShownOK, LodOK
  <2> QED BY <2>1 DEF ViewportIInv, KnownOK, SchedulerOK
<1> QED BY <1>1, ViewportInductive, PTL DEF Spec

(* What is picked is the remembered composition, with all the swaps made    *)
(* since it was loaded (recomposeReferenceStateForLod)                      *)
THEOREM PickingFollows == Spec => []PickingFollowsComposition
<1>1. ViewportIInv => PickingFollowsComposition
  BY DEF ViewportIInv, ShownOK
<1> QED BY <1>1, ViewportInductive, PTL DEF Spec

=============================================================================
