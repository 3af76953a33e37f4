-------------------------- MODULE ArtifactClient --------------------------
(* The render artifact of the selected document, as the viewer's page sees  *)
(* it: the hook useArtifact (one status read, one build POST, a poll beside *)
(* it), the catalogue store it restarts on, and the answers of the viewer's *)
(* server it talks to.                                                      *)
(*                                                                          *)
(* Document bytes are version numbers.  A tree belongs to one version.      *)
EXTENDS Naturals, FiniteSets

CONSTANTS
    MaxVersion,     \* bound: the document is rewritten at most this often
    MaxRuns,        \* bound: jobs the daemon lists at once
    MaxActs,        \* bound: visits, terminal builds, lost and late requests together
    Unreadable,     \* versions whose compile fails
    PeersFail,      \* a build in a terminal may fail
    Nil             \* no run

ASSUME BoundsAssumption ==
    /\ {MaxVersion, MaxRuns, MaxActs} \subseteq Nat
    /\ Nil \notin Nat
    /\ Unreadable \subseteq 0 .. MaxVersion
    /\ PeersFail \in BOOLEAN

VARIABLES
    \* --- the viewer's server and the daemon
    bytes,          \* version of the document on disk
    trees,          \* versions that have a tree
    ledger,         \* run -> [state, by, on]: the daemon's job ledger
    orphan,         \* a POST of an aborted effect is still to be served
    feed,           \* the copy of the ledger the viewer's server keeps for 0.25 s
    \* --- the page: cadManifestStore
    manifest,       \* the catalogue entry of the document: [bytes, tree]
    revision,       \* the snapshot's revision, part of the hook's key
    broken,         \* catalogError
    refresh,        \* the refresh in flight
    \* --- the page: useArtifact
    visited,        \* the document is the selected entry
    effect,         \* the key the running effect closed over
    ui,             \* the hook's state
    get, poll, post,\* its requests, and what came back
    pollTimer,      \* the next poll is armed
    attached,
    shownRun,       \* shownRunId
    \* --- bounds and history
    acts,
    posts,          \* POSTs sent by the running effect
    excuse          \* why the running effect may show a readable document as failed

server == <<bytes, trees, ledger, orphan, feed>>
store == <<manifest, revision, broken, refresh>>
requests == <<get, poll, post, pollTimer, attached, shownRun, posts, excuse>>
hook == <<effect, ui, requests>>
bounds == <<visited, acts>>
artifactVars == <<server, store, hook, bounds>>

Versions == 0 .. MaxVersion
Runs == 1 .. MaxRuns
Catalogs == [bytes : Versions, tree : BOOLEAN]
Statuses == [state : {"rendered", "compiling", "not-compiled", "failed"},
             run : Runs \cup {Nil}]
Live == {"running", "done", "failed"}
Job == [state : Live \cup {"unlisted"},
        by : {"viewer", "peer", Nil}, on : Versions]
NoJob == [state |-> "unlisted", by |-> Nil, on |-> 0]

Idle == [st |-> "idle"]
Asked == [st |-> "asked"]
Answer(a) == [st |-> "answered", val |-> a]

(* fileRef and freshnessKey: a new revision is a new key *)
NoKey == [rev |-> Nil]
Key == [rev |-> IF visited THEN revision ELSE Nil]

(* What the page renders: READY until this very key has settled *)
Shown == IF visited /\ ui.key = Key THEN ui.status ELSE "rendered"

-----------------------------------------------------------------------------
(* The server and the daemon behind it *)

Catalog == [bytes |-> bytes, tree |-> bytes \in trees]
Seen == [r \in Runs |-> ledger[r].state]
Listed(S, f) == {r \in Runs : f[r] \in S}
Latest(S) == CHOOSE r \in S : \A q \in S : q <= r

(* DocumentCompiler._in_flight: the viewer's own compile of this document *)
InFlight == {r \in Listed({"running"}, Seen) : ledger[r].by = "viewer"}

(* Builds of a terminal whose declared output is this document *)
Peers == Listed({"running"}, Seen) \ InFlight

(* build_progress_snapshot over the feed, then our own compile *)
Snapshot ==
    LET running == Listed({"running"}, feed)
        finished == Listed({"done", "failed"}, feed)
    IN  IF running # {} THEN [writing |-> TRUE, run |-> Latest(running), failed |-> FALSE]
        ELSE IF finished # {} /\ feed[Latest(finished)] = "failed"
             THEN [writing |-> FALSE, run |-> Nil, failed |-> TRUE]
        ELSE [writing |-> InFlight # {}, run |-> Nil, failed |-> FALSE]

(* GET /__cad/artifact *)
Status ==
    LET s == Snapshot
    IN  [state |-> IF s.writing THEN "compiling"
                   ELSE IF bytes \in trees THEN "rendered"
                   ELSE IF s.failed THEN "failed" ELSE "not-compiled",
         run |-> s.run]

Newest == IF Listed(Live, Seen) = {} THEN 0 ELSE Latest(Listed(Live, Seen))

Act == acts < MaxActs /\ acts' = acts + 1

(* The document is rewritten by a tool that leaves no tree *)
Edit ==
    /\ bytes + Cardinality(Peers) < MaxVersion
    /\ bytes' = bytes + 1
    /\ UNCHANGED <<trees, ledger, orphan, feed, store, hook, bounds>>

(* Jobs are numbered in the order they start *)
StartJob(by) ==
    \E r \in Runs :
        /\ r = Newest + 1
        /\ ledger' = [ledger EXCEPT ![r] = [state |-> "running", by |-> by, on |-> bytes]]

(* python model.py in a terminal *)
PeerBuilds ==
    /\ Act
    /\ Peers = {}
    /\ bytes < MaxVersion
    /\ StartJob("peer")
    /\ UNCHANGED <<bytes, trees, orphan, feed, store, hook, visited>>

(* A job ends. A compile leaves the tree of the bytes it read, a model's    *)
(* build leaves new bytes and their tree. Whoever is attached is told.      *)
JobEnds(r, ok) ==
    /\ ledger[r].state = "running"
    /\ ledger' = [ledger EXCEPT ![r] = [NoJob EXCEPT !.state = IF ok THEN "done" ELSE "failed"]]
    /\ IF r \in InFlight
       THEN /\ ok = (ledger[r].on \notin Unreadable)
            /\ trees' = IF ok THEN trees \cup {ledger[r].on} ELSE trees
            /\ UNCHANGED bytes
       ELSE /\ ok \/ PeersFail
            /\ trees' = IF ok THEN trees \cup {bytes + 1} ELSE trees
            /\ bytes' = IF ok THEN bytes + 1 ELSE bytes
    /\ post' = IF post = [st |-> "waiting", run |-> r] THEN [st |-> "built", ok |-> ok] ELSE post
    /\ UNCHANGED <<orphan, feed, store, effect, ui, get, poll, pollTimer, attached, shownRun, posts, excuse, bounds>>

(* RETAIN_SECONDS after its end the ledger forgets a job *)
Forget(r) ==
    /\ ledger[r].state \in {"done", "failed"}
    /\ ledger' = [ledger EXCEPT ![r] = NoJob]
    /\ UNCHANGED <<bytes, trees, orphan, feed, store, hook, bounds>>

(* FEED_CACHE_SECONDS are over and the daemon is asked again *)
ReadFeed ==
    /\ feed # Seen
    /\ feed' = Seen
    /\ UNCHANGED <<bytes, trees, ledger, orphan, store, hook, bounds>>

(* The answer blames the document for the failure of another build: one of  *)
(* a terminal, or of bytes that have been rewritten since                   *)
ServeGet ==
    /\ get = Asked
    /\ get' = Answer(Status)
    /\ excuse' = IF Status.state = "failed" /\ bytes \notin Unreadable
                 THEN excuse \cup {"blamed"} ELSE excuse
    /\ UNCHANGED <<server, store, effect, ui, poll, post, pollTimer, attached, shownRun, posts, bounds>>

ServePoll ==
    /\ poll = Asked
    /\ poll' = Answer(Status)
    /\ UNCHANGED <<server, store, effect, ui, get, post, pollTimer, attached, shownRun, posts, excuse, bounds>>

(* Faulty: no registry of compiles in flight *)
CompileAlways == StartJob("viewer")

(* DocumentCompiler.compile: own the compile of the document, or attach *)
Compile == IF InFlight = {} THEN StartJob("viewer") ELSE UNCHANGED ledger

(* POST /__cad/artifact *)
ServePost ==
    /\ post = Asked
    /\ Compile
    /\ \E r \in Runs :
          /\ ledger'[r].state = "running" /\ ledger'[r].by = "viewer"
          /\ post' = [st |-> "waiting", run |-> r]
    /\ UNCHANGED <<bytes, trees, orphan, feed, store, effect, ui, get, poll, pollTimer, attached, shownRun, posts, excuse, bounds>>

ServeOrphan ==
    /\ orphan
    /\ orphan' = FALSE
    /\ Compile
    /\ UNCHANGED <<bytes, trees, feed, store, hook, bounds>>

(* The answer of a build carries a catalogue scanned after it *)
AnswerPost ==
    /\ post.st = "built"
    /\ post' = Answer([ok |-> post.ok, catalog |-> Catalog])
    /\ UNCHANGED <<server, store, effect, ui, get, poll, pollTimer, attached, shownRun, posts, excuse, bounds>>

-----------------------------------------------------------------------------
(* The catalogue store *)

(* publishCadManifest: a snapshot that says nothing new is not published *)
Publish(catalog, error) ==
    /\ manifest' = catalog
    /\ broken' = error
    /\ revision' = IF catalog = manifest /\ error = broken THEN revision ELSE revision + 1

(* The two-second loop, the focus and visibility events, a watch event of   *)
(* the dev server: one refresh at a time. This is the moment the server     *)
(* scans; until then a refresh that was asked changes nothing               *)
ServeCatalog ==
    /\ refresh = Idle
    /\ refresh' = Answer(Catalog)
    /\ UNCHANGED <<server, manifest, revision, broken, hook, bounds>>

RefreshArrives ==
    /\ refresh.st = "answered"
    /\ refresh' = Idle
    /\ Publish(refresh.val, FALSE)
    /\ UNCHANGED <<server, hook, bounds>>

(* A time-out of ten seconds, or an answer that is not ok *)
RefreshFails ==
    /\ Act
    /\ refresh' = Idle
    /\ Publish(manifest, TRUE)
    /\ UNCHANGED <<server, hook, visited>>

-----------------------------------------------------------------------------
(* The hook *)

(* The user selects the document or another entry *)
Visit ==
    /\ Act
    /\ visited' = ~visited
    /\ UNCHANGED <<server, store, hook>>

(* React runs the effect of a new key: the clean-up of the old one stops    *)
(* its timer and aborts its requests, whose continuations then do nothing.  *)
(* A POST that is aborted on its way may still reach the server.            *)
RunEffect ==
    /\ effect # Key
    /\ effect' = Key
    /\ get' = IF visited THEN Asked ELSE Idle
    /\ poll' = Idle
    /\ post' = Idle
    /\ pollTimer' = FALSE
    /\ attached' = FALSE
    /\ shownRun' = Nil
    /\ posts' = 0
    /\ excuse' = {}
    /\ \/ UNCHANGED <<orphan, acts>>
       \/ post = Asked /\ Act /\ orphan' = TRUE
    /\ UNCHANGED <<bytes, trees, ledger, feed, store, ui, visited>>

Settle(status) == ui' = [key |-> effect, status |-> status, progress |-> Nil]

ShowGenerating(status) ==
    /\ shownRun' = status.run
    /\ ui' = [key |-> effect, status |-> "compiling", progress |-> status.run]

(* artifactActionFor *)
ActionFor(status) ==
    CASE status.state \in {"rendered", "failed"} -> status.state
      [] status.state = "compiling" -> "attach"
      [] OTHER -> "build"

(* Faulty: a POST of its own leaves the hook attached *)
ResolveStaysAttached ==
    /\ get.st = "answered"
    /\ get' = Idle
    /\ LET status == get.val
           action == ActionFor(status)
       IN  \/ /\ action \in {"rendered", "failed"}
              /\ Settle(action)
              /\ UNCHANGED <<post, pollTimer, attached, shownRun, posts>>
           \/ /\ action = "attach"
              /\ attached' = TRUE
              /\ ShowGenerating(status)
              /\ pollTimer' = TRUE
              /\ UNCHANGED <<post, posts>>
           \/ /\ action = "build"
              /\ UNCHANGED attached
              /\ ShowGenerating(status)
              /\ pollTimer' = TRUE
              /\ post' = Asked
              /\ posts' = posts + 1
    /\ UNCHANGED <<server, store, effect, poll, excuse, bounds>>

(* resolve: the status read came back *)
Resolve ==
    /\ get.st = "answered"
    /\ get' = Idle
    /\ LET status == get.val
           action == ActionFor(status)
       IN  \/ /\ action \in {"rendered", "failed"}
              /\ Settle(action)
              /\ UNCHANGED <<post, pollTimer, attached, shownRun, posts>>
           \/ /\ action = "attach"
              /\ attached' = TRUE
              /\ ShowGenerating(status)
              /\ pollTimer' = TRUE
              /\ UNCHANGED <<post, posts>>
           \/ /\ action = "build"
              /\ attached' = FALSE
              /\ ShowGenerating(status)
              /\ pollTimer' = TRUE
              /\ post' = Asked
              /\ posts' = posts + 1
    /\ UNCHANGED <<server, store, effect, poll, excuse, bounds>>

(* requestArtifact: a failed build is an HTTP error, which publishes no     *)
(* catalogue                                                                *)
Receive(answer) ==
    IF answer.ok THEN Publish(answer.catalog, FALSE)
    ELSE UNCHANGED <<manifest, revision, broken>>

(* resolve goes on after its POST, or in its catch *)
PostArrives ==
    /\ post.st = "answered"
    /\ post' = Idle
    /\ pollTimer' = FALSE
    /\ Receive(post.val)
    /\ Settle(IF post.val.ok THEN "rendered" ELSE "failed")
    /\ UNCHANGED <<server, refresh, effect, get, poll, attached, shownRun, posts, excuse, bounds>>

(* resolve's catch: its status read or its POST is lost on the network, or  *)
(* answered with an error of the server. The hook settles, and does not     *)
(* resolve this key again.                                                  *)
Lost ==
    /\ Act
    /\ pollTimer' = FALSE
    /\ Settle("failed")
    /\ excuse' = excuse \cup {"lost"}

GetFails ==
    /\ get # Idle
    /\ get' = Idle
    /\ Lost
    /\ UNCHANGED <<server, store, effect, poll, post, attached, shownRun, posts, visited>>

(* The server may have the POST all the same, and serves it                 *)
PostLost ==
    /\ post # Idle
    /\ post' = Idle
    /\ Lost
    /\ \/ UNCHANGED orphan
       \/ post = Asked /\ orphan' = TRUE
    /\ UNCHANGED <<bytes, trees, ledger, feed, store, effect, get, poll, attached, shownRun, posts, visited>>

TimerFires ==
    /\ pollTimer
    /\ pollTimer' = FALSE
    /\ poll' = Asked
    /\ UNCHANGED <<server, store, effect, ui, get, post, attached, shownRun, posts, excuse, bounds>>

(* reconcileArtifactRun: the position of one run is not carried to another *)
Reconcile(status) ==
    LET handedOff == status.run # Nil /\ shownRun # Nil /\ status.run # shownRun
    IN  [run |-> IF status.run = Nil THEN shownRun ELSE status.run,
         progress |-> IF handedOff THEN Nil ELSE status.run,
         handedOff |-> handedOff]

(* mergeProgress *)
Merge(status) ==
    LET r == Reconcile(status)
    IN  /\ shownRun' = r.run
        /\ ui' = IF ui.key = effect /\ (r.progress # Nil \/ r.handedOff)
                 THEN [ui EXCEPT !.progress = r.progress] ELSE ui

(* Faulty: an attached poll waits for somebody else to notice the end *)
PollArrivesOnly ==
    /\ poll.st = "answered"
    /\ poll' = Idle
    /\ Merge(poll.val)
    /\ pollTimer' = TRUE
    /\ UNCHANGED <<server, store, effect, get, post, attached, posts, excuse, bounds>>

(* pollProgress goes on: an attached poll that sees the run over resolves   *)
(* again, any other arms the next timer                                     *)
PollArrives ==
    /\ poll.st = "answered"
    /\ poll' = Idle
    /\ Merge(poll.val)
    /\ \/ /\ attached /\ poll.val.state # "compiling"
          /\ get' = Asked
          /\ pollTimer' = FALSE
       \/ /\ ~(attached /\ poll.val.state # "compiling")
          /\ pollTimer' = TRUE
          /\ UNCHANGED get
    /\ UNCHANGED <<server, store, effect, post, attached, posts, excuse, bounds>>

(* Faulty: a failed poll is the last *)
PollFailsForGood ==
    /\ poll # Idle
    /\ Act
    /\ poll' = Idle
    /\ UNCHANGED <<server, store, effect, ui, get, post, pollTimer, attached, shownRun, posts, excuse, visited>>

(* A lost poll is ignored: the next one is armed *)
PollFails ==
    /\ poll # Idle
    /\ Act
    /\ poll' = Idle
    /\ pollTimer' = TRUE
    /\ UNCHANGED <<server, store, effect, ui, get, post, attached, shownRun, posts, excuse, visited>>

-----------------------------------------------------------------------------
ArtifactInit ==
    /\ bytes = 0
    /\ trees \in SUBSET {0}
    /\ ledger = [r \in Runs |-> NoJob]
    /\ feed = Seen
    /\ manifest = Catalog
    /\ revision = 0
    /\ broken = FALSE
    /\ refresh = Idle
    /\ visited = TRUE
    /\ effect = NoKey
    /\ ui = [key |-> NoKey, status |-> "rendered", progress |-> Nil]
    /\ get = Idle /\ poll = Idle /\ post = Idle
    /\ pollTimer = FALSE /\ attached = FALSE /\ shownRun = Nil /\ orphan = FALSE
    /\ acts = 0 /\ posts = 0 /\ excuse = {}

Served ==
    \/ \E r \in Runs, ok \in BOOLEAN : JobEnds(r, ok)
    \/ ReadFeed
    \/ ServeGet \/ ServePoll \/ ServePost \/ ServeOrphan \/ AnswerPost \/ ServeCatalog

Page ==
    \/ RefreshArrives \/ RunEffect \/ Resolve \/ PostArrives \/ TimerFires \/ PollArrives

ArtifactNext ==
    \/ Served \/ Page
    \/ Edit \/ PeerBuilds \/ Visit \/ RefreshFails \/ PollFails \/ GetFails \/ PostLost
    \/ \E r \in Runs : Forget(r)

(* Requests are answered, timers fire, effects run, jobs end and the ledger *)
(* forgets them; nobody has to edit, select, build in a terminal or lose a  *)
(* request                                                                  *)
ArtifactSpec ==
    /\ ArtifactInit /\ [][ArtifactNext]_artifactVars
    /\ \A r \in Runs : WF_artifactVars(\E ok \in BOOLEAN : JobEnds(r, ok))
    /\ \A r \in Runs : WF_artifactVars(Forget(r))
    /\ WF_artifactVars(ReadFeed) /\ WF_artifactVars(ServeGet) /\ WF_artifactVars(ServePoll)
    /\ WF_artifactVars(ServePost) /\ WF_artifactVars(AnswerPost) /\ WF_artifactVars(ServeCatalog)
    /\ WF_artifactVars(RefreshArrives) /\ WF_artifactVars(RunEffect) /\ WF_artifactVars(Resolve)
    /\ WF_artifactVars(PostArrives) /\ WF_artifactVars(TimerFires) /\ WF_artifactVars(PollArrives)

-----------------------------------------------------------------------------
ArtifactTypeOK ==
    /\ bytes \in Versions /\ trees \subseteq Versions
    /\ ledger \in [Runs -> Job] /\ feed \in [Runs -> Live \cup {"unlisted"}]
    /\ manifest \in Catalogs /\ revision \in Nat /\ broken \in BOOLEAN
    /\ refresh \in {Idle} \cup {Answer(c) : c \in Catalogs}
    /\ visited \in BOOLEAN
    /\ {effect, ui.key} \subseteq [rev : Nat \cup {Nil}]
    /\ ui.status \in {"rendered", "compiling", "failed"}
    /\ {shownRun, ui.progress} \subseteq Runs \cup {Nil}
    /\ {get, poll} \subseteq {Idle, Asked} \cup {Answer(s) : s \in Statuses}
    /\ {orphan, pollTimer, attached} \subseteq BOOLEAN
    /\ posts \in Nat /\ acts \in 0 .. MaxActs /\ excuse \subseteq {"lost", "blamed"}

(* While the page says "compiling" of the selected document, something is   *)
(* on its way that will change that: a request, or an armed poll. A poll    *)
(* that fails, a build that ends or a key that changes never leaves the     *)
(* page waiting for nothing. (useArtifact)                                  *)
CompilingIsWatched ==
    (Shown = "compiling" /\ effect = Key)
        => get # Idle \/ poll # Idle \/ pollTimer \/ post # Idle

(* One effect sends at most one build POST, whatever its polls read and in  *)
(* whatever order they return: the POST "stays the only writer".            *)
OnePostPerEffect == posts <= 1

(* The server runs one compile of the document at a time, though the        *)
(* requests of aborted effects live on in it. (DocumentCompiler.compile)    *)
OneCompileAtATime == Cardinality(InFlight) <= 1

(* The page agrees with the server: a selected document is compiled and     *)
(* rendered, or shown as failed because it cannot be compiled or because of *)
(* one of the given excuses                                                 *)
Agrees(excuses) ==
    /\ manifest = Catalog
    /\ visited => \/ Shown = "rendered" /\ bytes \in trees
                  \/ Shown = "failed" /\ (bytes \in Unreadable \/ excuse \cap excuses # {})

(* Once nobody edits any more, the page's catalogue becomes the server's    *)
(* and stays so, although a build's answer and a refresh arrive in either   *)
(* order; and a selected document ends up rendered from its tree or failed: *)
(* no effect that was cut off by a new key, no lost poll and no stale feed  *)
(* leaves it uncompiled or busy. A readable document ends up failed only if *)
(* the running effect lost its own status read or POST, or the server       *)
(* answered it with another build's failure. (useArtifact, cadManifestStore)*)
SettlesOnTruth == <>[]Agrees({"lost", "blamed"})

(* The hook's comment reserves `error` for "a fatal build/source failure"   *)
(* (useArtifact.js:21): a lost request is not the last word on a document.  *)
LossIsNotFailure == <>[]Agrees({"blamed"})

(* "A missing or stale cache is NOT surfaced as an issue: the hook simply   *)
(* triggers a build" (useArtifact.js:22-23): a document whose own bytes     *)
(* compile is compiled, whatever other build has failed.                    *)
StaleIsRebuilt == <>[]Agrees({"lost"})

(* "While the build POST is in flight it is polled for PROGRESS"            *)
(* (useArtifact.js:29): nothing is polled once the page has settled.        *)
PollsOnlyWhileCompiling ==
    (effect = Key /\ ui.key = Key /\ ui.status # "compiling" /\ get = Idle) => ~pollTimer

=============================================================================
