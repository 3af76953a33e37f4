----------------------------- MODULE AssetCache -----------------------------
(***************************************************************************)
(* The page-lifetime asset caches of cadgen-js (lib/renderAssetClient.js,  *)
(* with its fork lib/stepRenderAssetClient.js), the worker clients behind  *)
(* them and the source scope that keeps one job's geometry out of the next *)
(* job's picture.  A load looks in a typed cache (mesh, picking); a        *)
(* component surface looks in the payload cache too, which also holds the  *)
(* finer levels on a bounded leash.  A miss asks a worker and, when there  *)
(* is none or it fails, builds inline from bytes fetched once per URL.     *)
(*                                                                         *)
(* A load without an AbortSignal caches its promise; one with a signal     *)
(* caches only what it has loaded, so that its abort fails nobody else.    *)
(* Only the interactive viewer passes signals and loads component          *)
(* surfaces; it never leaves its one scope.  The page of the batch         *)
(* renderer runs job after job, each under its own scope, without signals. *)
(***************************************************************************)
EXTENDS Integers, Sequences, FiniteSets

CONSTANTS
  Files,      \* URLs of whole-file assets (GLB, STL, 3MF)
  Surfs,      \* URLs of component surfaces
  Levels,     \* tessellation levels; 0 is the default one
  LodLimit,   \* SURF_LOD_CACHE_LIMIT
  Jobs,       \* the sources the jobs of a batch page render
  Viewer,     \* the one scope of an interactive page
  MaxLoads,   \* bound: loads started
  MaxFaults,  \* bound: failed fetches and broken workers
  None

\* The keys of the typed caches, of the bytes and of the payloads are apart.
ASSUME CacheAssumption ==
  /\ 0 \in Levels /\ Levels \subseteq Nat
  /\ LodLimit \in Nat \ {0} /\ MaxLoads \in Nat /\ MaxFaults \in Nat
  /\ Files \cap Surfs = {} /\ Surfs \cap {"mesh", "picking", "bytes"} = {}
  /\ Viewer \notin Jobs /\ None \notin Jobs \cup {Viewer}

VARIABLES
  scope,     \* activeAssetSourceScope
  recorded,  \* assetSourceScopes: the scope each key was claimed for
  cache,     \* the Maps: what each key holds
  leash,     \* surfLodKeys, oldest first
  loads,     \* every load started so far
  requests,  \* pendingRequests of the worker clients
  faults

vars == <<scope, recorded, cache, leash, loads, requests, faults>>

-----------------------------------------------------------------------------
(* Keys, entries and loads. *)

Scopes == Jobs \cup {Viewer}
Urls == Files \cup Surfs
Typed == {"mesh", "picking"} \X Urls
LodKeys == Surfs \X (Levels \ {0})
Keys == Typed \cup {"bytes"} \X Urls \cup Surfs \X Levels

Empty == [is |-> "empty", by |-> 0, from |-> None]
Pending(l) == [is |-> "pending", by |-> l, from |-> loads[l].scope]
Ready(s) == [is |-> "ready", by |-> 0, from |-> s]

Ids == DOMAIN loads
Fresh == Len(loads) + 1
Settled == {"done", "failed", "refused", "aborted"}

Unsignalled == [want : {"mesh", "picking"}, url : Files, level : {0}, signal : {FALSE}]
Signalled == [want : {"mesh", "picking"}, url : Files, level : {0}, signal : {TRUE}]
       \cup [want : {"mesh", "picking"}, url : Surfs, level : {0}, signal : {TRUE}]
       \cup [want : {"level"}, url : Surfs, level : Levels \ {0}, signal : {TRUE}]
Requests == IF scope = Viewer THEN Unsignalled \cup Signalled ELSE Unsignalled

TypedKeys(q) == {<<q.want, q.url>>} \cap Typed
PayloadKeys(q) == {<<q.url, q.level>>} \cap (Surfs \X Levels)
Bytes(q) == <<"bytes", q.url>>

\* The first cache a load looks in.
Front(q) == IF q.want = "level" THEN <<q.url, q.level>> ELSE <<q.want, q.url>>
\* Where a load that cannot answer from its front cache looks next.
Behind(q) == PayloadKeys(q) \ {Front(q)}

-----------------------------------------------------------------------------
(* Source scopes.  ForeignButBytes, EvictedNone, DegradedOne and LetGoAll   *)
(* are deliberate mistakes that show what the properties catch.             *)

Occupied(k) == cache[k].is # "empty"
ForeignButBytes(k) == k[1] # "bytes" /\ Occupied(k) /\ recorded[k] \notin {None, scope}
Foreign(k) == Occupied(k) /\ recorded[k] \notin {None, scope}

Claimed(ks) ==
  [k \in Keys |-> IF k \in ks /\ (~ Occupied(k) \/ recorded[k] = None)
                  THEN scope ELSE recorded[k]]

\* A failed promise leaves the cache and its claim, unless another load has
\* put a value there meanwhile.
Dropped(l) == {k \in TypedKeys(loads[l]) : cache[k].is = "pending" /\ cache[k].by = l}

-----------------------------------------------------------------------------

Init ==
  /\ scope \in Scopes
  /\ recorded = [k \in Keys |-> None]
  /\ cache = [k \in Keys |-> Empty]
  /\ leash = <<>>
  /\ loads = <<>>
  /\ requests = {}
  /\ faults = 0

NewLoad(q, at, from, on) ==
  [want |-> q.want, url |-> q.url, level |-> q.level, signal |-> q.signal,
   scope |-> scope, at |-> at, from |-> from, on |-> on]

\* The next job of a packet starts once the loads of the last one are over.
NewJob ==
  /\ scope \in Jobs
  /\ \A l \in Ids : loads[l].at \in Settled
  /\ scope' \in Jobs \ {scope}
  /\ UNCHANGED <<recorded, cache, leash, loads, requests, faults>>

\* Keys the synchronous part of a load checks, in order: it stops at a hit.
Checked(q) == {Front(q)} \cup (IF cache[Front(q)].is = "ready" THEN {} ELSE Behind(q))

Refused(q) ==
  /\ \E k \in Checked(q) : Foreign(k)
  /\ loads' = Append(loads, NewLoad(q, "refused", None, 0))
  /\ recorded' = IF Foreign(Front(q)) THEN recorded ELSE Claimed({Front(q)})
  /\ UNCHANGED <<scope, cache, leash, requests, faults>>

\* retainSurfLodEntry: spliced out, to the end of the leash, the oldest falls off.
OnLeash == {leash[i] : i \in DOMAIN leash}
Others(k) ==
  IF k \notin OnLeash THEN leash
  ELSE LET at == CHOOSE i \in DOMAIN leash : leash[i] = k
       IN  [i \in 1..(Len(leash) - 1) |-> leash[IF i < at THEN i ELSE i + 1]]
Retain(k) == IF Len(Others(k)) < LodLimit THEN Append(Others(k), k)
             ELSE Append(Tail(Others(k)), k)
EvictedNone(k) == {}
Evicted(k) == OnLeash \ {Retain(k)[i] : i \in DOMAIN Retain(k)}

\* finalizeCached of every key on the load's path, after the leash.
Publish(q, from) ==
  LET ks == TypedKeys(q) \cup PayloadKeys(q)
      lod == ks \cap LodKeys
      gone == UNION {Evicted(k) : k \in lod}
  IN  /\ cache' = [k \in Keys |-> IF k \in ks THEN Ready(from)
                                  ELSE IF k \in gone THEN Empty ELSE cache[k]]
      /\ leash' = IF lod = {} THEN leash ELSE Retain(CHOOSE k \in lod : TRUE)

Hit(q) ==
  /\ \A k \in Checked(q) : ~ Foreign(k)
  /\ \E k \in Checked(q) :
       /\ cache[k].is = "ready"
       /\ Publish(q, cache[k].from)
       /\ loads' = Append(loads, NewLoad(q, "done", cache[k].from, 0))
  /\ recorded' = Claimed(Checked(q))
  /\ UNCHANGED <<scope, requests, faults>>

Join(q) ==
  /\ ~ q.signal
  /\ ~ Foreign(Front(q))
  /\ cache[Front(q)].is = "pending"
  /\ loads' = Append(loads, NewLoad(q, "joined", None, cache[Front(q)].by))
  /\ recorded' = Claimed({Front(q)})
  /\ UNCHANGED <<scope, cache, leash, requests, faults>>

\* A miss: a surface waits for the worker client's import, a mesh file asks
\* its worker when it has one, and everything else is built from the bytes.
Miss(q) ==
  /\ \A k \in Checked(q) : ~ Foreign(k) /\ cache[k].is # "ready"
  /\ cache[Front(q)].is = "empty" \/ q.signal
  /\ \E at \in IF q.url \in Surfs THEN {"importing"}
               ELSE IF q.want = "mesh" THEN {"asked", "degraded"} ELSE {"degraded"} :
       /\ loads' = Append(loads, NewLoad(q, at, None, 0))
       /\ requests' = IF at = "asked" THEN requests \cup {Fresh} ELSE requests
  /\ cache' = IF q.signal THEN cache
              ELSE [cache EXCEPT ![Front(q)] = [is |-> "pending", by |-> Fresh, from |-> scope]]
  /\ recorded' = Claimed(Checked(q))
  /\ UNCHANGED <<scope, leash, faults>>

Begin ==
  /\ Fresh <= MaxLoads
  /\ \E q \in Requests : Refused(q) \/ Hit(q) \/ Join(q) \/ Miss(q)

Moves(l, at) == loads' = [loads EXCEPT ![l].at = at]

\* loadSurfComponentInWorker, once the import is there.
Ask(l) ==
  /\ loads[l].at = "importing"
  /\ \/ Moves(l, "asked") /\ requests' = requests \cup {l}
     \/ Moves(l, "degraded") /\ UNCHANGED requests
  /\ UNCHANGED <<scope, recorded, cache, leash, faults>>

WorkerAnswers(l) ==
  /\ l \in requests
  /\ requests' = requests \ {l}
  /\ Moves(l, "answered")
  /\ UNCHANGED <<scope, recorded, cache, leash, faults>>

\* The worker answers with an error: the load degrades to an inline build.
WorkerRefuses(l) ==
  /\ l \in requests /\ faults < MaxFaults
  /\ requests' = requests \ {l}
  /\ Moves(l, "degraded")
  /\ faults' = faults + 1
  /\ UNCHANGED <<scope, recorded, cache, leash>>

\* An error event of a worker, of this pool or late from the last one, tears
\* the whole pool down: rejectAllPending.
DegradedOne(ls) == [l \in Ids |-> IF ls # {} /\ l = CHOOSE i \in ls : TRUE
                                  THEN [loads[l] EXCEPT !.at = "degraded"] ELSE loads[l]]
Degraded(ls) == [l \in Ids |-> IF l \in ls THEN [loads[l] EXCEPT !.at = "degraded"] ELSE loads[l]]
WorkerBreaks ==
  /\ faults < MaxFaults
  /\ faults' = faults + 1
  /\ \E pool \in {Files, Surfs} :
       LET poisoned == {l \in requests : loads[l].url \in pool}
       IN  /\ poisoned # {}
           /\ loads' = Degraded(poisoned)
           /\ requests' = requests \ poisoned
  /\ UNCHANGED <<scope, recorded, cache, leash>>

\* loadRenderArrayBuffer: one fetch per URL, shared by everyone, bound to no
\* consumer's signal.
AskBytes(l) ==
  LET b == Bytes(loads[l])
  IN  /\ loads[l].at = "degraded"
      /\ \/ /\ Foreign(b)
            /\ loads' = [loads EXCEPT ![l].at = "refused"]
            /\ cache' = [k \in Keys |-> IF k \in Dropped(l) THEN Empty ELSE cache[k]]
            /\ recorded' = [k \in Keys |-> IF k \in Dropped(l) THEN None ELSE recorded[k]]
         \/ /\ ~ Foreign(b)
            /\ Moves(l, IF cache[b].is = "ready" THEN "built" ELSE "fetching")
            /\ cache' = IF Occupied(b) THEN cache
                        ELSE [cache EXCEPT ![b] = [is |-> "pending", by |-> 0, from |-> scope]]
            /\ recorded' = Claimed({b})
      /\ UNCHANGED <<scope, leash, requests, faults>>

Waiting(u) == {l \in Ids : loads[l].at = "fetching" /\ loads[l].url = u}

FetchArrives(u) ==
  LET b == <<"bytes", u>>
  IN  /\ cache[b].is = "pending"
      /\ cache' = [cache EXCEPT ![b] = Ready(cache[b].from)]
      /\ loads' = [l \in Ids |-> IF l \in Waiting(u) THEN [loads[l] EXCEPT !.at = "built"] ELSE loads[l]]
      /\ UNCHANGED <<scope, recorded, leash, requests, faults>>

FetchFails(u) ==
  LET b == <<"bytes", u>>
  IN  /\ cache[b].is = "pending" /\ faults < MaxFaults
      /\ cache' = [cache EXCEPT ![b] = Empty]
      /\ recorded' = [recorded EXCEPT ![b] = None]
      /\ loads' = [l \in Ids |-> IF l \in Waiting(u) THEN [loads[l] EXCEPT !.at = "lost"] ELSE loads[l]]
      /\ faults' = faults + 1
      /\ UNCHANGED <<scope, leash, requests>>

\* The payload is there: loadCached stores it, the leash takes it, the caller
\* has it.  A joined load does the same with the payload of its promise.
Source(l) == IF loads[l].at = "built" THEN cache[Bytes(loads[l])].from ELSE loads[l].scope

Finish(l) ==
  /\ loads[l].at \in {"built", "answered"}
  /\ Publish(loads[l], Source(l))
  /\ loads' = [loads EXCEPT ![l].at = "done", ![l].from = Source(l)]
  /\ UNCHANGED <<scope, recorded, requests, faults>>

\* loadCached's catch: a failed promise leaves the cache, its claim with it.
Forgets(ks) ==
  /\ cache' = [k \in Keys |-> IF k \in ks THEN Empty ELSE cache[k]]
  /\ recorded' = [k \in Keys |-> IF k \in ks THEN None ELSE recorded[k]]

Fail(l) ==
  /\ loads[l].at = "lost"
  /\ Moves(l, "failed")
  /\ Forgets(Dropped(l))
  /\ UNCHANGED <<scope, leash, requests, faults>>

Resume(l) ==
  LET owner == loads[loads[l].on]
  IN  /\ loads[l].at = "joined"
      /\ owner.at \in Settled
      /\ loads' = [loads EXCEPT ![l].at = owner.at, ![l].from = owner.from]
      /\ IF owner.at = "done" THEN Publish(loads[l], owner.from)
                              ELSE UNCHANGED <<cache, leash>>
      /\ UNCHANGED <<scope, recorded, requests, faults>>

\* A consumer gives up: its own promise rejects, its worker request is
\* cancelled, and the shared fetch goes on.
LetGoAll(l) == loads' = [i \in Ids |-> IF i = l THEN [loads[i] EXCEPT !.at = "aborted"]
                                       ELSE IF i \in Waiting(loads[l].url)
                                       THEN [loads[i] EXCEPT !.at = "lost"] ELSE loads[i]]
LetGo(l) == loads' = [loads EXCEPT ![l].at = "aborted"]
Abort(l) ==
  /\ loads[l].signal
  /\ loads[l].at \in {"importing", "asked", "fetching"}
  /\ LetGo(l)
  /\ requests' = requests \ {l}
  /\ UNCHANGED <<scope, recorded, cache, leash, faults>>

Next ==
  \/ NewJob
  \/ Begin
  \/ WorkerBreaks
  \/ \E u \in Urls : FetchArrives(u) \/ FetchFails(u)
  \/ \E l \in Ids : \/ Ask(l) \/ WorkerAnswers(l) \/ WorkerRefuses(l) \/ AskBytes(l)
                    \/ Finish(l) \/ Fail(l) \/ Resume(l) \/ Abort(l)

\* The browser answers every fetch, every worker its request, and the page
\* runs the continuations; nobody has to abort, fail or start anything.
Fairness ==
  /\ \A u \in Urls : WF_vars(FetchArrives(u))
  /\ \A l \in 1..MaxLoads :
       WF_vars(l \in Ids /\ (\/ Ask(l) \/ WorkerAnswers(l) \/ AskBytes(l)
                             \/ Finish(l) \/ Fail(l) \/ Resume(l)))

Spec == Init /\ [][Next]_vars /\ Fairness

-----------------------------------------------------------------------------
(* Properties. *)

Load == [want : {"mesh", "picking", "level"}, url : Urls, level : Levels, signal : BOOLEAN,
         scope : Scopes, from : Scopes \cup {None}, on : 0..MaxLoads,
         at : {"importing", "asked", "answered", "degraded", "fetching", "built",
               "lost", "joined"} \cup Settled]

\* The state is well typed, a worker holds a request exactly while its load
\* waits for it, and a promise in a typed cache is one a live load will settle
\* (renderAssetClient.js:69-95, surfWorkerClient.js:83-134): a settled promise
\* left behind would answer its failure to everyone, for the page's lifetime.
CacheTypeOK ==
  /\ scope \in Scopes
  /\ recorded \in [Keys -> Scopes \cup {None}]
  /\ cache \in [Keys -> [is : {"empty", "pending", "ready"}, by : 0..MaxLoads,
                         from : Scopes \cup {None}]]
  /\ leash \in Seq(LodKeys)
  /\ loads \in Seq(Load) /\ Len(loads) <= MaxLoads
  /\ faults \in 0..MaxFaults
  /\ requests = {l \in Ids : loads[l].at = "asked"}
  /\ \A k \in Typed : cache[k].is = "pending" =>
       /\ cache[k].by \in Ids
       /\ loads[cache[k].by].at \notin Settled

\* One consumer's abort is its own: while nothing has failed, no load fails,
\* whoever else gives up in the middle of the fetch they share
\* (loadRenderArrayBuffer and withConsumerAbort, renderAssetClient.js:171-249).
AbortIsPrivate == faults = 0 => \A l \in Ids : loads[l].at \notin {"lost", "failed"}

\* The leash and the cache agree: the finer levels held are exactly those on
\* the leash, each once, and never more than the limit (:573-599).
LeashHolds ==
  /\ Len(leash) <= LodLimit
  /\ OnLeash = {k \in LodKeys : cache[k].is # "empty"}
  /\ Cardinality(OnLeash) = Len(leash)

\* No load is answered with what was loaded for another source
\* (renderAssetSourceScope.js:1-10): the next job's picture is never drawn with
\* the last job's geometry, whichever of the caches would have answered.
NoForeignAnswer == \A l \in Ids : loads[l].at = "done" => loads[l].from = loads[l].scope

\* Every load ends: in a payload, in its own abort or in an error, whatever
\* workers and fetches fail under it (surfWorkerClient.js:83-134).
EveryLoadEnds == []<>(\A l \in Ids : loads[l].at \in Settled)

\* "One request per component URL produces BOTH consumers' payloads [...] from
\* a single tessellation" (renderAssetClient.js:556-558): two loads of one
\* component never tessellate it at the same time.
OneRequestPerUrl ==
  \A l, j \in requests :
    loads[l].url \in Surfs /\ loads[l].url = loads[j].url /\ loads[l].level = loads[j].level => l = j
=============================================================================
