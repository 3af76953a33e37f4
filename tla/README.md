# Formal models of cadgen, its viewer and its box builder

This directory holds TLA+ models of the parts of this repository in which several
things happen at once, or in an order nobody chose:

* the **build system** (Python, `src/packages/cadgen`): a *gate* decides whether a
  stored model is still what its sources make; if not, a worker process runs the
  script, its body calls further models, and the result goes into a
  content-addressed store with a *record* that names it. Processes do this at
  once, with no lock around the store, and any of them may be killed;
* the **viewer page** (JavaScript, `src/apps/viewer` with `src/packages/cadgen-js`):
  a page shows one model of a directory, asks a server to compile it, loads and
  caches its meshes, refines them as the camera moves, and remembers each file's
  state in tabs, the URL and session storage;
* the **box builder** (JavaScript, `src/packages/box-builder`): an editor with undo,
  drags, a draft, saves to a host, and circuit boards that follow templates.

Paths without `src/` in front are relative to the package named beside them.

## 1. The system

| Component | Files | State | Operations | Interacts with |
|---|---|---|---|---|
| Broker, job slots | cadgen `daemon/broker.py` | counter, queue, running leases | enqueue, grant, cancel, release by close or death | one connection per request; every build body |
| Broker, in-flight registry | cadgen `daemon/broker.py` | (model, closure hash) -> job | claim, join, finish | request threads of the server |
| Request relay, watchdog | cadgen `daemon/server.py` | request threads | claim, acquire a worker, relay, finish, kill an orphan's worker | broker, pool, ledger, clients |
| Warm worker pool | cadgen `daemon/pool.py` | workers, spares pending, closed | acquire, release, spawn, fill, unbind, reap, shut down | request threads, fill threads, idle timer |
| Composition of models | cadgen `authoring.py`, `store/lazy.py`, `executors.py` | frames, pending children, pins | call a child, submit, force, pin | gate, broker, server |
| Gate, publish rule, record | cadgen `store/gate.py`, `store/publish.py`, `_internal/generation.py`, `generation_runner.py`, `mesh_export.py` | sources, record, outputs on disk | gate, hash, write, decide, publish, mesh ledger | concurrent builds through the file system |
| Compiles of the selected document | viewer `useArtifact.js`, `cadManifestStore.js`, `artifactResolution.js`; cadgen `viewer/compiles.py`, `build_progress.py`, `artifact_status.py`, `cadgen_ops.py` | catalogue, hook state, requests, job feed | effect, status read, build POST, poll, refresh | page, server, jobs of other processes |
| Viewport assets, level of detail | viewer `useCadAssets.js`, `CadWorkspace.js`, `lodScheduler.js`, `useViewportLod.js`; cadgen-js `lodPolicy.js`, `packageReferenceComposition.js` | mesh, picking, descriptor promise, level of each component | load, abort, swap a level, recompose | caches, React effects, the camera |
| Asset caches and workers | cadgen-js `renderAssetClient.js`, `stepRenderAssetClient.js`, `renderAssetSourceScope.js`, the worker clients | promise caches, leash, scope, pending requests | hit, join, miss, claim, publish, evict, fail, abort | every load of page and batch renderer |
| File sessions, tabs, URL | viewer `CadWorkspace.js`, `useCadDirectorySession.js`, `fileSessionState.js`, `persistence.js` | selection, tabs, motion, stored sessions, URL | select, go back, edit, play, save, remove, rebuild, reload | catalogue, browser history, sidecar loads |
| Stored boxes, board templates | cadgen `viewer/boxes.py`, `viewer/board_presets.py` | a `box.json` for each name, one template list | load, save, publish | the editor, whoever writes the file |
| Box editor | box-builder `ui/useBoxBuilder.js`, `ui/BoxBuilderSheet.js`, `ui/BoxBuilderViewport.js`, `ui/useBoardPresets.js` | document, history, drag, draft, saved key | edit, undo, drag, save, open, rename, follow a template | stored boxes and templates |
| Boards in the box | box-builder `core/boxBoards.js`, `core/boxSpec.js`, `core/boxEdits.js`, `core/boxPlan.js` (the inside) | a board, the box | resize, mount, turn, flip, snap, fit | the editor |
| Source closure | cadgen `store/closure.py`, `_internal/source_hash.py` | hashes per execution | note, hash on execution, close | the build |
| Object store, gc, forget | cadgen `store/objects.py`, `gc.py`, `forget.py`, `index.py` | objects, index entries | put, mark and sweep, forget | builds in progress |
| Daemon client, singleton; job ledger | cadgen `daemon/client.py`, `transport.py`, `jobs.py` | socket, key, locks; jobs | connect or spawn, drain, restart; observe, adopt, finish | all clients |
| Geometry, formats, rendering, panels, documentation site, scripts | the rest | - | - | - |

`PROJECT.json` lists every component with its status, and under `hazards` every
place of the code where something can go wrong that a test would hardly reach.

**What is hard.** (1) Waiting: a parent waits for a child that needs a job slot
itself; joined requests wait for somebody else's build; a page attached to a
peer's build has only its own poll to tell it the build is over. (2) No lock
around the store: sources change while they are read, two builds write the same
paths, a build may be killed between any two writes. (3) Critical sections given
up in the middle (`Pool.acquire`), and their JavaScript form: what was read before
an `await` is used after it. (4) Answers out of order: catalogues, polls, POSTs,
meshes, selectors, sidecars and saves all arrive when they arrive, perhaps for
something that is no longer selected. (5) Shared promises: one caller's abort or
failure is everyone's unless the code takes care. (6) Counters and lists kept
beside what they count: slots, spares on their way, the leash of finer levels, the
undo history. (7) Long sequences of legal operations that must lead back.

**What makes each part correct.** Slots: bounded, FIFO, never lost, served in the
end. Build graph: kernel work only with a slot, nothing built twice under one key, no
request unanswered, no answer older than what the request was keyed on, a gate that
misses nothing below a model. Store: a
record has its tree, the gate tells the truth, nothing stale replaces something
current, the model settles. Pool: no process shared, a reserve that neither
overflows nor stays empty. Page: it never waits for nothing, posts once, settles
on what the server has, draws and picks what is selected at settled levels. Caches:
an abort is private, nothing of another source, a bounded leash. Sessions: no
mixing of files, the URL is the selection, edits end in storage. Editor: undo leads
back, "saved" means stored, up to the form the page gives a document, the draft follows.
Boards: what is resized returns where rounding allows it,
ports face their walls, a fitted box has room.

## 2. Modules

| Module | Models | Uses |
|---|---|---|
| `SlotService` | what a client may rely on: a pool of `Limit` slots | - |
| `JobSlots` | the broker's semaphore | implements `SlotService` |
| `BuildGraph` | builds that call builds | composes the slots of `SlotService` |
| `ModelStore` | concurrent builds of one model against the store | - |
| `WorkerPool` | the warm workers | - |
| `ArtifactClient` | the page, its catalogue and the server around one document | - |
| `ViewportAssets` | mesh, picking and levels of the selected model | - |
| `AssetCache` | caches, worker clients and source scopes | - |
| `FileSession` | selection, tabs, URL, motion and stored sessions | - |
| `BoxEditor` | the edited box | - |
| `BoxBoards` | a board and the box around it | - |
| `JobSlotsProofs`, `BuildGraphProofs`, `ModelStoreProofs`, `WorkerPoolProofs`, `AssetCacheProofs`, `FileSessionProofs` | theorems | the module they are named after, TLAPS |
| `PageProofs` | theorems | `ArtifactClient` and `ViewportAssets`, TLAPS |
| `BoxBuilderProofs` | theorems | `BoxEditor` and `BoxBoards`, TLAPS |
| `MC*` | constants and small instances for TLC | the module they are named after |

The page's modules meet at named points. `ArtifactClient` decides when a document
has a tree; in `ViewportAssets` that is the one action `ArtifactReady`, in
`FileSession` `Compiling` and `Compiled`. A load of `ViewportAssets` is a load of
`AssetCache`, whose only effect on its caller is to end in an answer, an error or
its own abort: `EveryLoadEnds` and `AbortIsPrivate` are what the fairness and the
failure actions of `ViewportAssets` assume. `BoxBoards` is what one edit of
`BoxEditor` does to the document.

Operators whose comment begins with "Faulty:" are deliberate mistakes. They are
used by nothing: each is put in the place of the definition that follows it to
see that the property named with it in `PROJECT.json` (`mutants`) notices.
`PROJECT.json` (`map`) gives the source lines of every definition.

### JobSlots, and the service it implements

`next`, `queue` and `running` are `Broker._next`, `_queue` and `_running`.
`granted` and `gone` are what the connection knows: the grant was sent, the
client has closed or died. Each server thread in `_serve_slot` is the actions
`Grant` (the head test after a wake-up), `Cancel` (the peer hung up while
queued), `SendGrant`, and `Release` (the stream ended, or the send failed). The
client end is `Enqueue` and `Close`; a clean release and a death look the same to
the broker, and so they do here. `SlotService` knows none of this: requests ask,
take and leave. A lease whose client is gone but which the broker has not yet
removed is, for the service, over: the refinement maps `holding` to the granted
leases that still have a client.

### BuildGraph

A job is a request: from a user (`parent = 0`) or from the body of another job.
It goes through the phases of `_handle_request` and of the worker: `sent`, then
`joined` to the build in flight for the same key, or `gate`, `queued` for a slot,
`building`, `waiting` for a child (the slot is given back), `resuming` (asks
again), `ending`, `ended`. A body calls its children in order
(`_compose_child`): itself (`CallItself`, refused), one it has already called
(`CallAgain`), a current one (`CallCurrent`), a stale one (`CallStale`, which
submits). When the geometry of a submitted child is read the job yields its slot
(`Yield`), waits, asks again, and pins the child's record (`PinChild`) or fails
(`ChildFailed`). `Publish` applies the publish rule and writes the record: the
steps inside it are `ModelStore`'s subject. Faults: the body raises, the worker
dies, the OS refuses a process (`SpawnRaises`), and the watchdog that kills the
workers of a dead parent's requests (`CancelOrphan`). The slots are
`SlotService`'s `Ask`, `Take` and `Leave`; that the broker provides these is what
`JobSlots` shows. A tree is the set of `<<model, version>>` pairs it was made from,
a record adds the source that ran and the pinned tree of each child: enough to tell
older from newer. The gate's walk over a child's own children is `BuiltFrom`: it asks
for the models reached, not for the order they are reached in.

A source is a script and, from version `HelperFrom` on, a helper it imports; `Edit`
saves the script, `EditHelper` the helper alone. The in-flight key (`Hashed`) is what
the submitter's gate hashed, and that depends on the record: without one the script
alone, else the files the record lists as they are now. So one source may have two
keys, and a save of the helper may leave the key as it was. `Owed` is how much of
the source a request's key vouches for; `AnswersRequest` and `OneBuildPerKey` say
what the registry guarantees of it, and `MCBuildJoin` shows what it does not.

### ModelStore

One model of one kind: `step` (document and sidecar), `mesh` (meshes cut from the
tree after the record is published) or `drawing` (a `.dxf`, no tree). Its sources
are three files: the script, a helper imported at its top, and one imported by
its body, because the three are hashed at three different moments. A builder's
phases follow `run_script_generator`, `component_package_job`,
`_write_drawing_record` and `_produce_declared_mesh_exports`: load, import, note,
body, close, objects, sidecar, document, read back, decide, record; then pick,
mesh, ledger, entry. Every read that the code uses later is a field of the
builder (`ran`, `hashed`, `sha`, `seen`, `saw`, `cut`). The author may save a file
and a builder may be killed between any two steps. Writes are atomic because the
code writes a temporary and renames it.

`EditedUnhashed` names the files that may change between being executed and being
hashed. The code protects only the file imported by the body; the other properties
are checked with that window closed, so that they speak of the rest of the
protocol, and the run `store_hash` opens it.

### WorkerPool

Every action is one critical section of the pool's lock. `Pool.acquire` is
`TakePrimary`, `TakeSpare` or `TakeNone`, and then, in the last case, `Spawn` without
the lock and `Bind` in a second section. `ensure_spares` reserves its spares in
`pending` and starts a fill thread (`fills`), which spawns one at a time
(`FillOne`), stops at a failed announcement (`FillFails`) or dies of an error it
does not catch (`FillBreaks`). `Release` counts the job and recycles, drops,
returns or keeps the worker. `Unbind` is the idle timer, `Reap` and `Shutdown`
what they say. The worker list is a set: its order chooses only among equals. A
new process takes a name of `FreeNames`; the instance has enough names that there
always is one.

### ArtifactClient

Document bytes are version numbers; a tree belongs to one version. On the server:
`bytes`, `trees`, the daemon's `ledger` of jobs and the copy of it the server keeps
for a quarter of a second (`feed`), from which alone `Status` speaks of builds.
`ServePost` is `DocumentCompiler.compile`: it starts a job or attaches to the one
under way; `ServeOrphan` is the POST of an effect that has been aborted, which the
server handles all the same. In the page: `manifest`, `revision` and `refresh` are
the snapshot of `cadManifestStore`; `effect` is the key the running effect of
`useArtifact` closed over, `ui` what it shows, `get`, `poll` and `post` its three
kinds of request. `RunEffect` is the effect's cleanup and its body up to the first
`await`; `Resolve`, `PostArrives` and `PollArrives` are its continuations, each with
the whole of what they call (`Settle`, `Receive`, `Reconcile`). Somebody may rewrite
the document (`Edit`), build it in a terminal (`PeerBuilds`), leave and come back
(`Visit`), and every request may be lost. A lost poll is followed by the next
(`PollFails`); a lost status read or POST ends in the catch of `resolve`, which settles
on "failed" for good (`GetFails`, `PostLost`). `excuse` is history: why the running
effect may show a readable document as failed.

### ViewportAssets

An entry is one version of one file; a component id is a content address; a
tessellation is its level. `meshLoad` and `topologyLoad` are the two loads of
`useCadAssets` with the `await` they are at; `descriptor` is the shared promise of an
entry, with the load whose signal it carries; `level`, `inFlight`, `failed`,
`sample` and `lodPackage` are the scheduler's own copy of the world. React's effects
run some time after what they depend on changed (`due`). `Recompose` and `Apply` are
what a landed level does to mesh and picking in one synchronous piece. `NextLevel`
is `lodPolicy`'s, with the projected error in integers.

### AssetCache

A load is a record that goes from `importing` (the dynamic import of the worker
client) through `asked`, `answered` or `degraded` (the worker refused or broke),
`fetching` and `built` to `done`, `failed` or `aborted`. `cache` has what each key
of the three Maps holds, `recorded` the scope it was claimed for, `leash` the finer
levels in order. `Hit`, `Join` and `Miss` are the three ways a load begins; a load
without a signal caches its promise, one with a signal only its result. The batch
page changes scope from job to job (`NewJob`), the interactive one never does; what
a load returns is the source it was made from (`from`).

### FileSession

React runs the effects of one event before it handles the next, so a click, a
history event (`GoTo`) or a refresh of the catalogue (`Touch`, `Remove`, `Appear`) is
one action together with its effects; the sidecar load (`loads`) and the save timer
(`timer`) are apart. A stored session counts only under the signature it was saved
with (`Read`). A tab has three fields, because the code treats them differently: what
is the file's own (selection, folds, drawings); the drawing tool and mode, which a file
that is opened for the first time takes over from the one that is left (`New`); and the
camera, a ref that no effect follows (`MoveCamera`): it reaches the open tab only with
the next edit of something else (`Filed`), and storage by the timer. The timer holds the
page of the render that armed it (`Armed`) and reads the camera when it fires (`Save`);
one armed by a camera move while a clip plays is disarmed by nothing and may fire when
the selection has gone. What the user edits is numbered, and `owner` remembers to which
file each number was given: that is how the properties tell files apart.

### BoxEditor and BoxBoards

In `BoxEditor` a document is an edit number, the version of the template its board
follows, and whether it is `raw`: not in the form `normalizeBoxSpec` gives, because it
was written by hand or by an older program (`Written`). Raw documents come from
`WriteFile` and, with `OldDraft`, from the browser's own storage. `Replace` takes the
normal form as the document, and `LoadAnswered` takes it as the saved key too: this host
returns a file as it is and never says that it `Changed` it. `readDraft` normalizes the
draft but not the key beside it (`Init`, `Reload`). `Push`, `Edit`, `Undo`, `Redo`,
`Replace` are those of `useBoxBuilder`;
`PointerDown`, `Drag`, `PointerUp`, `CancelDrag`, `CloseViewport` the viewport's;
`Sync` is the effect that lets boards follow their templates. A save or load is a
request the host handles (`Handle`) and answers at some later time, in any order, or
never (`Lost`); leaving the file tab forgets the answer, not the request.

`BoxBoards` is the arithmetic of one board: every operation of the panel, in halves of
a ten-thousandth of a millimetre. A field takes four decimals, so what is typed is even
and its half is whole. `Rounded`, `Fine` and `Up` are the code's `roundMm` to three and
to four decimals and its rounding up to 0.1 and 0.5 mm, at each place the code has them.
The box has a corner radius, cut to half the smaller side (`NormalBox`), from which the
inside has its own (`InnerCorner`). `Placed`, `Grown` and `Resized` are the code's
`placeBoard`, `fitBoxToBoard` and `resizeBoard`; `Normalized` is `normalizeBoard`, which every edit
ends with. `drawn` is history: the board when its holes and ports were last drawn, by
hand or by its template; `exact` says that the board has been on whole thousandths,
its middles included, ever since (`OnGrid`), so that nothing was rounded.

## 3. What TLC checks

### Passing runs

| Run | Instance | Distinct states | Shows |
|---|---|---|---|
| `job_slots` | 4 requests, 2 slots | 1,391 | bounded kernel work, no live request forgotten, FIFO, and that the broker implements `SlotService`, fairness included |
| `build_tree` | `top` over `sub` and `leaf` (called twice), a model that calls itself, one slot, bodies and processes may fail | 9,467 | no requests wait for each other, every request is answered |
| `build_shared` | two users' models over one child with a helper, two slots, one edit of script or helper, failures, refused processes | 739,705 | kernel work has a slot, one build per key, answers never older than asked or hashed, the gate misses nothing below a model |
| `model_store` | 2 builders, three kinds, 1 edit, 1 kill | 352,482 | a record has its tree, the gate tells the truth, the publish rule, the model settles |
| `worker_pool` | 5 processes, 1 model or none, 3 requests, 1 spare, quota of 2 jobs, 1 mishap | 1,664,130 | no worker shared, a job keeps its worker, the reserve neither overflows nor stays empty |
| `artifact_client` | 2 versions of the document (the first cannot be compiled), 2 listed jobs, builds in terminals may fail, 1 disturbance | 401,689 | a page that says "compiling" is watching something, one POST per effect, one compile at a time, the page settles on what the server has, or on "failed" for a lost request or another build's failure |
| `viewport` | two versions of a part and an assembly that shares a component, 3 levels, 2 camera samples, 4 user events, 1 failure | 449,500 | the scheduler never overrates what is drawn, picking follows every swap, the page ends with what is selected, levels settle |
| `asset_cache` | one file and one surface URL, 3 levels, leash of 1, 2 batch jobs or the viewer, 3 loads, 1 fault | 713,746 | aborts are private, the leash holds, no foreign answer, every load ends |
| `file_session` | 2 files, 2 versions, 2 edits or camera moves, 6 other events | 2,757,156 | no mixing, tabs keep their last state, the URL is the selection, edits end in storage |
| `box_editor` | 2 names, history of 2, 2 edits, 1 template change, 2 requests, 2 other events | 2,460,993 | undo leads back, clean means it was stored, the draft follows |
| `box_boards` | 3 templates, 5 sizes of the board (one off the grid), 3 of the box, 2 corner radii, 3 operations | 1,128,641 | what is resized without rounding returns, ports face their wall, a fitted box has room, at its corners too |

**Why these bounds.** *Slots*: with four requests and two slots there are two in
the queue, one of which can give up while the other is granted, and a younger one
to overtake. *Graphs*: three levels is the least in which a parent that waits is
itself waited for; one slot is the hardest case for deadlock and two the least in
which builds overlap; two roots over one child make joins; one edit separates
"older" from "newer". *Store*: two builders and one edit give an old build and a new
one at every relative position; a kill in any of them gives every partial result.
*Pool*: with three requests for one model one uses the primary and two are extras,
so two threads may be between the sections of `acquire` at once; a quota of two
separates a used from a recycled worker; with one spare a borrowed worker can come
back to a full reserve. *Artifact*: one rewrite is what makes an answer old, two
jobs are the viewer's and a terminal's, or an old one and its successor; that the first
version is the unreadable one gives a document that stays failed and one that is blamed
for its predecessor.
*Viewport*: two versions and an assembly give every change of selection (same file,
shared component, none shared); three levels are the least with an upgrade and a
downgrade from the middle; four user events let a selection, an expansion, a rebuild
and a camera move happen in one flight. *Caches*: three loads are one that owns
the promise, one that joins it and one that aborts; a leash of one evicts at the
second finer level. *Sessions*: two files, two edits, and six events are enough
to leave a file, remove or rebuild it, come back and reload. *Editor*: a history of
two trims at the third step and lets redo refill it; two requests are answered out
of order; an edit may go into a file another hand writes. With `OldDraft = TRUE` the
properties hold as well (5,576,254 states). *Boards*: three operations compose any two
with a resize back; the templates have a connector that overhangs, connectors at
opposite walls, and a hole next to the middle. Their lengths are far smaller than real
ones, which are tens of thousands of units, but keep what the code tells apart: middles,
halves of odd grains, sizes below the minimum and above the largest, a gap that is five
grains or more; one size is off the grid, and of the corner radii one leaves an inner
radius of exactly three gaps and one a larger one.

**Bounds that are part of the models**, each a constant: `MaxLeases`,
`MaxRequests`, `MaxJobs`, `MaxEdits`, `MaxKills`, `MaxMishaps`, `MaxVersion`,
`MaxRuns`, `MaxEvents`, `MaxFaults`, `MaxLoads`, `MaxPresets`, `MaxOperations`, and the
sets `Sides`, `BoxSides`, `Corners` and `Places` of the boards. `OldDraft` chooses what
the browser has kept. `LodLimit`, `HistoryLimit`,
`Spares`, `RecycleAfter`, `Limit`, `MaxBoard`, `MaxSide` and `MinSide` are limits of the
code, made small; `Grain`, `Tenth` and `HalfMm` are its steps of rounding. Once the bounds are used up and the work is done nothing happens any
more, which is why the configurations do not check for deadlock: that nobody waits for
ever is said by
`ImplementsSlotService`, `EveryRequestAnswered`, `SettlesCurrent`, `ReserveRefills`,
`SettlesOnTruth`, `ShowsSelection`, `LodSettles`, `EveryLoadEnds`, `EndsSaved` and
`DraftFollows` instead.

Type invariants are proved of every module; that of `BoxBoards` (`BoardIInv`) is stated
with its proof. That of `ViewportAssets` says who owns a promise, that of `BoxEditor`
includes the history's limit. `ImplementsSlotService` implies that a waiting request is
served and a dead one's slot is freed, so neither is a property of its own.

### Where the code disagrees with what is said about it

Each of these configurations checks one sentence of a document, a comment or an
error message of the repository, and TLC finds a behaviour of the code that
contradicts it. The quoted lines are under `findings` in `PROJECT.json`.
`store_hash` is kept as a run, because it shows why a theorem has its hypothesis;
the others are run by hand (section 6).

| Configuration | Module | Property | What happens |
|---|---|---|---|
| `MCStoreHash` | `MCModelStore` | `GateTellsTruth` | a script saved after it ran and before it is hashed is recorded with bytes that did not run |
| `MCBuildCycle` | `MCBuildGraph` | `NoBuildAwaitsItself` | two models that call each other wait for each other for ever |
| `MCBuildJoin` | `MCBuildGraph` | `AnswersNestedRequest` | without a record the key is the script's hash: a call made after a helper was saved joins the build of the old helper |
| `MCBuildJoin` | `MCBuildGraph` | `OneBuildPerSource` | a record appears between two calls: one source is built twice at once, under two kinds of key |
| `MCBuildJoin` | `MCBuildGraph` | `JoinsIdenticalSource` | a request that was stale because of a grandchild joins a build that pinned the old one |
| `MCBuildSpawn` | `MCBuildGraph` | `EveryRequestAnswered` | an `OSError` of the spawn leaves an in-flight entry nobody builds |
| `MCStoreDocument` | `MCModelStore` | `DocumentNeverGoesBackwards` | a stale build replaces the document before it asks whether it may publish |
| `MCStoreOutputs` | `MCModelStore` | `OutputsAreCurrent` | the sha of an output is read back from a path two builds share |
| `MCWorkerPrimary` | `MCWorkerPool` | `OneWorkerPerModel` | two first requests for one model both bind a primary |
| `MCArtifactFailure` | `MCArtifactClient` | `StaleIsRebuilt` | a rewritten document is shown as failed for its predecessor's job, and nobody compiles it |
| `MCArtifactLost` | `MCArtifactClient` | `LossIsNotFailure` | one lost status read leaves a compiled document shown as failed |
| `MCArtifactPolls` | `MCArtifactClient` | `PollsOnlyWhileCompiling` | a poll that is on its way when the POST settles re-arms the timer |
| `MCViewportClaims` | `MCViewport` | `OneTessellation` | a level lands in the second `await` of a topology load and is missed |
| `MCViewportClaims` | `MCViewport` | `AbortIsNotAnError` | a load that joined an aborted descriptor ends in error |
| `MCViewportBroken` | `MCViewport` | `FailedLoadStays` | a file that cannot be read is asked for again for ever |
| `MCAssetTwice` | `MCAssetCache` | `OneRequestPerUrl` | loads with a signal do not join a pending one: two tessellations |
| `MCSessionClaims` | `MCFileSession` | `MotionIsLastEdit` | a rebuild resets the pose and animation to what storage has |
| `MCSessionClaims` | `MCFileSession` | `CameraIsLastMove` | back to no file and a click on the file again: an older camera, from the open tab |
| `MCSessionClaims` | `MCFileSession` | `SilentWhilePlaying` | a camera move arms the save timer while a clip plays |
| `MCBoxClaims` | `MCBoxEditor` | `DragIsOneStep` | Ctrl+Z in a drag |
| `MCBoxClaims` | `MCBoxEditor` | `CleanMeansStored` | two saves of one name, handled or answered out of order |
| `MCBoxClaims` | `MCBoxEditor` | `CleanWasHeld` | a file in another form is shown as saved in the page's own, which the host never held |
| `MCBoxClaims` | `MCBoxEditor` | `DroppedOnlyIfAgreed` | what is drawn while a box loads is dropped unasked |
| `MCBoxUndo` | `MCBoxEditor` | `UndoStays` | the template effect re-does what was undone |
| `MCBoardClaims` | `MCBoxBoards` | `RailsReturn` | ribs and clamp posts do not return from a shrink |
| `MCBoardClaims` | `MCBoxBoards` | `AnySizeReturns` | a size with four decimals on the way: a hole in the middle comes back beside it |
| `MCBoardClaims` | `MCBoxBoards` | `AnyDrawingReturns` | a board that would need more than the largest side: its holes and ports drift |
| `MCBoardClaims` | `MCBoxBoards` | `WidthIsKept` | asking for a length changes the width |
| `MCBoardClaims` | `MCBoxBoards` | `NoConnectorSticksOut` | connectors at two opposite walls, box fitted: one sticks out |
| `MCBoardClaims` | `MCBoxBoards` | `RoundCornersClear` | box with round corners fitted: they cut the board's |

Three more disagreements need no behaviour to see: `STORE.md` says both that no
bound worker is reaped when idle and that it is; `lodScheduler.js` promises to
cancel on a newer camera sample and does not; and the effect that turns lines into
contours (`BoxBuilderSheet.js:1860`) calls a function the file does not import.

`CompilingIsWatched`, `OnePostPerEffect`, `CleanWasStored`, `UndoReachesOpened` and the
others in the passing runs are the strongest statements of their kind that the code
keeps, with the conditions under which it does (`disturbed`, `trimmed`, `opened`, `exact`).

### Fairness

* `JobSlots`: weak fairness of each server thread: it is woken by `notify_all` and
  looks again at least every half second. A client that was granted a slot leaves
  in the end, because builds end. A client that waits need not leave.
* `SlotService`: strong fairness of `Take` for each request: justified by FIFO,
  and checked, since `SlotsSpec` implements it with weak fairness alone.
* `BuildGraph`: a job whose process is alive goes on, and the slot service is as
  above. Nobody has to ask, to edit or to fail.
* `ModelStore`: a build that is not killed goes on, and whoever finds the model
  stale asks again. `SettlesCurrent` holds once edits and kills stop (they are
  bounded). For mesh models it also supposes that at some time builds stop
  overlapping: TLC shows that two of them can otherwise undo each other's ledger
  entries for ever.
* `WorkerPool`: fill threads run and jobs end. `ReserveRefills` speaks of
  behaviours with no mishap and no shutdown: after an uncaught error in a fill
  thread the reserve really stays short.
* `ArtifactClient`: requests are answered, timers fire, effects run, jobs end and
  leave the ledger's list. Nobody has to edit, select, build elsewhere or lose a
  request.
* `ViewportAssets`: React runs its effects, the debounce timer fires, requests are
  answered, and one for a file that cannot be read fails. No user event and no other
  failure has to happen.
* `AssetCache`: fetches and workers answer, continuations run. Aborts, failures and
  new loads need not happen.
* `FileSession` and `BoxEditor`: the browser fires the armed timer (`Save`,
  `WriteDraft`); nothing else has to happen. `BoxBoards` has none.

## 4. What is proved

TLAPS checks the following for every value of the constants that satisfies the
assumptions of the module.

**JobSlotsProofs** (from `Limit \in Nat \ {0}`, `MaxLeases \in Nat`). The
inductive invariant `SlotsIInv` has the types, `LiveRequestKnown`, that the queue
is ascending, that every holder is in `running`, and that `running` is finite with
at most `Limit` members. The last alone is not inductive: that a grant does not
overtake needs the queue to be ascending; that the clients' view (`Holders`) is
bounded needs it to be a part of the broker's; and that a removed element leaves
the queue without it needs the queue to have no duplicates, which its order gives.

* `SlotsTyped`, `SlotsBoundKernelWork`, `SlotsForgetNoOne`, `SlotsAreFair`: the
  type invariant, `KernelWorkBounded`, `LiveRequestKnown`, `NoOvertaking`.
* `SlotsImplementService`: initial states of the broker map to initial states of
  `SlotService` and every step to a step or a stutter. The service's fairness
  stays with TLC (`ImplementsSlotService` in `job_slots`).

**BuildGraphProofs** (from `BuildAssumption`: each model calls a sequence of models,
a positive number of slots, natural bounds; the graph of calls is arbitrary, circles
included). The inductive invariant `BuildIInv` has four parts:

* `Shape`: types, with what the type invariant leaves out (a record's pins, the
  versions a request saw, the exit codes), and of every record that its tree is the
  source that ran and what it pinned, and its pins are of models it calls.
* `JobOK`, for each request: what it refers to exists and is its own; what it submits
  or pins is a callee (`PinsOK`); the build it joined has its key, and both are nested
  (`JoinedOK`); its key hashed nothing newer than its gate saw; and the version it was,
  is being or was built from is between the one it is owed and the one on disk
  (`SourceOK`). `AnswersRequest` is not inductive without `JoinedOK`, because a joined
  request takes over another's tree, nor without the versions of the bodies that still
  run.
* `SlotsOK`: the two tables of the broker are the phases of the requests.
* `InflightOK`: an entry names a nested request with the key it stands under, and every
  nested request that runs or ends has its entry. `OneBuildPerKey` follows, since an
  entry names one request. A request whose process was refused has an entry and does
  not run, which is why the converse is not claimed.

The proof says once what a step of one request leaves alone (`Frame`: the others, and
every request's model, parent, source and key; new requests are as `NewJob` makes them).
`OthersKept`, `FreshOK`, `SlotsKept`, `RegistryKept` and `EntriesKept` derive the
invariant for the rest from it, so that an action has only its own request to look at.

* `BuildTyped`, `KernelWorkInSlot`, `OneBuild`, `AnswersFresh`: the type invariant,
  `KernelWorkHasSlot`, `OneBuildPerKey`, `AnswersRequest`.
* `GateIsRight`: `GateSeesGraph`, from `Acyclic` (below). A model is current only if
  those it calls are (`CurrentDown`), and then its record is its own source and their
  trees (`ComposedOf`); a lowest model of which this gives a tree with something old
  in it does not exist.
* `NoDeadlock`: `NoBuildAwaitsItself`, from two hypotheses that the code needs:
  `Acyclic`, the calls go down by some rank but for a model that calls itself
  (`MCBuildCycle` deadlocks without it), and no refused processes (`MCBuildSpawn`: a
  request can join its own entry). The second invariant, `WaitIInv`, says that what is
  waited for is a request of a callee, or one that has been claimed, and that entries
  name claimed requests only. Then `2 * rank + (1 if joined)` falls from a waiter to
  what it waits for, and a set of waiters has a lowest. With `KernelWorkInSlot` (who
  waits for a build has no slot) slots add no circle.
* `UsesSlots`: every step is a step of `SlotService` or leaves the slots alone, so that
  the slots of `JobSlots` may stand for it.

**ModelStoreProofs** (from `Kinds` being among the three, `MaxEdits` and
`MaxKills` natural; the set of builders is arbitrary). Three invariants, each
resting on the one before:

* `TypeIInv`: the types, that each kind of model has its own phases, that nothing
  hashed is of version 0 (which is what tells a record from no record), and that
  a mesh is cut only when there is a record. It gives `StoreTyped`.
* `KeepIInv`: a build's tree is in the store from its objects on, and so is that of
  every record it has read; nothing was hashed from a version yet to come; and a
  build about to publish found its hashes current or the record it saw stale. The
  second part is needed for the third: a record that was stale by its hashes
  stays so when the sources move on. It gives `StoreKeepsTrees` and `PublishRule`.
* `TruthIInv`: what a build hashed is what it loaded, what it loaded and has not
  hashed yet is still on disk, and the tree and the document of every record
  are of the sources it names. It gives `GateIsTruthful`, under the hypothesis
  `EditedUnhashed \subseteq {"lazy"}`; the run `store_hash` shows that without it
  the theorem is false.

`PublishRule` says "the record *or an output* has changed since the build looked",
and not only the record. With three builders the stronger statement is false: a
record that was stale because another file was in its mesh's place becomes
current again, itself unchanged, when the right mesh is written back.

**WorkerPoolProofs** (from `PoolAssumption`: `NoModel` is no model, a natural number
of spares and mishaps, a positive quota; workers, models and requests are
arbitrary). The inductive invariant `PoolIInv` has the types, that the pool is
finite, `HeldOK` and `SparesWithinSize`. `HeldOK` is `NoWorkerShared` and
`JobKeepsItsWorker` with two facts the code relies on and never states: a request
has at most one worker, and a job that names no model holds an *extra*. The last is
what `SparesWithinSize` needs: a worker that is released without being counted
against the reserve must not be unbound, or it would become one spare too many. The
proof of `HeldOK` goes by requests: `HeldOne` and `HeldAll` reduce a step to "nothing
that another request holds is disturbed", and each action shows that.

* `PoolTyped`, `WorkerNeverShared`, `WorkerStaysWithJob`, `ReserveBounded`: the type
  invariant, `NoWorkerShared`, `JobKeepsItsWorker`, `SparesWithinSize`.

**AssetCacheProofs** (from `CacheAssumption`: a limit, natural bounds, and that the
keys of meshes, selectors and bytes are not surfaces; files, surfaces, packets and the
number of loads are arbitrary). The inductive invariant `CacheIInv` has the types,
`LeashOK`, `AbortIsPrivate`, and a part for each load and each key:

* `LoadOK`, for each load: it asks for what its caller may ask for, in the scope in which
  it began, and is answered from that scope (`AskingOK`, the property); the load it joined
  is there, and for the same key (`JoinedOK`); the bytes it waits for or builds from were
  fetched in the page's scope (`BytesOK`); and in a batch page the promise it must settle
  is still its own (`HoldsOK`).
* `KeyOK`, for each key: what is cached was loaded for the scope that claims the key, or
  for the viewer's, which claims nothing (`ClaimOK`); and a pending promise belongs to a
  load that works on it (`PendingOK`).

`NoForeignAnswer` needs all of it: a wrong answer takes a claim, a fetch and a join, of
three loads, to come about. `LeashOK` is `LeashHolds` without `Cardinality`: every finer
level in the cache is on the leash once; that there are as many of both follows.
`StepWorks` and `StepOf` reduce an action to the loads it moves on, or to the one load it
starts or settles and the two keys of it.

* `CacheTyped`, `AbortsPrivate`, `LeashBounded`, `NoForeign`: the type invariant,
  `AbortIsPrivate`, `LeashHolds`, `NoForeignAnswer`; `CacheInvariant` is the invariant.

**PageProofs** (from `BoundsAssumption`, and from `EntryAssumption` and `NoneAssumption`:
packages are sets of components, there is a coarsest level, `None` is no entry and no
record; versions, runs, entries, packages and zooms are arbitrary). Of `ArtifactClient`:

* `OnePost`, `CompilingWatched`: `OnePostPerEffect` and `CompilingIsWatched`. `PostIInv`
  adds that an effect that has posted reads no status again: it is attached to nothing,
  and only an attached poll resolves twice. `WatchIInv` says the second of the running
  effect, whatever is selected meanwhile.
* `OneCompile`: `OneCompileAtATime`. `LedgerIInv` also has one build in a terminal at a
  time and a version kept for it, by which `ArtifactTyped` has `bytes` within its bound.

Of `ViewportAssets`, with one invariant, `ViewportIInv`:

* `LoadsOK` and `Owners`: the load a descriptor's promise belongs to is there and still
  waits. An abort takes the promise along and disappoints the other load (`AbortMesh`,
  `AbortTopology`), so that none is left with an owner who is gone.
* `LodOK` and `SchedulerOK`: the package being refined is what is drawn, or nothing is
  drawn, and it has every component of its entry; until the scheduler is told of a new
  package nothing is claimed of its levels. `NeverTakenForFiner` is not inductive without
  the first: a swap is applied to the package and drawn only if the files agree.
* `ViewportTyped`, `TakenForFiner`, `PickingFollows`: the type invariant,
  `NeverTakenForFiner`, `PickingFollowsComposition`.

**FileSessionProofs** (from `SessionAssumption`: `None` is no file, natural bounds;
the files are arbitrary). `NoMixing` alone is not inductive, for three reasons the
invariant `SessionIInv` adds:

* `LoadsOK`: a load that was not cancelled is the selected file's, and of such loads
  there is one. Without it an answer could carry one file's motion to another.
* `ValuesOK`: every value given to a file is an edit that *was made*, so that the next
  edit, whose number is new, disturbs none of them.
* `TimerOK`: what an armed timer is to write was of its file, and that file is the
  selected one as long as one is selected, so that the camera `Save` reads when it fires
  is its file's, or none.

For `TabIsLastEdit` there is `TabsOK`: the history of the tabs and the open tabs agree,
cameras aside, and the selected file's tab is open and agrees with the page.
`Activated`, `Cleared` and `Stays` say once what opening a file, closing it and
keeping it do to these parts, and each action is one of the three.

* `SessionTyped`, `SessionsApart`, `TabsKeep`, `UrlNamesSelection`: `SessionTypeOK`,
  `NoMixing`, `TabIsLastEdit`, `UrlIsSelection`.

**BoxBuilderProofs**. Of `BoxEditor` (from `EditorAssumption` and `NoneAssumption`:
`None` is no name, document or key, a history limit above 1, natural bounds), with three
invariants:

* the types, part by part, with the history's limit: `Len(past) + Len(future)`, not
  either alone, is what undo and redo keep. It gives `EditorTyped`.
* `HistoryIInv`: the types, that a drag has an origin unless it began before the
  document was replaced, and `UndoReachesOpened`. It gives `UndoReaches`.
* `StoredIInv`: the types, and that every key of the editor and of the draft is that of
  something the host held, or of its normal form (`Held`), and that what the host has
  now, and has answered and nobody has read yet, it held. The types have that what the
  page works with is never raw (`Shown`), by which its normal form is itself. It gives
  `CleanStored`.

Of `BoxBoards` (from `BoardsAssumption` and `TemplatesAssumption`: natural dimensions,
even where they are halved; holes and connectors are not empty, as `boxSpec.js` sees to;
the gap at a wall, 1 mm, is at least five grains and, with two more, within a plug's
reach, 2 mm; finitely many holes and ports in a template), for any templates, any sizes, and any number of operations:

* `BoardIInv`: the types, and that the board is `Settled`: `normalizeBoard` has nothing
  to put right. So is a board that was only placed (`MovedSettled`), and therefore no
  operation but a resize or a drawing moves a hole or port (`BoardSteps`).
* `PortsFace`: `PortsFaceTheirWall`. Turning a place and a direction alike changes neither
  their product nor that of a sum (`TurnedAlong`, `AlongSum`), so what is left is the four
  edges of the board as it lies, turned over or not (`PortPlace`), and the ten-thousandth
  that `boardPoint` rounds to (`FineAlong`).
* `ResizeReturned`: `ResizeReturns`, with `ReturnIInv`: every hole and port is where
  `keep` would put it from the drawing at one stroke, at a size that is the drawing's or
  no less than its `boardMinimumSize` on each axis (`KeptFrom`). The property alone is
  not inductive: it says nothing of the sizes in between. Two resizes are one
  (`KeepsPlace`) only because such a size leaves every place on its half of the side, and
  the smallest size of the board is the drawing's (`KeptMinimum`). The hypotheses are what `AnyDrawingReturns` and `AnySizeReturns` show is needed:
  that the drawing needs no more than the largest side (`Possible`), and that nothing was
  rounded (`exact`). What is exact stays on the grid under `keep` (`KeepExact`), where
  rounding is the identity; that is a fact proved of those boards, not an assumption on
  the sizes, of which `Sides` may have any.
* `FitRoom`: `FitMakesRoom`, an action property. The box grows by at least what the two
  gaps of an axis need (`GrownIs`), so `clampBoardPosition` leaves the board where it was
  put, against its wall, but for the grain it rounds to (`BesideFits`, `FitPlace`), and
  its connectors' fronts follow (`FrontGapIs`). A corner that is a gap less half a grain
  from both walls is inside a rounded corner of up to three gaps: it reaches into it by at
  most seven tenths of the radius on either axis (`CornerClear`); above some 3.4 gaps it
  is not, as `RoundCornersClear` shows. The box's corner radius is
  cut again after it has grown, which changes nothing the board sees (`SameInside`).

**Only model-checked**: every property under fairness, which is beyond this prover, the
fairness of the refinement included. Every invariant and action property of the passing
runs is proved.

## 5. What is not modelled

Inside modelled components:

* *Builds*: the frames relayed to a client and their wording; the static import
  analysis behind a closure; the contents of trees, documents and meshes;
  `--write` exports and imported or re-emitted documents; the processes of the
  transient executor (to its parent the same job); the gate over a graph of records
  with cycles.
* *Artifact*: the POST that answers "compiling" (`useArtifact.js:176-183`) and the
  status "blocked", which this server never gives.
* *Viewport*: geometry; selector bundles that differ from the mesh only in content.
* *Caches*: the claim given up by a failed load without a signal while one with a
  signal has taken it (`renderAssetClient.js:86-93`): only the viewer mixes the two
  kinds, and it has one scope, under which a claim decides nothing.
* *Sessions*: a session saved while its entry is without assets has a shorter
  signature and is dropped at the next load; the slices of a session other than its tab
  and its motion (display settings, drawings of a DXF).
* *Editor*: `pointercancel`, which the viewport does not handle (a lost pointer is
  `PointerDown` after an up that never came); the status message of a save, set after
  a rename or an open as well; engravings loaded for one document and applied to
  another (`BoxBuilderSheet.js:446-488`); duplicating a hole at the limit
  (`boxEdits.js:63-70`).
* *Boards*: holes and standoffs without a board, walls, lids, engraving; the errors of
  floating-point sums (a value just beside a tie of `Math.round` may go the other way, and
  the tolerance of 1e-6 mm in `isCentred` is smaller than a unit); the wall thickness is
  a constant. Of round corners `FitMakesRoom` speaks up to an inner radius of three gaps
  (3 mm): beyond that the code does not keep the board clear (`RoundCornersClear`).

Components left out, because they are sequential functions of large data, or input
and output around the operations above: geometry, STEP, mesh and drawing emission,
robot formats, the operation memo; in the viewer rendering, drawing tools, panels
and their layout (most of `CadWorkspace.js` and all of `CadViewer.js`), the server's
routes and directory scans; in cadgen-js scenes, themes and file readers; in the box
builder the plan that is cut and the panels; bundles built from these
(`_runtime/browser`, `_runtime/node`); the documentation site, skills and
installation scripts. These are most of the repository's lines: the map covers a
small share of them, and nearly all of the code that keeps state between two events.

Protocols that could still be modelled, the most important first:

1. `ObjectSweep`: `put_object`, gc's mark and sweep with its grace period, and
   forget, against the writes of a build; `RecordHasTree` for a store that shrinks.
2. `DaemonLifecycle`: connect or spawn under the spawn lock, the key linked into
   place, drain and restart on a version change.
3. `JobLedger`: announcements and requests in either order, adoption, the end.
4. The gate over a graph of records, cycles included; `AtomicReplace`, the five
   attempts of a rename; `--write` exports in `ModelStore`.

## 6. Running

`tlc -config MCJobSlots.cfg MCJobSlots`, and likewise for each run in
`PROJECT.json` and each configuration of the table above with its module
(`MCBoardClaims`, `MCBoxClaims`, `MCBuildJoin`, `MCSessionClaims` and
`MCViewportClaims` hold several properties: `-continue` shows them all);
`tlapm WorkerPoolProofs.tla` and likewise for the other proof modules. The longest
run, `file_session`, takes less than two minutes with two workers.
