----------------------------- MODULE WorkerPool -----------------------------
(***************************************************************************)
(* The daemon's warm workers (daemon/pool.py): a worker per model, extras  *)
(* while it is busy, spares in reserve.  The pool's lock is given up in    *)
(* the middle of acquire(), for the spawn of a process, and before         *)
(* ensure_spares(); every action below is one critical section.            *)
(* The order of the worker list only chooses among equals and is left out; *)
(* a worker that was dropped is gone, its name free for another process.   *)
(***************************************************************************)
EXTENDS Integers, FiniteSets, Sequences, SequencesExt, FiniteSetsExt

CONSTANTS Workers,       \* names for worker processes, enough of them
          Models,        \* the models requests build
          NoModel,       \* a request that names none, a worker bound to none
          Requests,      \* the request threads
          Spares,        \* spare_count()
          RecycleAfter,  \* jobs after which a worker is replaced
          MaxMishaps     \* bound on dead idle workers and failed spawns

ASSUME PoolAssumption ==
    /\ NoModel \notin Models
    /\ Spares \in Nat /\ RecycleAfter \in Nat \ {0} /\ MaxMishaps \in Nat

VARIABLES pool,          \* Pool._workers
          worker,        \* the state of each worker process
          pending,       \* Pool._spares_pending
          fills,         \* the fill threads: how many spares each still owes
          request,       \* what each request thread does
          closed,        \* Pool._closed
          mishaps

poolVars == <<pool, worker, pending, fills, request, closed, mishaps>>

Fresh == [model |-> NoModel, busy |-> FALSE, extra |-> FALSE, alive |-> TRUE, jobs |-> 0]
NoRequest == [phase |-> "new", model |-> NoModel, bound |-> FALSE, worker |-> {}]

Over == [NoRequest EXCEPT !.phase = "over"]

At(r, p) == request[r].phase = p
Held == UNION {request[r].worker : r \in Requests}

\* A process that starts takes a name nothing has.
FreeNames == Workers \ (pool \cup Held)
NewName == CHOOSE w \in FreeNames : TRUE

IsSpare(w) == worker[w].model = NoModel /\ ~worker[w].busy
SpareSet == {w \in pool : IsSpare(w)}
IsPrimary(w, m) == worker[w].model = m /\ ~worker[w].extra

\* The daemon has asked for its spares and begins to serve.
PoolInit ==
    /\ pool = {}
    /\ worker = [w \in Workers |-> Fresh]
    /\ pending = Spares
    /\ fills = IF Spares = 0 THEN <<>> ELSE <<Spares>>
    /\ request = [r \in Requests |-> NoRequest]
    /\ closed = FALSE
    /\ mishaps = 0

\* What _reap_dead_locked leaves.
Living == {w \in pool : worker[w].alive \/ worker[w].busy}
Reaped == [w \in Workers |-> IF w \in pool \ Living THEN Fresh ELSE worker[w]]
IdlePrimaries(m) == {w \in Living : m # NoModel /\ IsPrimary(w, m) /\ ~worker[w].busy}

\* acquire(), the model's worker is idle.
TakePrimary(r, m) ==
    /\ At(r, "new")
    /\ pool' = Living
    /\ \E w \in IdlePrimaries(m) :
          /\ worker' = [Reaped EXCEPT ![w].busy = TRUE]
          /\ request' = [request EXCEPT ![r] =
                            [phase |-> "serving", model |-> m, bound |-> FALSE, worker |-> {w}]]
    /\ UNCHANGED <<pending, fills, closed, mishaps>>

\* Faulty: the spare stays in the list while the request binds it.
TakeSpareListed(r, m) ==
    /\ At(r, "new")
    /\ IdlePrimaries(m) = {}
    /\ \E w \in SpareSet \cap Living :
          /\ pool' = Living
          /\ request' = [request EXCEPT ![r] =
                [phase |-> "binding", model |-> m, worker |-> {w},
                 bound |-> m # NoModel /\ \E x \in Living : IsPrimary(x, m)]]
    /\ worker' = Reaped
    /\ UNCHANGED <<pending, fills, closed, mishaps>>

\* acquire(), a spare leaves the list; whether the model has a worker is looked
\* up here and used in Bind.
TakeSpare(r, m) ==
    /\ At(r, "new")
    /\ IdlePrimaries(m) = {}
    /\ \E w \in SpareSet \cap Living :
          /\ pool' = Living \ {w}
          /\ request' = [request EXCEPT ![r] =
                [phase |-> "binding", model |-> m, worker |-> {w},
                 bound |-> m # NoModel /\ \E x \in Living : IsPrimary(x, m)]]
    /\ worker' = Reaped
    /\ UNCHANGED <<pending, fills, closed, mishaps>>

\* acquire(), nothing in reserve: a process is started outside the lock.
TakeNone(r, m) ==
    /\ At(r, "new")
    /\ IdlePrimaries(m) = {}
    /\ SpareSet \cap Living = {}
    /\ pool' = Living
    /\ request' = [request EXCEPT ![r] =
          [phase |-> "spawning", model |-> m, worker |-> {},
           bound |-> m # NoModel /\ \E x \in Living : IsPrimary(x, m)]]
    /\ worker' = Reaped
    /\ UNCHANGED <<pending, fills, closed, mishaps>>

Spawn(r) ==
    /\ At(r, "spawning") /\ FreeNames # {}
    /\ worker' = [worker EXCEPT ![NewName] = Fresh]
    /\ request' = [request EXCEPT ![r].phase = "binding", ![r].worker = {NewName}]
    /\ UNCHANGED <<pool, pending, fills, closed, mishaps>>

\* It never announces itself, or the OS refuses it: the request fails.
SpawnFails(r) ==
    /\ At(r, "spawning")
    /\ mishaps < MaxMishaps
    /\ mishaps' = mishaps + 1
    /\ request' = [request EXCEPT ![r] = Over]
    /\ UNCHANGED <<pool, worker, pending, fills, closed>>

\* The second critical section of acquire().
Bind(r) ==
    /\ At(r, "binding")
    /\ \E w \in request[r].worker :
          /\ worker' = [worker EXCEPT ![w].busy = TRUE,
                                      ![w].model = request[r].model,
                                      ![w].extra = request[r].bound \/ request[r].model = NoModel]
          /\ pool' = pool \cup {w}
    /\ request' = [request EXCEPT ![r].phase = "bound", ![r].bound = FALSE]
    /\ UNCHANGED <<pending, fills, closed, mishaps>>

-----------------------------------------------------------------------------
\* Faulty: one spare too few.
WantOneLess == Spares - Cardinality(SpareSet) - pending - 1

Want == Spares - Cardinality(SpareSet) - pending

\* ensure_spares(): a fill thread for what is missing.
EnsureSpares ==
    IF closed \/ Want <= 0
    THEN UNCHANGED <<pending, fills>>
    ELSE pending' = pending + Want /\ fills' = Append(fills, Want)

\* ... at the end of acquire() ...
EnsureAfterAcquire(r) ==
    /\ At(r, "bound")
    /\ EnsureSpares
    /\ request' = [request EXCEPT ![r].phase = "serving"]
    /\ UNCHANGED <<pool, worker, closed, mishaps>>

\* ... and of release().
EnsureAfterRelease(r) ==
    /\ At(r, "released")
    /\ EnsureSpares
    /\ request' = [request EXCEPT ![r] = Over]
    /\ UNCHANGED <<pool, worker, closed, mishaps>>

\* Fill thread i is done with one of the spares it owes.
Owes(i) == IF fills[i] = 1 THEN RemoveAt(fills, i) ELSE [fills EXCEPT ![i] = @ - 1]

FillOne(i) ==
    /\ FreeNames # {}
    /\ pending' = pending - 1
    /\ fills' = Owes(i)
    /\ IF closed THEN UNCHANGED <<pool, worker>>
       ELSE /\ pool' = pool \cup {NewName}
            /\ worker' = [worker EXCEPT ![NewName] = Fresh]
    /\ UNCHANGED <<request, closed, mishaps>>

\* The process never announces itself: one spare less, nobody tries again.
FillFails(i) ==
    /\ mishaps < MaxMishaps
    /\ mishaps' = mishaps + 1
    /\ pending' = pending - 1
    /\ fills' = Owes(i)
    /\ UNCHANGED <<pool, worker, request, closed>>

\* The OS refuses the process: the thread ends, and what it owed stays pending.
FillBreaks(i) ==
    /\ mishaps < MaxMishaps
    /\ mishaps' = mishaps + 1
    /\ fills' = RemoveAt(fills, i)
    /\ UNCHANGED <<pool, worker, pending, request, closed>>

-----------------------------------------------------------------------------
\* The reserve is full with the spares there are and those on their way.
ReserveFull(spares) == Cardinality(spares) + pending >= Spares

\* Faulty: an extra always goes back to the reserve.
DroppedForFaultsOnly(w, healthy, spares) == ~healthy \/ ~w.alive \/ w.jobs >= RecycleAfter

\* A worker, as it comes out of its job, that the pool does not keep.
Dropped(w, healthy, spares) ==
    \/ ~healthy \/ ~w.alive
    \/ w.jobs >= RecycleAfter
    \/ w.extra /\ ReserveFull(spares)

\* The job is over; an extra is a spare again.  A borrowed worker, busy no more
\* and bound to nothing, counts itself among the spares.
Release(r, healthy) ==
    /\ At(r, "serving")
    /\ \E w \in request[r].worker :
          LET after == [worker[w] EXCEPT !.busy = FALSE, !.jobs = @ + 1]
              spares == SpareSet \cup (IF after.model = NoModel THEN {w} \cap pool ELSE {})
          IN  IF Dropped(after, healthy, spares)
              THEN pool' = pool \ {w} /\ worker' = [worker EXCEPT ![w] = Fresh]
              ELSE /\ UNCHANGED pool
                   /\ worker' = [worker EXCEPT ![w] =
                         IF after.extra THEN [after EXCEPT !.model = NoModel, !.extra = FALSE]
                         ELSE after]
    /\ request' = [request EXCEPT ![r] = [NoRequest EXCEPT !.phase = "released"]]
    /\ UNCHANGED <<pending, fills, closed, mishaps>>

\* Faulty: the timer runs for busy workers too.
UnbindBusy(w) ==
    /\ w \in pool
    /\ worker[w].model # NoModel /\ ~worker[w].extra
    /\ IF ReserveFull(SpareSet)
       THEN pool' = pool \ {w} /\ worker' = [worker EXCEPT ![w] = Fresh]
       ELSE UNCHANGED pool /\ worker' = [worker EXCEPT ![w].model = NoModel]
    /\ UNCHANGED <<pending, fills, request, closed, mishaps>>

\* unbind_idle(): a bound worker that has been idle for long enough.
Unbind(w) ==
    /\ w \in pool
    /\ worker[w].model # NoModel /\ ~worker[w].busy /\ ~worker[w].extra
    /\ IF ReserveFull(SpareSet)
       THEN pool' = pool \ {w} /\ worker' = [worker EXCEPT ![w] = Fresh]
       ELSE UNCHANGED pool /\ worker' = [worker EXCEPT ![w].model = NoModel]
    /\ UNCHANGED <<pending, fills, request, closed, mishaps>>

\* A worker process ends, in a job or between two.
Dies(w) ==
    /\ w \in pool /\ worker[w].alive
    /\ worker[w].busy \/ mishaps < MaxMishaps
    /\ mishaps' = IF worker[w].busy THEN mishaps ELSE mishaps + 1
    /\ worker' = [worker EXCEPT ![w].alive = FALSE]
    /\ UNCHANGED <<pool, pending, fills, request, closed>>

\* reap_dead(), after every connection accepted.
Reap ==
    /\ pool # Living
    /\ pool' = Living
    /\ worker' = Reaped
    /\ UNCHANGED <<pending, fills, request, closed, mishaps>>

\* shutdown() takes the list and kills what was in it.
Shutdown ==
    /\ ~closed
    /\ closed' = TRUE
    /\ pool' = {}
    /\ worker' = [w \in Workers |-> IF w \in pool \cap Held THEN [worker[w] EXCEPT !.alive = FALSE]
                                    ELSE IF w \in Held THEN worker[w] ELSE Fresh]
    /\ UNCHANGED <<pending, fills, request, mishaps>>

Serve(r) ==
    \/ Spawn(r) \/ Bind(r) \/ EnsureAfterAcquire(r) \/ EnsureAfterRelease(r)
    \/ \E healthy \in BOOLEAN : Release(r, healthy)

Acquire(r, m) == TakePrimary(r, m) \/ TakeSpare(r, m) \/ TakeNone(r, m)

PoolNext ==
    \/ Reap \/ Shutdown
    \/ \E r \in Requests : Serve(r) \/ SpawnFails(r) \/ \E m \in Models \cup {NoModel} : Acquire(r, m)
    \/ \E i \in DOMAIN fills : FillOne(i) \/ FillFails(i) \/ FillBreaks(i)
    \/ \E w \in Workers : Unbind(w) \/ Dies(w)

(***************************************************************************)
(* Fairness.  The daemon's threads run and jobs end; nobody has to ask,    *)
(* and no process has to fail.                                             *)
(***************************************************************************)
PoolSpec ==
    /\ PoolInit /\ [][PoolNext]_poolVars
    /\ WF_poolVars(\E i \in DOMAIN fills : FillOne(i))
    /\ \A r \in Requests : WF_poolVars(Serve(r))

-----------------------------------------------------------------------------
\* Types; no worker outlives its quota of jobs (pool.py:381).
PoolTypeOK ==
    /\ pool \subseteq Workers /\ pending \in Int
    /\ worker \in [Workers -> [model : Models \cup {NoModel}, busy : BOOLEAN, extra : BOOLEAN,
                               alive : BOOLEAN, jobs : 0..(RecycleAfter - 1)]]
    /\ request \in [Requests -> [phase : {"new", "spawning", "binding", "bound", "serving",
                                          "released", "over"},
                                 model : Models \cup {NoModel}, bound : BOOLEAN,
                                 worker : SUBSET Workers]]

\* No worker serves two requests, and none that a request has is on offer: a
\* spare, or its model's idle worker.
NoWorkerShared ==
    \A r, s \in Requests : \A w \in request[r].worker :
        /\ r # s => w \notin request[s].worker
        /\ w \in pool => worker[w].busy

\* From its binding to its release a job keeps its worker, bound to its model.
JobKeepsItsWorker ==
    \A r \in Requests : \A w \in request[r].worker :
        (At(r, "bound") \/ At(r, "serving")) =>
            worker[w].model = request[r].model /\ (w \in pool \/ closed)

\* The reserve never grows beyond its size, those on their way included.
SparesWithinSize == Cardinality(SpareSet) + pending <= Spares

\* When requests come and go, and jobs crash, the reserve fills up again.
Quiet == \A r \in Requests : At(r, "new") \/ At(r, "over")
ReserveRefills == [](mishaps = 0 /\ ~closed) => []<>(Quiet => Cardinality(SpareSet) = Spares)

\* "A worker per model": what serves beside a model's worker is an extra.
OneWorkerPerModel ==
    ~closed => \A m \in Models : Cardinality({w \in pool : IsPrimary(w, m)}) <= 1
=============================================================================
