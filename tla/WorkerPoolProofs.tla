-------------------------- MODULE WorkerPoolProofs --------------------------
(***************************************************************************)
(* Theorems about WorkerPool, for any number of workers, models, requests  *)
(* and spares.                                                             *)
(***************************************************************************)
EXTENDS WorkerPool, FiniteSetTheorems, TLAPS

\* A request has at most one worker, and one that names no model has an extra.
OneWorkerEach ==
    \A r \in Requests : \A w, x \in request[r].worker : w = x
UnnamedHasExtra ==
    \A r \in Requests : \A w \in request[r].worker :
        (At(r, "bound") \/ At(r, "serving")) /\ request[r].model = NoModel => worker[w].extra

HeldOK == OneWorkerEach /\ NoWorkerShared /\ JobKeepsItsWorker /\ UnnamedHasExtra

PoolIInv == PoolTypeOK /\ IsFiniteSet(pool) /\ HeldOK /\ SparesWithinSize

Record == [model : Models \cup {NoModel}, busy : BOOLEAN, extra : BOOLEAN,
           alive : BOOLEAN, jobs : 0..(RecycleAfter - 1)]
Thread == [phase : {"new", "spawning", "binding", "bound", "serving", "released", "over"},
           model : Models \cup {NoModel}, bound : BOOLEAN, worker : SUBSET Workers]

LEMMA FreshIsARecord == Fresh \in Record
  BY PoolAssumption DEF Fresh, Record

LEMMA NewNameIsFree ==
    ASSUME FreeNames # {}
    PROVE  NewName \in Workers /\ NewName \notin pool /\ NewName \notin Held
  BY DEF NewName, FreeNames

\* Reaping keeps every worker that is busy or alive as it is.
LEMMA ReapedProperties ==
    ASSUME PoolTypeOK
    PROVE  /\ Living \subseteq pool /\ Reaped \in [Workers -> Record]
           /\ \A w \in Living : Reaped[w] = worker[w]
           /\ \A w \in Workers : w \notin pool \/ worker[w].busy => Reaped[w] = worker[w]
<1>1. Living \subseteq pool
  BY DEF Living
<1>2. Reaped \in [Workers -> Record]
  BY FreshIsARecord DEF Reaped, PoolTypeOK, Record
<1>3. \A w \in Workers : w \notin pool \/ worker[w].busy => Reaped[w] = worker[w]
  BY Zenon DEF Reaped, Living
<1>4. \A w \in Living : Reaped[w] = worker[w]
  BY <1>1, Zenon DEF Reaped, PoolTypeOK
<1>5. QED
  BY <1>1, <1>2, <1>3, <1>4

-----------------------------------------------------------------------------
(* Types. *)

LEMMA SparesCounted ==
    ASSUME IsFiniteSet(pool)
    PROVE  IsFiniteSet(SpareSet) /\ Cardinality(SpareSet) \in Nat
<1>1. SpareSet \subseteq pool
  BY DEF SpareSet
<1>2. QED
  BY <1>1, FS_Subset, FS_CardinalityType

LEMMA PoolTypeStep == PoolTypeOK /\ IsFiniteSet(pool) /\ [PoolNext]_poolVars => PoolTypeOK'
<1> SUFFICES ASSUME PoolTypeOK, IsFiniteSet(pool), [PoolNext]_poolVars PROVE PoolTypeOK'
  OBVIOUS
<1>0. /\ pool \subseteq Workers /\ pending \in Int
      /\ worker \in [Workers -> Record] /\ request \in [Requests -> Thread]
  BY DEF PoolTypeOK, Record, Thread
<1>1. ASSUME pool' \subseteq Workers, pending' \in Int,
             worker' \in [Workers -> Record], request' \in [Requests -> Thread]
      PROVE PoolTypeOK'
  BY <1>1 DEF PoolTypeOK, Record, Thread
<1>2. ASSUME NEW r \in Requests, NEW m \in Models \cup {NoModel}, Acquire(r, m) PROVE PoolTypeOK'
  <2>1. CASE TakePrimary(r, m)
    <3>1. PICK w \in IdlePrimaries(m) : worker' = [Reaped EXCEPT ![w].busy = TRUE]
               /\ request' = [request EXCEPT ![r] =
                            [phase |-> "serving", model |-> m, bound |-> FALSE, worker |-> {w}]]
      BY <2>1 DEF TakePrimary
    <3>2. w \in Workers
      BY <1>0, <3>1 DEF IdlePrimaries, Living
    <3>3. worker' \in [Workers -> Record]
      BY <3>1, <3>2, ReapedProperties DEF Record
    <3>4. request' \in [Requests -> Thread]
      BY <1>0, <3>1, <3>2 DEF Thread
    <3>5. QED
      BY <1>0, <1>1, <2>1, <3>3, <3>4, ReapedProperties DEF TakePrimary
  <2>2. CASE TakeSpare(r, m)
    <3> DEFINE b == m # NoModel /\ \E x \in Living : IsPrimary(x, m)
    <3>1. PICK w \in SpareSet \cap Living :
               /\ pool' = Living \ {w}
               /\ request' = [request EXCEPT ![r] =
                            [phase |-> "binding", model |-> m, worker |-> {w}, bound |-> b]]
      BY <2>2 DEF TakeSpare
    <3>2. w \in Workers /\ b \in BOOLEAN
      BY <1>0, <3>1 DEF SpareSet
    <3> HIDE DEF b
    <3>3. request' \in [Requests -> Thread]
      BY <1>0, <3>1, <3>2 DEF Thread
    <3>4. QED
      BY <1>0, <1>1, <2>2, <3>1, <3>3, ReapedProperties DEF TakeSpare
  <2>3. CASE TakeNone(r, m)
    <3> DEFINE b == m # NoModel /\ \E x \in Living : IsPrimary(x, m)
    <3>1. request' = [request EXCEPT ![r] =
                        [phase |-> "spawning", model |-> m, worker |-> {}, bound |-> b]]
      BY <2>3 DEF TakeNone
    <3>2. b \in BOOLEAN
      OBVIOUS
    <3> HIDE DEF b
    <3>3. request' \in [Requests -> Thread]
      BY <1>0, <3>1, <3>2 DEF Thread
    <3>4. QED
      BY <1>0, <1>1, <2>3, <3>3, ReapedProperties DEF TakeNone
  <2>4. QED
    BY <1>2, <2>1, <2>2, <2>3 DEF Acquire
<1>3. ASSUME NEW r \in Requests, Spawn(r) \/ SpawnFails(r) PROVE PoolTypeOK'
  <2>1. CASE Spawn(r)
    <3>1. NewName \in Workers
      BY <2>1, NewNameIsFree DEF Spawn
    <3>2. worker' \in [Workers -> Record]
      BY <1>0, <2>1, FreshIsARecord DEF Spawn
    <3>3. request' \in [Requests -> Thread]
      BY <1>0, <2>1, <3>1 DEF Spawn, Thread
    <3>4. QED
      BY <1>0, <1>1, <2>1, <3>2, <3>3 DEF Spawn
  <2>2. CASE SpawnFails(r)
    <3>1. Over \in Thread
      BY DEF Over, NoRequest, Thread
    <3>2. QED
      BY <1>0, <1>1, <2>2, <3>1 DEF SpawnFails
  <2>3. QED
    BY <1>3, <2>1, <2>2
<1>4. ASSUME NEW r \in Requests, Bind(r) PROVE PoolTypeOK'
  <2> DEFINE e == request[r].bound \/ request[r].model = NoModel
  <2>1. PICK w \in request[r].worker :
             /\ worker' = [worker EXCEPT ![w].busy = TRUE, ![w].model = request[r].model,
                                         ![w].extra = e]
             /\ pool' = pool \cup {w}
    BY <1>4 DEF Bind
  <2>2. w \in Workers /\ request[r].model \in Models \cup {NoModel} /\ e \in BOOLEAN
    BY <1>0, <2>1 DEF Thread
  <2> HIDE DEF e
  <2>3. worker' \in [Workers -> Record]
    BY <1>0, <2>1, <2>2 DEF Record
  <2>4. request' \in [Requests -> Thread]
    <3> DEFINE t == [request[r] EXCEPT !.phase = "bound", !.bound = FALSE]
    <3>1. request' = [request EXCEPT ![r] = t]
      BY <1>4 DEF Bind
    <3>2. t \in Thread
      BY <1>0, Zenon DEF Thread
    <3> HIDE DEF t
    <3>3. QED
      BY <1>0, <3>1, <3>2
  <2>5. QED
    BY <1>0, <1>1, <1>4, <2>1, <2>2, <2>3, <2>4 DEF Bind
<1>5. ASSUME NEW r \in Requests, EnsureAfterAcquire(r) \/ EnsureAfterRelease(r) PROVE PoolTypeOK'
  <2>1. pending' \in Int /\ UNCHANGED <<pool, worker>>
    BY <1>0, <1>5, SparesCounted, PoolAssumption
       DEF EnsureAfterAcquire, EnsureAfterRelease, EnsureSpares, Want
  <2>2. Over \in Thread
    BY DEF Over, NoRequest, Thread
  <2>3. request' \in [Requests -> Thread]
    BY <1>0, <1>5, <2>2 DEF EnsureAfterAcquire, EnsureAfterRelease, Thread
  <2>4. QED
    BY <1>0, <1>1, <2>1, <2>3
<1>6. ASSUME NEW i \in DOMAIN fills, FillOne(i) \/ FillFails(i) \/ FillBreaks(i) PROVE PoolTypeOK'
  <2>1. pending' \in Int /\ request' = request
    BY <1>0, <1>6 DEF FillOne, FillFails, FillBreaks
  <2>2. pool' \subseteq Workers
    BY <1>0, <1>6, NewNameIsFree DEF FillOne, FillFails, FillBreaks
  <2>3. worker' \in [Workers -> Record]
    BY <1>0, <1>6, FreshIsARecord DEF FillOne, FillFails, FillBreaks
  <2>4. QED
    BY <1>0, <1>1, <2>1, <2>2, <2>3
<1>7. ASSUME NEW r \in Requests, NEW healthy \in BOOLEAN, Release(r, healthy) PROVE PoolTypeOK'
  <2> DEFINE t == [NoRequest EXCEPT !.phase = "released"]
  <2>1. t \in Thread
    BY DEF NoRequest, Thread
  <2>2. request' = [request EXCEPT ![r] = t] /\ pending' = pending
    BY <1>7 DEF Release
  <2> HIDE DEF t
  <2>3. request' \in [Requests -> Thread]
    BY <1>0, <2>1, <2>2
  <2>4. PICK w \in request[r].worker :
          LET after == [worker[w] EXCEPT !.busy = FALSE, !.jobs = @ + 1]
              spares == SpareSet \cup (IF after.model = NoModel THEN {w} \cap pool ELSE {})
          IN  IF Dropped(after, healthy, spares)
              THEN pool' = pool \ {w} /\ worker' = [worker EXCEPT ![w] = Fresh]
              ELSE /\ UNCHANGED pool
                   /\ worker' = [worker EXCEPT ![w] =
                         IF after.extra THEN [after EXCEPT !.model = NoModel, !.extra = FALSE]
                         ELSE after]
    BY <1>7 DEF Release
  <2>5. w \in Workers /\ worker[w] \in Record
    BY <1>0, <2>4 DEF Thread
  <2> DEFINE after == [worker[w] EXCEPT !.busy = FALSE, !.jobs = @ + 1]
             spares == SpareSet \cup (IF after.model = NoModel THEN {w} \cap pool ELSE {})
             kept == IF after.extra THEN [after EXCEPT !.model = NoModel, !.extra = FALSE] ELSE after
  <2>6. after.jobs = worker[w].jobs + 1
    BY <2>5 DEF Record
  <2>7. ASSUME ~Dropped(after, healthy, spares) PROVE kept \in Record
    <3>1. ~(after.jobs >= RecycleAfter)
      BY <2>7 DEF Dropped
    <3>2. worker[w].jobs + 1 \in 0..(RecycleAfter - 1)
      BY <2>5, <2>6, <3>1, PoolAssumption DEF Record
    <3>3. after \in Record
      BY <2>5, <3>2, Zenon DEF Record
    <3> HIDE DEF after
    <3>4. QED
      BY <3>3 DEF Record
  <2>8. worker' \in [Workers -> Record] /\ pool' \subseteq pool
    <3>1. IF Dropped(after, healthy, spares)
          THEN pool' = pool \ {w} /\ worker' = [worker EXCEPT ![w] = Fresh]
          ELSE pool' = pool /\ worker' = [worker EXCEPT ![w] = kept]
      BY <2>4
    <3> HIDE DEF after, spares, kept
    <3>2. QED
      BY <1>0, <2>7, <3>1, FreshIsARecord
  <2>9. QED
    BY <1>0, <1>1, <2>2, <2>3, <2>8
<1>8. ASSUME NEW w \in Workers, Unbind(w) \/ Dies(w) PROVE PoolTypeOK'
  <2>1. pool' \subseteq Workers /\ pending' = pending /\ request' = request
    BY <1>0, <1>8 DEF Unbind, Dies
  <2>2. worker' \in [Workers -> Record]
    BY <1>0, <1>8, FreshIsARecord DEF Unbind, Dies, Record
  <2>3. QED
    BY <1>0, <1>1, <2>1, <2>2
<1>9. CASE Reap
  BY <1>0, <1>1, <1>9, ReapedProperties DEF Reap
<1>10. CASE Shutdown
  <2>1. worker' \in [Workers -> Record]
    <3>1. \A w \in Workers : [worker[w] EXCEPT !.alive = FALSE] \in Record
      BY <1>0 DEF Record
    <3>2. QED
      BY <1>0, <1>10, <3>1, FreshIsARecord DEF Shutdown
  <2>2. QED
    BY <1>0, <1>1, <1>10, <2>1 DEF Shutdown
<1>11. CASE UNCHANGED poolVars
  BY <1>0, <1>1, <1>11 DEF poolVars
<1>12. QED
  BY <1>2, <1>3, <1>4, <1>5, <1>6, <1>7, <1>8, <1>9, <1>10, <1>11, Zenon DEF PoolNext, Serve

-----------------------------------------------------------------------------
(* Who holds what. *)

\* The workers that request s keeps keep their state, but for their life.
Undisturbed(s) ==
    \A w \in request[s].worker :
        /\ worker'[w].model = worker[w].model
        /\ worker[w].extra => worker'[w].extra
        /\ w \in pool' => w \in pool /\ (worker[w].busy => worker'[w].busy)
        /\ w \in pool \/ closed => w \in pool' \/ closed'

\* What the invariant says of the requests, pair by pair.
PairOK(s, t) == \A w \in request[s].worker : s # t => w \notin request[t].worker
OneOK(s) ==
    \A w \in request[s].worker :
        /\ \A x \in request[s].worker : w = x
        /\ w \in pool => worker[w].busy
        /\ At(s, "bound") \/ At(s, "serving") =>
              /\ worker[w].model = request[s].model /\ (w \in pool \/ closed)
              /\ request[s].model = NoModel => worker[w].extra

LEMMA HeldParts ==
    HeldOK <=> /\ \A s \in Requests : OneOK(s)
               /\ \A s, t \in Requests : PairOK(s, t)
  BY Zenon DEF HeldOK, OneWorkerEach, NoWorkerShared, JobKeepsItsWorker, UnnamedHasExtra, OneOK,
     PairOK

LEMMA HeldPartsNext ==
    HeldOK' <=> /\ \A s \in Requests : OneOK(s)'
                /\ \A s, t \in Requests : PairOK(s, t)'
  BY Zenon DEF HeldOK, OneWorkerEach, NoWorkerShared, JobKeepsItsWorker, UnnamedHasExtra, OneOK,
     PairOK

\* Nothing that a request keeps is disturbed: the invariant goes on.
LEMMA HeldKept ==
    ASSUME HeldOK, NEW s \in Requests, request'[s] = request[s], Undisturbed(s)
    PROVE  OneOK(s)'
  BY HeldParts, Zenon DEF OneOK, Undisturbed, At

\* A request that lets go of its worker, or has not got one, disturbs no other.
LEMMA HeldOne ==
    ASSUME HeldOK, NEW r \in Requests,
           \A s \in Requests \ {r} : request'[s] = request[s] /\ Undisturbed(s),
           OneOK(r)',
           \A w \in request'[r].worker : w \in request[r].worker \/ w \notin Held
    PROVE  HeldOK'
<1>1. ASSUME NEW s \in Requests PROVE OneOK(s)'
  BY HeldKept
<1>2. ASSUME NEW s \in Requests, NEW t \in Requests PROVE PairOK(s, t)'
  <2>1. PairOK(s, t) /\ PairOK(t, s)
    BY HeldParts
  <2>2. \A w : w \notin Held => w \notin request[s].worker /\ w \notin request[t].worker
    BY DEF Held
  <2>3. ASSUME s # t, NEW w \in request'[s].worker, w \in request'[t].worker PROVE FALSE
    <3>1. CASE s # r /\ t # r
      BY <2>1, <2>3, <3>1 DEF PairOK
    <3>2. CASE s = r
      <4>1. w \in request[t].worker
        BY <2>3, <3>2
      <4>2. w \in request[s].worker
        BY <2>2, <2>3, <3>2, <4>1
      <4>3. QED
        BY <2>1, <2>3, <4>1, <4>2 DEF PairOK
    <3>3. CASE t = r
      <4>1. w \in request[s].worker
        BY <2>3, <3>3
      <4>2. w \in request[t].worker
        BY <2>2, <2>3, <3>3, <4>1
      <4>3. QED
        BY <2>1, <2>3, <4>1, <4>2 DEF PairOK
    <3>4. QED
      BY <3>1, <3>2, <3>3
  <2>4. QED
    BY <2>3, Zenon DEF PairOK
<1>3. QED
  BY <1>1, <1>2, HeldPartsNext

LEMMA HeldAll ==
    ASSUME HeldOK, request' = request, \A s \in Requests : Undisturbed(s)
    PROVE  HeldOK'
<1>1. ASSUME NEW s \in Requests PROVE OneOK(s)'
  BY <1>1, HeldKept
<1>2. ASSUME NEW s \in Requests, NEW t \in Requests PROVE PairOK(s, t)'
  BY HeldParts, Zenon DEF PairOK
<1>3. QED
  BY <1>1, <1>2, HeldPartsNext

\* A worker whose state a step changes, and nobody holds, disturbs no request.
LEMMA UndisturbedOthers ==
    ASSUME PoolTypeOK, NEW s \in Requests, NEW w, w \notin request[s].worker,
           \A x \in Workers \ {w} : worker'[x] = worker[x],
           \A x \in Workers \ {w} : x \in pool <=> x \in pool',
           closed' = closed
    PROVE  Undisturbed(s)
<1>1. request[s].worker \subseteq Workers
  BY DEF PoolTypeOK
<1>2. QED
  BY <1>1, Zenon DEF Undisturbed

\* Reaping takes nothing a request holds.
LEMMA ReapKeeps ==
    ASSUME PoolTypeOK, HeldOK, NEW s \in Requests, NEW x \in request[s].worker
    PROVE  x \in Workers /\ Reaped[x] = worker[x] /\ (x \in pool => x \in Living)
<1>1. x \in Workers
  BY DEF PoolTypeOK
<1>2. x \notin pool \/ worker[x].busy
  BY HeldParts, Zenon DEF OneOK
<1>3. Reaped[x] = worker[x]
  BY <1>1, <1>2, ReapedProperties
<1>4. x \in pool => x \in Living
  BY <1>2, Zenon DEF Living
<1>5. QED
  BY <1>1, <1>3, <1>4

\* Nobody holds an idle worker of the pool.
LEMMA IdleNotHeld ==
    ASSUME HeldOK, NEW w \in pool, ~worker[w].busy
    PROVE  w \notin Held
<1>1. \A s \in Requests : w \notin request[s].worker
  BY HeldParts, Zenon DEF OneOK
<1>2. QED
  BY <1>1 DEF Held

\* What a request that has just one worker must keep.
LEMMA OneHeld ==
    ASSUME NEW r \in Requests, NEW w, request'[r].worker = {w},
           w \in pool' => worker'[w].busy,
           request'[r].phase = "bound" \/ request'[r].phase = "serving" =>
              /\ worker'[w].model = request'[r].model /\ (w \in pool' \/ closed')
              /\ request'[r].model = NoModel => worker'[w].extra
    PROVE  OneOK(r)'
<1>1. \A x \in request'[r].worker : x = w
  OBVIOUS
<1>2. QED
  BY <1>1, Zenon DEF OneOK, At

LEMMA AcquireKeepsHeld ==
    ASSUME PoolTypeOK, HeldOK, NEW r \in Requests, NEW m \in Models \cup {NoModel}, Acquire(r, m)
    PROVE  HeldOK'
<1>0. request \in [Requests -> Thread] /\ worker \in [Workers -> Record]
  BY DEF PoolTypeOK, Thread, Record
<1>1. CASE TakePrimary(r, m)
  <2>1. PICK w \in IdlePrimaries(m) :
          /\ worker' = [Reaped EXCEPT ![w].busy = TRUE]
          /\ request' = [request EXCEPT ![r] =
                            [phase |-> "serving", model |-> m, bound |-> FALSE, worker |-> {w}]]
    BY <1>1 DEF TakePrimary
  <2>2. /\ w \in Living /\ w \in pool /\ ~worker[w].busy /\ m # NoModel /\ worker[w].model = m
        /\ pool' = Living /\ closed' = closed
    BY <1>1, Zenon DEF IdlePrimaries, IsPrimary, Living, TakePrimary
  <2>3. w \notin Held /\ w \in Workers
    BY <2>2, IdleNotHeld DEF PoolTypeOK
  <2>4. Reaped \in [Workers -> Record] /\ Reaped[w] = worker[w]
    BY <2>2, ReapedProperties
  <2>5. ASSUME NEW s \in Requests \ {r} PROVE request'[s] = request[s] /\ Undisturbed(s)
    <3>1. request'[s] = request[s]
      BY <1>0, <2>1
    <3>2. ASSUME NEW x \in request[s].worker
          PROVE  worker'[x] = worker[x] /\ (x \in pool' <=> x \in pool)
      <4>1. x # w
        BY <2>3 DEF Held
      <4>2. x \in Workers /\ Reaped[x] = worker[x] /\ (x \in pool => x \in Living)
        BY ReapKeeps
      <4>3. QED
        BY <2>1, <2>2, <2>4, <4>1, <4>2 DEF Living
    <3>3. QED
      BY <2>2, <3>1, <3>2, Zenon DEF Undisturbed
  <2>6. request'[r] = [phase |-> "serving", model |-> m, bound |-> FALSE, worker |-> {w}]
    BY <1>0, <2>1
  <2>7. worker'[w] = [worker[w] EXCEPT !.busy = TRUE]
    BY <2>1, <2>3, <2>4
  <2>8. worker'[w].busy /\ worker'[w].model = m
    BY <1>0, <2>2, <2>3, <2>7 DEF Record
  <2>9. OneOK(r)'
    <3>1. /\ request'[r].worker = {w} /\ request'[r].model = m
          /\ w \in pool'
      BY <2>2, <2>6
    <3>2. QED
      BY <2>2, <2>8, <3>1, OneHeld
  <2>10. QED
    BY <2>3, <2>5, <2>6, <2>9, HeldOne
<1>2. CASE TakeSpare(r, m)
  <2> DEFINE b == m # NoModel /\ \E x \in Living : IsPrimary(x, m)
  <2>1. PICK w \in SpareSet \cap Living :
             /\ pool' = Living \ {w}
             /\ request' = [request EXCEPT ![r] =
                          [phase |-> "binding", model |-> m, worker |-> {w}, bound |-> b]]
    BY <1>2 DEF TakeSpare
  <2> HIDE DEF b
  <2>2. w \in pool /\ ~worker[w].busy /\ worker' = Reaped /\ closed' = closed
    BY <1>2, Zenon DEF SpareSet, IsSpare, TakeSpare
  <2>3. w \notin Held
    BY <2>2, IdleNotHeld
  <2>4. ASSUME NEW s \in Requests \ {r} PROVE request'[s] = request[s] /\ Undisturbed(s)
    <3>1. request'[s] = request[s]
      BY <1>0, <2>1
    <3>2. ASSUME NEW x \in request[s].worker
          PROVE  worker'[x] = worker[x] /\ (x \in pool' <=> x \in pool)
      <4>1. x # w
        BY <2>3 DEF Held
      <4>2. x \in Workers /\ Reaped[x] = worker[x] /\ (x \in pool => x \in Living)
        BY ReapKeeps
      <4>3. QED
        BY <2>1, <2>2, <4>1, <4>2 DEF Living
    <3>3. QED
      BY <2>2, <3>1, <3>2, Zenon DEF Undisturbed
  <2>5. request'[r] = [phase |-> "binding", model |-> m, worker |-> {w}, bound |-> b]
    BY <1>0, <2>1
  <2>6. OneOK(r)'
    <3>1. request'[r].worker = {w} /\ request'[r].phase = "binding" /\ w \notin pool'
      BY <2>1, <2>5
    <3>2. QED
      BY <3>1, OneHeld
  <2>7. QED
    BY <2>3, <2>4, <2>5, <2>6, HeldOne
<1>3. CASE TakeNone(r, m)
  <2> DEFINE b == m # NoModel /\ \E x \in Living : IsPrimary(x, m)
  <2>1. /\ request' = [request EXCEPT ![r] =
                          [phase |-> "spawning", model |-> m, worker |-> {}, bound |-> b]]
        /\ pool' = Living /\ worker' = Reaped /\ closed' = closed
    BY <1>3 DEF TakeNone
  <2> HIDE DEF b
  <2>2. ASSUME NEW s \in Requests \ {r} PROVE request'[s] = request[s] /\ Undisturbed(s)
    <3>1. request'[s] = request[s]
      BY <1>0, <2>1
    <3>2. ASSUME NEW x \in request[s].worker
          PROVE  worker'[x] = worker[x] /\ (x \in pool' <=> x \in pool)
      BY <2>1, ReapKeeps DEF Living
    <3>3. QED
      BY <2>1, <3>1, <3>2, Zenon DEF Undisturbed
  <2>3. request'[r].worker = {}
    BY <1>0, <2>1
  <2>4. OneOK(r)'
    BY <2>3, Zenon DEF OneOK
  <2>5. QED
    BY <2>2, <2>3, <2>4, HeldOne
<1>4. QED
  BY <1>1, <1>2, <1>3 DEF Acquire

LEMMA ServeKeepsHeld ==
    ASSUME PoolTypeOK, HeldOK, NEW r \in Requests,
           Spawn(r) \/ SpawnFails(r) \/ EnsureAfterAcquire(r) \/ EnsureAfterRelease(r)
    PROVE  HeldOK'
<1>0. request \in [Requests -> Thread] /\ worker \in [Workers -> Record]
  BY DEF PoolTypeOK, Thread, Record
<1>1. CASE Spawn(r)
  <2>1. /\ NewName \in Workers /\ NewName \notin pool /\ NewName \notin Held
        /\ worker' = [worker EXCEPT ![NewName] = Fresh]
        /\ request' = [request EXCEPT ![r].phase = "binding", ![r].worker = {NewName}]
        /\ pool' = pool /\ closed' = closed
    BY <1>1, NewNameIsFree DEF Spawn
  <2> DEFINE n == NewName
  <2> HIDE DEF n
  <2>2. ASSUME NEW s \in Requests \ {r} PROVE request'[s] = request[s] /\ Undisturbed(s)
    <3>1. request'[s] = request[s]
      BY <1>0, <2>1
    <3>2. NewName \notin request[s].worker
      BY <2>1 DEF Held
    <3>3. \A x \in Workers \ {NewName} : worker'[x] = worker[x]
      BY <1>0, <2>1
    <3>4. QED
      BY <2>1, <3>1, <3>2, <3>3, UndisturbedOthers
  <2>3. request'[r].worker = {NewName} /\ request'[r].phase = "binding"
    BY <1>0, <2>1 DEF Thread
  <2>4. OneOK(r)'
    BY <2>1, <2>3, OneHeld
  <2>5. QED
    BY <2>1, <2>2, <2>3, <2>4, HeldOne
<1>2. CASE SpawnFails(r) \/ EnsureAfterRelease(r)
  <2>1. /\ request' = [request EXCEPT ![r] = Over]
        /\ pool' = pool /\ worker' = worker /\ closed' = closed
    BY <1>2 DEF SpawnFails, EnsureAfterRelease
  <2>2. ASSUME NEW s \in Requests \ {r} PROVE request'[s] = request[s] /\ Undisturbed(s)
    <3>1. request'[s] = request[s]
      BY <1>0, <2>1
    <3>2. QED
      BY <2>1, <3>1, Zenon DEF Undisturbed
  <2>3. request'[r].worker = {}
    BY <1>0, <2>1 DEF Over, NoRequest
  <2>4. OneOK(r)'
    BY <2>3, Zenon DEF OneOK
  <2>5. QED
    BY <2>2, <2>3, <2>4, HeldOne
<1>3. CASE EnsureAfterAcquire(r)
  <2>1. /\ request' = [request EXCEPT ![r].phase = "serving"] /\ At(r, "bound")
        /\ pool' = pool /\ worker' = worker /\ closed' = closed
    BY <1>3 DEF EnsureAfterAcquire
  <2>2. ASSUME NEW s \in Requests \ {r} PROVE request'[s] = request[s] /\ Undisturbed(s)
    <3>1. request'[s] = request[s]
      BY <1>0, <2>1
    <3>2. QED
      BY <2>1, <3>1, Zenon DEF Undisturbed
  <2>3. request'[r].worker = request[r].worker /\ request'[r].model = request[r].model
    BY <1>0, <2>1 DEF Thread
  <2>4. OneOK(r)'
    BY <2>1, <2>3, HeldParts, Zenon DEF OneOK, At
  <2>5. QED
    BY <2>2, <2>3, <2>4, HeldOne
<1>4. QED
  BY <1>1, <1>2, <1>3

LEMMA BindKeepsHeld ==
    ASSUME PoolTypeOK, HeldOK, NEW r \in Requests, Bind(r)
    PROVE  HeldOK'
<1>0. request \in [Requests -> Thread] /\ worker \in [Workers -> Record]
  BY DEF PoolTypeOK, Thread, Record
<1> DEFINE e == request[r].bound \/ request[r].model = NoModel
<1>1. PICK w \in request[r].worker :
           /\ worker' = [worker EXCEPT ![w].busy = TRUE, ![w].model = request[r].model,
                                       ![w].extra = e]
           /\ pool' = pool \cup {w}
  BY DEF Bind
<1>2. /\ w \in Workers /\ closed' = closed
      /\ request' = [request EXCEPT ![r].phase = "bound", ![r].bound = FALSE]
      /\ request[r].model = NoModel => e
  BY <1>0, <1>1 DEF Thread, Bind
<1> HIDE DEF e
<1>3. request'[r].worker = request[r].worker /\ request'[r].model = request[r].model
  BY <1>0, <1>2 DEF Thread
<1>4. request[r].worker = {w}
  <2>1. \A x \in request[r].worker : x = w
    BY <1>1, HeldParts, Zenon DEF OneOK
  <2>2. QED
    BY <1>1, <2>1
<1>5. worker'[w].busy /\ worker'[w].model = request[r].model /\ worker'[w].extra = e
  BY <1>0, <1>1, <1>2 DEF Record
<1>6. OneOK(r)'
  BY <1>1, <1>2, <1>3, <1>4, <1>5, OneHeld
<1>7. ASSUME NEW s \in Requests \ {r} PROVE request'[s] = request[s] /\ Undisturbed(s)
  <2>1. request'[s] = request[s]
    BY <1>0, <1>2
  <2>2. w \notin request[s].worker
    BY <1>1, HeldParts, Zenon DEF PairOK
  <2>3. \A x \in Workers \ {w} : worker'[x] = worker[x]
    BY <1>0, <1>1
  <2>4. QED
    BY <1>1, <1>2, <2>1, <2>2, <2>3, UndisturbedOthers
<1>8. QED
  BY <1>3, <1>6, <1>7, HeldOne

LEMMA ReleaseKeepsHeld ==
    ASSUME PoolTypeOK, HeldOK, NEW r \in Requests, NEW healthy \in BOOLEAN, Release(r, healthy)
    PROVE  HeldOK'
<1>0. request \in [Requests -> Thread] /\ worker \in [Workers -> Record]
  BY DEF PoolTypeOK, Thread, Record
<1>1. PICK w \in request[r].worker :
         /\ pool' = pool \ {w} \/ pool' = pool
         /\ \E v : worker' = [worker EXCEPT ![w] = v]
  BY Zenon DEF Release
<1>2. /\ request' = [request EXCEPT ![r] = [NoRequest EXCEPT !.phase = "released"]]
      /\ closed' = closed
  BY DEF Release
<1>3. ASSUME NEW s \in Requests \ {r} PROVE request'[s] = request[s] /\ Undisturbed(s)
  <2>1. request'[s] = request[s]
    BY <1>0, <1>2
  <2>2. w \notin request[s].worker
    BY <1>1, HeldParts, Zenon DEF PairOK
  <2>3. \A x \in Workers \ {w} : worker'[x] = worker[x]
    BY <1>0, <1>1
  <2>4. QED
    BY <1>1, <1>2, <2>1, <2>2, <2>3, UndisturbedOthers
<1>4. request'[r].worker = {}
  BY <1>0, <1>2 DEF NoRequest
<1>5. OneOK(r)'
  BY <1>4, Zenon DEF OneOK
<1>6. QED
  BY <1>3, <1>4, <1>5, HeldOne

\* The fill threads, the timer, a crash, the reaper and the shutdown.
LEMMA OthersKeepHeld ==
    ASSUME PoolTypeOK, HeldOK,
           \/ \E i \in DOMAIN fills : FillOne(i) \/ FillFails(i) \/ FillBreaks(i)
           \/ \E w \in Workers : Unbind(w) \/ Dies(w)
           \/ Reap \/ Shutdown \/ UNCHANGED poolVars
    PROVE  HeldOK'
<1>0. request \in [Requests -> Thread] /\ worker \in [Workers -> Record]
  BY DEF PoolTypeOK, Thread, Record
<1>1. ASSUME NEW i \in DOMAIN fills, FillOne(i), ~closed PROVE HeldOK'
  <2>1. /\ NewName \in Workers /\ NewName \notin pool /\ NewName \notin Held
        /\ worker' = [worker EXCEPT ![NewName] = Fresh] /\ pool' = pool \cup {NewName}
        /\ request' = request /\ closed' = closed
    BY <1>1, NewNameIsFree DEF FillOne
  <2>2. ASSUME NEW s \in Requests PROVE Undisturbed(s)
    <3>1. NewName \notin request[s].worker
      BY <2>1 DEF Held
    <3>2. \A x \in Workers \ {NewName} : worker'[x] = worker[x]
      BY <1>0, <2>1
    <3>3. QED
      BY <2>1, <3>1, <3>2, UndisturbedOthers
  <2>3. QED
    BY <2>1, <2>2, HeldAll
<1>2. ASSUME pool' = pool, worker' = worker, request' = request, closed' = closed PROVE HeldOK'
  <2>1. \A s \in Requests : Undisturbed(s)
    BY <1>2, Zenon DEF Undisturbed
  <2>2. QED
    BY <1>2, <2>1, HeldAll
<1>3. ASSUME NEW w \in Workers, Unbind(w) PROVE HeldOK'
  <2>1. /\ w \in pool /\ ~worker[w].busy /\ request' = request /\ closed' = closed
        /\ pool' = pool \/ pool' = pool \ {w}
        /\ \A x \in Workers \ {w} : worker'[x] = worker[x]
    BY <1>0, <1>3 DEF Unbind
  <2>2. ASSUME NEW s \in Requests PROVE Undisturbed(s)
    <3>1. w \notin request[s].worker
      BY <2>1, IdleNotHeld DEF Held
    <3>2. QED
      BY <2>1, <3>1, UndisturbedOthers
  <2>3. QED
    BY <2>1, <2>2, HeldAll
<1>4. ASSUME NEW w \in Workers, Dies(w) PROVE HeldOK'
  <2>1. /\ request' = request /\ pool' = pool /\ closed' = closed
        /\ worker' = [worker EXCEPT ![w].alive = FALSE]
    BY <1>4 DEF Dies
  <2>2. \A x \in Workers : /\ worker'[x].model = worker[x].model
                            /\ worker'[x].extra = worker[x].extra
                            /\ worker'[x].busy = worker[x].busy
    BY <1>0, <2>1 DEF Record
  <2>3. ASSUME NEW s \in Requests PROVE Undisturbed(s)
    <3>1. request[s].worker \subseteq Workers
      BY <1>0 DEF Thread
    <3>2. \A x \in request[s].worker : /\ worker'[x].model = worker[x].model
                                        /\ worker'[x].extra = worker[x].extra
                                        /\ worker'[x].busy = worker[x].busy
      BY <2>2, <3>1
    <3>3. QED
      BY <2>1, <3>2, Zenon DEF Undisturbed
  <2>4. QED
    BY <2>1, <2>3, HeldAll
<1>5. CASE Reap
  <2>1. pool' = Living /\ worker' = Reaped /\ request' = request /\ closed' = closed
    BY <1>5 DEF Reap
  <2>2. ASSUME NEW s \in Requests PROVE Undisturbed(s)
    <3>1. \A x \in request[s].worker : worker'[x] = worker[x] /\ (x \in pool' <=> x \in pool)
      BY <2>1, ReapKeeps DEF Living
    <3>2. QED
      BY <2>1, <3>1, Zenon DEF Undisturbed
  <2>3. QED
    BY <2>1, <2>2, HeldAll
<1>6. CASE Shutdown
  <2>1. /\ pool' = {} /\ request' = request /\ closed'
        /\ worker' = [w \in Workers |->
                        IF w \in pool \cap Held THEN [worker[w] EXCEPT !.alive = FALSE]
                        ELSE IF w \in Held THEN worker[w] ELSE Fresh]
    BY <1>6 DEF Shutdown
  <2>2. ASSUME NEW s \in Requests PROVE Undisturbed(s)
    <3>1. ASSUME NEW x \in request[s].worker
          PROVE  worker'[x].model = worker[x].model /\ worker'[x].extra = worker[x].extra
      <4>1. x \in Workers /\ x \in Held
        BY <1>0 DEF Thread, Held
      <4>2. worker'[x] = worker[x] \/ worker'[x] = [worker[x] EXCEPT !.alive = FALSE]
        BY <2>1, <4>1
      <4>3. QED
        BY <1>0, <4>1, <4>2 DEF Record
    <3>2. QED
      BY <2>1, <3>1, Zenon DEF Undisturbed
  <2>3. QED
    BY <2>1, <2>2, HeldAll
<1>7. CASE UNCHANGED poolVars
  BY <1>2, <1>7 DEF poolVars
<1>8. ASSUME NEW i \in DOMAIN fills, FillFails(i) \/ FillBreaks(i) \/ (FillOne(i) /\ closed)
      PROVE  HeldOK'
  BY <1>2, <1>8 DEF FillOne, FillFails, FillBreaks
<1>9. QED
  BY <1>1, <1>3, <1>4, <1>5, <1>6, <1>7, <1>8

LEMMA HeldStep == PoolTypeOK /\ HeldOK /\ [PoolNext]_poolVars => HeldOK'
  BY AcquireKeepsHeld, ServeKeepsHeld, BindKeepsHeld, ReleaseKeepsHeld, OthersKeepHeld, Zenon
     DEF PoolNext, Serve

-----------------------------------------------------------------------------
(* The reserve. *)

LEMMA PoolStaysFinite ==
    ASSUME PoolTypeOK, IsFiniteSet(pool), [PoolNext]_poolVars
    PROVE  IsFiniteSet(pool)'
<1>1. ASSUME NEW x, pool' \subseteq pool \cup {x} PROVE IsFiniteSet(pool)'
  BY <1>1, FS_AddElement, FS_Subset
<1>2. \E x : pool' \subseteq pool \cup {x}
  <2>1. ASSUME NEW r \in Requests, NEW m \in Models \cup {NoModel}, Acquire(r, m)
        PROVE  pool' \subseteq pool
    BY <2>1, ReapedProperties DEF Acquire, TakePrimary, TakeSpare, TakeNone
  <2>2. ASSUME NEW r \in Requests, Bind(r) PROVE \E x : pool' \subseteq pool \cup {x}
    BY <2>2 DEF Bind
  <2>3. ASSUME NEW i \in DOMAIN fills, FillOne(i) \/ FillFails(i) \/ FillBreaks(i)
        PROVE  \E x : pool' \subseteq pool \cup {x}
    BY <2>3, Zenon DEF FillOne, FillFails, FillBreaks
  <2>4. ASSUME NEW r \in Requests, NEW healthy \in BOOLEAN, Release(r, healthy)
        PROVE  pool' \subseteq pool
    <3>1. \E w : pool' = pool \ {w} \/ pool' = pool
      BY <2>4, Zenon DEF Release
    <3>2. QED
      BY <3>1
  <2>5. ASSUME NEW r \in Requests, Spawn(r) \/ SpawnFails(r) \/ EnsureAfterAcquire(r)
                                   \/ EnsureAfterRelease(r)
        PROVE  pool' \subseteq pool
    BY <2>5 DEF Spawn, SpawnFails, EnsureAfterAcquire, EnsureAfterRelease
  <2>6. ASSUME NEW w \in Workers, Unbind(w) \/ Dies(w) PROVE pool' \subseteq pool
    BY <2>6 DEF Unbind, Dies
  <2>7. Reap \/ Shutdown \/ UNCHANGED poolVars => pool' \subseteq pool
    BY ReapedProperties DEF Reap, Shutdown, poolVars
  <2>8. pool' \subseteq pool \/ \E x : pool' \subseteq pool \cup {x}
    BY <2>1, <2>2, <2>3, <2>4, <2>5, <2>6, <2>7, Zenon DEF PoolNext, Serve
  <2>9. QED
    BY <2>8
<1>3. QED
  BY <1>1, <1>2

LEMMA NoMoreSpares ==
    ASSUME IsFiniteSet(pool), SparesWithinSize, pending \in Int, pending' \in Int,
           SpareSet' \subseteq SpareSet, pending' <= pending
    PROVE  SparesWithinSize'
<1>1. Cardinality(SpareSet') <= Cardinality(SpareSet) /\ Cardinality(SpareSet') \in Nat
  BY SparesCounted, FS_Subset, FS_CardinalityType
<1>2. QED
  BY <1>1, SparesCounted, PoolAssumption DEF SparesWithinSize

\* S counts the spares, but perhaps for one.
LEMMA OneMoreSpare ==
    ASSUME NEW S, IsFiniteSet(S), NEW w, pending' \in Int,
           SpareSet' \subseteq S \cup {w}, Cardinality(S) + 1 + pending' <= Spares
    PROVE  SparesWithinSize'
<1>1. /\ IsFiniteSet(S \cup {w}) /\ Cardinality(S \cup {w}) \in Nat /\ Cardinality(S) \in Nat
      /\ Cardinality(S \cup {w}) <= Cardinality(S) + 1
  BY FS_AddElement, FS_CardinalityType
<1>2. Cardinality(SpareSet') <= Cardinality(S \cup {w}) /\ Cardinality(SpareSet') \in Nat
  BY <1>1, FS_Subset, FS_CardinalityType
<1>3. QED
  BY <1>1, <1>2, PoolAssumption DEF SparesWithinSize

LEMMA ReleaseKeepsReserve ==
    ASSUME PoolTypeOK, IsFiniteSet(pool), HeldOK, SparesWithinSize,
           NEW r \in Requests, NEW healthy \in BOOLEAN, Release(r, healthy)
    PROVE  SparesWithinSize'
<1>0. /\ request \in [Requests -> Thread] /\ worker \in [Workers -> Record]
      /\ pool \subseteq Workers /\ pending \in Int /\ pending' = pending
  BY DEF PoolTypeOK, Thread, Record, Release
<1>1. PICK w \in request[r].worker :
          LET after == [worker[w] EXCEPT !.busy = FALSE, !.jobs = @ + 1]
              spares == SpareSet \cup (IF after.model = NoModel THEN {w} \cap pool ELSE {})
          IN  IF Dropped(after, healthy, spares)
              THEN pool' = pool \ {w} /\ worker' = [worker EXCEPT ![w] = Fresh]
              ELSE /\ UNCHANGED pool
                   /\ worker' = [worker EXCEPT ![w] =
                         IF after.extra THEN [after EXCEPT !.model = NoModel, !.extra = FALSE]
                         ELSE after]
  BY DEF Release
<1> DEFINE after == [worker[w] EXCEPT !.busy = FALSE, !.jobs = @ + 1]
           spares == SpareSet \cup (IF after.model = NoModel THEN {w} \cap pool ELSE {})
           kept == IF after.extra THEN [after EXCEPT !.model = NoModel, !.extra = FALSE] ELSE after
<1>2. w \in Workers /\ worker[w] \in Record
  BY <1>0, <1>1 DEF Thread
<1>3. IF Dropped(after, healthy, spares)
      THEN pool' = pool \ {w} /\ worker' = [worker EXCEPT ![w] = Fresh]
      ELSE pool' = pool /\ worker' = [worker EXCEPT ![w] = kept]
  BY <1>1
<1>4. after.extra = worker[w].extra /\ after.model = worker[w].model
  BY <1>2 DEF Record
<1>5. ~after.extra => kept.model = worker[w].model
  BY <1>4
<1>6. IsFiniteSet(spares)
  <2>1. spares \subseteq pool
    BY DEF SpareSet
  <2> HIDE DEF spares
  <2>2. QED
    BY <2>1, FS_Subset
<1>7. SpareSet \subseteq spares
  OBVIOUS
<1>8. At(r, "serving")
  BY DEF Release
<1>9. ~after.extra => worker[w].model # NoModel
  BY <1>1, <1>4, <1>8, Zenon DEF HeldOK, JobKeepsItsWorker, UnnamedHasExtra
<1>10. ASSUME ~Dropped(after, healthy, spares), after.extra
       PROVE  Cardinality(spares) + pending < Spares
  <2>1. ~ReserveFull(spares)
    BY <1>10 DEF Dropped
  <2>2. Cardinality(spares) \in Nat
    BY <1>6, FS_CardinalityType
  <2> HIDE DEF spares
  <2>3. QED
    BY <1>0, <2>1, <2>2, PoolAssumption DEF ReserveFull
<1>11. \A x \in Workers \ {w} : worker'[x] = worker[x]
  <2> HIDE DEF after, spares, kept
  <2>1. QED
    BY <1>0, <1>3
<1>12. CASE Dropped(after, healthy, spares)
  <2>1. pool' = pool \ {w}
    BY <1>3, <1>12
  <2>2. SpareSet' \subseteq SpareSet
    BY <1>0, <1>11, <2>1 DEF SpareSet, IsSpare
  <2>3. QED
    BY <1>0, <2>2, NoMoreSpares
<1>13. CASE ~Dropped(after, healthy, spares) /\ after.extra
  <2>1. pool' = pool
    BY <1>3, <1>13
  <2>2. SpareSet' \subseteq SpareSet \cup {w}
    BY <1>0, <1>11, <2>1 DEF SpareSet, IsSpare
  <2>3. Cardinality(spares) + 1 + pending' <= Spares
    <3>1. Cardinality(spares) \in Nat
      BY <1>6, FS_CardinalityType
    <3>2. Cardinality(spares) + pending < Spares
      BY <1>10, <1>13
    <3> HIDE DEF spares
    <3>3. QED
      BY <1>0, <3>1, <3>2, PoolAssumption
  <2> HIDE DEF spares
  <2>4. QED
    BY <1>0, <1>6, <1>7, <2>2, <2>3, OneMoreSpare
<1>14. CASE ~Dropped(after, healthy, spares) /\ ~after.extra
  <2>1. pool' = pool /\ worker' = [worker EXCEPT ![w] = kept]
    BY <1>3, <1>14
  <2>2. worker'[w] = kept
    BY <1>0, <1>2, <2>1
  <2>3. worker'[w].model # NoModel
    BY <1>5, <1>9, <1>14, <2>2
  <2>4. SpareSet' \subseteq SpareSet
    BY <1>0, <1>11, <2>1, <2>3 DEF SpareSet, IsSpare
  <2>5. QED
    BY <1>0, <2>4, NoMoreSpares
<1>15. QED
  BY <1>12, <1>13, <1>14

LEMMA ReserveStep ==
    ASSUME PoolTypeOK, IsFiniteSet(pool), HeldOK, SparesWithinSize, [PoolNext]_poolVars
    PROVE  SparesWithinSize'
<1>0. /\ request \in [Requests -> Thread] /\ worker \in [Workers -> Record]
      /\ pool \subseteq Workers /\ pending \in Int
  BY DEF PoolTypeOK, Thread, Record
<1>1. ASSUME pending' = pending, pool' \subseteq pool,
             \A x \in pool' : worker'[x].busy \/ worker'[x] = worker[x]
      PROVE  SparesWithinSize'
  <2>1. SpareSet' \subseteq SpareSet
    BY <1>1 DEF SpareSet, IsSpare
  <2>2. QED
    BY <1>0, <1>1, <2>1, NoMoreSpares
<1>2. ASSUME NEW r \in Requests, NEW m \in Models \cup {NoModel}, Acquire(r, m)
      PROVE  SparesWithinSize'
  <2>1. CASE TakePrimary(r, m)
    <3>1. PICK w \in IdlePrimaries(m) : worker' = [Reaped EXCEPT ![w].busy = TRUE]
      BY <2>1 DEF TakePrimary
    <3>2. pool' = Living /\ pending' = pending
      BY <2>1 DEF TakePrimary
    <3>3. \A x \in Living : worker'[x].busy \/ worker'[x] = worker[x]
      <4>1. /\ Reaped \in [Workers -> Record] /\ Living \subseteq Workers
            /\ \A x \in Living : Reaped[x] = worker[x]
        BY <1>0, ReapedProperties
      <4>2. QED
        BY <3>1, <4>1 DEF Record
    <3>4. QED
      BY <1>1, <3>2, <3>3, ReapedProperties
  <2>2. CASE TakeSpare(r, m) \/ TakeNone(r, m)
    <3>1. pool' \subseteq Living /\ worker' = Reaped /\ pending' = pending
      BY <2>2 DEF TakeSpare, TakeNone
    <3>2. QED
      BY <1>1, <3>1, ReapedProperties
  <2>3. QED
    BY <1>2, <2>1, <2>2 DEF Acquire
<1>3. ASSUME NEW r \in Requests, Spawn(r) \/ SpawnFails(r) PROVE SparesWithinSize'
  <2>1. pool' = pool /\ pending' = pending
    BY <1>3 DEF Spawn, SpawnFails
  <2>2. \A x \in pool : worker'[x] = worker[x]
    BY <1>0, <1>3, NewNameIsFree DEF Spawn, SpawnFails
  <2>3. QED
    BY <1>1, <2>1, <2>2
<1>4. ASSUME NEW r \in Requests, Bind(r) PROVE SparesWithinSize'
  <2> DEFINE e == request[r].bound \/ request[r].model = NoModel
  <2>1. PICK w \in request[r].worker :
             /\ worker' = [worker EXCEPT ![w].busy = TRUE, ![w].model = request[r].model,
                                         ![w].extra = e]
             /\ pool' = pool \cup {w}
    BY <1>4 DEF Bind
  <2>2. w \in Workers /\ pending' = pending
    BY <1>0, <1>4, <2>1 DEF Thread, Bind
  <2> HIDE DEF e
  <2>3. worker'[w].busy /\ \A x \in Workers \ {w} : worker'[x] = worker[x]
    BY <1>0, <2>1, <2>2 DEF Record
  <2>4. SpareSet' \subseteq SpareSet
    BY <1>0, <2>1, <2>3 DEF SpareSet, IsSpare
  <2>5. QED
    BY <1>0, <2>2, <2>4, NoMoreSpares
<1>5. ASSUME NEW r \in Requests, EnsureAfterAcquire(r) \/ EnsureAfterRelease(r)
      PROVE  SparesWithinSize'
  <2>1. pool' = pool /\ worker' = worker /\ EnsureSpares
    BY <1>5 DEF EnsureAfterAcquire, EnsureAfterRelease
  <2>2. SpareSet' = SpareSet
    BY <2>1 DEF SpareSet, IsSpare
  <2>3. pending' = pending \/ Cardinality(SpareSet) + pending' = Spares
    BY <1>0, <2>1, SparesCounted, PoolAssumption DEF EnsureSpares, Want
  <2>4. QED
    BY <2>2, <2>3, SparesCounted, PoolAssumption DEF SparesWithinSize
<1>6. ASSUME NEW i \in DOMAIN fills, FillOne(i), ~closed PROVE SparesWithinSize'
  <2>1. /\ pending' = pending - 1 /\ pool' = pool \cup {NewName} /\ NewName \notin pool
        /\ worker' = [worker EXCEPT ![NewName] = Fresh]
    BY <1>6, NewNameIsFree DEF FillOne
  <2>2. SpareSet' \subseteq SpareSet \cup {NewName}
    BY <1>0, <2>1 DEF SpareSet, IsSpare
  <2>3. Cardinality(SpareSet) + 1 + pending' <= Spares /\ pending' \in Int
    BY <1>0, <2>1, SparesCounted, PoolAssumption DEF SparesWithinSize
  <2>4. QED
    BY <2>2, <2>3, SparesCounted, OneMoreSpare
<1>7. ASSUME NEW i \in DOMAIN fills, FillFails(i) \/ FillBreaks(i) \/ (FillOne(i) /\ closed)
      PROVE  SparesWithinSize'
  <2>1. pool' = pool /\ worker' = worker /\ pending' \in Int /\ pending' <= pending
    BY <1>0, <1>7 DEF FillOne, FillFails, FillBreaks
  <2>2. SpareSet' = SpareSet
    BY <2>1 DEF SpareSet, IsSpare
  <2>3. QED
    BY <1>0, <2>1, <2>2, NoMoreSpares
<1>8. ASSUME NEW w \in Workers, Unbind(w) PROVE SparesWithinSize'
  <2>1. pending' = pending /\ \A x \in Workers \ {w} : worker'[x] = worker[x]
    BY <1>0, <1>8 DEF Unbind
  <2>2. CASE ReserveFull(SpareSet)
    <3>1. pool' = pool \ {w}
      BY <1>8, <2>2 DEF Unbind
    <3>2. QED
      BY <1>0, <1>1, <2>1, <3>1
  <2>3. CASE ~ReserveFull(SpareSet)
    <3>1. pool' = pool
      BY <1>8, <2>3 DEF Unbind
    <3>2. SpareSet' \subseteq SpareSet \cup {w}
      BY <1>0, <2>1, <3>1 DEF SpareSet, IsSpare
    <3>3. Cardinality(SpareSet) + 1 + pending' <= Spares
      BY <1>0, <2>1, <2>3, SparesCounted, PoolAssumption DEF ReserveFull
    <3>4. QED
      BY <1>0, <2>1, <3>2, <3>3, SparesCounted, OneMoreSpare
  <2>4. QED
    BY <2>2, <2>3
<1>9. ASSUME NEW w \in Workers, Dies(w) PROVE SparesWithinSize'
  <2>1. pool' = pool /\ pending' = pending /\ worker' = [worker EXCEPT ![w].alive = FALSE]
    BY <1>9 DEF Dies
  <2>2. \A x \in Workers : worker'[x].model = worker[x].model /\ worker'[x].busy = worker[x].busy
    BY <1>0, <2>1 DEF Record
  <2>3. SpareSet' \subseteq SpareSet
    BY <1>0, <2>1, <2>2 DEF SpareSet, IsSpare
  <2>4. QED
    BY <1>0, <2>1, <2>3, NoMoreSpares
<1>10. CASE Reap
  BY <1>1, <1>10, ReapedProperties DEF Reap
<1>11. CASE Shutdown
  BY <1>1, <1>11 DEF Shutdown
<1>12. CASE UNCHANGED poolVars
  BY <1>1, <1>12 DEF poolVars
<1>13. QED
  BY <1>2, <1>3, <1>4, <1>5, <1>6, <1>7, <1>8, <1>9, <1>10, <1>11, <1>12, ReleaseKeepsReserve,
     Zenon DEF PoolNext, Serve

-----------------------------------------------------------------------------
LEMMA PoolInitial == PoolInit => PoolIInv
<1> SUFFICES ASSUME PoolInit PROVE PoolIInv
  OBVIOUS
<1>1. PoolTypeOK
  <2>1. NoRequest \in Thread
    BY DEF NoRequest, Thread
  <2>2. worker \in [Workers -> Record] /\ request \in [Requests -> Thread]
    BY <2>1, FreshIsARecord DEF PoolInit
  <2>3. QED
    BY <2>2, PoolAssumption DEF PoolTypeOK, PoolInit, Record, Thread
<1>2. IsFiniteSet(pool)
  BY FS_EmptySet DEF PoolInit
<1>3. HeldOK
  <2>1. \A r \in Requests : request[r].worker = {}
    BY DEF PoolInit, NoRequest
  <2>2. QED
    BY <2>1 DEF HeldOK, OneWorkerEach, NoWorkerShared, JobKeepsItsWorker, UnnamedHasExtra
<1>4. SparesWithinSize
  <2>1. SpareSet = {}
    BY DEF SpareSet, PoolInit
  <2>2. QED
    BY <2>1, FS_EmptySet, PoolAssumption DEF SparesWithinSize, PoolInit
<1>5. QED
  BY <1>1, <1>2, <1>3, <1>4 DEF PoolIInv

LEMMA PoolInductive == PoolIInv /\ [PoolNext]_poolVars => PoolIInv'
  BY PoolTypeStep, PoolStaysFinite, HeldStep, ReserveStep DEF PoolIInv

\* The inductive invariant of the pool (pool.py).
THEOREM PoolInvariant == PoolSpec => []PoolIInv
<1>1. PoolInit /\ [][PoolNext]_poolVars => []PoolIInv
  BY PoolInitial, PoolInductive, PTL
<1>2. QED
  BY <1>1, PTL DEF PoolSpec

\* A worker's record stays a record, and no worker outlives its quota of jobs
\* (pool.py:381).
THEOREM PoolTyped == PoolSpec => []PoolTypeOK
<1>1. PoolIInv => PoolTypeOK
  BY DEF PoolIInv
<1>2. QED
  BY <1>1, PoolInvariant, PTL

\* Two critical sections of acquire() apart, no worker is handed to two request
\* threads, nor offered to a third (pool.py:301-345).
THEOREM WorkerNeverShared == PoolSpec => []NoWorkerShared
<1>1. PoolIInv => NoWorkerShared
  BY DEF PoolIInv, HeldOK
<1>2. QED
  BY <1>1, PoolInvariant, PTL

\* Neither the reaper, the timer, another request nor the shutdown takes a job's
\* worker, or binds it to another model (pool.py:307-415).
THEOREM WorkerStaysWithJob == PoolSpec => []JobKeepsItsWorker
<1>1. PoolIInv => JobKeepsItsWorker
  BY DEF PoolIInv, HeldOK
<1>2. QED
  BY <1>1, PoolInvariant, PTL

\* Fill threads, released extras and unbound workers never make the reserve
\* larger than spare_count() (pool.py:274-299, 371-394).
THEOREM ReserveBounded == PoolSpec => []SparesWithinSize
<1>1. PoolIInv => SparesWithinSize
  BY DEF PoolIInv
<1>2. QED
  BY <1>1, PoolInvariant, PTL

=============================================================================
