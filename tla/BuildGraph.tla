----------------------------- MODULE BuildGraph -----------------------------
(***************************************************************************)
(* Builds that call other builds (daemon executor).  A request builds one  *)
(* model on a worker; the body calls child models, each call goes through  *)
(* the gate, a stale child is submitted as a request of its own or joins   *)
(* the one in flight for the same source, and the parent waits for it when *)
(* it reads the geometry, giving its job slot back for the wait.           *)
(*                                                                         *)
(* Modelled here: authoring._compose_child, executors.submit, store/lazy,  *)
(* the request threads of daemon/server.py, claim and finish of            *)
(* daemon/broker.py.  The slots are those of SlotService.  A request       *)
(* always gets a worker, and the publish rule with the record it writes    *)
(* is one step.                                                            *)
(***************************************************************************)
EXTENDS Integers, Sequences, FiniteSets, Functions

CONSTANTS Models,
          Children,     \* for each model, the child models its body calls, in order
          HelperFrom,   \* for each model, the version from which it imports a helper
          Limit,        \* job slots
          Roots,        \* models a user may ask for
          MaxRequests,  \* bound on what users ask for
          MaxJobs,      \* bound on the requests, nested ones included
          MaxEdits,     \* bound on the source edits
          Faulty,       \* models whose body or process may fail
          Unspawnable   \* models for whose worker the OS may refuse a process

ASSUME BuildAssumption ==
    /\ Children \in [Models -> Seq(Models)]
    /\ HelperFrom \in [Models -> Nat \ {0}]
    /\ Limit \in Nat \ {0} /\ MaxEdits \in Nat
    /\ MaxRequests \in Nat /\ MaxJobs \in Nat

VARIABLES version,      \* for each model, the version of its source: script and helper
          script,       \* for each model, the version its script was last saved as
          record,       \* for each model, the store's record, or NoRecord
          jobs,         \* the requests, in the order they were made
          inflight,     \* Broker._inflight: <<model, closure hash>> -> who builds it
          asking,       \* requests waiting for a slot
          holding       \* requests that hold one

buildVars == <<version, script, record, jobs, inflight, asking, holding>>

Slots == INSTANCE SlotService WITH Requests <- 1..MaxJobs

\* A tree stands for what a result was made from: <<model, version>> pairs.  A
\* record adds the source that ran and, for each child the body called, the tree
\* that was composed.
NoRecord == [ran |-> 0, tree |-> {}, pins |-> <<>>]

Callees(m) == Range(Children[m])

\* The models m is built from: those in every set that has what m calls and what
\* its own members call.
BuiltFrom ==
    [m \in Models |->
        {d \in Models : \A S \in SUBSET Models :
            (Callees(m) \subseteq S /\ \A e \in S : Callees(e) \subseteq S) => d \in S}]

\* Faulty: the gate does not compare what was composed.
OutdatedSource(m) == record[m] = NoRecord \/ record[m].ran # version[m]

\* gate.stale: no record, source moved on, or a child rebuilt to another tree.
\* The recorded files are those the source that ran imports, and a helper comes
\* with a save of the script, so their hash has moved when the source has.
Outdated(m) ==
    \/ record[m] = NoRecord
    \/ record[m].ran # version[m]
    \/ \E c \in DOMAIN record[m].pins : record[m].pins[c] # record[c].tree

\* ... of the model itself or of any model it is built from.
Stale(m) == Outdated(m) \/ \E d \in BuiltFrom[m] : Outdated(d)

\* verdict.closure, what the gate hashed: the script alone without a record, else
\* the files the record lists, as they are now.
Imports(m, v) == v >= HelperFrom[m]
Hashed(m) ==
    LET files == IF record[m] = NoRecord THEN "script"
                 ELSE IF Imports(m, record[m].ran) THEN "all" ELSE "listed"
    IN  [of |-> files, at |-> IF files = "all" THEN version[m] ELSE script[m]]

\* A dictionary with this entry.
Put(dict, key, value) ==
    [k \in DOMAIN dict \cup {key} |-> IF k = key THEN value ELSE dict[k]]

-----------------------------------------------------------------------------
Job == DOMAIN jobs

\* Faulty: the registry forgets which source is being built.
KeyModelOnly(j) == <<jobs[j].model, 0>>

\* What in-flight coalescing compares: the model and the submitter's hash of it.
Key(j) == <<jobs[j].model, jobs[j].key>>
Over(j) == jobs[j].phase = "ended"
Running(j) == jobs[j].phase \in {"gate", "queued", "building", "waiting", "resuming"}

\* A request carries the hash its submitter's gate took; asked remembers the
\* sources as they were then.
NewJob(m, p) ==
    [model |-> m, parent |-> p, asked |-> version, key |-> Hashed(m), phase |-> "sent",
     ran |-> 0, called |-> 0, sub |-> <<>>, pins |-> <<>>, awaits |-> 0,
     code |-> 0, tree |-> {}, dead |-> FALSE]

\* The slots after request j let go of whatever it had of them.
Release(j) ==
    /\ asking' = asking \ {j}
    /\ holding' = holding \ {j}

\* The worker's run is over with this exit code; its lease goes with it.
Ending(j, code, tree) ==
    /\ jobs' = [jobs EXCEPT ![j].phase = "ending", ![j].code = code,
                            ![j].tree = tree, ![j].awaits = 0]
    /\ Release(j)

Init ==
    /\ version = [m \in Models |-> 1]
    /\ script = [m \in Models |-> 1]
    /\ record = [m \in Models |-> NoRecord]
    /\ jobs = <<>>
    /\ inflight = <<>>
    /\ asking = {}
    /\ holding = {}

Requested == {j \in Job : jobs[j].parent = 0}

\* python model.py
Request(m) ==
    /\ m \in Roots
    /\ Cardinality(Requested) < MaxRequests /\ Len(jobs) < MaxJobs
    /\ jobs' = Append(jobs, NewJob(m, 0))
    /\ UNCHANGED <<version, script, record, inflight, asking, holding>>

MayEdit(m) ==
    /\ \A d \in Models : d # m => version[d] = 1
    /\ version[m] <= MaxEdits

\* The author saves a script.
Edit(m) ==
    /\ MayEdit(m)
    /\ version' = [version EXCEPT ![m] = @ + 1]
    /\ script' = [script EXCEPT ![m] = version[m] + 1]
    /\ UNCHANGED <<record, jobs, inflight, asking, holding>>

\* ... or only the helper the script imports.
EditHelper(m) ==
    /\ MayEdit(m)
    /\ Imports(m, version[m])
    /\ version' = [version EXCEPT ![m] = @ + 1]
    /\ UNCHANGED <<script, record, jobs, inflight, asking, holding>>

\* The request of a user is never coalesced.
StartRequested(j) ==
    /\ jobs[j].phase = "sent"
    /\ jobs[j].parent = 0
    /\ jobs' = [jobs EXCEPT ![j].phase = "gate"]
    /\ UNCHANGED <<version, script, record, inflight, asking, holding>>

\* Faulty: the registry is written without being read.
ClaimAlways(j) ==
    /\ jobs[j].phase = "sent"
    /\ jobs[j].parent # 0
    /\ inflight' = Put(inflight, Key(j), j)
    /\ jobs' = [jobs EXCEPT ![j].phase = "gate"]
    /\ UNCHANGED <<version, script, record, asking, holding>>

\* Broker.claim: nobody builds this source, so this request does.
Claim(j) ==
    /\ jobs[j].phase = "sent"
    /\ jobs[j].parent # 0
    /\ Key(j) \notin DOMAIN inflight
    /\ inflight' = Put(inflight, Key(j), j)
    /\ jobs' = [jobs EXCEPT ![j].phase = "gate"]
    /\ UNCHANGED <<version, script, record, asking, holding>>

\* Broker.claim: somebody does, and the request thread waits for that job.
Join(j) ==
    /\ jobs[j].phase = "sent"
    /\ jobs[j].parent # 0
    /\ Key(j) \in DOMAIN inflight
    /\ jobs' = [jobs EXCEPT ![j].phase = "joined", ![j].awaits = inflight[Key(j)]]
    /\ UNCHANGED <<version, script, record, inflight, asking, holding>>

\* The worker's own gate finds that another build has made the model current.
SkipCurrent(j) ==
    /\ jobs[j].phase = "gate"
    /\ ~Stale(jobs[j].model)
    /\ Ending(j, 0, record[jobs[j].model].tree)
    /\ UNCHANGED <<version, script, record, inflight>>

\* ... or asks for a job slot.
AskSlot(j) ==
    /\ jobs[j].phase = "gate"
    /\ Stale(jobs[j].model)
    /\ Slots!Ask(j)
    /\ jobs' = [jobs EXCEPT ![j].phase = "queued"]
    /\ UNCHANGED <<version, script, record, inflight>>

\* The slot comes: the source is loaded as it is now, or the body goes on.
TakeSlot(j) ==
    /\ Slots!Take(j)
    /\ jobs' = [jobs EXCEPT ![j].phase = "building",
                            ![j].ran = IF jobs[j].phase = "queued"
                                       THEN version[jobs[j].model] ELSE @]
    /\ UNCHANGED <<version, script, record, inflight>>

-----------------------------------------------------------------------------
\* The body, between two waits.
InBody(j) == jobs[j].phase = "building" /\ jobs[j].awaits = 0
CallsLeft(j) == jobs[j].called < Len(Children[jobs[j].model])
Callee(j) == Children[jobs[j].model][jobs[j].called + 1]
Known(j) == DOMAIN jobs[j].sub \cup DOMAIN jobs[j].pins

\* A model that calls itself raises.
CallItself(j) ==
    /\ InBody(j) /\ CallsLeft(j)
    /\ Callee(j) = jobs[j].model
    /\ Ending(j, 1, {})
    /\ UNCHANGED <<version, script, record, inflight>>

\* A child called before in this build: the same job, the same pin.
CallAgain(j) ==
    /\ InBody(j) /\ CallsLeft(j)
    /\ Callee(j) \in Known(j)
    /\ jobs' = [jobs EXCEPT ![j].called = @ + 1]
    /\ UNCHANGED <<version, script, record, inflight, asking, holding>>

\* A current child is pinned at the call.
CallCurrent(j) ==
    /\ InBody(j) /\ CallsLeft(j)
    /\ Callee(j) \notin Known(j) \cup {jobs[j].model}
    /\ ~Stale(Callee(j))
    /\ jobs' = [jobs EXCEPT ![j].called = @ + 1,
                            ![j].pins = Put(@, Callee(j), record[Callee(j)].tree)]
    /\ UNCHANGED <<version, script, record, inflight, asking, holding>>

\* Faulty: a model's call of itself is submitted like any other.
CallSelfToo(j) ==
    /\ InBody(j) /\ CallsLeft(j)
    /\ Callee(j) \notin Known(j)
    /\ Stale(Callee(j)) /\ Len(jobs) < MaxJobs
    /\ jobs' = Append([jobs EXCEPT ![j].called = @ + 1,
                                   ![j].sub = Put(@, Callee(j), Len(jobs) + 1)],
                      NewJob(Callee(j), j))
    /\ UNCHANGED <<version, script, record, inflight, asking, holding>>

\* A stale child is submitted and promised.
CallStale(j) ==
    /\ InBody(j) /\ CallsLeft(j)
    /\ Callee(j) \notin Known(j) \cup {jobs[j].model}
    /\ Stale(Callee(j)) /\ Len(jobs) < MaxJobs
    /\ jobs' = Append([jobs EXCEPT ![j].called = @ + 1,
                                   ![j].sub = Put(@, Callee(j), Len(jobs) + 1)],
                      NewJob(Callee(j), j))
    /\ UNCHANGED <<version, script, record, inflight, asking, holding>>

Promised(j) == DOMAIN jobs[j].sub \ DOMAIN jobs[j].pins

\* Faulty: the parent waits with its slot in hand.
YieldNothing(j) ==
    /\ InBody(j)
    /\ \E c \in Promised(j) :
          /\ ~Over(jobs[j].sub[c])
          /\ jobs' = [jobs EXCEPT ![j].phase = "waiting", ![j].awaits = jobs[j].sub[c]]
    /\ UNCHANGED <<version, script, record, inflight, asking, holding>>

\* tree_hash() of a promise whose job is not done: yielded() lets the slot go.
Yield(j) ==
    /\ InBody(j)
    /\ \E c \in Promised(j) :
          /\ ~Over(jobs[j].sub[c])
          /\ jobs' = [jobs EXCEPT ![j].phase = "waiting", ![j].awaits = jobs[j].sub[c]]
    /\ Slots!Leave(j)
    /\ UNCHANGED <<version, script, record, inflight>>

\* The child is done: back into the queue, whatever its exit code.
AskAgain(j) ==
    /\ jobs[j].phase = "waiting"
    /\ Over(jobs[j].awaits)
    /\ Slots!Ask(j)
    /\ jobs' = [jobs EXCEPT ![j].phase = "resuming"]
    /\ UNCHANGED <<version, script, record, inflight>>

\* The rest of tree_hash(): a job that is done is read by its exit code.
Forced(j, c) ==
    /\ jobs[j].phase = "building"
    /\ c \in Promised(j)
    /\ Over(jobs[j].sub[c])
    /\ jobs[j].awaits \in {0, jobs[j].sub[c]}

\* The child built: its record's tree is pinned, unless it left none.
PinChild(j) ==
    /\ \E c \in Models :
          /\ Forced(j, c)
          /\ jobs[jobs[j].sub[c]].code = 0
          /\ record[c] # NoRecord
          /\ jobs' = [jobs EXCEPT ![j].pins = Put(@, c, record[c].tree),
                                  ![j].awaits = 0]
    /\ UNCHANGED <<version, script, record, inflight, asking, holding>>

ChildFailed(j) ==
    /\ \E c \in Models :
          /\ Forced(j, c)
          /\ jobs[jobs[j].sub[c]].code # 0 \/ record[c] = NoRecord
    /\ Ending(j, 1, {})
    /\ UNCHANGED <<version, script, record, inflight>>

\* The body returned and every child is resolved: emit.  publish.decide keeps a
\* current record from being replaced by a result that is no longer current.
Publish(j) ==
    LET m == jobs[j].model
        tree == {<<m, jobs[j].ran>>} \cup UNION Range(jobs[j].pins)
    IN  /\ InBody(j) /\ ~CallsLeft(j)
        /\ Promised(j) = {}
        /\ record' = IF jobs[j].ran = version[m] \/ Stale(m)
                     THEN [record EXCEPT ![m] = [ran |-> jobs[j].ran, tree |-> tree,
                                                 pins |-> jobs[j].pins]]
                     ELSE record
        /\ Ending(j, 0, tree)
        /\ UNCHANGED <<version, script, inflight>>

\* The kernel or the author's code raises.
BodyFails(j) ==
    /\ jobs[j].model \in Faulty
    /\ InBody(j)
    /\ Ending(j, 1, {})
    /\ UNCHANGED <<version, script, record, inflight>>

-----------------------------------------------------------------------------
\* Faulty: the slot of a dead process is not given back.
WorkerEndsHolding(j) ==
    /\ Running(j)
    /\ jobs' = [jobs EXCEPT ![j].phase = "ending", ![j].code = 1,
                            ![j].awaits = 0, ![j].dead = TRUE]
    /\ UNCHANGED <<version, script, record, inflight, asking, holding>>

\* The process of a worker ends in the middle of its job.
WorkerEnds(j) ==
    /\ Running(j)
    /\ jobs' = [jobs EXCEPT ![j].phase = "ending", ![j].code = 1,
                            ![j].awaits = 0, ![j].dead = TRUE]
    /\ Release(j)
    /\ UNCHANGED <<version, script, record, inflight>>

\* It never announces itself, or crashes; or the user interrupts a request, and
\* the watchdog kills the worker.
WorkerDies(j) ==
    /\ jobs[j].model \in Faulty
    /\ WorkerEnds(j)

\* The OS refuses a process: Popen's OSError is not the WorkerGone the request
\* thread is ready for, and ends the thread.  The client reads end of stream and
\* falls back to a transient job, which claims again; the entry of the first
\* claim stays.
SpawnRaises(j) ==
    /\ jobs[j].model \in Unspawnable
    /\ jobs[j].parent # 0
    /\ jobs[j].phase = "gate"
    /\ jobs' = [jobs EXCEPT ![j].phase = "sent"]
    /\ UNCHANGED <<version, script, record, inflight, asking, holding>>

\* A worker that dies takes the clients of its children's requests with it, and
\* the watchdog of each of those kills the worker that was serving it.
CancelOrphan(j) ==
    /\ jobs[j].parent # 0
    /\ jobs[jobs[j].parent].dead
    /\ WorkerEnds(j)

\* The request thread: the ledger and the in-flight entry are finished, then
\* the client is answered.
Finish(j) ==
    /\ jobs[j].phase = "ending"
    /\ inflight' = [k \in {k \in DOMAIN inflight : inflight[k] # j} |-> inflight[k]]
    /\ jobs' = [jobs EXCEPT ![j].phase = "ended"]
    /\ UNCHANGED <<version, script, record, asking, holding>>

\* A joined request relays the exit code of the job it joined.
FinishJoined(j) ==
    /\ jobs[j].phase = "joined"
    /\ Over(jobs[j].awaits)
    /\ jobs' = [jobs EXCEPT ![j].phase = "ended", ![j].awaits = 0,
                            ![j].code = jobs[jobs[j].awaits].code,
                            ![j].tree = jobs[jobs[j].awaits].tree]
    /\ UNCHANGED <<version, script, record, inflight, asking, holding>>

Start(j) == StartRequested(j) \/ Claim(j) \/ Join(j) \/ SkipCurrent(j) \/ AskSlot(j)
Body(j) ==
    \/ CallItself(j) \/ CallAgain(j) \/ CallCurrent(j) \/ CallStale(j)
    \/ Yield(j) \/ AskAgain(j) \/ PinChild(j) \/ ChildFailed(j) \/ Publish(j)
End(j) == CancelOrphan(j) \/ Finish(j) \/ FinishJoined(j)
Fault(j) == BodyFails(j) \/ WorkerDies(j) \/ SpawnRaises(j)

Next ==
    \/ \E m \in Models : Request(m) \/ Edit(m) \/ EditHelper(m)
    \/ \E j \in Job : Start(j) \/ Body(j) \/ TakeSlot(j) \/ End(j) \/ Fault(j)

Progress(j) == j \in Job /\ (Start(j) \/ Body(j) \/ End(j))

(***************************************************************************)
(* Fairness.  Processes and threads run; a body that is not waiting comes  *)
(* to its next call, its closing Compound or its end; a request for a slot *)
(* is served as SlotService promises.  Nobody has to ask, edit or fail.    *)
(***************************************************************************)
Spec ==
    /\ Init /\ [][Next]_buildVars
    /\ \A j \in 1..MaxJobs : WF_buildVars(Progress(j)) /\ SF_buildVars(j \in Job /\ TakeSlot(j))

-----------------------------------------------------------------------------
Phases == {"sent", "joined", "gate", "queued", "building", "waiting", "resuming",
           "ending", "ended"}
Trees == SUBSET (Models \X (1..(MaxEdits + 1)))

\* Types: jobs, pins and the registry refer to requests and trees that exist.
BuildTypeOK ==
    /\ version \in [Models -> 1..(MaxEdits + 1)]
    /\ \A m \in Models : script[m] \in 1..version[m]
    /\ \A m \in Models : record[m].tree \in Trees
    /\ Len(jobs) <= MaxJobs
    /\ \A j \in Job :
          /\ jobs[j].model \in Models
          /\ jobs[j].parent \in 0..(j - 1)
          /\ jobs[j].phase \in Phases
          /\ jobs[j].awaits \in 0..Len(jobs)
          /\ \A c \in DOMAIN jobs[j].sub : jobs[jobs[j].sub[c]].parent = j
          /\ Range(jobs[j].pins) \subseteq Trees
    /\ Range(inflight) \subseteq Job
    /\ asking \cup holding \subseteq Job

\* Kernel work goes on in the jobs that hold a slot and in no other: not in one
\* that waits for a child, resumes, crashed or was cancelled.
KernelWorkHasSlot ==
    /\ holding = {j \in Job : jobs[j].phase = "building"}
    /\ Cardinality(holding) <= Limit

\* Two nested requests with one key never build at the same time, whoever dies,
\* is cancelled or is refused a process.
OneBuildPerKey ==
    \A i, j \in Job :
        (i # j /\ jobs[i].parent # 0 /\ jobs[j].parent # 0 /\ Running(i) /\ Running(j))
            => Key(i) # Key(j)

\* How old a source request j may be answered from: a user's no older than it was
\* when it was made, a nested one no older than what its submitter hashed.
Owed(j) == IF jobs[j].parent = 0 THEN jobs[j].asked[jobs[j].model] ELSE jobs[j].key.at

\* A request that succeeds was answered with a result of the source it is owed, or
\* newer: joining another build, or being overtaken by one, never hands out an
\* older one.
AnswersRequest ==
    \A j \in Job : (Over(j) /\ jobs[j].code = 0) =>
        \E v \in Owed(j)..(MaxEdits + 1) : <<jobs[j].model, v>> \in jobs[j].tree

\* What the gate calls current is made of the sources as they are now, however
\* deep they lie: looking only at records and at what each of them composed, it
\* misses no edit and no rebuild below.
GateSeesGraph ==
    \A m \in Models : ~Stale(m) => \A t \in record[m].tree : t[2] = version[t[1]]

\* No set of requests waits only for members of itself: a parent waits for its
\* child, a joined request for the one it joined.
NoBuildAwaitsItself ==
    \A waiters \in SUBSET {j \in Job : jobs[j].awaits # 0 /\ jobs[j].phase # "building"} :
        waiters # {} => \E j \in waiters : jobs[j].awaits \notin waiters

\* As the comments of Broker.claim and submit have it, a job is joined when it is of
\* identical source: what a nested request is answered with is of the source as it
\* was when the call was made, or newer.
AnswersNestedRequest ==
    \A j \in Job : (Over(j) /\ jobs[j].code = 0) =>
        \E v \in jobs[j].asked[jobs[j].model]..(MaxEdits + 1) :
            <<jobs[j].model, v>> \in jobs[j].tree

\* ... identical source is not built twice at the same time ...
OneBuildPerSource ==
    \A i, j \in Job :
        (i # j /\ jobs[i].parent # 0 /\ jobs[j].parent # 0 /\ Running(i) /\ Running(j))
            => ~(jobs[i].model = jobs[j].model
                 /\ jobs[i].asked[jobs[i].model] = jobs[j].asked[jobs[j].model])

\* ... and the build a request rides on composes no model older than the request's
\* own gate saw it.
JoinsIdenticalSource ==
    \A j \in Job : jobs[j].phase = "joined" =>
        \A t \in UNION Range(jobs[jobs[j].awaits].pins) : t[2] >= jobs[j].asked[t[1]]

\* Every request ends, with one slot or many, whatever fails on the way.
EveryRequestAnswered ==
    \A j \in 1..MaxJobs : j \in Job ~> (j \in Job /\ Over(j))
=============================================================================
