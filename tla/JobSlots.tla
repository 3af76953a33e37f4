------------------------------ MODULE JobSlots ------------------------------
(***************************************************************************)
(* The job slots of the broker (daemon/broker.py): a FIFO counting         *)
(* semaphore whose leases are connections.  One server thread per request  *)
(* runs _serve_slot; the client end is acquire_slot / Lease.release, or a  *)
(* process that dies and takes its connection with it.                     *)
(***************************************************************************)
EXTENDS Integers, Sequences, FiniteSets, SequencesExt

CONSTANTS Limit,       \* Broker._limit: one running build per core
          MaxLeases    \* bound on the requests of a behaviour

ASSUME LimitAssumption == Limit \in Nat \ {0}
ASSUME MaxLeasesAssumption == MaxLeases \in Nat

VARIABLES next,        \* Broker._next: the last lease id given out
          queue,       \* Broker._queue: waiting lease ids, oldest first
          running,     \* the keys of Broker._running
          granted,     \* leases whose client was sent {"slot": "granted"}
          gone         \* leases whose client closed its connection or died

slotVars == <<next, queue, running, granted, gone>>

Lease == 1..MaxLeases
Issued == 1..next
Waiting == ToSet(queue)

SlotsInit ==
    /\ next = 0
    /\ queue = <<>>
    /\ running = {}
    /\ granted = {}
    /\ gone = {}

\* Faulty: a new request goes to the end that popleft serves.
EnqueueAtFront ==
    /\ next < MaxLeases
    /\ next' = next + 1
    /\ queue' = <<next + 1>> \o queue
    /\ UNCHANGED <<running, granted, gone>>

\* A request arrives: acquire() gives it an id and the tail of the queue.
Enqueue ==
    /\ next < MaxLeases
    /\ next' = next + 1
    /\ queue' = Append(queue, next + 1)
    /\ UNCHANGED <<running, granted, gone>>

\* Faulty: one slot too many.
GrantableOneMore(l) ==
    /\ queue # <<>>
    /\ Head(queue) = l
    /\ Cardinality(running) <= Limit

\* The oldest request, and a free slot.
Grantable(l) ==
    /\ queue # <<>>
    /\ Head(queue) = l
    /\ Cardinality(running) < Limit

\* The waiting thread of the oldest request finds a free slot.  It does not
\* ask whether its client is still there.
Grant(l) ==
    /\ Grantable(l)
    /\ queue' = Tail(queue)
    /\ running' = running \cup {l}
    /\ UNCHANGED <<next, granted, gone>>

\* Faulty: a poll that merely times out counts as a client that went away.
CancelOnTimeout(l) ==
    /\ ~Grantable(l)
    /\ \E i \in DOMAIN queue : queue[i] = l /\ queue' = RemoveAt(queue, i)
    /\ UNCHANGED <<next, running, granted, gone>>

\* The probe of a request that cannot be granted now finds its client gone.
Cancel(l) ==
    /\ l \in gone
    /\ ~Grantable(l)
    /\ \E i \in DOMAIN queue : queue[i] = l /\ queue' = RemoveAt(queue, i)
    /\ UNCHANGED <<next, running, granted, gone>>

\* Faulty: the client is told as soon as it queues.
SendGrantEarly(l) ==
    /\ l \in Issued \ granted
    /\ l \notin gone
    /\ granted' = granted \cup {l}
    /\ UNCHANGED <<next, queue, running, gone>>

\* The grant reaches a client that still listens.
SendGrant(l) ==
    /\ l \in running \ granted
    /\ l \notin gone
    /\ granted' = granted \cup {l}
    /\ UNCHANGED <<next, queue, running, gone>>

\* The lease lives as long as its connection: a failed send or the end of the
\* stream ends it.
Release(l) ==
    /\ l \in running \cap gone
    /\ running' = running \ {l}
    /\ UNCHANGED <<next, queue, granted, gone>>

\* Lease.release() on the client, or the death of the client's process.
Close(l) ==
    /\ l \in Issued \ gone
    /\ gone' = gone \cup {l}
    /\ UNCHANGED <<next, queue, running, granted>>

Serve(l) == Grant(l) \/ Cancel(l) \/ SendGrant(l) \/ Release(l)

SlotsNext == Enqueue \/ \E l \in Lease : Serve(l) \/ Close(l)

(***************************************************************************)
(* Fairness.  A server thread re-examines the queue on every notify_all    *)
(* and at least every 0.5 s, and a blocked recv returns once the peer is   *)
(* gone.  A client that was granted a slot ends its body and emit; nothing *)
(* obliges a client that still waits to leave.                             *)
(***************************************************************************)
SlotsFairness ==
    \A l \in Lease : WF_slotVars(Serve(l)) /\ WF_slotVars(l \in granted /\ Close(l))

SlotsSpec == SlotsInit /\ [][SlotsNext]_slotVars /\ SlotsFairness

-----------------------------------------------------------------------------
\* The types of the broker's and the clients' state; ids are given out once.
SlotsTypeOK ==
    /\ next \in 0..MaxLeases
    /\ queue \in Seq(Issued)
    /\ running \subseteq Issued
    /\ granted \subseteq Issued
    /\ gone \subseteq Issued

\* The processes that believe they hold a slot, and so run kernel work.
Holders == granted \ gone

\* No more than Limit processes run a model body at once, as the clients see
\* it: between a grant and the release the broker's own count may lag.
KernelWorkBounded == Cardinality(Holders) <= Limit

\* A live request is never forgotten: the broker knows every connection that
\* is still open either as waiting or as running, and never as both.
LiveRequestKnown ==
    /\ Issued \ (Waiting \cup running) \subseteq gone
    /\ Waiting \cap (running \cup granted) = {}

\* FIFO: when a slot is granted, every older request has had its slot already
\* or has gone away.
NoOvertaking ==
    [][\A l \in running' \ running :
          \A m \in 1..(l - 1) : m \in running \cup granted \cup gone]_slotVars

-----------------------------------------------------------------------------
\* The contract, over the requests whose client still listens.
Service == INSTANCE SlotService WITH
    Requests <- Lease,
    asking <- Issued \ (granted \cup gone),
    holding <- Holders

ImplementsSlotService == Service!Spec
=============================================================================
