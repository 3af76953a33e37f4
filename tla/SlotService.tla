---------------------------- MODULE SlotService ----------------------------
(***************************************************************************)
(* What a client of the broker may rely on (daemon/broker.py, the contract *)
(* in lines 1-28): a pool of Limit job slots.  A request asks, takes a     *)
(* slot when fewer than Limit are held, and leaves, by giving its slot     *)
(* back or by going away while it still asks.  Nothing here speaks of      *)
(* queues, threads or connections: JobSlots implements this module.        *)
(***************************************************************************)
EXTENDS Integers, FiniteSets

CONSTANTS Requests,   \* the requests for a slot
          Limit       \* the number of slots (job_limit())

VARIABLES asking,     \* requests that wait for a slot
          holding     \* requests that hold one: kernel work goes on here

vars == <<asking, holding>>

Init == asking = {} /\ holding = {}

Ask(r) ==
    /\ r \notin asking \cup holding
    /\ asking' = asking \cup {r}
    /\ UNCHANGED holding

Take(r) ==
    /\ r \in asking
    /\ Cardinality(holding) < Limit
    /\ asking' = asking \ {r}
    /\ holding' = holding \cup {r}

Leave(r) ==
    /\ r \in asking \cup holding
    /\ asking' = asking \ {r}
    /\ holding' = holding \ {r}

Next == \E r \in Requests : Ask(r) \/ Take(r) \/ Leave(r)

\* A request that asks again and again finds a free slot is not passed over.
Spec == Init /\ [][Next]_vars /\ \A r \in Requests : SF_vars(Take(r))
=============================================================================
