--------------------------- MODULE JobSlotsProofs ---------------------------
(***************************************************************************)
(* Theorems about JobSlots, for every number of slots and of requests.     *)
(***************************************************************************)
EXTENDS JobSlots, FiniteSetTheorems, SequenceTheorems, TLAPS

\* Ids are handed out under the lock that appends them, so the queue is sorted.
QueueAscending ==
    \A i, j \in DOMAIN queue : i < j => queue[i] < queue[j]

\* The inductive invariant.  The broker's own count bounds the slots; the
\* clients' count follows, because a client believes in a slot only while the
\* broker still counts it.
SlotsIInv ==
    /\ SlotsTypeOK
    /\ QueueAscending
    /\ LiveRequestKnown
    /\ Holders \subseteq running
    /\ IsFiniteSet(running)
    /\ Cardinality(running) <= Limit

-----------------------------------------------------------------------------
\* Taking one element out of a sequence shifts what follows it by one place.
LEMMA RemoveAtProperties ==
    ASSUME NEW S, NEW q \in Seq(S), NEW i \in DOMAIN q
    PROVE  /\ RemoveAt(q, i) \in Seq(S)
           /\ Len(RemoveAt(q, i)) = Len(q) - 1
           /\ \A j \in 1..(Len(q) - 1) :
                 RemoveAt(q, i)[j] = IF j < i THEN q[j] ELSE q[j + 1]
<1> DEFINE before == SubSeq(q, 1, i - 1)
           after == SubSeq(q, i + 1, Len(q))
<1>1. i \in 1..Len(q) /\ Len(q) \in Nat
  BY LenProperties
<1>2. \A k \in 1..Len(q) : q[k] \in S
  BY ElementOfSeq
<1>3. /\ before \in Seq(S)
      /\ Len(before) = i - 1
      /\ \A k \in 1..(i - 1) : before[k] = q[k]
  <2>1. \A k \in 1..(i - 1) : q[k] \in S
    BY <1>1, <1>2
  <2>2. /\ before \in Seq(S)
        /\ Len(before) = IF 1 <= i - 1 THEN (i - 1) - 1 + 1 ELSE 0
        /\ \A k \in 1..((i - 1) - 1 + 1) : before[k] = q[1 + k - 1]
    <3>1. 1 \in Int /\ i - 1 \in Int
      BY <1>1
    <3>2. QED
      BY <3>1, <2>1, SubSeqProperties
  <2>3. QED
    BY <2>2, <1>1
<1>4. /\ after \in Seq(S)
      /\ Len(after) = Len(q) - i
      /\ \A k \in 1..(Len(q) - i) : after[k] = q[i + k]
  <2>1. \A k \in (i + 1)..Len(q) : q[k] \in S
    BY <1>1, <1>2
  <2>2. /\ after \in Seq(S)
        /\ Len(after) = IF i + 1 <= Len(q) THEN Len(q) - (i + 1) + 1 ELSE 0
        /\ \A k \in 1..(Len(q) - (i + 1) + 1) : after[k] = q[(i + 1) + k - 1]
    <3>1. i + 1 \in Int /\ Len(q) \in Int
      BY <1>1
    <3>2. QED
      BY <3>1, <2>1, SubSeqProperties
  <2>3. QED
    BY <2>2, <1>1
<1>5. /\ before \o after \in Seq(S)
      /\ Len(before \o after) = Len(before) + Len(after)
      /\ \A k \in 1..(Len(before) + Len(after)) : (before \o after)[k] =
            IF k <= Len(before) THEN before[k] ELSE after[k - Len(before)]
  BY <1>3, <1>4, ConcatProperties
<1>6. RemoveAt(q, i) = before \o after
  BY DEF RemoveAt
<1> HIDE DEF before, after
<1>7. Len(before) + Len(after) = Len(q) - 1
  BY <1>1, <1>3, <1>4
<1>8. ASSUME NEW j \in 1..(Len(q) - 1)
      PROVE  (before \o after)[j] = IF j < i THEN q[j] ELSE q[j + 1]
  <2>1. (before \o after)[j] = IF j <= i - 1 THEN before[j] ELSE after[j - (i - 1)]
    BY <1>3, <1>5, <1>7
  <2>2. CASE j < i
    BY <1>1, <1>3, <2>1, <2>2
  <2>3. CASE ~(j < i)
    <3>1. j - (i - 1) \in 1..(Len(q) - i)
      BY <1>1, <2>3
    <3>2. after[j - (i - 1)] = q[i + (j - (i - 1))]
      BY <1>4, <3>1
    <3>3. i + (j - (i - 1)) = j + 1
      BY <1>1
    <3>4. QED
      BY <1>1, <2>1, <2>3, <3>2, <3>3
  <2>4. QED
    BY <2>2, <2>3
<1>9. QED
  BY <1>5, <1>6, <1>7, <1>8

\* The broker starts with an empty queue and every slot free.
LEMMA SlotsInitInv == SlotsInit => SlotsIInv
<1> SUFFICES ASSUME SlotsInit PROVE SlotsIInv
  OBVIOUS
<1> USE DEF SlotsInit
<1>1. SlotsTypeOK
  BY MaxLeasesAssumption, EmptySeq DEF SlotsTypeOK, Issued
<1>2. Waiting = {}
  BY DEF Waiting, ToSet
<1>3. IsFiniteSet(running) /\ Cardinality(running) <= Limit
  BY FS_EmptySet, LimitAssumption
<1>4. QED
  BY <1>1, <1>2, <1>3 DEF SlotsIInv, QueueAscending, LiveRequestKnown, Holders, Issued

\* Every step of a server thread or of a client keeps the invariant.
LEMMA SlotsStepInv == SlotsIInv /\ [SlotsNext]_slotVars => SlotsIInv'
<1> SUFFICES ASSUME SlotsIInv, [SlotsNext]_slotVars PROVE SlotsIInv'
  OBVIOUS
<1> USE MaxLeasesAssumption, LimitAssumption DEF SlotsIInv, Issued
<1>0. /\ next \in Nat
      /\ Len(queue) \in Nat
      /\ DOMAIN queue = 1..Len(queue)
      /\ \A i \in 1..Len(queue) : queue[i] \in Issued
      /\ queue \in Seq(Issued)
  BY LenProperties, ElementOfSeq DEF SlotsTypeOK
<1>1. CASE Enqueue
  <2> USE <1>1 DEF Enqueue
  <2>1. queue \in Seq(1..(next + 1))
    <3>1. \A i \in 1..Len(queue) : queue[i] \in 1..(next + 1)
      BY <1>0
    <3>2. QED
      BY <1>0, <3>1, IsASeq, SeqDef
  <2>2. /\ queue' \in Seq(1..(next + 1))
        /\ Len(queue') = Len(queue) + 1
        /\ \A i \in 1..Len(queue) : queue'[i] = queue[i]
        /\ queue'[Len(queue) + 1] = next + 1
        /\ DOMAIN queue' = 1..(Len(queue) + 1)
    <3>1. next + 1 \in 1..(next + 1)
      BY <1>0
    <3>2. QED
      BY <2>1, <3>1, AppendProperties, LenProperties
  <2>3. SlotsTypeOK'
    BY <1>0, <2>2 DEF SlotsTypeOK
  <2>4. QueueAscending'
    BY <1>0, <2>2 DEF QueueAscending
  <2>5. Waiting' = Waiting \cup {next + 1}
    BY <1>0, <2>2 DEF Waiting, ToSet
  <2>6. LiveRequestKnown'
    BY <1>0, <2>5 DEF LiveRequestKnown, SlotsTypeOK
  <2>7. QED
    BY <2>3, <2>4, <2>6 DEF Holders
<1>2. ASSUME NEW l \in Lease, Grant(l) PROVE SlotsIInv'
  <2>1. /\ queue # <<>> /\ Head(queue) = l /\ queue' = Tail(queue)
        /\ running' = running \cup {l}
        /\ Cardinality(running) < Limit
        /\ next' = next /\ granted' = granted /\ gone' = gone
    BY <1>2 DEF Grant, Grantable
  <2>2. /\ queue' \in Seq(Issued)
        /\ Len(queue') = Len(queue) - 1
        /\ \A i \in 1..Len(queue') : queue'[i] = queue[i + 1]
        /\ Len(queue) > 0
    BY <1>0, <2>1, HeadTailProperties, EmptySeq
  <2>3. DOMAIN queue' = 1..(Len(queue) - 1)
    BY <1>0, <2>2, LenProperties
  <2>4. l = queue[1]
    BY <1>0, <2>1
  <2>5. l \in Issued
    BY <1>0, <2>2, <2>4
  <2>6. SlotsTypeOK'
    <3>1. Issued' = Issued
      BY <2>1
    <3> HIDE DEF Issued
    <3>2. QED
      BY <2>1, <2>2, <2>5, <3>1 DEF SlotsTypeOK
  <2>7. QueueAscending'
    <3> SUFFICES ASSUME NEW i \in 1..(Len(queue) - 1), NEW j \in 1..(Len(queue) - 1), i < j
                 PROVE  queue'[i] < queue'[j]
      BY <2>3 DEF QueueAscending
    <3>1. queue'[i] = queue[i + 1] /\ queue'[j] = queue[j + 1]
      BY <1>0, <2>2
    <3>2. i + 1 \in DOMAIN queue /\ j + 1 \in DOMAIN queue /\ i + 1 < j + 1
      BY <1>0
    <3>3. QED
      BY <3>1, <3>2 DEF QueueAscending
  <2>8. Waiting \subseteq Waiting' \cup {l}
    <3> SUFFICES ASSUME NEW k \in 1..Len(queue), k # 1 PROVE queue[k] \in Waiting'
      BY <1>0, <2>4 DEF Waiting, ToSet
    <3>1. k - 1 \in DOMAIN queue' /\ queue'[k - 1] = queue[k]
      BY <1>0, <2>2, <2>3
    <3>2. QED
      BY <3>1 DEF Waiting, ToSet
  <2>9. Waiting' \subseteq Waiting /\ l \notin Waiting'
    <3> SUFFICES ASSUME NEW k \in 1..(Len(queue) - 1)
                 PROVE  queue'[k] \in Waiting /\ queue'[k] # l
      BY <2>3 DEF Waiting, ToSet
    <3>1. queue'[k] = queue[k + 1] /\ k + 1 \in DOMAIN queue /\ 1 \in DOMAIN queue
      BY <1>0, <2>2
    <3>2. queue[1] < queue[k + 1]
      <4>1. 1 < k + 1
        BY <1>0
      <4>2. QED
        BY <3>1, <4>1 DEF QueueAscending
    <3>3. queue[1] \in Int
      BY <1>0, <2>2
    <3>4. QED
      BY <2>4, <3>1, <3>2, <3>3 DEF Waiting, ToSet
  <2>10. LiveRequestKnown'
    BY <2>1, <2>8, <2>9 DEF LiveRequestKnown
  <2>11. IsFiniteSet(running') /\ Cardinality(running') <= Limit
    <3>1. /\ IsFiniteSet(running \cup {l})
          /\ Cardinality(running \cup {l}) \in {Cardinality(running), Cardinality(running) + 1}
      BY FS_AddElement
    <3>2. Cardinality(running) \in Nat
      BY FS_CardinalityType
    <3>3. QED
      BY <2>1, <3>1, <3>2
  <2>12. QED
    BY <2>1, <2>6, <2>7, <2>10, <2>11 DEF Holders
<1>3. ASSUME NEW l \in Lease, Cancel(l) PROVE SlotsIInv'
  <2>1. PICK i \in DOMAIN queue : queue[i] = l /\ queue' = RemoveAt(queue, i)
    BY <1>3 DEF Cancel
  <2>2. /\ l \in gone /\ next' = next
        /\ running' = running /\ granted' = granted /\ gone' = gone
    BY <1>3 DEF Cancel
  <2>3. /\ queue' \in Seq(Issued)
        /\ Len(queue') = Len(queue) - 1
        /\ \A j \in 1..(Len(queue) - 1) :
              queue'[j] = IF j < i THEN queue[j] ELSE queue[j + 1]
    BY <1>0, <2>1, RemoveAtProperties
  <2>4. DOMAIN queue' = 1..(Len(queue) - 1)
    BY <2>3, LenProperties
  <2>5. SlotsTypeOK'
    <3>1. Issued' = Issued
      BY <2>2
    <3> HIDE DEF Issued
    <3>2. QED
      BY <2>2, <2>3, <3>1 DEF SlotsTypeOK
  <2>6. QueueAscending'
    <3> SUFFICES ASSUME NEW j \in 1..(Len(queue) - 1), NEW k \in 1..(Len(queue) - 1), j < k
                 PROVE  queue'[j] < queue'[k]
      BY <2>4 DEF QueueAscending
    <3> DEFINE at(n) == IF n < i THEN n ELSE n + 1
    <3>1. queue'[j] = queue[at(j)] /\ queue'[k] = queue[at(k)]
      BY <1>0, <2>1, <2>3
    <3>2. at(j) \in DOMAIN queue /\ at(k) \in DOMAIN queue /\ at(j) < at(k)
      BY <1>0, <2>1
    <3> HIDE DEF at
    <3>3. QED
      BY <3>1, <3>2 DEF QueueAscending
  <2>7. Waiting' \subseteq Waiting
    <3> SUFFICES ASSUME NEW k \in 1..(Len(queue) - 1) PROVE queue'[k] \in Waiting
      BY <2>4 DEF Waiting, ToSet
    <3>1. k \in DOMAIN queue /\ k + 1 \in DOMAIN queue
      BY <1>0
    <3>2. queue'[k] = queue[k] \/ queue'[k] = queue[k + 1]
      BY <1>0, <2>1, <2>3
    <3>3. QED
      BY <3>1, <3>2 DEF Waiting, ToSet
  <2>8. Waiting \subseteq Waiting' \cup {l}
    <3> SUFFICES ASSUME NEW k \in 1..Len(queue), k # i PROVE queue[k] \in Waiting'
      BY <1>0, <2>1 DEF Waiting, ToSet
    <3>1. CASE k < i
      <4>1. k \in DOMAIN queue' /\ queue'[k] = queue[k]
        BY <1>0, <2>1, <2>3, <2>4, <3>1
      <4>2. QED
        BY <4>1 DEF Waiting, ToSet
    <3>2. CASE k > i
      <4>1. k - 1 \in DOMAIN queue' /\ queue'[k - 1] = queue[k]
        BY <1>0, <2>1, <2>3, <2>4, <3>2
      <4>2. QED
        BY <4>1 DEF Waiting, ToSet
    <3>3. QED
      BY <1>0, <2>1, <3>1, <3>2
  <2>9. LiveRequestKnown'
    BY <2>2, <2>7, <2>8 DEF LiveRequestKnown
  <2>10. QED
    BY <2>2, <2>5, <2>6, <2>9 DEF Holders
<1>4. ASSUME NEW l \in Lease, SendGrant(l) PROVE SlotsIInv'
  <2> USE <1>4 DEF SendGrant
  <2>1. SlotsTypeOK' /\ QueueAscending'
    BY DEF SlotsTypeOK, QueueAscending
  <2>2. LiveRequestKnown'
    BY DEF LiveRequestKnown, Waiting
  <2>3. QED
    BY <2>1, <2>2 DEF Holders
<1>5. ASSUME NEW l \in Lease, Release(l) PROVE SlotsIInv'
  <2> USE <1>5 DEF Release
  <2>1. SlotsTypeOK' /\ QueueAscending'
    BY DEF SlotsTypeOK, QueueAscending
  <2>2. LiveRequestKnown'
    BY DEF LiveRequestKnown, Waiting
  <2>3. IsFiniteSet(running') /\ Cardinality(running') <= Limit
    <3>1. l \in running /\ running' = running \ {l}
      OBVIOUS
    <3>2. /\ IsFiniteSet(running \ {l})
          /\ Cardinality(running \ {l}) = Cardinality(running) - 1
      BY <3>1, FS_RemoveElement
    <3>3. Cardinality(running) \in Nat
      BY FS_CardinalityType
    <3>4. QED
      BY <3>1, <3>2, <3>3
  <2>4. QED
    BY <2>1, <2>2, <2>3 DEF Holders
<1>6. ASSUME NEW l \in Lease, Close(l) PROVE SlotsIInv'
  <2> USE <1>6 DEF Close
  <2>1. SlotsTypeOK' /\ QueueAscending'
    BY DEF SlotsTypeOK, QueueAscending
  <2>2. LiveRequestKnown'
    BY DEF LiveRequestKnown, Waiting
  <2>3. QED
    BY <2>1, <2>2 DEF Holders
<1>7. CASE UNCHANGED slotVars
  BY <1>7 DEF slotVars, SlotsTypeOK, QueueAscending, LiveRequestKnown, Waiting, Holders
<1>8. QED
  BY <1>1, <1>2, <1>3, <1>4, <1>5, <1>6, <1>7 DEF SlotsNext, Serve

\* The invariant holds throughout every behaviour of the broker.
THEOREM SlotsInvariant == SlotsSpec => []SlotsIInv
  BY SlotsInitInv, SlotsStepInv, PTL DEF SlotsSpec

-----------------------------------------------------------------------------
\* Ids, queue and sets keep their types, however many requests come and go.
THEOREM SlotsTyped == SlotsSpec => []SlotsTypeOK
<1>1. SlotsIInv => SlotsTypeOK
  BY DEF SlotsIInv
<1>2. QED
  BY <1>1, SlotsInvariant, PTL

\* Never more than Limit model bodies run at once, as their processes see it.
THEOREM SlotsBoundKernelWork == SlotsSpec => []KernelWorkBounded
<1>1. SlotsIInv => KernelWorkBounded
  <2> SUFFICES ASSUME SlotsIInv PROVE Cardinality(Holders) <= Limit
    BY DEF KernelWorkBounded
  <2>1. /\ IsFiniteSet(Holders)
        /\ Cardinality(Holders) <= Cardinality(running)
        /\ Cardinality(Holders) \in Nat /\ Cardinality(running) \in Nat
    BY FS_Subset, FS_CardinalityType DEF SlotsIInv
  <2>2. QED
    BY <2>1, LimitAssumption DEF SlotsIInv
<1>2. QED
  BY <1>1, SlotsInvariant, PTL

\* No live request is lost between the queue and the running set.
THEOREM SlotsForgetNoOne == SlotsSpec => []LiveRequestKnown
<1>1. SlotsIInv => LiveRequestKnown
  BY DEF SlotsIInv
<1>2. QED
  BY <1>1, SlotsInvariant, PTL

\* FIFO: no live request is overtaken by a younger one.
THEOREM SlotsAreFair == SlotsSpec => NoOvertaking
<1> DEFINE Fifo == \A l \in running' \ running :
                      \A m \in 1..(l - 1) : m \in running \cup granted \cup gone
<1>1. SlotsIInv /\ [SlotsNext]_slotVars => [Fifo]_slotVars
  <2> SUFFICES ASSUME SlotsIInv, SlotsNext,
                      NEW l \in running' \ running, NEW m \in 1..(l - 1)
               PROVE  m \in running \cup granted \cup gone
    BY DEF slotVars
  <2>1. Grant(l)
    BY DEF SlotsNext, Serve, Enqueue, Grant, Cancel, SendGrant, Release, Close
  <2>2. /\ next \in Nat
        /\ Len(queue) \in Nat /\ DOMAIN queue = 1..Len(queue)
        /\ \A i \in 1..Len(queue) : queue[i] \in 1..next
        /\ 1 \in DOMAIN queue /\ l = queue[1]
    BY <2>1, LenProperties, ElementOfSeq, EmptySeq, HeadTailProperties
       DEF SlotsIInv, SlotsTypeOK, Issued, Grant, Grantable
  <2>3. m \in Issued
    BY <2>2 DEF Issued
  <2>4. m \notin Waiting
    BY <2>2 DEF SlotsIInv, QueueAscending, Waiting, ToSet
  <2>5. QED
    BY <2>3, <2>4 DEF SlotsIInv, LiveRequestKnown
<1>2. QED
  BY <1>1, SlotsInvariant, PTL DEF SlotsSpec, NoOvertaking

\* The broker's queue, threads and connections implement the contract of
\* SlotService: every step is a step of the contract or is invisible to it.
THEOREM SlotsImplementService ==
    SlotsSpec => Service!Init /\ [][Service!Next]_Service!vars
<1> DEFINE asking == Issued \ (granted \cup gone)
<1>1. SlotsInit => Service!Init
  BY DEF SlotsInit, Service!Init, Holders, Issued
<1>2. SlotsIInv /\ [SlotsNext]_slotVars => [Service!Next]_Service!vars
  <2> SUFFICES ASSUME SlotsIInv, [SlotsNext]_slotVars
               PROVE  Service!Next \/ (asking' = asking /\ Holders' = Holders)
    BY DEF Service!vars
  <2>1. next \in Nat
    BY MaxLeasesAssumption DEF SlotsIInv, SlotsTypeOK
  <2>2. CASE Enqueue
    <3>1. next + 1 \in Lease
      BY <2>1, <2>2, MaxLeasesAssumption DEF Enqueue, Lease
    <3>2. next + 1 \notin asking \cup Holders
      BY <2>1 DEF SlotsIInv, SlotsTypeOK, Holders, Issued
    <3>3. asking' = asking \cup {next + 1} /\ Holders' = Holders
      BY <2>1, <2>2 DEF Enqueue, Holders, Issued, SlotsIInv, SlotsTypeOK
    <3>4. QED
      BY <3>1, <3>2, <3>3 DEF Service!Next, Service!Ask
  <2>3. ASSUME NEW l \in Lease, SendGrant(l) PROVE Service!Next
    <3>1. l \in asking
      BY <2>3 DEF SendGrant, SlotsIInv, SlotsTypeOK
    <3>2. Cardinality(Holders) < Limit
      <4>1. Holders \subseteq running \ {l}
        BY <2>3 DEF SendGrant, SlotsIInv, Holders
      <4>2. /\ IsFiniteSet(running \ {l})
            /\ Cardinality(running \ {l}) = Cardinality(running) - 1
        BY <2>3, FS_RemoveElement DEF SendGrant, SlotsIInv
      <4>3. /\ Cardinality(Holders) <= Cardinality(running \ {l})
            /\ Cardinality(Holders) \in Nat /\ Cardinality(running) \in Nat
        BY <4>1, <4>2, FS_Subset, FS_CardinalityType DEF SlotsIInv
      <4>4. QED
        BY <4>2, <4>3, LimitAssumption DEF SlotsIInv
    <3>3. asking' = asking \ {l} /\ Holders' = Holders \cup {l}
      BY <2>3 DEF SendGrant, Holders, Issued
    <3>4. Service!Take(l)
      <4>1. Service!Cardinality(Holders) = Cardinality(Holders)
        BY Zenon DEF Service!Cardinality, Cardinality
      <4>2. QED
        BY <3>1, <3>2, <3>3, <4>1 DEF Service!Take
    <3>5. QED
      BY <3>4 DEF Service!Next
  <2>4. ASSUME NEW l \in Lease, Close(l) PROVE Service!Next
    <3>1. l \in asking \cup Holders
      BY <2>4 DEF Close, Holders
    <3>2. asking' = asking \ {l} /\ Holders' = Holders \ {l}
      BY <2>4 DEF Close, Holders, Issued
    <3>3. QED
      BY <3>1, <3>2 DEF Service!Next, Service!Leave
  <2>5. ASSUME NEW l \in Lease, Grant(l) \/ Cancel(l) \/ Release(l)
        PROVE  asking' = asking /\ Holders' = Holders
    BY <2>5 DEF Grant, Cancel, Release, Holders, Issued
  <2>6. CASE UNCHANGED slotVars
    BY <2>6 DEF slotVars, Holders, Issued
  <2>7. QED
    BY <2>2, <2>3, <2>4, <2>5, <2>6 DEF SlotsNext, Serve
<1>3. QED
  BY <1>1, <1>2, SlotsInvariant, PTL DEF SlotsSpec
=============================================================================
