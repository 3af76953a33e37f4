-------------------------- MODULE AssetCacheProofs --------------------------
(***************************************************************************)
(* What holds of AssetCache for every set of files, surfaces, levels and   *)
(* jobs, and every number of loads: an abort fails nobody else, the leash  *)
(* holds what the cache holds, and no load is answered with another        *)
(* source's geometry.                                                      *)
(*                                                                         *)
(* The inductive invariant says what a load relies on while it waits (the  *)
(* promise that is its own, the bytes it asked for, the owner it joined)   *)
(* and what a key's entry says of its claim.  A step moves loads between   *)
(* working states (StepWorks) or starts or settles one load (StepOf).      *)
(***************************************************************************)
EXTENDS AssetCache, FiniteSetTheorems, TLAPS

\* Keys of the payload cache, and the bytes.
Payload == Surfs \X Levels
BytesKeys == {"bytes"} \X Urls

\* The types, but for what CacheTypeOK says of promises.
Entry == [is : {"empty", "pending", "ready"}, by : 0..MaxLoads, from : Scopes \cup {None}]
Types ==
  /\ scope \in Scopes
  /\ recorded \in [Keys -> Scopes \cup {None}]
  /\ cache \in [Keys -> Entry]
  /\ leash \in Seq(LodKeys)
  /\ loads \in Seq(Load) /\ Len(loads) <= MaxLoads
  /\ faults \in 0..MaxFaults
  /\ requests = {l \in Ids : loads[l].at = "asked"}

\* What a load may ask for: only the viewer passes signals and loads surfaces.
Asks(q) ==
  /\ q.want \in {"mesh", "picking", "level"} /\ q.url \in Urls /\ q.level \in Levels
  /\ q.signal \in BOOLEAN
  /\ IF q.want = "level" THEN q.url \in Surfs /\ q.level # 0 ELSE q.level = 0
  /\ q.url \in Surfs => q.signal

Busy == {"importing", "asked", "answered", "degraded", "fetching", "built", "lost"}
Working(l) == loads[l].at \in Busy

\* Everything a batch page loads is claimed for the job and found again.
Claims(k) == cache[k].is = "ready" /\ recorded[k] = scope
Holds(l) ==
  LET k == Front(loads[l])
  IN  cache[k].is = "pending" /\ cache[k].by = l /\ recorded[k] = scope

\* What holds of a load.
AskingOK(l) ==
  /\ Asks(loads[l])
  /\ loads[l].signal => scope = Viewer
  /\ loads[l].at \notin Settled => loads[l].scope = scope
  /\ loads[l].at = "done" => loads[l].from = loads[l].scope
JoinedOK(l) ==
  LET o == loads[l].on
  IN  loads[l].at = "joined" =>
        /\ ~ loads[l].signal
        /\ o \in Ids /\ Front(loads[o]) = Front(loads[l]) /\ loads[o].scope = scope
        /\ (loads[o].at = "done" /\ scope # Viewer) => Claims(Front(loads[l]))
BytesOK(l) ==
  LET b == cache[Bytes(loads[l])]
  IN  /\ loads[l].at = "fetching" => b.is = "pending" /\ b.from = scope
      /\ loads[l].at = "built" => b.is = "ready" /\ b.from = scope
HoldsOK(l) == (Working(l) /\ scope # Viewer) => Holds(l)
LoadOK(l) == AskingOK(l) /\ JoinedOK(l) /\ BytesOK(l) /\ HoldsOK(l)

\* What holds of a key.
ClaimOK(k) ==
  /\ Occupied(k) => \/ recorded[k] # None /\ cache[k].from = recorded[k]
                    \/ recorded[k] = None /\ scope = Viewer /\ cache[k].from = Viewer
  /\ scope = Viewer => recorded[k] \in {None, Viewer}
  /\ k \in Payload => cache[k].is # "pending"
PendingOK(k) ==
  (k \in Typed /\ cache[k].is = "pending") =>
    LET l == cache[k].by
    IN  l \in Ids /\ Working(l) /\ ~ loads[l].signal /\ Front(loads[l]) = k
KeyOK(k) == ClaimOK(k) /\ PendingOK(k)

\* The leash, without Cardinality.
LeashOK ==
  /\ Len(leash) <= LodLimit
  /\ \A i, j \in DOMAIN leash : leash[i] = leash[j] => i = j
  /\ OnLeash = {k \in LodKeys : Occupied(k)}

CacheIInv ==
  /\ Types /\ LeashOK /\ AbortIsPrivate
  /\ \A l \in Ids : LoadOK(l)
  /\ \A k \in Keys : KeyOK(k)

-----------------------------------------------------------------------------
(* Keys. *)

\* The three kinds of keys are apart (CacheAssumption).
LEMMA KeysApart ==
  /\ Keys = Typed \cup BytesKeys \cup Payload
  /\ Typed \cap BytesKeys = {} /\ Typed \cap Payload = {} /\ BytesKeys \cap Payload = {}
  /\ LodKeys \subseteq Payload
  /\ None \notin Scopes
BY CacheAssumption DEF Keys, Typed, BytesKeys, Payload, LodKeys, Scopes, Urls

\* What the keys of a request are: its front is its one key in the typed
\* caches, or the key of its level; its payload is a surface's.
LEMMA KeysOf ==
  ASSUME NEW q, Asks(q)
  PROVE  /\ Front(q) \in Typed \cup LodKeys
         /\ q.want # "level" => Front(q) \in Typed /\ TypedKeys(q) = {Front(q)}
         /\ q.want = "level" => /\ Front(q) \in LodKeys /\ TypedKeys(q) = {}
                                /\ PayloadKeys(q) = {Front(q)}
         /\ q.want # "level" => PayloadKeys(q) \cap LodKeys = {}
         /\ PayloadKeys(q) \subseteq Payload /\ Behind(q) \subseteq Payload
         /\ ~ q.signal => /\ q.want # "level" /\ PayloadKeys(q) = {} /\ Behind(q) = {}
         /\ Bytes(q) \in BytesKeys
<1> USE CacheAssumption DEF Asks
<1>1. CASE q.want = "level"
  <2>1. Front(q) = <<q.url, q.level>> /\ Front(q) \in LodKeys /\ Front(q) \in Payload
    BY <1>1 DEF Front, LodKeys, Payload
  <2>2. TypedKeys(q) = {}
    BY <1>1 DEF TypedKeys, Typed
  <2>3. PayloadKeys(q) = {Front(q)} /\ Behind(q) = {}
    BY <2>1 DEF PayloadKeys, Behind, Payload
  <2> QED BY <1>1, <2>1, <2>2, <2>3 DEF Bytes, BytesKeys
<1>2. CASE q.want # "level"
  <2>1. Front(q) = <<q.want, q.url>> /\ Front(q) \in Typed
    BY <1>2 DEF Front, Typed
  <2>2. TypedKeys(q) = {Front(q)}
    BY <2>1 DEF TypedKeys
  <2>3. /\ PayloadKeys(q) \subseteq Payload /\ PayloadKeys(q) \cap LodKeys = {}
        /\ q.url \notin Surfs => PayloadKeys(q) = {}
    BY <1>2 DEF PayloadKeys, LodKeys, Payload
  <2> QED BY <1>2, <2>1, <2>2, <2>3 DEF Behind, Bytes, BytesKeys
<1> QED BY <1>1, <1>2

\* A request is one of these.
LEMMA RequestsAsk ==
  ASSUME NEW q \in Requests
  PROVE  Asks(q) /\ (q.signal => scope = Viewer) /\ q.want \in {"mesh", "picking", "level"}
         /\ q.url \in Urls /\ q.level \in Levels /\ q.signal \in BOOLEAN
BY CacheAssumption DEF Requests, Unsignalled, Signalled, Asks, Urls

\* Keys and types a load has.
LEMMA LoadKeys ==
  ASSUME NEW q, NEW r, r.want = q.want, r.url = q.url, r.level = q.level, r.signal = q.signal
  PROVE  /\ Front(r) = Front(q) /\ TypedKeys(r) = TypedKeys(q) /\ PayloadKeys(r) = PayloadKeys(q)
         /\ Bytes(r) = Bytes(q) /\ (Asks(q) => Asks(r))
BY DEF Front, TypedKeys, PayloadKeys, Bytes, Asks

-----------------------------------------------------------------------------
(* The leash. *)

\* A key that is used is on the leash after it, once, with others that were on
\* it, and the leash keeps its limit.
LEMMA RetainHolds ==
  ASSUME leash \in Seq(LodKeys), NEW k \in LodKeys, Len(leash) <= LodLimit,
         \A i, j \in DOMAIN leash : leash[i] = leash[j] => i = j
  PROVE  /\ Retain(k) \in Seq(LodKeys) /\ Len(Retain(k)) <= LodLimit
         /\ \A i, j \in DOMAIN Retain(k) : Retain(k)[i] = Retain(k)[j] => i = j
         /\ k \in {Retain(k)[i] : i \in DOMAIN Retain(k)}
         /\ {Retain(k)[i] : i \in DOMAIN Retain(k)} \subseteq OnLeash \cup {k}
<1> DEFINE o == Others(k)
<1>0. LodLimit \in Nat \ {0}
  BY CacheAssumption
<1>1. /\ o \in Seq(LodKeys) /\ Len(o) <= LodLimit
      /\ \A i, j \in DOMAIN o : o[i] = o[j] => i = j
      /\ \A i \in DOMAIN o : o[i] # k /\ o[i] \in OnLeash
  <2>1. CASE k \notin OnLeash
    BY <2>1 DEF Others, OnLeash
  <2>2. CASE k \in OnLeash
    <3> DEFINE at == CHOOSE i \in DOMAIN leash : leash[i] = k
    <3>1. at \in DOMAIN leash /\ leash[at] = k
      BY <2>2 DEF OnLeash
    <3>2. Len(leash) \in Nat /\ DOMAIN leash = 1..Len(leash) /\ Len(leash) - 1 \in Nat
      BY <3>1
    <3>3. o = [i \in 1..(Len(leash) - 1) |-> leash[IF i < at THEN i ELSE i + 1]]
      BY <2>2 DEF Others
    <3> HIDE DEF at, o
    <3>4. \A i \in 1..(Len(leash) - 1) :
            LET n == IF i < at THEN i ELSE i + 1
            IN  n \in DOMAIN leash /\ n # at /\ o[i] = leash[n]
      BY <3>1, <3>2, <3>3
    <3>5. \A i \in 1..(Len(leash) - 1) : o[i] \in LodKeys /\ o[i] # k /\ o[i] \in OnLeash
      BY <3>1, <3>2, <3>4 DEF OnLeash
    <3>6. o \in Seq(LodKeys) /\ Len(o) = Len(leash) - 1 /\ DOMAIN o = 1..(Len(leash) - 1)
      BY <3>2, <3>3, <3>5
    <3>7. \A i, j \in DOMAIN o : o[i] = o[j] => i = j
      <4> SUFFICES ASSUME NEW i \in 1..(Len(leash) - 1), NEW j \in 1..(Len(leash) - 1), o[i] = o[j]
                   PROVE  i = j
        BY <3>6
      <4>1. (IF i < at THEN i ELSE i + 1) = (IF j < at THEN j ELSE j + 1)
        BY <3>4
      <4> QED BY <3>1, <3>2, <4>1
    <3> QED BY <1>0, <3>2, <3>5, <3>6, <3>7
  <2> QED BY <2>1, <2>2
<1> HIDE DEF o
<1>2. CASE Len(o) < LodLimit
  <2>1. Retain(k) = Append(o, k)
    BY <1>2 DEF Retain, o
  <2> QED BY <1>0, <1>1, <1>2, <2>1
<1>3. CASE ~ (Len(o) < LodLimit)
  <2>1. Retain(k) = Append(Tail(o), k)
    BY <1>3 DEF Retain, o
  <2> DEFINE t == Tail(o)
  <2>2. /\ t \in Seq(LodKeys) /\ Len(t) = Len(o) - 1
        /\ \A i \in DOMAIN t : i + 1 \in DOMAIN o /\ t[i] = o[i + 1]
    BY <1>0, <1>1, <1>3
  <2> HIDE DEF t
  <2>3. /\ \A i, j \in DOMAIN t : t[i] = t[j] => i = j
        /\ \A i \in DOMAIN t : t[i] # k /\ t[i] \in OnLeash
    BY <1>1, <2>2
  <2>4. Retain(k) = Append(t, k)
    BY <2>1 DEF t
  <2> QED BY <1>0, <1>1, <2>2, <2>3, <2>4
<1> QED BY <1>2, <1>3

\* What Publish does to the caches and the leash: the request's own keys are
\* ready, others are untouched or, on the leash only, let go.
LEMMA Published ==
  ASSUME Types, LeashOK, NEW q, Asks(q), NEW from \in Scopes, Publish(q, from)
  PROVE  /\ cache' \in [Keys -> Entry] /\ leash' \in Seq(LodKeys) /\ LeashOK'
         /\ \A k \in TypedKeys(q) \cup PayloadKeys(q) : cache'[k] = Ready(from)
         /\ \A k \in Keys : \/ k \in TypedKeys(q) \cup PayloadKeys(q)
                            \/ cache'[k] = cache[k]
                            \/ k \in LodKeys /\ cache'[k] = Empty
<1> DEFINE ks == TypedKeys(q) \cup PayloadKeys(q)
           lod == ks \cap LodKeys
           gone == UNION {Evicted(k) : k \in lod}
           ran(k) == {Retain(k)[i] : i \in DOMAIN Retain(k)}
<1>1. /\ cache' = [k \in Keys |-> IF k \in ks THEN Ready(from)
                                  ELSE IF k \in gone THEN Empty ELSE cache[k]]
      /\ leash' = IF lod = {} THEN leash ELSE Retain(CHOOSE k \in lod : TRUE)
  BY DEF Publish
<1>2. ks \subseteq Keys /\ (lod = {} \/ (q.want = "level" /\ lod = {Front(q)} /\ Front(q) \in LodKeys))
  BY KeysOf, KeysApart DEF TypedKeys
<1>3. gone \subseteq OnLeash /\ OnLeash \subseteq LodKeys
  BY DEF Evicted, Types, OnLeash
<1>4. Ready(from) \in Entry /\ Empty \in Entry
  BY CacheAssumption DEF Ready, Empty, Entry, Scopes
<1>5. /\ cache' \in [Keys -> Entry]
      /\ \A k \in ks : cache'[k] = Ready(from)
      /\ \A k \in Keys : k \in ks \/ cache'[k] = cache[k] \/ (k \in LodKeys /\ cache'[k] = Empty)
  BY <1>1, <1>2, <1>3, <1>4 DEF Types
<1>6. leash' \in Seq(LodKeys) /\ LeashOK'
  <2>1. CASE lod = {}
    <3>1. gone = {} /\ leash' = leash
      BY <1>1, <2>1
    <3>2. \A k \in LodKeys : cache'[k] = cache[k]
      BY <1>1, <2>1, <3>1, KeysApart
    <3> QED BY <3>1, <3>2 DEF LeashOK, OnLeash, Occupied, Types
  <2>2. CASE lod # {}
    <3> DEFINE f == Front(q)
    <3>1. lod = {f} /\ f \in LodKeys /\ f \in ks
      BY <1>2, <2>2
    <3>2. leash' = Retain(f) /\ gone = OnLeash \ ran(f)
      BY <1>1, <3>1 DEF Evicted
    <3>3. /\ Retain(f) \in Seq(LodKeys) /\ Len(Retain(f)) <= LodLimit
          /\ \A i, j \in DOMAIN Retain(f) : Retain(f)[i] = Retain(f)[j] => i = j
          /\ f \in ran(f) /\ ran(f) \subseteq OnLeash \cup {f}
      BY <3>1, RetainHolds DEF Types, LeashOK
    <3>4. OnLeash' = ran(f)
      BY <3>2 DEF OnLeash
    <3>5. \A k \in LodKeys : k \in ran(f) <=> cache'[k].is # "empty"
      <4> SUFFICES ASSUME NEW k \in LodKeys PROVE k \in ran(f) <=> cache'[k].is # "empty"
        OBVIOUS
      <4>1. k \in OnLeash <=> cache[k].is # "empty"
        BY DEF LeashOK, Occupied
      <4>2. cache'[k] = IF k = f THEN Ready(from) ELSE IF k \in gone THEN Empty ELSE cache[k]
        BY <1>1, <3>1, KeysApart
      <4> QED BY <3>2, <3>3, <4>1, <4>2 DEF Ready, Empty
    <3>6. ran(f) \subseteq LodKeys
      BY <1>3, <3>1, <3>3
    <3> HIDE DEF ran
    <3>7. OnLeash' = {k \in LodKeys : Occupied(k)'}
      BY <3>4, <3>5, <3>6 DEF Occupied
    <3> QED BY <3>2, <3>3, <3>7 DEF LeashOK
  <2> QED BY <2>1, <2>2
<1> QED BY <1>5, <1>6

-----------------------------------------------------------------------------
(* Steps. *)

\* A leash nobody touched holds what it held.
LEMMA LeashSame ==
  ASSUME LeashOK, leash' = leash, \A k \in LodKeys : cache'[k] = cache[k]
  PROVE  LeashOK'
BY DEF LeashOK, OnLeash, Occupied

\* A move of loads between working states that touches at most the bytes.
LEMMA StepWorks ==
  ASSUME CacheIInv, scope' = scope, Ids' = Ids,
         \A k \in Typed \cup Payload : cache'[k] = cache[k] /\ recorded'[k] = recorded[k],
         \A l \in Ids : \/ loads'[l] = loads[l]
                        \/ Working(l) /\ \E at \in Busy : loads'[l] = [loads[l] EXCEPT !.at = at],
         \A l \in Ids : BytesOK(l)',
         \A k \in BytesKeys : ClaimOK(k)'
  PROVE  (\A l \in Ids' : LoadOK(l)') /\ (\A k \in Keys : KeyOK(k)')
<1>1. ASSUME NEW l \in Ids
      PROVE  /\ loads'[l].want = loads[l].want /\ loads'[l].url = loads[l].url
             /\ loads'[l].level = loads[l].level /\ loads'[l].signal = loads[l].signal
             /\ loads'[l].scope = loads[l].scope /\ loads'[l].from = loads[l].from
             /\ loads'[l].on = loads[l].on
             /\ loads'[l].at = loads[l].at \/ (Working(l) /\ loads'[l].at \in Busy)
  <2>1. loads[l] \in Load
    BY DEF CacheIInv, Types, Ids
  <2> QED BY <2>1 DEF Load
<1>2. ASSUME NEW l \in Ids
      PROVE  /\ Front(loads'[l]) = Front(loads[l]) /\ (Asks(loads[l]) => Asks(loads'[l]))
             /\ (Working(l)' <=> Working(l))
  BY <1>1, LoadKeys DEF Working
<1>3. ASSUME NEW l \in Ids PROVE LoadOK(l)'
  <2>1. AskingOK(l) /\ JoinedOK(l) /\ HoldsOK(l) /\ Asks(loads[l])
    BY DEF CacheIInv, LoadOK, AskingOK
  <2>2. AskingOK(l)'
    BY <1>1, <1>2, <2>1 DEF AskingOK, Working, Busy, Settled
  <2>3. Front(loads[l]) \in Typed \cup Payload
    BY <2>1, KeysOf, KeysApart
  <2>4. JoinedOK(l)'
    <3> SUFFICES ASSUME loads'[l].at = "joined" PROVE JoinedOK(l)'
      BY DEF JoinedOK
    <3>1. loads[l].at = "joined"
      BY <1>1 DEF Busy, Working
    <3> DEFINE o == loads[l].on
    <3>2. /\ ~ loads[l].signal
          /\ o \in Ids /\ Front(loads[o]) = Front(loads[l]) /\ loads[o].scope = scope
          /\ (loads[o].at = "done" /\ scope # Viewer) => Claims(Front(loads[l]))
      BY <2>1, <3>1 DEF JoinedOK
    <3>3. loads'[o].at = "done" => loads[o].at = "done"
      BY <1>1, <3>2 DEF Busy
    <3> QED BY <1>1, <1>2, <2>3, <3>2, <3>3 DEF JoinedOK, Claims
  <2>5. HoldsOK(l)'
    BY <1>2, <2>1, <2>3 DEF HoldsOK, Holds
  <2> QED BY <2>2, <2>4, <2>5 DEF LoadOK
<1>4. ASSUME NEW k \in Keys PROVE KeyOK(k)'
  <2>1. KeyOK(k)
    BY DEF CacheIInv
  <2>2. CASE k \in BytesKeys
    BY <2>2, KeysApart DEF KeyOK, PendingOK
  <2>3. CASE k \in Typed \cup Payload
    <3>1. ClaimOK(k)'
      BY <2>1, <2>3 DEF KeyOK, ClaimOK, Occupied
    <3>2. PendingOK(k)'
      BY <1>1, <1>2, <2>1, <2>3 DEF KeyOK, PendingOK
    <3> QED BY <3>1, <3>2 DEF KeyOK
  <2> QED BY <2>2, <2>3, KeysApart
<1> QED BY <1>3, <1>4

\* What a step that starts or settles load j does to a key.
Claimable(k) == ~ Occupied(k) \/ recorded[k] = None
Same(k) ==
  /\ cache'[k] = cache[k]
  /\ recorded'[k] = recorded[k] \/ (recorded'[k] = scope /\ Claimable(k))
LetsGo(k) ==
  k \in LodKeys /\ cache'[k] = Empty /\ recorded'[k] \in {recorded[k], scope}
Loads(k, j) ==
  /\ k \notin BytesKeys /\ cache'[k] = Ready(scope)
  /\ \/ scope = Viewer /\ recorded'[k] \in {None, Viewer}
     \/ recorded'[k] = scope
  /\ \/ scope = Viewer
     \/ cache[k].is = "ready"
     \/ cache[k].is = "pending" /\ cache[k].by = j
Fetches(k, j) ==
  /\ ~ Occupied(k) /\ recorded'[k] = scope
  /\ k \notin Payload
  /\ cache'[k].is = "pending" /\ cache'[k].from = scope /\ (k \in Typed => cache'[k].by = j)
Drops(k, j) ==
  /\ k \in Typed /\ cache[k].is = "pending" /\ cache[k].by = j
  /\ cache'[k] = Empty /\ recorded'[k] = None
StepOfKey(k, j) == Same(k) \/ LetsGo(k) \/ Loads(k, j) \/ Fetches(k, j) \/ Drops(k, j)

\* A step of load j, which may be new: it keeps its request, and whatever is
\* still waiting on its promise is waiting rightly.
StepOf(j) ==
  /\ scope' = scope
  /\ j \in Ids' /\ Ids' = Ids \cup {j}
  /\ \A l \in Ids \ {j} : loads'[l] = loads[l]
  /\ j \in Ids => /\ loads'[j].want = loads[j].want /\ loads'[j].url = loads[j].url
                  /\ loads'[j].scope = loads[j].scope
  /\ \A k \in Keys : StepOfKey(k, j)
  /\ \A k \in Typed : (cache'[k].is = "pending" /\ cache'[k].by = j) =>
       Working(j)' /\ ~ loads'[j].signal /\ Front(loads'[j]) = k
  /\ (loads'[j].at = "done" /\ scope # Viewer) => Claims(Front(loads[j]))'

LEMMA StepKeeps ==
  ASSUME CacheIInv, NEW j, StepOf(j), LoadOK(j)'
  PROVE  (\A l \in Ids' : LoadOK(l)') /\ (\A k \in Keys : KeyOK(k)')
<1>1. ASSUME NEW l \in Ids, l # j PROVE LoadOK(l)'
  <2>1. LoadOK(l) /\ loads'[l] = loads[l] /\ scope' = scope /\ Asks(loads[l])
    BY <1>1 DEF CacheIInv, StepOf, LoadOK, AskingOK
  <2>2. /\ Front(loads[l]) \in Keys /\ Front(loads[l]) \in Typed \cup LodKeys
        /\ Bytes(loads[l]) \in Keys /\ Bytes(loads[l]) \in BytesKeys
        /\ ~ loads[l].signal => Front(loads[l]) \in Typed
    BY <2>1, KeysOf, KeysApart
  <2> PICK f \in Keys : f = Front(loads[l])
    BY <2>2
  <2> PICK b \in Keys : b = Bytes(loads[l])
    BY <2>2
  <2>3. StepOfKey(f, j) /\ StepOfKey(b, j)
    BY <2>2 DEF StepOf
  <2>4. AskingOK(l)'
    BY <2>1 DEF LoadOK, AskingOK
  <2>5. (scope # Viewer /\ f \in Typed /\ Claims(f)) => Claims(f)'
    BY <2>1, <2>3, KeysApart
      DEF StepOfKey, Same, LetsGo, Loads, Fetches, Drops, Claims, Claimable, Occupied, Ready
  <2>6. JoinedOK(l)'
    <3> SUFFICES ASSUME loads[l].at = "joined" PROVE JoinedOK(l)'
      BY <2>1 DEF JoinedOK
    <3> DEFINE o == loads[l].on
    <3>1. /\ ~ loads[l].signal
          /\ o \in Ids /\ Front(loads[o]) = f /\ loads[o].scope = scope
          /\ (loads[o].at = "done" /\ scope # Viewer) => Claims(f)
      BY <2>1 DEF LoadOK, JoinedOK
    <3>2. /\ o \in Ids' /\ Front(loads'[o]) = f /\ loads'[o].scope = scope
          /\ (loads'[o].at = "done" /\ scope # Viewer) => Claims(f)'
      <4>1. CASE o # j
        BY <2>2, <2>5, <3>1, <4>1 DEF StepOf
      <4>2. CASE o = j
        <5>1. o \in Ids' /\ loads'[o].want = loads[o].want /\ loads'[o].url = loads[o].url
              /\ loads'[o].scope = loads[o].scope
          BY <3>1, <4>2 DEF StepOf
        <5>2. loads[l].want # "level" /\ f = <<loads[l].want, loads[l].url>>
          BY <2>1, <3>1, KeysOf DEF Front
        <5>3. loads[o].want # "level"
          <6>1. Asks(loads[o])
            BY <3>1 DEF CacheIInv, LoadOK, AskingOK
          <6> QED BY <2>2, <3>1, <6>1, KeysOf, KeysApart
        <5>4. Front(loads'[o]) = f
          BY <3>1, <5>1, <5>3 DEF Front
        <5> QED BY <3>1, <4>2, <5>1, <5>4 DEF StepOf, Claims
      <4> QED BY <4>1, <4>2
    <3> HIDE DEF o
    <3> QED BY <2>1, <3>1, <3>2 DEF JoinedOK, o
  <2>7. BytesOK(l)'
    <3>1. Occupied(b) => cache'[b] = cache[b]
      BY <2>2, <2>3, KeysApart DEF StepOfKey, Same, LetsGo, Loads, Fetches, Drops
    <3> QED BY <2>1, <3>1 DEF LoadOK, BytesOK, Occupied
  <2>8. HoldsOK(l)'
    <3> SUFFICES ASSUME Working(l), scope # Viewer PROVE Holds(l)'
      BY <2>1 DEF HoldsOK, Working
    <3>1. Holds(l) /\ f \in Typed
      BY <2>1, <2>2 DEF LoadOK, HoldsOK, AskingOK
    <3> QED
      BY <1>1, <2>1, <2>3, <3>1, KeysApart
        DEF Holds, StepOfKey, Same, LetsGo, Loads, Fetches, Drops, Claimable, Occupied
  <2> QED BY <2>4, <2>6, <2>7, <2>8 DEF LoadOK
<1>2. ASSUME NEW k \in Keys PROVE KeyOK(k)'
  <2>1. KeyOK(k) /\ StepOfKey(k, j) /\ scope' = scope /\ scope \in Scopes /\ None \notin Scopes
        /\ recorded[k] \in Scopes \cup {None}
    BY KeysApart DEF CacheIInv, StepOf, Types
  <2>2. ClaimOK(k)'
    <3>1. CASE Same(k)
      BY <2>1, <3>1 DEF KeyOK, ClaimOK, Same, Claimable, Occupied
    <3>2. CASE LetsGo(k)
      BY <2>1, <3>2 DEF KeyOK, ClaimOK, LetsGo, Occupied, Empty
    <3>3. CASE Loads(k, j)
      BY <2>1, <3>3 DEF ClaimOK, Loads, Occupied, Ready
    <3>4. CASE Fetches(k, j)
      BY <2>1, <3>4 DEF ClaimOK, Fetches, Occupied
    <3>5. CASE Drops(k, j)
      BY <2>1, <3>5, KeysApart DEF ClaimOK, Drops, Occupied, Empty
    <3> QED BY <2>1, <3>1, <3>2, <3>3, <3>4, <3>5 DEF StepOfKey
  <2>3. PendingOK(k)'
    <3> SUFFICES ASSUME k \in Typed, cache'[k].is = "pending" PROVE PendingOK(k)'
      BY DEF PendingOK
    <3>1. CASE cache'[k].by = j
      BY <3>1 DEF StepOf, PendingOK
    <3>2. CASE cache'[k].by # j
      <4>1. cache'[k] = cache[k]
        BY <2>1, <3>2, KeysApart
          DEF StepOfKey, Same, LetsGo, Loads, Fetches, Drops, Empty, Ready
      <4> DEFINE i == cache[k].by
      <4>2. i \in Ids /\ Working(i) /\ ~ loads[i].signal /\ Front(loads[i]) = k
        BY <2>1, <4>1 DEF KeyOK, PendingOK
      <4>3. loads'[i] = loads[i] /\ i \in Ids'
        BY <3>2, <4>1, <4>2 DEF StepOf
      <4> HIDE DEF i
      <4> QED BY <4>1, <4>2, <4>3 DEF PendingOK, Working, i
    <3> QED BY <3>1, <3>2
  <2> QED BY <2>2, <2>3 DEF KeyOK
<1> QED BY <1>1, <1>2 DEF StepOf

-----------------------------------------------------------------------------
(* The invariant is kept: loads that start. *)

\* What a step owes: one of the two lemmas above gives the loads and the keys.
LEMMA Kept ==
  ASSUME Types', LeashOK', AbortIsPrivate', \A l \in Ids' : LoadOK(l)', \A k \in Keys : KeyOK(k)'
  PROVE  CacheIInv'
BY DEF CacheIInv

\* A new load is behind the others, which stay.
LEMMA Appended ==
  ASSUME Types, NEW n, n = Fresh, n <= MaxLoads, NEW r \in Load, loads' = Append(loads, r)
  PROVE  /\ loads' \in Seq(Load) /\ Len(loads') <= MaxLoads
         /\ Ids' = Ids \cup {n} /\ n \notin Ids /\ n \in 1..MaxLoads
         /\ \A l \in Ids : loads'[l] = loads[l]
         /\ loads'[n] = r
<1>1. loads \in Seq(Load) /\ Len(loads) \in Nat /\ MaxLoads \in Nat
  BY CacheAssumption DEF Types
<1> QED BY <1>1 DEF Ids, Fresh

\* The record of a new load.
LEMMA NewLoadIs ==
  ASSUME Types, NEW q \in Requests, NEW at \in Busy \cup Settled \cup {"joined"},
         NEW from \in Scopes \cup {None}, NEW on \in 0..MaxLoads
  PROVE  /\ NewLoad(q, at, from, on) \in Load
         /\ LET r == NewLoad(q, at, from, on)
            IN  /\ Asks(r) /\ (r.signal => scope = Viewer)
                /\ r.at = at /\ r.from = from /\ r.on = on /\ r.scope = scope
                /\ r.signal = q.signal /\ r.url = q.url
                /\ Front(r) = Front(q)
<1>1. Asks(q) /\ (q.signal => scope = Viewer)
  BY RequestsAsk
<1> DEFINE r == NewLoad(q, at, from, on)
<1>2. /\ r.want = q.want /\ r.url = q.url /\ r.level = q.level /\ r.signal = q.signal
      /\ r.at = at /\ r.from = from /\ r.on = on /\ r.scope = scope
  BY DEF NewLoad
<1>3. r \in Load
  BY RequestsAsk DEF NewLoad, Load, Types, Busy, Settled
<1> HIDE DEF r
<1>4. Front(r) = Front(q) /\ Asks(r)
  BY <1>1, <1>2, LoadKeys
<1> QED BY <1>1, <1>2, <1>3, <1>4 DEF r

\* Claims of keys that are free, or not claimed by anyone.
LEMMA ClaimedIs ==
  ASSUME Types, NEW ks
  PROVE  /\ Claimed(ks) \in [Keys -> Scopes \cup {None}]
         /\ \A k \in Keys : /\ Claimed(ks)[k] = recorded[k] \/ (Claimed(ks)[k] = scope /\ Claimable(k))
                            /\ (k \in ks /\ Claimable(k)) => Claimed(ks)[k] = scope
BY DEF Types, Claimed, Claimable

\* No promise is a load's that has not started.
LEMMA NoPromiseYet ==
  ASSUME CacheIInv, NEW k \in Typed, cache[k].is = "pending"
  PROVE  cache[k].by # Fresh
<1>1. cache[k].by \in Ids
  BY KeysApart DEF CacheIInv, KeyOK, PendingOK
<1> QED BY <1>1 DEF CacheIInv, Types, Ids, Fresh

LEMMA RefusedKeeps ==
  ASSUME CacheIInv, NEW n, n = Fresh, n <= MaxLoads, NEW q \in Requests, Refused(q)
  PROVE  CacheIInv'
<1> DEFINE r == NewLoad(q, "refused", None, 0)
<1>1. /\ r \in Load /\ Asks(r) /\ (r.signal => scope = Viewer) /\ r.at = "refused"
  BY CacheAssumption, NewLoadIs DEF CacheIInv, Settled
<1>2. loads' = Append(loads, r) /\ UNCHANGED <<scope, cache, leash, requests, faults>>
      /\ (recorded' = recorded \/ recorded' = Claimed({Front(q)}))
  BY DEF Refused
<1> HIDE DEF r
<1>3. /\ loads' \in Seq(Load) /\ Len(loads') <= MaxLoads
      /\ Ids' = Ids \cup {n} /\ n \notin Ids
      /\ \A l \in Ids : loads'[l] = loads[l]
      /\ loads'[n] = r
  BY <1>1, <1>2, Appended DEF CacheIInv
<1>4. Types'
  BY <1>1, <1>2, <1>3, ClaimedIs DEF CacheIInv, Types
<1>5. LeashOK' /\ AbortIsPrivate'
  BY <1>1, <1>2, <1>3, LeashSame DEF CacheIInv, AbortIsPrivate
<1>6. LoadOK(n)'
  BY <1>1, <1>2, <1>3 DEF LoadOK, AskingOK, JoinedOK, BytesOK, HoldsOK, Working, Busy, Settled
<1>7. StepOf(n)
  <2>1. \A k \in Keys : Same(k)
    BY <1>2, ClaimedIs DEF Same, CacheIInv
  <2> QED BY <1>1, <1>2, <1>3, <2>1, NoPromiseYet DEF StepOf, StepOfKey
<1> QED BY <1>4, <1>5, <1>6, <1>7, StepKeeps, Kept

LEMMA HitKeeps ==
  ASSUME CacheIInv, NEW n, n = Fresh, n <= MaxLoads, NEW q \in Requests, Hit(q)
  PROVE  CacheIInv'
<1> DEFINE r == NewLoad(q, "done", scope, 0)
           ks == TypedKeys(q) \cup PayloadKeys(q)
<1>1. /\ Asks(q) /\ (q.signal => scope = Viewer)
      /\ r \in Load /\ Asks(r) /\ (r.signal => scope = Viewer)
      /\ r.at = "done" /\ r.from = scope /\ r.scope = scope /\ Front(r) = Front(q)
  <2>1. Types /\ scope \in Scopes \cup {None} /\ 0 \in 0..MaxLoads /\ "done" \in Settled
    BY CacheAssumption DEF CacheIInv, Types, Settled
  <2>2. /\ r \in Load
        /\ Asks(r) /\ (r.signal => scope = Viewer)
        /\ r.at = "done" /\ r.from = scope /\ r.scope = scope /\ Front(r) = Front(q)
    BY <2>1, NewLoadIs
  <2> QED BY <2>2, RequestsAsk
<1>2. PICK h \in Checked(q) :
        ~ Foreign(h) /\ cache[h].is = "ready" /\ Publish(q, cache[h].from)
        /\ loads' = Append(loads, NewLoad(q, "done", cache[h].from, 0))
  BY DEF Hit
<1>3. Checked(q) \subseteq Keys /\ Front(q) \in Checked(q)
  BY <1>1, KeysOf, KeysApart DEF Checked
<1>4. cache[h].from = scope
  <2>1. KeyOK(h)
    BY <1>2, <1>3 DEF CacheIInv
  <2> QED BY <1>2, <2>1 DEF KeyOK, ClaimOK, Foreign, Occupied
<1>5. /\ loads' = Append(loads, r) /\ Publish(q, scope)
      /\ recorded' = Claimed(Checked(q)) /\ UNCHANGED <<scope, requests, faults>>
  BY <1>2, <1>4 DEF Hit
<1> HIDE DEF r
<1>6. /\ loads' \in Seq(Load) /\ Len(loads') <= MaxLoads
      /\ Ids' = Ids \cup {n} /\ n \notin Ids
      /\ \A l \in Ids : loads'[l] = loads[l]
      /\ loads'[n] = r
  BY <1>1, <1>5, Appended DEF CacheIInv
<1>7. /\ cache' \in [Keys -> Entry] /\ leash' \in Seq(LodKeys) /\ LeashOK'
      /\ \A k \in ks : cache'[k] = Ready(scope)
      /\ \A k \in Keys : k \in ks \/ cache'[k] = cache[k] \/ (k \in LodKeys /\ cache'[k] = Empty)
  BY <1>1, <1>5, Published DEF CacheIInv, Types
<1>8. Types'
  BY <1>1, <1>5, <1>6, <1>7, ClaimedIs DEF CacheIInv, Types
<1>9. AbortIsPrivate'
  BY <1>1, <1>5, <1>6 DEF CacheIInv, AbortIsPrivate
<1>10. \A k \in Keys : /\ recorded'[k] = recorded[k] \/ (recorded'[k] = scope /\ Claimable(k))
                       /\ (k \in Checked(q) /\ Claimable(k)) => recorded'[k] = scope
  BY <1>5, ClaimedIs DEF CacheIInv
<1>11. ASSUME scope # Viewer
       PROVE  ks = {Front(q)} /\ cache[Front(q)].is = "ready" /\ recorded'[Front(q)] = scope
  <2>1. ks = {Front(q)} /\ Checked(q) = {Front(q)}
    BY <1>1, <1>11, KeysOf DEF Checked, Asks
  <2>2. h = Front(q) /\ recorded[h] \in {None, scope}
    BY <1>2, <2>1 DEF Foreign, Occupied
  <2> QED BY <1>2, <1>3, <1>10, <2>1, <2>2 DEF Claimable
<1>12. LoadOK(n)'
  BY <1>1, <1>5, <1>6 DEF LoadOK, AskingOK, JoinedOK, BytesOK, HoldsOK, Working, Busy, Settled
<1>13. StepOf(n)
  <2>1. ASSUME NEW k \in Keys PROVE StepOfKey(k, n)
    <3>1. CASE k \in ks
      <4>1. k \notin BytesKeys
        BY <1>1, <3>1, KeysOf, KeysApart DEF TypedKeys
      <4>2. CASE scope = Viewer
        <5>1. recorded[k] \in {None, Viewer}
          BY <4>2 DEF CacheIInv, KeyOK, ClaimOK
        <5> QED BY <1>7, <1>10, <3>1, <4>1, <4>2, <5>1 DEF StepOfKey, Loads
      <4>3. CASE scope # Viewer
        BY <1>7, <1>11, <3>1, <4>1, <4>3 DEF StepOfKey, Loads
      <4> QED BY <4>2, <4>3
    <3>2. CASE k \notin ks
      BY <1>7, <1>10, <3>2 DEF StepOfKey, Same, LetsGo
    <3> QED BY <3>1, <3>2
  <2>2. \A k \in Typed : ~ (cache'[k].is = "pending" /\ cache'[k].by = n)
    BY <1>7, NoPromiseYet, KeysApart DEF Ready
  <2>3. scope # Viewer => Claims(Front(loads[n]))'
    BY <1>1, <1>5, <1>6, <1>7, <1>11 DEF Claims, Ready
  <2> QED BY <1>5, <1>6, <2>1, <2>2, <2>3 DEF StepOf
<1> QED BY <1>7, <1>8, <1>9, <1>12, <1>13, StepKeeps, Kept

LEMMA JoinKeeps ==
  ASSUME CacheIInv, NEW n, n = Fresh, n <= MaxLoads, NEW q \in Requests, Join(q)
  PROVE  CacheIInv'
<1> DEFINE o == cache[Front(q)].by
           r == NewLoad(q, "joined", None, o)
<1>1. Asks(q) /\ ~ q.signal /\ Front(q) \in Typed /\ Front(q) \in Keys
      /\ cache[Front(q)].is = "pending"
  BY RequestsAsk, KeysOf, KeysApart DEF Join
<1>2. /\ o \in Ids /\ Working(o) /\ ~ loads[o].signal /\ Front(loads[o]) = Front(q)
      /\ loads[o].scope = scope /\ o \in 0..MaxLoads
  <2>1. KeyOK(Front(q)) /\ cache[Front(q)] \in Entry
    BY <1>1 DEF CacheIInv, Types
  <2>2. o \in Ids /\ Working(o) /\ ~ loads[o].signal /\ Front(loads[o]) = Front(q)
    BY <1>1, <2>1 DEF KeyOK, PendingOK
  <2>3. LoadOK(o)
    BY <2>2 DEF CacheIInv
  <2> QED BY <2>1, <2>2, <2>3 DEF LoadOK, AskingOK, Working, Busy, Settled, Entry
<1>3. /\ r \in Load /\ Asks(r) /\ (r.signal => scope = Viewer) /\ ~ r.signal
      /\ r.at = "joined" /\ r.on = o /\ r.scope = scope /\ Front(r) = Front(q)
  BY <1>1, <1>2, NewLoadIs DEF CacheIInv
<1>4. /\ loads' = Append(loads, r) /\ recorded' = Claimed({Front(q)})
      /\ UNCHANGED <<scope, cache, leash, requests, faults>>
  BY DEF Join
<1> HIDE DEF r, o
<1>5. /\ loads' \in Seq(Load) /\ Len(loads') <= MaxLoads
      /\ Ids' = Ids \cup {n} /\ n \notin Ids
      /\ \A l \in Ids : loads'[l] = loads[l]
      /\ loads'[n] = r
  BY <1>3, <1>4, Appended DEF CacheIInv
<1>6. Types'
  BY <1>3, <1>4, <1>5, ClaimedIs DEF CacheIInv, Types
<1>7. LeashOK' /\ AbortIsPrivate'
  BY <1>3, <1>4, <1>5, LeashSame DEF CacheIInv, AbortIsPrivate
<1>8. LoadOK(n)'
  <2>1. JoinedOK(n)'
    BY <1>2, <1>3, <1>4, <1>5 DEF JoinedOK, Working, Busy
  <2> QED BY <1>3, <1>4, <1>5, <2>1 DEF LoadOK, AskingOK, BytesOK, HoldsOK, Working, Busy, Settled
<1>9. StepOf(n)
  <2>1. \A k \in Keys : Same(k)
    BY <1>4, ClaimedIs DEF Same, CacheIInv
  <2> QED BY <1>3, <1>4, <1>5, <2>1, NoPromiseYet DEF StepOf, StepOfKey
<1> QED BY <1>6, <1>7, <1>8, <1>9, StepKeeps, Kept

LEMMA MissKeeps ==
  ASSUME CacheIInv, NEW n, n = Fresh, n <= MaxLoads, NEW q \in Requests, Miss(q)
  PROVE  CacheIInv'
<1> DEFINE f == Front(q)
<1>1. Asks(q) /\ (q.signal => scope = Viewer) /\ f \in Keys /\ f \in Checked(q)
      /\ (~ q.signal => f \in Typed) /\ q.signal \in BOOLEAN
  BY RequestsAsk, KeysOf, KeysApart DEF Checked
<1>2. PICK at \in {"importing", "asked", "degraded"} :
        /\ loads' = Append(loads, NewLoad(q, at, None, 0))
        /\ requests' = IF at = "asked" THEN requests \cup {n} ELSE requests
  BY DEF Miss
<1> DEFINE r == NewLoad(q, at, None, 0)
<1>3. /\ r \in Load /\ Asks(r) /\ (r.signal => scope = Viewer) /\ r.signal = q.signal
      /\ r.at = at /\ r.scope = scope /\ Front(r) = f
  <2>1. Types /\ 0 \in 0..MaxLoads /\ at \in Busy
    BY CacheAssumption DEF CacheIInv, Busy
  <2> QED BY <2>1, NewLoadIs
<1>4. /\ loads' = Append(loads, r) /\ recorded' = Claimed(Checked(q))
      /\ cache' = IF q.signal THEN cache
                  ELSE [cache EXCEPT ![f] = [is |-> "pending", by |-> n, from |-> scope]]
      /\ cache[f].is = "empty" \/ q.signal
      /\ UNCHANGED <<scope, leash, faults>>
  BY <1>2 DEF Miss
<1> HIDE DEF r, f
<1>5. /\ loads' \in Seq(Load) /\ Len(loads') <= MaxLoads
      /\ Ids' = Ids \cup {n} /\ n \notin Ids /\ n \in 1..MaxLoads
      /\ \A l \in Ids : loads'[l] = loads[l]
      /\ loads'[n] = r
  BY <1>3, <1>4, Appended DEF CacheIInv
<1>6. Types'
  <2>1. [is |-> "pending", by |-> n, from |-> scope] \in Entry
    BY <1>5 DEF Entry, CacheIInv, Types
  <2>2. cache' \in [Keys -> Entry]
    BY <1>4, <2>1 DEF CacheIInv, Types
  <2>3. requests' = {l \in Ids' : loads'[l].at = "asked"}
    BY <1>2, <1>3, <1>5 DEF CacheIInv, Types
  <2> QED BY <1>4, <1>5, <2>2, <2>3, ClaimedIs DEF CacheIInv, Types
<1>7. LeashOK' /\ AbortIsPrivate'
  <2>1. \A k \in LodKeys : cache'[k] = cache[k]
    BY <1>1, <1>4, KeysApart DEF CacheIInv, Types
  <2> QED BY <1>3, <1>4, <1>5, <2>1, LeashSame DEF CacheIInv, AbortIsPrivate
<1>8. \A k \in Keys : /\ recorded'[k] = recorded[k] \/ (recorded'[k] = scope /\ Claimable(k))
                      /\ (k \in Checked(q) /\ Claimable(k)) => recorded'[k] = scope
  BY <1>4, ClaimedIs DEF CacheIInv
<1>9. ~ q.signal => /\ cache[f].is = "empty" /\ recorded'[f] = scope
                    /\ cache'[f] = [is |-> "pending", by |-> n, from |-> scope]
  BY <1>1, <1>4, <1>8 DEF CacheIInv, Types, Claimable, Occupied
<1>10. \A k \in Keys : (q.signal \/ k # f) => cache'[k] = cache[k]
  BY <1>4 DEF CacheIInv, Types
<1>11. LoadOK(n)'
  <2>1. HoldsOK(n)'
    BY <1>1, <1>3, <1>4, <1>5, <1>9 DEF HoldsOK, Holds
  <2> QED
    BY <1>2, <1>3, <1>4, <1>5, <2>1 DEF LoadOK, AskingOK, JoinedOK, BytesOK, Settled
<1>12. StepOf(n)
  <2>1. ASSUME NEW k \in Keys PROVE StepOfKey(k, n)
    <3>1. CASE q.signal \/ k # f
      BY <1>8, <1>10, <3>1 DEF StepOfKey, Same
    <3>2. CASE ~ q.signal /\ k = f
      BY <1>1, <1>9, <3>2, KeysApart DEF StepOfKey, Fetches, Occupied
    <3> QED BY <3>1, <3>2
  <2>2. \A k \in Typed : (cache'[k].is = "pending" /\ cache'[k].by = n) => ~ q.signal /\ k = f
    BY <1>1, <1>10, NoPromiseYet, KeysApart
  <2>3. Working(n)' /\ loads'[n].at # "done"
    BY <1>2, <1>3, <1>5 DEF Working, Busy
  <2> QED BY <1>3, <1>4, <1>5, <2>1, <2>2, <2>3 DEF StepOf
<1> QED BY <1>6, <1>7, <1>11, <1>12, StepKeeps, Kept

-----------------------------------------------------------------------------
(* The invariant is kept: loads that wait. *)

\* Loads that are given a new state keep their record.
LEMMA Reshaped ==
  ASSUME Types, NEW ls \in SUBSET Ids, NEW at \in Busy \cup Settled,
         loads' = [l \in Ids |-> IF l \in ls THEN [loads[l] EXCEPT !.at = at] ELSE loads[l]]
  PROVE  /\ loads' \in Seq(Load) /\ Len(loads') <= MaxLoads /\ Ids' = Ids
         /\ \A l \in Ids \ ls : loads'[l] = loads[l]
         /\ \A l \in ls : loads'[l] = [loads[l] EXCEPT !.at = at] /\ loads'[l].at = at
<1>1. /\ loads \in Seq(Load) /\ Ids = 1..Len(loads) /\ Len(loads) \in Nat
      /\ \A l \in Ids : loads[l] \in Load
  BY DEF Types, Ids
<1>2. \A l \in Ids : /\ [loads[l] EXCEPT !.at = at] \in Load
                     /\ [loads[l] EXCEPT !.at = at].at = at
  BY <1>1 DEF Load, Busy, Settled
<1>3. /\ Ids' = 1..Len(loads) /\ \A l \in Ids : loads'[l] \in Load
  BY <1>1, <1>2 DEF Ids
<1>4. loads' \in Seq(Load) /\ Len(loads') = Len(loads)
  BY <1>1, <1>3
<1> QED BY <1>1, <1>2, <1>3, <1>4 DEF Types

\* One load's move is such a change.
LEMMA MovesIs ==
  ASSUME Types, NEW l \in Ids, NEW at, Moves(l, at)
  PROVE  loads' = [i \in Ids |-> IF i \in {l} THEN [loads[i] EXCEPT !.at = at] ELSE loads[i]]
<1>1. loads = [i \in Ids |-> loads[i]]
  BY DEF Types, Ids
<1> QED BY <1>1 DEF Moves, Ids

\* Loads that move between the states of waiting for a worker disturb nothing.
LEMMA WaitKeeps ==
  ASSUME CacheIInv, NEW ls \in SUBSET Ids, \A l \in ls : Working(l),
         NEW at \in {"asked", "answered", "degraded"},
         loads' = [l \in Ids |-> IF l \in ls THEN [loads[l] EXCEPT !.at = at] ELSE loads[l]],
         UNCHANGED <<scope, recorded, cache, leash>>,
         faults' \in 0..MaxFaults, faults' = 0 => faults = 0,
         requests' = IF at = "asked" THEN requests \cup ls ELSE requests \ ls
  PROVE  CacheIInv'
<1>1. /\ loads' \in Seq(Load) /\ Len(loads') <= MaxLoads /\ Ids' = Ids
      /\ \A l \in Ids \ ls : loads'[l] = loads[l]
      /\ \A l \in ls : loads'[l] = [loads[l] EXCEPT !.at = at] /\ loads'[l].at = at
  BY Reshaped DEF CacheIInv, Busy
<1>2. Types'
  BY <1>1 DEF CacheIInv, Types
<1>3. LeashOK' /\ AbortIsPrivate'
  BY <1>1, LeashSame DEF CacheIInv, AbortIsPrivate
<1>4. \A l \in Ids : BytesOK(l)'
  <2> SUFFICES ASSUME NEW l \in Ids PROVE BytesOK(l)'
    OBVIOUS
  <2>1. BytesOK(l)
    BY DEF CacheIInv, LoadOK
  <2> QED BY <1>1, <2>1 DEF BytesOK
<1>5. \A k \in BytesKeys : ClaimOK(k)'
  BY KeysApart DEF CacheIInv, KeyOK, ClaimOK, Occupied
<1>6. \A l \in Ids : \/ loads'[l] = loads[l]
                     \/ Working(l) /\ \E a \in Busy : loads'[l] = [loads[l] EXCEPT !.at = a]
  BY <1>1 DEF Busy
<1> QED BY <1>1, <1>2, <1>3, <1>4, <1>5, <1>6, StepWorks, Kept

LEMMA AskKeeps ==
  ASSUME CacheIInv, NEW l \in Ids, Ask(l)
  PROVE  CacheIInv'
<1>1. CASE Moves(l, "asked") /\ requests' = requests \cup {l}
  <2>1. loads' = [i \in Ids |-> IF i \in {l} THEN [loads[i] EXCEPT !.at = "asked"] ELSE loads[i]]
    BY <1>1, MovesIs DEF CacheIInv
  <2> QED BY <1>1, <2>1, WaitKeeps DEF Ask, Working, Busy, CacheIInv, Types
<1>2. CASE Moves(l, "degraded") /\ UNCHANGED requests
  <2>1. loads' = [i \in Ids |-> IF i \in {l} THEN [loads[i] EXCEPT !.at = "degraded"] ELSE loads[i]]
    BY <1>2, MovesIs DEF CacheIInv
  <2>2. requests' = requests \ {l}
    BY <1>2 DEF Ask, CacheIInv, Types
  <2> QED BY <1>2, <2>1, <2>2, WaitKeeps DEF Ask, Working, Busy, CacheIInv, Types
<1> QED BY <1>1, <1>2 DEF Ask

LEMMA WorkerKeeps ==
  ASSUME CacheIInv, NEW l \in Ids, WorkerAnswers(l) \/ WorkerRefuses(l)
  PROVE  CacheIInv'
<1>1. l \in requests /\ requests' = requests \ {l} /\ Working(l)
      /\ UNCHANGED <<scope, recorded, cache, leash>>
  BY DEF WorkerAnswers, WorkerRefuses, CacheIInv, Types, Working, Busy
<1>2. /\ faults' = faults \/ (faults' = faults + 1 /\ faults < MaxFaults)
      /\ faults \in 0..MaxFaults
  BY DEF WorkerAnswers, WorkerRefuses, CacheIInv, Types
<1>3. faults' \in 0..MaxFaults /\ (faults' = 0 => faults = 0)
  BY <1>2, CacheAssumption
<1>4. PICK at \in {"answered", "degraded"} : Moves(l, at)
  BY DEF WorkerAnswers, WorkerRefuses
<1>5. loads' = [i \in Ids |-> IF i \in {l} THEN [loads[i] EXCEPT !.at = at] ELSE loads[i]]
  BY <1>4, MovesIs DEF CacheIInv
<1> QED BY <1>1, <1>3, <1>5, WaitKeeps

LEMMA BreakKeeps == CacheIInv /\ WorkerBreaks => CacheIInv'
<1> SUFFICES ASSUME CacheIInv, WorkerBreaks PROVE CacheIInv'
  OBVIOUS
<1>1. PICK pool \in {Files, Surfs} :
        LET poisoned == {l \in requests : loads[l].url \in pool}
        IN  loads' = Degraded(poisoned) /\ requests' = requests \ poisoned
  BY DEF WorkerBreaks
<1>2. PICK ls \in SUBSET Ids : ls = {l \in requests : loads[l].url \in pool}
  BY DEF CacheIInv, Types
<1>3. /\ \A l \in ls : Working(l)
      /\ loads' = [l \in Ids |-> IF l \in ls THEN [loads[l] EXCEPT !.at = "degraded"] ELSE loads[l]]
      /\ requests' = requests \ ls
  BY <1>1, <1>2 DEF Degraded, CacheIInv, Types, Working, Busy
<1>4. faults' \in 0..MaxFaults /\ (faults' = 0 => faults = 0)
      /\ UNCHANGED <<scope, recorded, cache, leash>>
  BY CacheAssumption DEF WorkerBreaks, CacheIInv, Types
<1> QED BY <1>3, <1>4, WaitKeeps

\* The bytes of a URL arrive, or fail, and every load that waits for them moves.
LEMMA FetchKeeps ==
  ASSUME CacheIInv, NEW u \in Urls, FetchArrives(u) \/ FetchFails(u)
  PROVE  CacheIInv'
<1> DEFINE b == <<"bytes", u>>
<1>1. b \in BytesKeys /\ b \in Keys /\ b \notin LodKeys /\ b \notin Typed \cup Payload
  BY KeysApart DEF BytesKeys
<1>2. PICK ls \in SUBSET Ids : ls = Waiting(u)
  BY DEF Waiting
<1>3. PICK at \in {"built", "lost"} :
        /\ loads' = [l \in Ids |-> IF l \in ls THEN [loads[l] EXCEPT !.at = at] ELSE loads[l]]
        /\ at = "built" => /\ cache' = [cache EXCEPT ![b] = Ready(cache[b].from)]
                           /\ UNCHANGED <<recorded, faults>>
        /\ at = "lost" => /\ cache' = [cache EXCEPT ![b] = Empty]
                          /\ recorded' = [recorded EXCEPT ![b] = None]
                          /\ faults' = faults + 1 /\ faults < MaxFaults
  BY <1>2 DEF FetchArrives, FetchFails
<1>4. cache[b].is = "pending" /\ UNCHANGED <<scope, leash, requests>>
  BY DEF FetchArrives, FetchFails
<1>5. /\ loads' \in Seq(Load) /\ Len(loads') <= MaxLoads /\ Ids' = Ids
      /\ \A l \in Ids \ ls : loads'[l] = loads[l]
      /\ \A l \in ls : loads'[l] = [loads[l] EXCEPT !.at = at] /\ loads'[l].at = at
  BY <1>3, Reshaped DEF CacheIInv, Busy
<1>6. \A k \in Keys \ {b} : cache'[k] = cache[k] /\ recorded'[k] = recorded[k]
  BY <1>3 DEF CacheIInv, Types
<1>7. /\ at = "built" => cache'[b] = Ready(cache[b].from) /\ recorded'[b] = recorded[b]
      /\ at = "lost" => cache'[b] = Empty /\ recorded'[b] = None
  BY <1>1, <1>3 DEF CacheIInv, Types
<1>8. Types'
  <2>1. Ready(cache[b].from) \in Entry /\ Empty \in Entry
    BY <1>1, CacheAssumption DEF CacheIInv, Types, Ready, Empty, Entry
  <2>2. cache' \in [Keys -> Entry] /\ recorded' \in [Keys -> Scopes \cup {None}]
    BY <1>3, <2>1 DEF CacheIInv, Types
  <2>3. requests' = {l \in Ids' : loads'[l].at = "asked"}
    BY <1>2, <1>4, <1>5 DEF CacheIInv, Types, Waiting
  <2>4. faults' \in 0..MaxFaults
    BY <1>3, CacheAssumption DEF CacheIInv, Types
  <2> QED BY <1>4, <1>5, <2>2, <2>3, <2>4 DEF CacheIInv, Types
<1>9. LeashOK'
  BY <1>1, <1>4, <1>6, KeysApart, LeashSame DEF CacheIInv
<1>10. AbortIsPrivate'
  BY <1>3, <1>5 DEF CacheIInv, Types, AbortIsPrivate
<1>11. ASSUME NEW l \in Ids PROVE BytesOK(l)'
  <2>1. BytesOK(l) /\ Bytes(loads[l]) \in Keys /\ (loads[l].url = u <=> Bytes(loads[l]) = b)
    BY KeysOf, KeysApart DEF CacheIInv, LoadOK, AskingOK, Bytes
  <2> PICK c \in Keys : c = Bytes(loads[l])
    BY <2>1
  <2>2. CASE l \in ls
    <3>1. loads[l].at = "fetching" /\ c = b /\ loads[l] \in Load
      BY <1>2, <2>1, <2>2 DEF Waiting, CacheIInv, Types, Ids
    <3>2. cache[b].from = scope
      BY <2>1, <3>1 DEF BytesOK
    <3>3. Bytes(loads'[l]) = b
      BY <1>5, <2>2, <3>1 DEF Bytes, Load
    <3>4. /\ loads'[l].at = at
          /\ at = "built" => cache'[b].is = "ready" /\ cache'[b].from = scope'
      <4>1. loads'[l].at = at
        BY <1>5, <2>2
      <4>2. at = "built" => cache'[b] = Ready(scope')
        BY <1>4, <1>7, <3>2
      <4> QED BY <4>1, <4>2 DEF Ready
    <3> HIDE DEF b
    <3> QED BY <3>3, <3>4 DEF BytesOK
  <2>3. CASE l \notin ls
    <3>1. (loads[l].at = "fetching" \/ loads[l].at = "built") => c # b
      BY <1>2, <1>4, <2>1, <2>3 DEF Waiting, BytesOK
    <3> QED BY <1>4, <1>5, <1>6, <2>1, <2>3, <3>1 DEF BytesOK
  <2> QED BY <2>2, <2>3
<1>12. ASSUME NEW k \in BytesKeys PROVE ClaimOK(k)'
  <2>1. ClaimOK(k) /\ k \in Keys /\ k \notin Payload
    BY KeysApart DEF CacheIInv, KeyOK
  <2>2. CASE k = b
    BY <1>3, <1>4, <1>7, <2>1, <2>2 DEF ClaimOK, Occupied, Ready, Empty
  <2>3. CASE k # b
    BY <1>4, <1>6, <2>1, <2>3 DEF ClaimOK, Occupied
  <2> QED BY <2>2, <2>3
<1>13. \A l \in Ids : \/ loads'[l] = loads[l]
                      \/ Working(l) /\ \E a \in Busy : loads'[l] = [loads[l] EXCEPT !.at = a]
  BY <1>2, <1>5 DEF Busy, Working, Waiting
<1>14. \A k \in Typed \cup Payload : cache'[k] = cache[k] /\ recorded'[k] = recorded[k]
  BY <1>1, <1>6, KeysApart
<1> QED
  BY <1>4, <1>5, <1>8, <1>9, <1>10, <1>11, <1>12, <1>13, <1>14, StepWorks, Kept

\* The bytes of a degraded load are there, on their way, or asked for now.
LEMMA BytesKeep ==
  ASSUME CacheIInv, NEW l \in Ids, AskBytes(l), ~ Foreign(Bytes(loads[l]))
  PROVE  CacheIInv'
<1>1. PICK b \in Keys : b = Bytes(loads[l])
  BY KeysOf, KeysApart DEF CacheIInv, LoadOK, AskingOK
<1>2. b \in BytesKeys /\ b \notin Typed \cup Payload /\ b \notin LodKeys
  BY <1>1, KeysOf, KeysApart DEF CacheIInv, LoadOK, AskingOK
<1>3. PICK at \in {"built", "fetching"} :
        /\ at = IF cache[b].is = "ready" THEN "built" ELSE "fetching"
        /\ Moves(l, at)
  BY <1>1 DEF AskBytes
<1>4. /\ loads[l].at = "degraded"
      /\ cache' = IF Occupied(b) THEN cache
                  ELSE [cache EXCEPT ![b] = [is |-> "pending", by |-> 0, from |-> scope]]
      /\ recorded' = Claimed({b})
      /\ UNCHANGED <<scope, leash, requests, faults>>
  BY <1>1 DEF AskBytes
<1>5. /\ loads' \in Seq(Load) /\ Len(loads') <= MaxLoads /\ Ids' = Ids
      /\ \A i \in Ids \ {l} : loads'[i] = loads[i]
      /\ loads'[l] = [loads[l] EXCEPT !.at = at] /\ loads'[l].at = at
  <2>1. loads' = [i \in Ids |-> IF i \in {l} THEN [loads[i] EXCEPT !.at = at] ELSE loads[i]]
    BY <1>3, MovesIs DEF CacheIInv
  <2> QED BY <2>1, Reshaped DEF CacheIInv, Busy
<1>6. /\ \A k \in Keys \ {b} : cache'[k] = cache[k] /\ recorded'[k] = recorded[k]
      /\ Claimable(b) => recorded'[b] = scope
      /\ ~ Claimable(b) => recorded'[b] = recorded[b]
      /\ Occupied(b) => cache'[b] = cache[b]
      /\ ~ Occupied(b) => cache'[b] = [is |-> "pending", by |-> 0, from |-> scope]
  BY <1>4 DEF CacheIInv, Types, Claimed, Claimable
<1>7. ClaimOK(b)
  BY DEF CacheIInv, KeyOK
<1>8. Types'
  <2>1. [is |-> "pending", by |-> 0, from |-> scope] \in Entry
    BY CacheAssumption DEF Entry, CacheIInv, Types
  <2>2. cache' \in [Keys -> Entry]
    BY <1>4, <2>1 DEF CacheIInv, Types
  <2>3. requests' = {i \in Ids' : loads'[i].at = "asked"}
    BY <1>3, <1>4, <1>5 DEF CacheIInv, Types
  <2> QED BY <1>4, <1>5, <2>2, <2>3, ClaimedIs DEF CacheIInv, Types
<1>9. LeashOK'
  BY <1>2, <1>4, <1>6, KeysApart, LeashSame DEF CacheIInv
<1>10. AbortIsPrivate'
  BY <1>3, <1>4, <1>5 DEF CacheIInv, AbortIsPrivate
<1>11. ASSUME NEW i \in Ids PROVE BytesOK(i)'
  <2>1. BytesOK(i) /\ Bytes(loads[i]) \in Keys
    BY KeysOf, KeysApart DEF CacheIInv, LoadOK, AskingOK
  <2> PICK c \in Keys : c = Bytes(loads[i])
    BY <2>1
  <2>2. CASE i = l
    <3>1. Bytes(loads'[l]) = b
      <4>1. loads[l] \in Load
        BY DEF CacheIInv, Types, Ids
      <4> QED BY <1>1, <1>5, <4>1 DEF Bytes, Load
    <3>2. Occupied(b) => cache[b].from = scope /\ cache[b].is \in {"ready", "pending"}
      <4>1. ~ Foreign(b) /\ cache[b].is \in {"empty", "ready", "pending"}
        BY <1>1 DEF CacheIInv, Types, Entry
      <4> QED BY <1>7, <4>1 DEF Foreign, ClaimOK, Occupied
    <3>3. /\ loads'[l].at = at /\ cache'[b].from = scope'
          /\ cache'[b].is = IF at = "built" THEN "ready" ELSE "pending"
      BY <1>3, <1>4, <1>5, <1>6, <3>2 DEF Occupied
    <3> QED BY <2>2, <3>1, <3>3 DEF BytesOK
  <2>3. CASE i # l
    <3>1. (loads[i].at = "fetching" \/ loads[i].at = "built") => Occupied(c)
      BY <2>1 DEF BytesOK, Occupied
    <3>2. Occupied(c) => cache'[c] = cache[c]
      BY <1>6
    <3> QED BY <1>4, <1>5, <2>1, <2>3, <3>1, <3>2 DEF BytesOK
  <2> QED BY <2>2, <2>3
<1>12. ASSUME NEW k \in BytesKeys PROVE ClaimOK(k)'
  <2>1. ClaimOK(k) /\ k \in Keys /\ k \notin Payload
    BY KeysApart DEF CacheIInv, KeyOK
  <2>2. CASE k = b
    <3>1. scope \in Scopes /\ None \notin Scopes
      BY KeysApart DEF CacheIInv, Types
    <3> QED BY <1>4, <1>6, <2>1, <2>2, <3>1 DEF ClaimOK, Occupied, Claimable
  <2>3. CASE k # b
    BY <1>4, <1>6, <2>1, <2>3 DEF ClaimOK, Occupied
  <2> QED BY <2>2, <2>3
<1>13. \A i \in Ids : \/ loads'[i] = loads[i]
                      \/ Working(i) /\ \E a \in Busy : loads'[i] = [loads[i] EXCEPT !.at = a]
  BY <1>3, <1>4, <1>5 DEF Busy, Working
<1>14. \A k \in Typed \cup Payload : cache'[k] = cache[k] /\ recorded'[k] = recorded[k]
  BY <1>2, <1>6, KeysApart
<1> QED
  BY <1>4, <1>5, <1>8, <1>9, <1>10, <1>11, <1>12, <1>13, <1>14, StepWorks, Kept

-----------------------------------------------------------------------------
(* The invariant is kept: loads that end. *)

\* One load of the same request, with another outcome.
LEMMA Outcome ==
  ASSUME Types, NEW l \in Ids, NEW at \in Settled, NEW r \in Load,
         r.want = loads[l].want, r.url = loads[l].url, r.level = loads[l].level,
         r.signal = loads[l].signal, r.scope = loads[l].scope, r.at = at,
         loads' = [loads EXCEPT ![l] = r], requests' = requests \ {l}
  PROVE  /\ loads' \in Seq(Load) /\ Len(loads') <= MaxLoads /\ Ids' = Ids
         /\ \A i \in Ids \ {l} : loads'[i] = loads[i]
         /\ loads'[l] = r
         /\ requests' = {i \in Ids' : loads'[i].at = "asked"}
         /\ Front(loads'[l]) = Front(loads[l]) /\ (Asks(loads[l]) => Asks(loads'[l]))
<1>1. loads \in Seq(Load) /\ Ids = 1..Len(loads) /\ Len(loads) \in Nat
  BY DEF Types, Ids
<1>2. loads' \in Seq(Load) /\ Len(loads') = Len(loads) /\ Ids' = Ids
      /\ (\A i \in Ids \ {l} : loads'[i] = loads[i]) /\ loads'[l] = r
  BY <1>1 DEF Ids
<1>3. requests' = {i \in Ids' : loads'[i].at = "asked"}
  BY <1>2 DEF Types, Settled
<1> QED BY <1>2, <1>3, LoadKeys DEF Types

\* A load's end is well formed, whatever it ends in.
LEMMA EndIsOK ==
  ASSUME NEW l, LoadOK(l), scope' = scope, loads'[l].at \in Settled, Asks(loads'[l]),
         loads'[l].signal = loads[l].signal, loads'[l].scope = loads[l].scope,
         loads'[l].at = "done" => loads'[l].from = loads'[l].scope
  PROVE  LoadOK(l)'
BY DEF LoadOK, AskingOK, JoinedOK, BytesOK, HoldsOK, Working, Busy, Settled

\* The record of a load that only changes its state.
LEMMA EndedIs ==
  ASSUME Types, NEW l \in Ids, NEW at \in Settled, Moves(l, at)
  PROVE  \E r \in Load :
           /\ loads' = [loads EXCEPT ![l] = r]
           /\ r.want = loads[l].want /\ r.url = loads[l].url /\ r.level = loads[l].level
           /\ r.signal = loads[l].signal /\ r.scope = loads[l].scope /\ r.at = at
<1>1. loads[l] \in Load
  BY DEF Types, Ids
<1> DEFINE r == [loads[l] EXCEPT !.at = at]
<1>2. /\ r \in Load /\ r.want = loads[l].want /\ r.url = loads[l].url /\ r.level = loads[l].level
      /\ r.signal = loads[l].signal /\ r.scope = loads[l].scope /\ r.at = at
  BY <1>1 DEF Load, Settled
<1>3. loads' = [loads EXCEPT ![l] = r]
  BY DEF Moves
<1> QED BY <1>2, <1>3

\* A load that fails, or is refused the bytes, takes its promise with it.
LEMMA LeaveKeeps ==
  ASSUME CacheIInv, NEW l \in Ids, Working(l), loads[l].at # "asked",
         NEW at \in {"refused", "failed"}, Moves(l, at), at = "failed" => faults # 0,
         Forgets(Dropped(l)), UNCHANGED <<scope, leash, requests, faults>>
  PROVE  CacheIInv'
<1>1. PICK r \in Load :
        /\ loads' = [loads EXCEPT ![l] = r]
        /\ r.want = loads[l].want /\ r.url = loads[l].url /\ r.level = loads[l].level
        /\ r.signal = loads[l].signal /\ r.scope = loads[l].scope /\ r.at = at
  BY EndedIs DEF CacheIInv, Settled
<1>2. requests' = requests \ {l}
  BY DEF CacheIInv, Types
<1>3. /\ loads' \in Seq(Load) /\ Len(loads') <= MaxLoads /\ Ids' = Ids
      /\ \A i \in Ids \ {l} : loads'[i] = loads[i]
      /\ loads'[l] = r
      /\ requests' = {i \in Ids' : loads'[i].at = "asked"}
      /\ Front(loads'[l]) = Front(loads[l]) /\ (Asks(loads[l]) => Asks(loads'[l]))
  BY <1>1, <1>2, Outcome DEF CacheIInv, Settled
<1>4. LoadOK(l) /\ Asks(loads[l])
  BY DEF CacheIInv, LoadOK, AskingOK
<1>5. PICK ks \in SUBSET Typed :
        /\ \A k \in Typed : k \in ks <=> (k \in TypedKeys(loads[l]) /\ cache[k].is = "pending" /\ cache[k].by = l)
        /\ cache' = [k \in Keys |-> IF k \in ks THEN Empty ELSE cache[k]]
        /\ recorded' = [k \in Keys |-> IF k \in ks THEN None ELSE recorded[k]]
  <2>1. Dropped(l) \in SUBSET Typed
    BY DEF Dropped, TypedKeys
  <2> QED BY <2>1 DEF Forgets, Dropped
<1>6. Types'
  <2>1. Empty \in Entry
    BY CacheAssumption DEF Empty, Entry
  <2>2. cache' \in [Keys -> Entry] /\ recorded' \in [Keys -> Scopes \cup {None}]
    BY <1>5, <2>1 DEF CacheIInv, Types
  <2> QED BY <1>3, <2>2 DEF CacheIInv, Types
<1>7. LeashOK'
  <2>1. \A k \in LodKeys : cache'[k] = cache[k]
    BY <1>5, KeysApart
  <2> QED BY <2>1, LeashSame DEF CacheIInv
<1>8. AbortIsPrivate'
  BY <1>1, <1>3 DEF CacheIInv, AbortIsPrivate
<1>9. LoadOK(l)'
  BY <1>1, <1>3, <1>4, EndIsOK DEF Settled
<1>10. StepOf(l)
  <2>1. \A k \in Keys : StepOfKey(k, l)
    BY <1>5 DEF StepOfKey, Same, Drops
  <2>2. \A k \in Typed : ~ (cache'[k].is = "pending" /\ cache'[k].by = l)
    <3> SUFFICES ASSUME NEW k \in Typed, cache'[k].is = "pending", cache'[k].by = l
                 PROVE  FALSE
      OBVIOUS
    <3>1. k \in Keys /\ k \notin LodKeys
      BY KeysApart
    <3>2. k \notin ks /\ cache'[k] = cache[k]
      BY <1>5, <3>1 DEF Empty
    <3>3. Front(loads[l]) = k
      BY <3>1, <3>2 DEF CacheIInv, KeyOK, PendingOK
    <3>4. k \in TypedKeys(loads[l])
      BY <1>4, <3>1, <3>3, KeysOf
    <3> QED BY <1>5, <3>2, <3>4
  <2> QED BY <1>1, <1>3, <2>1, <2>2 DEF StepOf
<1> QED BY <1>6, <1>7, <1>8, <1>9, <1>10, StepKeeps, Kept

LEMMA AskBytesKeeps ==
  ASSUME CacheIInv, NEW l \in Ids, AskBytes(l)
  PROVE  CacheIInv'
<1>1. CASE Foreign(Bytes(loads[l]))
  <2>1. /\ Moves(l, "refused") /\ Forgets(Dropped(l)) /\ loads[l].at = "degraded"
        /\ UNCHANGED <<scope, leash, requests, faults>>
    BY <1>1 DEF AskBytes, Moves, Forgets
  <2> QED BY <2>1, LeaveKeeps DEF Working, Busy
<1>2. CASE ~ Foreign(Bytes(loads[l]))
  BY <1>2, BytesKeep
<1> QED BY <1>1, <1>2

LEMMA FailKeeps ==
  ASSUME CacheIInv, NEW l \in Ids, Fail(l)
  PROVE  CacheIInv'
<1>1. loads[l].at = "lost" /\ faults # 0
  BY DEF Fail, CacheIInv, AbortIsPrivate
<1> QED BY <1>1, LeaveKeeps DEF Fail, Working, Busy

LEMMA AbortKeeps ==
  ASSUME CacheIInv, NEW l \in Ids, Abort(l)
  PROVE  CacheIInv'
<1>1. /\ Moves(l, "aborted") /\ loads[l].signal /\ requests' = requests \ {l}
      /\ UNCHANGED <<scope, recorded, cache, leash, faults>>
  BY DEF Abort, LetGo, Moves
<1>2. PICK r \in Load :
        /\ loads' = [loads EXCEPT ![l] = r]
        /\ r.want = loads[l].want /\ r.url = loads[l].url /\ r.level = loads[l].level
        /\ r.signal = loads[l].signal /\ r.scope = loads[l].scope /\ r.at = "aborted"
  BY <1>1, EndedIs DEF CacheIInv, Settled
<1>3. /\ loads' \in Seq(Load) /\ Len(loads') <= MaxLoads /\ Ids' = Ids
      /\ \A i \in Ids \ {l} : loads'[i] = loads[i]
      /\ loads'[l] = r
      /\ requests' = {i \in Ids' : loads'[i].at = "asked"}
      /\ Front(loads'[l]) = Front(loads[l]) /\ (Asks(loads[l]) => Asks(loads'[l]))
  BY <1>1, <1>2, Outcome DEF CacheIInv, Settled
<1>4. Types'
  BY <1>1, <1>3 DEF CacheIInv, Types
<1>5. LeashOK' /\ AbortIsPrivate'
  BY <1>1, <1>2, <1>3, LeashSame DEF CacheIInv, AbortIsPrivate
<1>6. LoadOK(l) /\ Asks(loads[l])
  BY DEF CacheIInv, LoadOK, AskingOK
<1>7. LoadOK(l)'
  BY <1>1, <1>2, <1>3, <1>6, EndIsOK DEF Settled
<1>8. StepOf(l)
  <2>1. \A k \in Typed : ~ (cache'[k].is = "pending" /\ cache'[k].by = l)
    BY <1>1, KeysApart DEF CacheIInv, KeyOK, PendingOK
  <2>2. \A k \in Keys : StepOfKey(k, l)
    BY <1>1 DEF StepOfKey, Same
  <2> QED BY <1>1, <1>2, <1>3, <2>1, <2>2 DEF StepOf
<1> QED BY <1>4, <1>5, <1>7, <1>8, StepKeeps, Kept

\* A load that ends with a payload of this scope publishes it.
LEMMA PublishKeeps ==
  ASSUME CacheIInv, NEW l \in Ids, loads[l].at \in {"built", "answered", "joined"},
         scope # Viewer => Holds(l) \/ Claims(Front(loads[l])),
         Publish(loads[l], scope),
         loads' = [loads EXCEPT ![l].at = "done", ![l].from = scope],
         UNCHANGED <<scope, recorded, requests, faults>>
  PROVE  CacheIInv'
<1>1. LoadOK(l) /\ Asks(loads[l]) /\ loads[l] \in Load /\ loads[l].scope = scope
      /\ scope \in Scopes
  BY DEF CacheIInv, LoadOK, AskingOK, Types, Ids, Settled
<1> DEFINE r == [loads[l] EXCEPT !.at = "done", !.from = scope]
           ks == TypedKeys(loads[l]) \cup PayloadKeys(loads[l])
<1>2. /\ loads' = [loads EXCEPT ![l] = r]
      /\ r \in Load /\ r.want = loads[l].want /\ r.url = loads[l].url /\ r.level = loads[l].level
      /\ r.signal = loads[l].signal /\ r.scope = scope /\ r.at = "done" /\ r.from = scope
  BY <1>1 DEF Load, Settled
<1> HIDE DEF r
<1>3. requests' = requests \ {l}
  BY DEF CacheIInv, Types
<1>4. /\ loads' \in Seq(Load) /\ Len(loads') <= MaxLoads /\ Ids' = Ids
      /\ \A i \in Ids \ {l} : loads'[i] = loads[i]
      /\ loads'[l] = r
      /\ requests' = {i \in Ids' : loads'[i].at = "asked"}
      /\ Front(loads'[l]) = Front(loads[l]) /\ Asks(loads'[l])
  BY <1>1, <1>2, <1>3, Outcome DEF CacheIInv, Settled
<1>5. /\ cache' \in [Keys -> Entry] /\ leash' \in Seq(LodKeys) /\ LeashOK'
      /\ \A k \in ks : cache'[k] = Ready(scope)
      /\ \A k \in Keys : k \in ks \/ cache'[k] = cache[k] \/ (k \in LodKeys /\ cache'[k] = Empty)
  BY <1>1, Published DEF CacheIInv
<1>6. Types'
  BY <1>4, <1>5 DEF CacheIInv, Types
<1>7. AbortIsPrivate'
  BY <1>2, <1>4 DEF CacheIInv, AbortIsPrivate
<1>8. LoadOK(l)'
  BY <1>1, <1>2, <1>4, EndIsOK DEF Settled
<1>9. ASSUME scope # Viewer
      PROVE  /\ ks = {Front(loads[l])} /\ recorded[Front(loads[l])] = scope
             /\ \/ cache[Front(loads[l])].is = "ready"
                \/ cache[Front(loads[l])].is = "pending" /\ cache[Front(loads[l])].by = l
  <2>1. ~ loads[l].signal
    BY <1>1, <1>9 DEF LoadOK, AskingOK
  <2> QED BY <1>1, <1>9, <2>1, KeysOf DEF Holds, Claims
<1>10. StepOf(l)
  <2>1. ASSUME NEW k \in Keys PROVE StepOfKey(k, l)
    <3>1. CASE k \in ks
      <4>1. k \notin BytesKeys
        BY <1>1, <3>1, KeysOf, KeysApart DEF TypedKeys
      <4>2. CASE scope = Viewer
        <5>1. recorded[k] \in {None, Viewer}
          BY <4>2 DEF CacheIInv, KeyOK, ClaimOK
        <5> QED BY <1>5, <3>1, <4>1, <4>2, <5>1 DEF StepOfKey, Loads
      <4>3. CASE scope # Viewer
        BY <1>5, <1>9, <3>1, <4>1, <4>3 DEF StepOfKey, Loads
      <4> QED BY <4>2, <4>3
    <3>2. CASE k \notin ks
      BY <1>5, <3>2 DEF StepOfKey, Same, LetsGo
    <3> QED BY <3>1, <3>2
  <2>2. ASSUME NEW k \in Typed, cache'[k].is = "pending", cache'[k].by = l PROVE FALSE
    <3>1. k \in Keys /\ k \notin LodKeys
      BY KeysApart
    <3>2. k \notin ks /\ cache'[k] = cache[k]
      BY <1>5, <2>2, <3>1 DEF Ready
    <3>3. Front(loads[l]) = k
      BY <2>2, <3>1, <3>2 DEF CacheIInv, KeyOK, PendingOK
    <3> QED BY <1>1, <3>1, <3>2, <3>3, KeysOf
  <2>3. scope # Viewer => Claims(Front(loads[l]))'
    BY <1>4, <1>5, <1>9 DEF Claims, Ready
  <2> QED BY <1>1, <1>2, <1>4, <2>1, <2>2, <2>3 DEF StepOf
<1> QED BY <1>5, <1>6, <1>7, <1>8, <1>10, StepKeeps, Kept

LEMMA FinishKeeps ==
  ASSUME CacheIInv, NEW l \in Ids, Finish(l)
  PROVE  CacheIInv'
<1>1. LoadOK(l)
  BY DEF CacheIInv
<1>2. loads[l].scope = scope
  BY <1>1 DEF Finish, LoadOK, AskingOK, Settled
<1>3. Source(l) = scope
  BY <1>1, <1>2 DEF Source, LoadOK, BytesOK
<1>4. scope # Viewer => Holds(l)
  BY <1>1 DEF Finish, LoadOK, HoldsOK, Working, Busy
<1> QED BY <1>3, <1>4, PublishKeeps DEF Finish

LEMMA ResumeKeeps ==
  ASSUME CacheIInv, NEW l \in Ids, Resume(l)
  PROVE  CacheIInv'
<1> PICK o : o = loads[l].on
  OBVIOUS
<1>1. /\ loads[l].at = "joined" /\ loads[o].at \in Settled
      /\ loads' = [loads EXCEPT ![l].at = loads[o].at, ![l].from = loads[o].from]
      /\ IF loads[o].at = "done" THEN Publish(loads[l], loads[o].from)
                                 ELSE UNCHANGED <<cache, leash>>
      /\ UNCHANGED <<scope, recorded, requests, faults>>
  BY DEF Resume
<1>2. /\ LoadOK(l) /\ Asks(loads[l]) /\ loads[l] \in Load
      /\ o \in Ids /\ loads[o] \in Load /\ loads[o].scope = scope
      /\ (loads[o].at = "done" /\ scope # Viewer) => Claims(Front(loads[l]))
      /\ LoadOK(o)
  <2>1. LoadOK(l) /\ loads[l] \in Load
    BY DEF CacheIInv, Types, Ids
  <2>2. /\ o \in Ids /\ loads[o].scope = scope
        /\ (loads[o].at = "done" /\ scope # Viewer) => Claims(Front(loads[l]))
    BY <1>1, <2>1 DEF LoadOK, JoinedOK
  <2>3. loads[o] \in Load /\ LoadOK(o)
    BY <2>2 DEF CacheIInv, Types, Ids
  <2> QED BY <2>1, <2>2, <2>3 DEF LoadOK, AskingOK
<1>3. CASE loads[o].at = "done"
  <2>1. loads[o].from = scope
    BY <1>2, <1>3 DEF LoadOK, AskingOK
  <2> QED BY <1>1, <1>2, <1>3, <2>1, PublishKeeps
<1>4. CASE loads[o].at # "done"
  <2> PICK at \in Settled : at = loads[o].at
    BY <1>1
  <2> DEFINE r == [loads[l] EXCEPT !.at = at, !.from = loads[o].from]
  <2>1. /\ loads' = [loads EXCEPT ![l] = r]
        /\ r \in Load /\ r.want = loads[l].want /\ r.url = loads[l].url
        /\ r.level = loads[l].level /\ r.signal = loads[l].signal
        /\ r.scope = loads[l].scope /\ r.at = at
    BY <1>1, <1>2 DEF Load
  <2> HIDE DEF r
  <2>2. requests' = requests \ {l}
    BY <1>1 DEF CacheIInv, Types
  <2>3. /\ loads' \in Seq(Load) /\ Len(loads') <= MaxLoads /\ Ids' = Ids
        /\ \A i \in Ids \ {l} : loads'[i] = loads[i]
        /\ loads'[l] = r
        /\ requests' = {i \in Ids' : loads'[i].at = "asked"}
        /\ Front(loads'[l]) = Front(loads[l]) /\ Asks(loads'[l])
    BY <1>2, <2>1, <2>2, Outcome DEF CacheIInv
  <2>4. Types'
    BY <1>1, <1>4, <2>3 DEF CacheIInv, Types
  <2>5. LeashOK' /\ AbortIsPrivate'
    BY <1>1, <1>2, <1>4, <2>1, <2>3, LeashSame DEF CacheIInv, AbortIsPrivate
  <2>6. LoadOK(l)'
    BY <1>1, <1>2, <1>4, <2>1, <2>3, EndIsOK DEF Settled
  <2>7. StepOf(l)
    <3>1. \A k \in Typed : ~ (cache'[k].is = "pending" /\ cache'[k].by = l)
      BY <1>1, <1>4, KeysApart DEF CacheIInv, KeyOK, PendingOK, Working, Busy
    <3>2. \A k \in Keys : StepOfKey(k, l)
      BY <1>1, <1>4 DEF StepOfKey, Same
    <3> QED BY <1>1, <1>4, <2>1, <2>3, <3>1, <3>2 DEF StepOf
  <2> QED BY <2>4, <2>5, <2>6, <2>7, StepKeeps, Kept
<1> QED BY <1>3, <1>4

\* The next job starts with no load under way, and never without a claim.
LEMMA NewJobKeeps == CacheIInv /\ NewJob => CacheIInv'
<1> SUFFICES ASSUME CacheIInv, NewJob PROVE CacheIInv'
  OBVIOUS
<1>1. /\ scope # Viewer /\ scope' # Viewer /\ scope' \in Scopes
      /\ \A l \in Ids : loads[l].at \in Settled
      /\ UNCHANGED <<recorded, cache, leash, loads, requests, faults>>
  BY CacheAssumption DEF NewJob, Scopes
<1>2. Types' /\ LeashOK' /\ AbortIsPrivate'
  BY <1>1, LeashSame DEF CacheIInv, Types, AbortIsPrivate, Ids
<1>3. ASSUME NEW l \in Ids' PROVE LoadOK(l)'
  <2>1. l \in Ids /\ LoadOK(l) /\ loads[l].at \in Settled
    BY <1>1 DEF CacheIInv, Ids
  <2> QED BY <1>1, <2>1
        DEF LoadOK, AskingOK, JoinedOK, BytesOK, HoldsOK, Working, Busy, Settled
<1>4. ASSUME NEW k \in Keys PROVE KeyOK(k)'
  <2>1. KeyOK(k)
    BY DEF CacheIInv
  <2> QED BY <1>1, <2>1 DEF KeyOK, ClaimOK, PendingOK, Occupied, Working, Ids
<1> QED BY <1>2, <1>3, <1>4, Kept

-----------------------------------------------------------------------------
(* Theorems. *)

LEMMA CacheInit == Init => CacheIInv
<1> SUFFICES ASSUME Init PROVE CacheIInv
  OBVIOUS
<1>1. Empty \in Entry /\ Ids = {} /\ Empty.is = "empty"
  BY CacheAssumption DEF Init, Empty, Entry, Ids
<1>2. Types
  BY <1>1, CacheAssumption DEF Init, Types
<1>3. LeashOK
  BY <1>1, CacheAssumption, KeysApart DEF Init, LeashOK, OnLeash, Occupied
<1>4. \A k \in Keys : KeyOK(k)
  BY <1>1 DEF Init, KeyOK, ClaimOK, PendingOK, Occupied
<1> QED BY <1>1, <1>2, <1>3, <1>4 DEF CacheIInv, AbortIsPrivate

LEMMA CacheNext == CacheIInv /\ [Next]_vars => CacheIInv'
<1> SUFFICES ASSUME CacheIInv, [Next]_vars PROVE CacheIInv'
  OBVIOUS
<1>1. CASE NewJob
  BY <1>1, NewJobKeeps
<1>2. CASE Begin
  <2>1. PICK q \in Requests : Refused(q) \/ Hit(q) \/ Join(q) \/ Miss(q)
    BY <1>2 DEF Begin
  <2>2. PICK n : n = Fresh /\ n <= MaxLoads
    BY <1>2 DEF Begin
  <2> QED BY <2>1, <2>2, RefusedKeeps, HitKeeps, JoinKeeps, MissKeeps
<1>3. CASE WorkerBreaks
  BY <1>3, BreakKeeps
<1>4. CASE \E u \in Urls : FetchArrives(u) \/ FetchFails(u)
  BY <1>4, FetchKeeps
<1>5. CASE \E l \in Ids : \/ Ask(l) \/ WorkerAnswers(l) \/ WorkerRefuses(l) \/ AskBytes(l)
                          \/ Finish(l) \/ Fail(l) \/ Resume(l) \/ Abort(l)
  BY <1>5, AskKeeps, WorkerKeeps, AskBytesKeeps, FinishKeeps, FailKeeps, ResumeKeeps, AbortKeeps
<1>6. CASE UNCHANGED vars
  <2>1. UNCHANGED <<scope, recorded, cache, leash, loads, requests, faults>>
    BY <1>6 DEF vars
  <2> QED BY <2>1 DEF CacheIInv, Types, Ids, LeashOK, OnLeash, Occupied, AbortIsPrivate, LoadOK,
    AskingOK, JoinedOK, Claims, BytesOK, HoldsOK, Holds, Working, KeyOK, ClaimOK, PendingOK
<1> QED BY <1>1, <1>2, <1>3, <1>4, <1>5, <1>6 DEF Next

\* The inductive invariant: what a waiting load relies on is there, what a key
\* holds was loaded for the source it is claimed for, the leash is the cache's.
THEOREM CacheInvariant == Spec => []CacheIInv
BY CacheInit, CacheNext, PTL DEF Spec

\* The state keeps its types for any number of loads, and a promise in a typed
\* cache is one that a live load will settle.
THEOREM CacheTyped == Spec => []CacheTypeOK
<1>1. CacheIInv => CacheTypeOK
  <2> SUFFICES ASSUME CacheIInv PROVE CacheTypeOK
    OBVIOUS
  <2>1. \A k \in Typed : KeyOK(k)
    BY KeysApart DEF CacheIInv
  <2>2. \A k \in Typed : cache[k].is = "pending" =>
          /\ cache[k].by \in Ids
          /\ loads[cache[k].by].at \notin Settled
    BY <2>1 DEF KeyOK, PendingOK, Working, Busy, Settled
  <2> QED BY <2>2 DEF CacheIInv, Types, CacheTypeOK, Entry
<1> QED BY <1>1, CacheInvariant, PTL

\* One consumer's abort fails nobody else's load.
THEOREM AbortsPrivate == Spec => []AbortIsPrivate
<1>1. CacheIInv => AbortIsPrivate
  BY DEF CacheIInv
<1> QED BY <1>1, CacheInvariant, PTL

\* The leash holds each finer level of the cache once, within the limit.
THEOREM LeashBounded == Spec => []LeashHolds
<1>1. CacheIInv => LeashHolds
  <2> SUFFICES ASSUME CacheIInv PROVE LeashHolds
    OBVIOUS
  <2>1. leash \in Seq(LodKeys) /\ Len(leash) \in Nat /\ DOMAIN leash = 1..Len(leash)
    BY DEF CacheIInv, Types
  <2>2. \A i, j \in 1..Len(leash) : leash[i] = leash[j] => i = j
    BY <2>1 DEF CacheIInv, LeashOK
  <2>3. leash \in Bijection(1..Len(leash), OnLeash)
    <3>1. leash \in [1..Len(leash) -> OnLeash]
      BY <2>1 DEF OnLeash
    <3>2. \A k \in OnLeash : \E i \in 1..Len(leash) : leash[i] = k
      BY <2>1 DEF OnLeash
    <3> QED BY <2>2, <3>1, <3>2 DEF Bijection, Injection, Surjection, IsInjective
  <2>4. IsFiniteSet(1..Len(leash)) /\ Cardinality(1..Len(leash)) = Len(leash)
    BY <2>1, FS_Interval
  <2>5. Cardinality(OnLeash) = Len(leash)
    BY <2>3, <2>4, FS_Bijection DEF ExistsBijection
  <2>6. \A k \in LodKeys : Occupied(k) <=> cache[k].is # "empty"
    BY DEF Occupied
  <2> QED BY <2>5, <2>6 DEF LeashHolds, CacheIInv, LeashOK
<1> QED BY <1>1, CacheInvariant, PTL

\* No load is answered with what was loaded for another source.
THEOREM NoForeign == Spec => []NoForeignAnswer
<1>1. CacheIInv => NoForeignAnswer
  BY DEF CacheIInv, LoadOK, AskingOK, NoForeignAnswer
<1> QED BY <1>1, CacheInvariant, PTL
=============================================================================
