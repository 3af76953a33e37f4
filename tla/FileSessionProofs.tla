--------------------------- MODULE FileSessionProofs ---------------------------
(***************************************************************************)
(* Theorems about FileSession, for any number of files, versions, edits    *)
(* and events.                                                             *)
(***************************************************************************)
EXTENDS FileSession, TLAPS

\* The state's shape, the values that were given aside.
Entry == [file : Files, live : BOOLEAN]
CatalogOK ==
  /\ exists \subseteq Files /\ version \in [Files -> 1..MaxVersion]
  /\ url \in Files \cup {None} /\ sel \in exists \cup {None}
  /\ shown \in BOOLEAN /\ owner \in Seq(Files) /\ Len(owner) <= MaxEdits
  /\ events \in 0..MaxEvents
LoadsOK ==
  /\ ready \in BOOLEAN /\ playing \in BOOLEAN
  /\ loads \subseteq Entry
  /\ \A r \in loads : r.live => r.file = sel /\ ~ ready
  /\ playing => sel # None

\* An edit that was made, to that file; a tab whose own state and camera are
\* that file's.
Given(f, e) == e \in 0..Len(owner) /\ Of(f, e)
TabNat == [own : Nat, tool : Nat, camera : Nat]
GivenTab(f, t) ==
  t \in TabNat /\ Given(f, t.own) /\ Given(f, t.camera) /\ t.tool \in 0..Len(owner)
Slices == [sig : Int, tab : TabNat, motion : Nat]
Mine(f, s) == s.sig \in -1..MaxVersion /\ GivenTab(f, s.tab) /\ Given(f, s.motion)

ValuesOK ==
  /\ IF sel = None THEN tab = Fresh /\ motion = 0 ELSE GivenTab(sel, tab) /\ Given(sel, motion)
  /\ open \in [DOMAIN open -> TabNat] /\ DOMAIN open \subseteq exists
  /\ \A f \in DOMAIN open : GivenTab(f, open[f])
  /\ stored \in [Files -> Slices]
  /\ \A f \in Files : Mine(f, stored[f])

\* The history's account of the tabs, cameras aside.
TabsOK ==
  /\ lastTab \in [Files -> Tab \cup {Unknown}]
  /\ \A f \in Files : IF f \in DOMAIN open
                      THEN lastTab[f] \in Tab /\ SameButCamera(lastTab[f], open[f])
                      ELSE lastTab[f] = Unknown
  /\ sel # None => sel \in DOMAIN open /\ SameButCamera(open[sel], tab)

MotionsOK == lastMotion \in [Files -> Edits]

\* What an armed timer is to write was of its file, and that is the selected
\* one as long as there is one.
TimerOK ==
  timer # Off =>
    /\ timer \in [file : Files, seen : Slices] /\ Mine(timer.file, timer.seen)
    /\ sel # None => timer.file = sel

SessionIInv ==
  CatalogOK /\ LoadsOK /\ ValuesOK /\ TabsOK /\ MotionsOK /\ UrlIsSelection /\ TimerOK

-----------------------------------------------------------------------------
(* What the shared parts of the actions do. *)

\* The same after the step.
GivenNext(f, e) == e \in 0..Len(owner') /\ (e = 0 \/ owner'[e] = f)
GivenTabNext(f, t) ==
  t \in TabNat /\ GivenNext(f, t.own) /\ GivenNext(f, t.camera) /\ t.tool \in 0..Len(owner')
MineNext(f, s) ==
  s.sig \in -1..MaxVersion /\ GivenTabNext(f, s.tab) /\ GivenNext(f, s.motion)
Grows == owner' = owner \/ (owner' = Append(owner, sel) /\ sel \in Files)

LEMMA GivenKept ==
  ASSUME CatalogOK, Grows, NEW f, NEW e, Given(f, e)
  PROVE  GivenNext(f, e)
<1>1. owner \in Seq(Files) /\ Len(owner) \in Nat
  BY DEF CatalogOK
<1>2. e \in 0..Len(owner) /\ (e = 0 \/ owner[e] = f)
  BY DEF Given, Of
<1>3. CASE owner' = owner
  BY <1>2, <1>3 DEF GivenNext
<1>4. CASE owner' = Append(owner, sel) /\ sel \in Files
  <2>1. Len(owner') = Len(owner) + 1 /\ \A i \in 1..Len(owner) : owner'[i] = owner[i]
    BY <1>1, <1>4
  <2>2. QED
    BY <1>1, <1>2, <2>1 DEF GivenNext
<1>5. QED
  BY <1>3, <1>4 DEF Grows

LEMMA TabKept ==
  ASSUME CatalogOK, Grows, NEW f, NEW t, GivenTab(f, t)
  PROVE  GivenTabNext(f, t)
<1>1. owner \in Seq(Files) /\ Len(owner) \in Nat
  BY DEF CatalogOK
<1>2. Len(owner') \in Nat /\ Len(owner') >= Len(owner)
  BY <1>1 DEF Grows
<1>3. t \in TabNat /\ Given(f, t.own) /\ Given(f, t.camera) /\ t.tool \in 0..Len(owner)
  BY DEF GivenTab
<1>4. GivenNext(f, t.own) /\ GivenNext(f, t.camera)
  BY <1>3, GivenKept
<1>5. t.tool \in 0..Len(owner')
  BY <1>1, <1>2, <1>3
<1>6. QED
  BY <1>3, <1>4, <1>5 DEF GivenTabNext

LEMMA MineKept ==
  ASSUME CatalogOK, Grows, NEW f, NEW s, Mine(f, s)
  PROVE  MineNext(f, s)
  BY GivenKept, TabKept DEF Mine, MineNext

LEMMA ValuesNext ==
  ASSUME IF sel' = None THEN tab' = Fresh /\ motion' = 0
         ELSE GivenTabNext(sel', tab') /\ GivenNext(sel', motion'),
         open' \in [DOMAIN open' -> TabNat], DOMAIN open' \subseteq exists',
         \A f \in DOMAIN open' : GivenTabNext(f, open'[f]),
         stored' \in [Files -> Slices],
         \A f \in Files : MineNext(f, stored'[f])
  PROVE  ValuesOK'
  BY Zenon DEF ValuesOK, GivenNext, Given, Of, GivenTabNext, GivenTab, MineNext, Mine

LEMMA ZeroGiven == ASSUME CatalogOK, NEW f PROVE Given(f, 0)
  BY DEF CatalogOK, Given, Of

LEMMA FreshGiven == ASSUME CatalogOK, NEW f PROVE GivenTab(f, Fresh)
<1>1. Len(owner) \in Nat
  BY DEF CatalogOK
<1>2. QED
  BY <1>1, ZeroGiven DEF Fresh, GivenTab, TabNat

LEMMA NothingMine == ASSUME CatalogOK, NEW f PROVE Nothing \in Slices /\ Mine(f, Nothing)
<1>1. GivenTab(f, Fresh) /\ Given(f, 0)
  BY FreshGiven, ZeroGiven
<1>2. Fresh \in TabNat
  BY DEF Fresh, TabNat
<1>3. QED
  BY <1>1, <1>2, SessionAssumption DEF Nothing, Mine, Slices

\* The snapshot of the selected file is its own.
LEMMA SnapshotMine ==
  ASSUME CatalogOK, ValuesOK, sel # None
  PROVE  Snapshot \in Slices /\ Mine(sel, Snapshot)
<1>1. GivenTab(sel, tab) /\ Given(sel, motion)
  BY DEF ValuesOK
<1>2. tab \in TabNat /\ motion \in Nat
  BY <1>1 DEF Given, GivenTab
<1>3. Signature \in -1..MaxVersion
  BY SessionAssumption DEF Signature, CatalogOK
<1>4. QED
  BY <1>1, <1>2, <1>3 DEF Snapshot, Mine, Slices

LEMMA FlushedMine ==
  ASSUME CatalogOK, ValuesOK
  PROVE  Flushed \in [Files -> Slices] /\ \A f \in Files : Mine(f, Flushed[f])
<1>1. CASE sel = None
  BY <1>1 DEF Flushed, ValuesOK
<1>2. CASE sel # None
  <2>1. sel \in Files /\ Flushed = [stored EXCEPT ![sel] = Snapshot]
    BY <1>2 DEF Flushed, CatalogOK
  <2>2. stored \in [Files -> Slices] /\ \A f \in Files : Mine(f, stored[f])
    BY DEF ValuesOK
  <2>3. QED
    BY <1>2, <2>1, <2>2, SnapshotMine
<1>3. QED
  BY <1>1, <1>2

LEMMA PrunedMine ==
  ASSUME CatalogOK, ValuesOK, NEW listed
  PROVE  /\ Pruned(stored, listed) \in [Files -> Slices]
         /\ \A f \in Files : Mine(f, Pruned(stored, listed)[f])
<1>1. stored \in [Files -> Slices] /\ \A f \in Files : Mine(f, stored[f])
  BY DEF ValuesOK
<1>2. QED
  BY <1>1, NothingMine DEF Pruned

\* The tool of the file that is left may be another file's; nothing else is.
LEMMA OpenedGiven ==
  ASSUME CatalogOK, ValuesOK, NEW f \in Files
  PROVE  GivenTab(f, Opened(f))
<1>1. CASE f \in DOMAIN open
  BY <1>1 DEF Opened, ValuesOK
<1>2. CASE f \notin DOMAIN open /\ Stored(f)
  <2>1. Mine(f, stored[f])
    BY DEF ValuesOK
  <2>2. QED
    BY <1>2, <2>1 DEF Opened, Mine
<1>3. CASE f \notin DOMAIN open /\ ~ Stored(f)
  <2>1. tab.tool \in 0..Len(owner) /\ Len(owner) \in Nat
    <3>1. Len(owner) \in Nat
      BY DEF CatalogOK
    <3>2. CASE sel = None
      BY <3>1, <3>2 DEF ValuesOK, Fresh
    <3>3. CASE sel # None
      BY <3>1, <3>3 DEF ValuesOK, GivenTab
    <3>4. QED
      BY <3>1, <3>2, <3>3
  <2>2. New = [own |-> 0, tool |-> tab.tool, camera |-> 0]
    BY DEF New, Fresh
  <2>3. New \in TabNat
    BY <2>1, <2>2 DEF TabNat
  <2>4. GivenTab(f, New)
    BY <2>1, <2>2, <2>3, ZeroGiven DEF GivenTab
  <2>5. QED
    BY <1>3, <2>4 DEF Opened
<1>4. QED
  BY <1>1, <1>2, <1>3

LEMMA GivenIsTab ==
  ASSUME CatalogOK, NEW f, NEW t, GivenTab(f, t)
  PROVE  t \in TabNat /\ t \in Tab
<1>1. /\ Len(owner) \in Nat /\ Len(owner) <= MaxEdits /\ MaxEdits \in Nat /\ t \in TabNat
      /\ t.own \in 0..Len(owner) /\ t.tool \in 0..Len(owner) /\ t.camera \in 0..Len(owner)
  BY SessionAssumption DEF CatalogOK, GivenTab, Given
<1>2. t.own \in Edits /\ t.tool \in Edits /\ t.camera \in Edits
  BY <1>1 DEF Edits
<1>3. QED
  BY <1>1, <1>2 DEF TabNat, Tab

LEMMA NotUnknown == Unknown \notin Tab
  BY SessionAssumption DEF Unknown, Tab, Edits

\* The page as it is filed in its open tab.
LEMMA FiledGiven ==
  ASSUME CatalogOK, ValuesOK, TabsOK, NEW F \in {open, Filed}
  PROVE  /\ F \in [DOMAIN open -> TabNat]
         /\ \A g \in DOMAIN open : GivenTab(g, F[g]) /\ SameButCamera(lastTab[g], F[g])
         /\ sel # None => SameButCamera(F[sel], tab)
<1>1. /\ open \in [DOMAIN open -> TabNat] /\ DOMAIN open \subseteq Files
      /\ \A g \in DOMAIN open : GivenTab(g, open[g]) /\ SameButCamera(lastTab[g], open[g])
  BY DEF CatalogOK, ValuesOK, TabsOK
<1>2. sel # None => sel \in DOMAIN open /\ SameButCamera(open[sel], tab)
  BY DEF TabsOK
<1>3. CASE F = open
  BY <1>1, <1>2, <1>3
<1>4. CASE F = Filed /\ sel = None
  BY <1>1, <1>2, <1>4 DEF Filed
<1>5. CASE F = Filed /\ sel # None
  <2>1. F = [open EXCEPT ![sel] = tab] /\ GivenTab(sel, tab) /\ tab \in TabNat
    BY <1>5 DEF Filed, ValuesOK, GivenTab
  <2>2. SameButCamera(lastTab[sel], tab)
    BY <1>1, <1>2, <1>5 DEF SameButCamera
  <2>3. F[sel] = tab /\ \A g \in DOMAIN open : g # sel => F[g] = open[g]
    BY <1>1, <1>2, <1>5, <2>1
  <2>4. QED
    BY <1>1, <1>2, <1>5, <2>1, <2>2, <2>3 DEF SameButCamera
<1>6. QED
  BY <1>3, <1>4, <1>5

LEMMA MotionLoaded ==
  ASSUME LoadsOK, NEW f \in Files \cup {None}, LoadMotion(f), sel' = f
  PROVE  LoadsOK' /\ motion' = 0
<1>1. loads' \subseteq Entry /\ \A r \in loads' : r.live => r.file = f
  <2>1. \A r \in Cancels : r \in Entry /\ ~ r.live
    BY DEF Cancels, LoadsOK, Entry
  <2>2. \A g \in {f} \ {None} : LET r == [file |-> g, live |-> TRUE]
                              IN  r \in Entry /\ r.file = f
    BY DEF Entry
  <2>3. QED
    BY <2>1, <2>2 DEF LoadMotion
<1>2. QED
  BY <1>1 DEF LoadMotion, LoadsOK

\* The timer is armed with a snapshot of the selected file, is off, or stays
\* as it was while the selection stays or is cleared.
TimerMoves ==
  \/ timer' = Off
  \/ sel' # None /\ timer' = Armed'
  \/ timer' = timer /\ (sel' = sel \/ sel' = None)

LEMMA LoadMoves ==
  ASSUME NEW f, LoadMotion(f), sel' = f
  PROVE  TimerMoves
  BY DEF LoadMotion, TimerMoves

LEMMA TimerNext ==
  ASSUME CatalogOK, TimerOK, Grows, CatalogOK', ValuesOK', TimerMoves
  PROVE  TimerOK'
<1>1. CASE timer' = Off
  BY <1>1 DEF TimerOK, Off, Nothing, Fresh
<1>2. CASE sel' # None /\ timer' = Armed'
  <2>1. GivenTab(sel, tab)' /\ Given(sel, motion)'
    BY <1>2 DEF ValuesOK
  <2>2. tab' \in TabNat /\ motion' \in Nat
    BY <2>1 DEF Given, GivenTab
  <2>3. Signature' \in -1..MaxVersion /\ sel' \in Files
    BY <1>2, SessionAssumption DEF Signature, CatalogOK
  <2> DEFINE s == [sig |-> Signature', tab |-> [tab' EXCEPT !.camera = 0], motion |-> motion']
  <2>4. timer' = [file |-> sel', seen |-> s]
    BY <1>2 DEF Armed, Snapshot
  <2>5. GivenTabNext(sel', [tab' EXCEPT !.camera = 0])
    <3> DEFINE t == [tab' EXCEPT !.camera = 0]
    <3>1. t \in TabNat /\ t.own = tab'.own /\ t.tool = tab'.tool /\ t.camera = 0
      BY <2>2 DEF TabNat
    <3>2. Len(owner') \in Nat
      BY DEF CatalogOK
    <3>3. GivenNext(sel', tab'.own) /\ tab'.tool \in 0..Len(owner')
      BY <2>1 DEF GivenTab, Given, Of, GivenNext
    <3> HIDE DEF t
    <3>4. GivenTabNext(sel', t)
      BY <3>1, <3>2, <3>3 DEF GivenTabNext, GivenNext
    <3>5. QED
      BY <3>4 DEF t
  <2>6. [tab' EXCEPT !.camera = 0] \in TabNat /\ GivenNext(sel', motion')
    BY <2>1, <2>5 DEF GivenTabNext, Given, Of, GivenNext
  <2>7. s \in Slices /\ MineNext(sel', s)
    BY <2>2, <2>3, <2>5, <2>6 DEF Slices, MineNext
  <2> HIDE DEF s
  <2>8. timer'.file = sel' /\ timer'.seen = s /\ timer' \in [file : Files, seen : Slices]
    BY <2>3, <2>4, <2>7
  <2>9. Mine(timer.file, timer.seen)'
    BY <2>7, <2>8 DEF Mine, GivenTab, Given, Of, MineNext, GivenTabNext, GivenNext
  <2>10. QED
    BY <2>8, <2>9 DEF TimerOK
<1>3. CASE timer' = timer /\ timer # Off /\ (sel' = sel \/ sel' = None)
  <2>1. /\ timer \in [file : Files, seen : Slices] /\ Mine(timer.file, timer.seen)
        /\ sel # None => timer.file = sel
    BY <1>3 DEF TimerOK
  <2>2. MineNext(timer.file, timer.seen)
    BY <2>1, MineKept
  <2>3. Mine(timer.file, timer.seen)'
    BY <1>3, <2>2 DEF MineNext, Mine, GivenTabNext, GivenTab, GivenNext, Given, Of
  <2>4. QED
    BY <1>3, <2>1, <2>3 DEF TimerOK
<1>4. QED
  BY <1>1, <1>2, <1>3 DEF TimerMoves, Off, Nothing, Fresh

\* A file that is opened shows its own tab, the last one.
LEMMA Activated ==
  ASSUME CatalogOK, LoadsOK, ValuesOK, TabsOK,
         NEW f \in Files, f \in exists', f # sel, exists \subseteq exists', Activate(f), owner' = owner,
         stored' \in [Files -> Slices], \A g \in Files : Mine(g, stored'[g])
  PROVE  LoadsOK' /\ ValuesOK' /\ TabsOK' /\ TimerMoves
<1>1. /\ sel' = f /\ tab' = Opened(f) /\ LoadMotion(f)
      /\ open' = [g \in DOMAIN open \cup {f} \cup ({sel} \ {None}) |->
                    IF g = sel THEN tab ELSE IF g = f THEN Opened(f) ELSE open[g]]
      /\ lastTab' = Known(f, Opened(f))
  BY DEF Activate
<1>2. LoadsOK' /\ motion' = 0 /\ TimerMoves
  BY <1>1, MotionLoaded, LoadMoves
<1>3. f # None /\ Grows
  BY SessionAssumption DEF Grows
<1>4. DOMAIN open' = DOMAIN open \cup {f} /\ (sel # None => sel \in DOMAIN open)
  BY <1>1 DEF TabsOK
<1>5. DOMAIN open \subseteq Files /\ sel \in Files \cup {None}
  BY DEF CatalogOK, ValuesOK
<1>6. /\ \A g \in DOMAIN open : GivenTab(g, Filed[g]) /\ SameButCamera(lastTab[g], Filed[g])
      /\ \A g \in DOMAIN open : lastTab[g] \in Tab
      /\ \A g \in Files : g \notin DOMAIN open => lastTab[g] = Unknown
  BY <1>5, FiledGiven DEF TabsOK
<1>7. Filed[f] = open[f] \/ f \notin DOMAIN open
  <2>1. open \in [DOMAIN open -> TabNat]
    BY DEF ValuesOK
  <2>2. QED
    BY <1>4, <2>1 DEF Filed
<1>8. GivenTab(f, Opened(f)) /\ Opened(f) \in Tab /\ Opened(f) \in TabNat
  BY OpenedGiven, GivenIsTab
<1>9. /\ \A g \in DOMAIN open : g # f => open'[g] = Filed[g]
      /\ open'[f] = Opened(f)
  <2>1. \A g \in DOMAIN open : Filed[g] = IF g = sel THEN tab ELSE open[g]
    <3>1. open \in [DOMAIN open -> TabNat]
      BY DEF ValuesOK
    <3>2. QED
      BY <1>4, <1>5, <3>1, SessionAssumption DEF Filed
  <2>2. QED
    BY <1>1, <1>4, <2>1
<1>10. \A g \in DOMAIN open' : GivenTab(g, open'[g])
  BY <1>4, <1>6, <1>8, <1>9
<1>11. ValuesOK'
  <2>1. \A g \in DOMAIN open' : open'[g] \in TabNat
    BY <1>10 DEF GivenTab
  <2>2. open' \in [DOMAIN open' -> TabNat] /\ DOMAIN open' \subseteq exists'
    BY <1>1, <1>4, <2>1 DEF ValuesOK
  <2>3. \A g \in DOMAIN open' : GivenTabNext(g, open'[g])
    BY <1>3, <1>10, TabKept
  <2>4. \A g \in Files : MineNext(g, stored'[g])
    BY <1>3, MineKept
  <2>5. GivenTabNext(f, tab') /\ GivenNext(f, motion')
    <3>1. Given(f, 0)
      BY ZeroGiven
    <3>2. QED
      BY <1>1, <1>2, <1>3, <1>8, <3>1, GivenKept, TabKept
  <2>6. QED
    BY <1>1, <1>3, <2>2, <2>3, <2>4, <2>5, ValuesNext
<1>12. TabsOK'
  <2>1. lastTab \in [Files -> Tab \cup {Unknown}]
    BY DEF TabsOK
  <2>2. lastTab' = IF f \in DOMAIN open THEN lastTab ELSE [lastTab EXCEPT ![f] = Opened(f)]
    BY <1>1, <1>6, NotUnknown DEF Known
  <2>3. f \in DOMAIN open => SameButCamera(lastTab[f], Opened(f))
    BY <1>6, <1>7 DEF Opened
  <2>4. \A g \in Files : IF g \in DOMAIN open'
                        THEN lastTab'[g] \in Tab /\ SameButCamera(lastTab'[g], open'[g])
                        ELSE lastTab'[g] = Unknown
    <3>1. SameButCamera(Opened(f), Opened(f))
      BY DEF SameButCamera
    <3>2. QED
      BY <1>4, <1>6, <1>8, <1>9, <2>1, <2>2, <2>3, <3>1
  <2>5. lastTab' \in [Files -> Tab \cup {Unknown}]
    BY <1>8, <2>1, <2>2
  <2>6. sel' \in DOMAIN open' /\ SameButCamera(open'[sel'], tab')
    BY <1>1, <1>4, <1>9 DEF SameButCamera
  <2>7. QED
    BY <2>4, <2>5, <2>6 DEF TabsOK, SameButCamera
<1>13. QED
  BY <1>2, <1>11, <1>12

\* Some of the open tabs are kept as they are filed, the history with them.
Keeps ==
  \E D, F : /\ F \in {open, Filed} /\ D \subseteq DOMAIN open \cap exists'
            /\ open' = [g \in D |-> F[g]]
            /\ lastTab' = [g \in Files |-> IF g \in D THEN lastTab[g] ELSE Unknown]
            /\ sel' # None => sel \in D

LEMMA TabsKept ==
  ASSUME CatalogOK, ValuesOK, TabsOK, Keeps, Grows,
         sel' = None \/ (sel' = sel /\ tab' = tab)
  PROVE  /\ open' \in [DOMAIN open' -> TabNat] /\ DOMAIN open' \subseteq exists'
         /\ \A g \in DOMAIN open' : GivenTabNext(g, open'[g])
         /\ TabsOK'
<1>1. PICK D, F : /\ F \in {open, Filed} /\ D \subseteq DOMAIN open \cap exists'
                  /\ open' = [g \in D |-> F[g]]
                  /\ lastTab' = [g \in Files |-> IF g \in D THEN lastTab[g] ELSE Unknown]
                  /\ sel' # None => sel \in D
  BY DEF Keeps
<1>2. /\ F \in [DOMAIN open -> TabNat]
      /\ \A g \in DOMAIN open : GivenTab(g, F[g]) /\ SameButCamera(lastTab[g], F[g])
      /\ sel # None => SameButCamera(F[sel], tab)
  BY <1>1, FiledGiven
<1>3. \A g \in D : F[g] \in TabNat /\ GivenTabNext(g, F[g])
  BY <1>1, <1>2, TabKept
<1>4. open' \in [DOMAIN open' -> TabNat] /\ DOMAIN open' \subseteq exists'
  BY <1>1, <1>3
<1>5. \A g \in DOMAIN open' : GivenTabNext(g, open'[g])
  BY <1>1, <1>3
<1>6. TabsOK'
  <2>1. \A g \in DOMAIN open : lastTab[g] \in Tab
    BY DEF TabsOK, CatalogOK, ValuesOK
  <2>2. /\ lastTab' \in [Files -> Tab \cup {Unknown}]
        /\ \A g \in Files : IF g \in DOMAIN open'
                            THEN lastTab'[g] \in Tab /\ SameButCamera(lastTab'[g], open'[g])
                            ELSE lastTab'[g] = Unknown
    BY <1>1, <1>2, <2>1
  <2>3. sel' # None => sel' \in DOMAIN open' /\ SameButCamera(open'[sel'], tab')
    BY <1>1, <1>2
  <2>4. QED
    BY <2>2, <2>3 DEF TabsOK, SameButCamera
<1>7. QED
  BY <1>4, <1>5, <1>6

\* The selection is cleared: what is left behind stays in its tab.
LEMMA Cleared ==
  ASSUME CatalogOK, LoadsOK, ValuesOK, TabsOK, sel' = None, tab' = Fresh, LoadMotion(None),
         owner' = owner, stored' \in [Files -> Slices], \A g \in Files : Mine(g, stored'[g]), Keeps
  PROVE  LoadsOK' /\ ValuesOK' /\ TabsOK' /\ TimerMoves
<1>1. LoadsOK' /\ motion' = 0 /\ TimerMoves /\ Grows
  BY MotionLoaded, LoadMoves DEF Grows
<1>2. \A g \in Files : MineNext(g, stored'[g])
  BY <1>1, MineKept
<1>3. /\ open' \in [DOMAIN open' -> TabNat] /\ DOMAIN open' \subseteq exists'
      /\ \A g \in DOMAIN open' : GivenTabNext(g, open'[g])
      /\ TabsOK'
  BY <1>1, TabsKept
<1>4. ValuesOK'
  BY <1>1, <1>2, <1>3, ValuesNext
<1>5. QED
  BY <1>1, <1>3, <1>4

\* The selection stays, its motion is perhaps loaded again; nothing is edited.
LEMMA Stays ==
  ASSUME CatalogOK, ValuesOK, TabsOK, sel' = sel, tab' = tab,
         motion' = motion \/ motion' = 0 \/ (sel # None /\ motion' = Read(sel).motion),
         owner' = owner, stored' \in [Files -> Slices], \A g \in Files : Mine(g, stored'[g]), Keeps
  PROVE  ValuesOK' /\ TabsOK'
<1>1. Grows /\ (sel # None => sel \in Files)
  BY DEF CatalogOK, Grows
<1>2. sel # None => GivenTabNext(sel, tab) /\ GivenNext(sel, motion')
  <2>1. sel # None => GivenTab(sel, tab) /\ Given(sel, motion) /\ Given(sel, 0)
    BY ZeroGiven DEF ValuesOK
  <2>2. sel # None => Mine(sel, stored[sel]) /\ Mine(sel, Nothing)
    BY <1>1, NothingMine DEF ValuesOK
  <2>3. sel # None => Given(sel, Read(sel).motion)
    BY <2>2 DEF Read, Mine
  <2>4. sel # None => Given(sel, motion')
    BY <2>1, <2>3
  <2>5. QED
    BY <1>1, <2>1, <2>4, GivenKept, TabKept
<1>3. sel = None => tab' = Fresh /\ motion' = 0
  <2>1. sel = None => tab = Fresh /\ motion = 0
    BY DEF ValuesOK
  <2>2. QED
    BY <2>1
<1>4. \A g \in Files : MineNext(g, stored'[g])
  BY <1>1, MineKept
<1>5. /\ open' \in [DOMAIN open' -> TabNat] /\ DOMAIN open' \subseteq exists'
      /\ \A g \in DOMAIN open' : GivenTabNext(g, open'[g])
      /\ TabsOK'
  BY <1>1, TabsKept
<1>6. ValuesOK'
  BY <1>2, <1>3, <1>4, <1>5, ValuesNext
<1>7. QED
  BY <1>5, <1>6

LEMMA SameTabs ==
  ASSUME CatalogOK, ValuesOK, TabsOK, DOMAIN open \subseteq exists', open' = open \/ open' = Filed,
         lastTab' = lastTab, sel' = None \/ sel' = sel
  PROVE  Keeps
<1>1. PICK F \in {open, Filed} : open' = F
  OBVIOUS
<1>2. F = [g \in DOMAIN open |-> F[g]]
  BY <1>1, FiledGiven
<1>3. /\ lastTab \in [Files -> Tab \cup {Unknown}]
      /\ \A g \in Files : lastTab[g] = IF g \in DOMAIN open THEN lastTab[g] ELSE Unknown
  BY DEF TabsOK
<1>4. lastTab = [g \in Files |-> IF g \in DOMAIN open THEN lastTab[g] ELSE Unknown]
  BY <1>3
<1>5. sel' # None => sel \in DOMAIN open
  BY DEF TabsOK
<1>6. QED
  BY <1>1, <1>2, <1>4, <1>5 DEF Keeps

\* Every file whose tab is open is kept: the catalogue grows or stays.
LEMMA StaysWhole ==
  ASSUME CatalogOK, ValuesOK, TabsOK, sel' = sel, tab' = tab, open' = open \/ open' = Filed,
         lastTab' = lastTab, exists \subseteq exists',
         motion' = motion \/ motion' = 0 \/ (sel # None /\ motion' = Read(sel).motion),
         owner' = owner, stored' \in [Files -> Slices], \A g \in Files : Mine(g, stored'[g])
  PROVE  ValuesOK' /\ TabsOK'
<1>1. DOMAIN open \subseteq exists'
  BY DEF ValuesOK
<1>2. Keeps
  BY <1>1, SameTabs
<1>3. QED
  BY <1>2, Stays

LEMMA EntryRenewed ==
  ASSUME CatalogOK, LoadsOK, SameEntry, sel' = sel
  PROVE  LoadsOK' /\ (motion' = motion \/ motion' = 0) /\ TimerMoves
<1>1. CASE sel = None
  BY <1>1 DEF SameEntry, LoadsOK, TimerMoves
<1>2. CASE sel # None
  <2>1. sel \in Files \cup {None} /\ LoadMotion(sel)
    BY <1>2 DEF CatalogOK, SameEntry
  <2>2. QED
    BY <2>1, MotionLoaded, LoadMoves
<1>3. QED
  BY <1>1, <1>2

LEMMA Counted == ASSUME CatalogOK, Happens PROVE events' \in 0..MaxEvents
  BY SessionAssumption DEF CatalogOK, Happens

-----------------------------------------------------------------------------
(* The actions. *)

LEMMA SelectStep == ASSUME SessionIInv, NEW f \in Files, Select(f) PROVE SessionIInv'
<1>1. CatalogOK /\ LoadsOK /\ ValuesOK /\ TabsOK /\ MotionsOK /\ TimerOK
  BY DEF SessionIInv
<1>2. /\ f \in exists /\ f # sel /\ url' = f /\ stored' = Flushed /\ Activate(f)
      /\ exists' = exists /\ version' = version /\ owner' = owner /\ lastMotion' = lastMotion
      /\ sel' = f /\ shown' = TRUE /\ events' \in 0..MaxEvents
  BY <1>1, Counted DEF Select, Activate
<1>3. LoadsOK' /\ ValuesOK' /\ TabsOK' /\ TimerMoves
  BY <1>1, <1>2, FlushedMine, Activated
<1>4. CatalogOK' /\ MotionsOK'
  BY <1>1, <1>2 DEF CatalogOK, MotionsOK
<1>5. UrlIsSelection'
  BY <1>2, SessionAssumption DEF UrlIsSelection
<1>6. TimerOK'
  BY <1>1, <1>2, <1>3, <1>4, TimerNext DEF Grows
<1>7. QED
  BY <1>3, <1>4, <1>5, <1>6 DEF SessionIInv

LEMMA GoToStep == ASSUME SessionIInv, NEW u \in Files \cup {None}, GoTo(u) PROVE SessionIInv'
<1>1. CatalogOK /\ LoadsOK /\ ValuesOK /\ TabsOK /\ MotionsOK /\ UrlIsSelection /\ TimerOK
  BY DEF SessionIInv
<1>2. /\ u # url /\ url' = u /\ exists' = exists /\ version' = version /\ owner' = owner
      /\ lastMotion' = lastMotion /\ events' \in 0..MaxEvents
  BY <1>1, Counted DEF GoTo
<1>3. CASE u \in exists /\ stored' = Flushed /\ Activate(u)
  <2>1. sel' = u /\ shown' = TRUE /\ u \in Files
    BY <1>1, <1>3 DEF Activate, CatalogOK
  <2>2. u # sel
    BY <1>1, <1>2, <2>1, SessionAssumption DEF UrlIsSelection
  <2>3. LoadsOK' /\ ValuesOK' /\ TabsOK' /\ TimerMoves
    BY <1>1, <1>2, <1>3, <2>1, <2>2, FlushedMine, Activated
  <2>4. CatalogOK' /\ MotionsOK' /\ UrlIsSelection'
    BY <1>1, <1>2, <1>3, <2>1, SessionAssumption DEF CatalogOK, MotionsOK, UrlIsSelection
  <2>5. TimerOK'
    BY <1>1, <1>2, <2>3, <2>4, TimerNext DEF Grows
  <2>6. QED
    BY <2>3, <2>4, <2>5 DEF SessionIInv
<1>4. CASE u \notin exists /\ Reset /\ UNCHANGED <<open, stored>>
  <2>1. /\ sel' = None /\ shown' = TRUE /\ tab' = Fresh /\ LoadMotion(None) /\ lastTab' = lastTab
        /\ open' = open /\ stored' = stored
    BY <1>4 DEF Reset
  <2>2. stored' \in [Files -> Slices] /\ \A g \in Files : Mine(g, stored'[g])
    BY <1>1, <2>1 DEF ValuesOK
  <2>3. DOMAIN open \subseteq exists'
    BY <1>1, <1>2 DEF ValuesOK
  <2>4. LoadsOK' /\ ValuesOK' /\ TabsOK' /\ TimerMoves
    BY <1>1, <1>2, <2>1, <2>2, <2>3, SameTabs, Cleared
  <2>5. CatalogOK' /\ MotionsOK' /\ UrlIsSelection'
    BY <1>1, <1>2, <1>4, <2>1 DEF CatalogOK, MotionsOK, UrlIsSelection
  <2>6. TimerOK'
    BY <1>1, <1>2, <2>4, <2>5, TimerNext DEF Grows
  <2>7. QED
    BY <2>4, <2>5, <2>6 DEF SessionIInv
<1>5. QED
  BY <1>3, <1>4 DEF GoTo

LEMMA TouchStep == ASSUME SessionIInv, NEW f \in Files, Touch(f) PROVE SessionIInv'
<1>1. CatalogOK /\ LoadsOK /\ ValuesOK /\ TabsOK /\ MotionsOK /\ UrlIsSelection /\ TimerOK
  BY DEF SessionIInv
<1>2. /\ exists' = exists /\ url' = url /\ sel' = sel /\ tab' = tab /\ open' = Filed
      /\ owner' = owner /\ shown' = TRUE /\ SameEntry /\ stored' = Pruned(stored, exists)
      /\ version' = [version EXCEPT ![f] = @ + 1] /\ version[f] < MaxVersion
      /\ lastMotion' = [lastMotion EXCEPT ![f] = 0] /\ events' \in 0..MaxEvents
      /\ lastTab' = IF f \in DOMAIN open THEN lastTab ELSE [lastTab EXCEPT ![f] = Unknown]
  BY <1>1, Counted DEF Touch
<1>3. lastTab' = lastTab
  BY <1>1, <1>2 DEF TabsOK
<1>4. LoadsOK' /\ (motion' = motion \/ motion' = 0) /\ TimerMoves
  BY <1>1, <1>2, EntryRenewed
<1>5. ValuesOK' /\ TabsOK'
  BY <1>1, <1>2, <1>3, <1>4, PrunedMine, StaysWhole
<1>6. CatalogOK'
  <2>1. version' \in [Files -> 1..MaxVersion]
    BY <1>1, <1>2, SessionAssumption DEF CatalogOK
  <2>2. QED
    BY <1>1, <1>2, <2>1 DEF CatalogOK
<1>7. MotionsOK' /\ UrlIsSelection'
  BY <1>1, <1>2, SessionAssumption DEF MotionsOK, Edits, UrlIsSelection
<1>8. TimerOK'
  BY <1>1, <1>2, <1>4, <1>5, <1>6, TimerNext DEF Grows
<1>9. QED
  BY <1>4, <1>5, <1>6, <1>7, <1>8 DEF SessionIInv

LEMMA RemoveStep == ASSUME SessionIInv, NEW f \in Files, Remove(f) PROVE SessionIInv'
<1>1. CatalogOK /\ LoadsOK /\ ValuesOK /\ TabsOK /\ MotionsOK /\ UrlIsSelection /\ TimerOK
  BY DEF SessionIInv
<1>2. /\ exists' = exists \ {f} /\ url' = url /\ version' = version /\ owner' = owner
      /\ stored' = Pruned(stored, exists') /\ shown' = TRUE /\ events' \in 0..MaxEvents
      /\ open' = [g \in DOMAIN open \ {f} |-> Filed[g]] /\ f \in exists
      /\ lastTab' = [lastTab EXCEPT ![f] = Unknown] /\ lastMotion' = [lastMotion EXCEPT ![f] = 0]
      /\ IF f = sel THEN sel' = None /\ tab' = Fresh /\ LoadMotion(None)
         ELSE sel' = sel /\ tab' = tab /\ SameEntry
  BY <1>1, Counted DEF Remove
<1>3. stored' \in [Files -> Slices] /\ \A g \in Files : Mine(g, stored'[g])
  BY <1>1, <1>2, PrunedMine
<1>4. Keeps
  <2> DEFINE D == DOMAIN open \ {f}
  <2>1. \A g \in Files : lastTab'[g] = IF g \in D THEN lastTab[g] ELSE Unknown
    BY <1>1, <1>2 DEF TabsOK
  <2>2. lastTab' = [g \in Files |-> lastTab'[g]]
    BY <1>1, <1>2 DEF TabsOK
  <2>3. D \subseteq DOMAIN open \cap exists'
    BY <1>1, <1>2 DEF ValuesOK
  <2>4. sel' # None => sel \in D
    BY <1>1, <1>2 DEF TabsOK
  <2>5. open' = [g \in D |-> Filed[g]]
    BY <1>2
  <2>6. lastTab' = [g \in Files |-> IF g \in D THEN lastTab[g] ELSE Unknown]
    BY <2>1, <2>2
  <2> HIDE DEF D
  <2>7. QED
    BY <2>3, <2>4, <2>5, <2>6 DEF Keeps
<1>5. LoadsOK' /\ ValuesOK' /\ TabsOK' /\ TimerMoves
  <2>1. CASE f = sel
    BY <1>1, <1>2, <1>3, <1>4, <2>1, Cleared
  <2>2. CASE f # sel
    <3>1. LoadsOK' /\ (motion' = motion \/ motion' = 0) /\ TimerMoves
      BY <1>1, <1>2, <2>2, EntryRenewed
    <3>2. QED
      BY <1>1, <1>2, <1>3, <1>4, <2>2, <3>1, Stays
  <2>3. QED
    BY <2>1, <2>2
<1>6. CatalogOK' /\ MotionsOK' /\ UrlIsSelection'
  BY <1>1, <1>2, SessionAssumption DEF CatalogOK, MotionsOK, Edits, UrlIsSelection
<1>7. TimerOK'
  BY <1>1, <1>2, <1>5, <1>6, TimerNext DEF Grows
<1>8. QED
  BY <1>5, <1>6, <1>7 DEF SessionIInv

LEMMA AppearStep == ASSUME SessionIInv, NEW f \in Files, Appear(f) PROVE SessionIInv'
<1>1. CatalogOK /\ LoadsOK /\ ValuesOK /\ TabsOK /\ MotionsOK /\ UrlIsSelection /\ TimerOK
  BY DEF SessionIInv
<1>2. /\ f \notin exists /\ exists' = exists \cup {f} /\ stored' = Pruned(stored, exists')
      /\ url' = url /\ version' = version /\ owner' = owner /\ lastMotion' = lastMotion
      /\ events' \in 0..MaxEvents
      /\ IF f = url THEN Activate(f)
         ELSE /\ shown' = TRUE /\ sel' = sel /\ tab' = tab /\ open' = Filed
              /\ lastTab' = lastTab /\ SameEntry
  BY <1>1, Counted DEF Appear
<1>3. stored' \in [Files -> Slices] /\ \A g \in Files : Mine(g, stored'[g])
  BY <1>1, <1>2, PrunedMine
<1>4. CASE f = url
  <2>1. f # sel /\ sel' = f /\ shown' = TRUE
    BY <1>1, <1>2, <1>4, SessionAssumption DEF CatalogOK, Activate
  <2>2. LoadsOK' /\ ValuesOK' /\ TabsOK' /\ TimerMoves
    BY <1>1, <1>2, <1>3, <1>4, <2>1, Activated
  <2>3. CatalogOK' /\ MotionsOK' /\ UrlIsSelection'
    BY <1>1, <1>2, <1>4, <2>1, SessionAssumption DEF CatalogOK, MotionsOK, UrlIsSelection
  <2>4. TimerOK'
    BY <1>1, <1>2, <2>2, <2>3, TimerNext DEF Grows
  <2>5. QED
    BY <2>2, <2>3, <2>4 DEF SessionIInv
<1>5. CASE f # url
  <2>1. LoadsOK' /\ (motion' = motion \/ motion' = 0) /\ TimerMoves
    BY <1>1, <1>2, <1>5, EntryRenewed
  <2>2. ValuesOK' /\ TabsOK'
    BY <1>1, <1>2, <1>3, <1>5, <2>1, StaysWhole
  <2>3. CatalogOK' /\ MotionsOK' /\ UrlIsSelection'
    BY <1>1, <1>2, <1>5 DEF CatalogOK, MotionsOK, UrlIsSelection
  <2>4. TimerOK'
    BY <1>1, <1>2, <2>1, <2>2, <2>3, TimerNext DEF Grows
  <2>5. QED
    BY <2>1, <2>2, <2>3, <2>4 DEF SessionIInv
<1>6. QED
  BY <1>4, <1>5

LEMMA CompilingStep == ASSUME SessionIInv, Compiling \/ Compiled PROVE SessionIInv'
<1>1. CatalogOK /\ LoadsOK /\ ValuesOK /\ TabsOK /\ MotionsOK /\ UrlIsSelection /\ TimerOK
  BY DEF SessionIInv
<1>2. /\ sel # None /\ sel' = sel /\ tab' = tab /\ open' = Filed /\ url' = url /\ exists' = exists
      /\ owner' = owner /\ stored' = stored /\ lastTab' = lastTab /\ shown' \in BOOLEAN
      /\ LoadMotion(sel) /\ events' \in 0..MaxEvents
  BY <1>1, Counted DEF Compiling, Compiled, history
<1>3. version' \in [Files -> 1..MaxVersion] /\ lastMotion' \in [Files -> Edits]
  <2>1. CASE Compiling
    BY <1>1, <2>1 DEF Compiling, history, CatalogOK, MotionsOK
  <2>2. CASE Compiled
    <3>1. PICK v \in version[sel]..MaxVersion :
            /\ version' = [version EXCEPT ![sel] = v]
            /\ lastMotion' = IF v = version[sel] THEN lastMotion ELSE [lastMotion EXCEPT ![sel] = 0]
      BY <2>2 DEF Compiled
    <3>2. v \in 1..MaxVersion /\ 0 \in Edits
      BY <1>1, <1>2, SessionAssumption DEF CatalogOK, Edits
    <3>3. QED
      BY <1>1, <3>1, <3>2 DEF CatalogOK, MotionsOK
  <2>3. QED
    BY <2>1, <2>2
<1>4. LoadsOK' /\ motion' = 0 /\ TimerMoves
  BY <1>1, <1>2, MotionLoaded, LoadMoves DEF CatalogOK
<1>5. stored' \in [Files -> Slices] /\ \A g \in Files : Mine(g, stored'[g])
  BY <1>1, <1>2 DEF ValuesOK
<1>6. ValuesOK' /\ TabsOK'
  BY <1>1, <1>2, <1>4, <1>5, StaysWhole
<1>7. CatalogOK' /\ MotionsOK' /\ UrlIsSelection'
  BY <1>1, <1>2, <1>3 DEF CatalogOK, MotionsOK, UrlIsSelection
<1>8. TimerOK'
  BY <1>1, <1>2, <1>4, <1>6, <1>7, TimerNext DEF Grows
<1>9. QED
  BY <1>4, <1>6, <1>7, <1>8 DEF SessionIInv

\* Two loads of one file that were not cancelled are the same load, so the one
\* that ends leaves only cancelled ones.
LEMMA SidecarStep ==
  ASSUME SessionIInv, NEW r \in loads, SidecarArrives(r) \/ SidecarFails(r)
  PROVE  SessionIInv'
<1>1. CatalogOK /\ LoadsOK /\ ValuesOK /\ TabsOK /\ MotionsOK /\ UrlIsSelection /\ TimerOK
  BY DEF SessionIInv
<1>2. /\ sel' = sel /\ tab' = tab /\ url' = url /\ exists' = exists /\ shown' = shown
      /\ version' = version /\ owner' = owner /\ stored' = stored /\ lastTab' = lastTab
      /\ lastMotion' = lastMotion /\ playing' = playing /\ events' \in 0..MaxEvents
      /\ loads' = loads \ {r} /\ (open' = open \/ open' = Filed)
      /\ timer' = timer \/ timer' = Armed'
  <2>1. CASE SidecarArrives(r)
    BY <1>1, <2>1 DEF SidecarArrives, history, CatalogOK, Rearm
  <2>2. CASE SidecarFails(r)
    BY <1>1, <2>2, Counted DEF SidecarFails, history, Rearm
  <2>3. QED
    BY <2>1, <2>2
<1>3. /\ LoadsOK' /\ TimerMoves
      /\ motion' = motion \/ motion' = 0 \/ (sel # None /\ motion' = Read(sel).motion)
  <2>1. CASE r.live = TRUE
    <3>1. r \in Entry /\ r.file = sel /\ sel # None
      BY <1>1, <2>1, SessionAssumption DEF LoadsOK, Entry
    <3>2. ready' \in BOOLEAN /\ (motion' = 0 \/ motion' = Read(sel).motion)
      BY <2>1, <3>1 DEF SidecarArrives, SidecarFails
    <3>3. \A q \in loads' : ~ q.live
      <4>1. SUFFICES ASSUME NEW q \in loads, q.live PROVE q = r
        BY <1>2
      <4>2. q \in Entry /\ q.file = r.file /\ q.live = TRUE
        BY <1>1, <3>1, <4>1 DEF LoadsOK, Entry
      <4>3. QED
        BY <2>1, <3>1, <4>2 DEF Entry
    <3>4. LoadsOK'
      BY <1>1, <1>2, <3>1, <3>2, <3>3 DEF LoadsOK
    <3>5. TimerMoves
      BY <1>2, <3>1 DEF TimerMoves
    <3>6. QED
      BY <3>1, <3>2, <3>4, <3>5
  <2>2. CASE r.live = FALSE
    <3>1. motion' = motion /\ ready' = ready /\ timer' = timer
      BY <2>2 DEF SidecarArrives, SidecarFails
    <3>2. QED
      BY <1>1, <1>2, <3>1 DEF LoadsOK, TimerMoves
  <2>3. QED
    BY <1>1, <2>1, <2>2 DEF LoadsOK, Entry
<1>4. stored' \in [Files -> Slices] /\ \A g \in Files : Mine(g, stored'[g])
  BY <1>1, <1>2 DEF ValuesOK
<1>5. ValuesOK' /\ TabsOK'
  BY <1>1, <1>2, <1>3, <1>4, StaysWhole
<1>6. CatalogOK' /\ MotionsOK' /\ UrlIsSelection'
  BY <1>1, <1>2 DEF CatalogOK, MotionsOK, UrlIsSelection
<1>7. TimerOK'
  BY <1>1, <1>2, <1>3, <1>5, <1>6, TimerNext DEF Grows
<1>8. QED
  BY <1>3, <1>5, <1>6, <1>7 DEF SessionIInv

\* An edit is the last of the history, and the selected file's.
LEMMA EditGiven ==
  ASSUME CatalogOK, sel # None, Edit
  PROVE  /\ sel \in Files /\ Grows /\ owner' \in Seq(Files) /\ Len(owner') <= MaxEdits
         /\ GivenNext(sel, Token) /\ Token \in Edits /\ Token \in Nat /\ Token \in 0..Len(owner')
<1>1. sel \in Files /\ owner \in Seq(Files) /\ Len(owner) \in Nat
  BY DEF CatalogOK
<1>2. owner' = Append(owner, sel) /\ Len(owner) < MaxEdits
  BY DEF Edit
<1>3. /\ owner' \in Seq(Files) /\ Len(owner') = Len(owner) + 1
      /\ owner'[Len(owner) + 1] = sel
  BY <1>1, <1>2
<1>4. QED
  BY <1>1, <1>2, <1>3, SessionAssumption DEF GivenNext, Token, Edits, Grows

\* An edit of the selected file's tab, filed or not, which the history follows.
LEMMA TabEdited ==
  ASSUME CatalogOK, ValuesOK, TabsOK, sel # None, Edit, sel' = sel, exists' = exists,
         motion' = motion, stored' = stored, GivenTabNext(sel, tab'), tab' \in Tab,
         lastTab' \in [Files -> Tab \cup {Unknown}],
         lastTab'[sel] \in Tab, SameButCamera(lastTab'[sel], tab'),
         \A g \in Files : g # sel => lastTab'[g] = lastTab[g],
         open' = [open EXCEPT ![sel] = tab'] \/ (open' = open /\ SameButCamera(tab', tab))
  PROVE  ValuesOK' /\ TabsOK'
<1>1. sel \in Files /\ Grows
  BY EditGiven
<1>2. /\ sel \in DOMAIN open /\ open \in [DOMAIN open -> TabNat] /\ DOMAIN open \subseteq exists
      /\ DOMAIN open \subseteq Files /\ SameButCamera(open[sel], tab)
  BY DEF TabsOK, ValuesOK, CatalogOK
<1>3. /\ DOMAIN open' = DOMAIN open /\ open' \in [DOMAIN open -> TabNat]
      /\ \A g \in DOMAIN open : g # sel => open'[g] = open[g]
      /\ open'[sel] = tab' \/ (open'[sel] = open[sel] /\ SameButCamera(tab', tab))
  BY <1>2 DEF GivenTabNext
<1>4. \A g \in DOMAIN open : GivenTabNext(g, open[g])
  BY <1>1, TabKept DEF ValuesOK
<1>5. \A g \in DOMAIN open' : GivenTabNext(g, open'[g])
  BY <1>3, <1>4
<1>6. stored' \in [Files -> Slices] /\ \A g \in Files : MineNext(g, stored'[g])
  BY <1>1, MineKept DEF ValuesOK
<1>7. GivenNext(sel, motion)
  BY <1>1, GivenKept DEF ValuesOK
<1>8. ValuesOK'
  BY <1>2, <1>3, <1>5, <1>6, <1>7, ValuesNext
<1>9. TabsOK'
  <2>1. SameButCamera(open'[sel], tab')
    BY <1>2, <1>3 DEF SameButCamera
  <2>2. SameButCamera(lastTab'[sel], open'[sel])
    BY <2>1 DEF SameButCamera
  <2>3. \A g \in Files : IF g \in DOMAIN open
                        THEN lastTab[g] \in Tab /\ SameButCamera(lastTab[g], open[g])
                        ELSE lastTab[g] = Unknown
    BY DEF TabsOK
  <2>4. \A g \in Files : IF g \in DOMAIN open'
                        THEN lastTab'[g] \in Tab /\ SameButCamera(lastTab'[g], open'[g])
                        ELSE lastTab'[g] = Unknown
    BY <1>2, <1>3, <2>2, <2>3
  <2>5. sel' \in DOMAIN open' /\ SameButCamera(open'[sel'], tab')
    BY <1>2, <1>3, <2>1
  <2>6. QED
    BY <2>4, <2>5 DEF TabsOK, SameButCamera
<1>10. QED
  BY <1>8, <1>9

\* What is known of the selected file's tab before an edit.
LEMMA TabBefore ==
  ASSUME CatalogOK, ValuesOK, TabsOK, sel # None, Grows
  PROVE  /\ tab \in TabNat /\ tab \in Tab /\ GivenTabNext(sel, tab)
         /\ lastTab \in [Files -> Tab \cup {Unknown}] /\ lastTab[sel] \in Tab
         /\ SameButCamera(lastTab[sel], tab)
<1>1. GivenTab(sel, tab) /\ sel \in Files /\ sel \in DOMAIN open
  BY DEF ValuesOK, CatalogOK, TabsOK
<1>2. tab \in TabNat /\ tab \in Tab /\ GivenTabNext(sel, tab)
  BY <1>1, GivenIsTab, TabKept
<1>3. lastTab \in [Files -> Tab \cup {Unknown}] /\ lastTab[sel] \in Tab
  BY <1>1 DEF TabsOK
<1>4. SameButCamera(lastTab[sel], open[sel]) /\ SameButCamera(open[sel], tab)
  BY <1>1 DEF TabsOK
<1>5. QED
  BY <1>2, <1>3, <1>4 DEF SameButCamera

LEMMA EditTabStep == ASSUME SessionIInv, EditTab PROVE SessionIInv'
<1>1. CatalogOK /\ LoadsOK /\ ValuesOK /\ TabsOK /\ MotionsOK /\ UrlIsSelection /\ TimerOK
  BY DEF SessionIInv
<1>2. /\ sel # None /\ Edit /\ open' = [open EXCEPT ![sel] = tab']
      /\ exists' = exists /\ version' = version /\ url' = url /\ sel' = sel /\ shown' = shown
      /\ motion' = motion /\ ready' = ready /\ loads' = loads /\ playing' = playing
      /\ stored' = stored /\ lastMotion' = lastMotion /\ events' = events
      /\ timer' = timer \/ timer' = Armed'
  BY DEF EditTab, Rearm
<1>3. /\ sel \in Files /\ Grows /\ owner' \in Seq(Files) /\ Len(owner') <= MaxEdits
      /\ GivenNext(sel, Token) /\ Token \in Edits /\ Token \in Nat /\ Token \in 0..Len(owner')
  BY <1>1, <1>2, EditGiven
<1>4. /\ tab \in TabNat /\ tab \in Tab /\ GivenTabNext(sel, tab)
      /\ lastTab \in [Files -> Tab \cup {Unknown}] /\ lastTab[sel] \in Tab
      /\ SameButCamera(lastTab[sel], tab)
  BY <1>1, <1>2, <1>3, TabBefore
<1> DEFINE old == lastTab[sel]
<1>5. /\ GivenTabNext(sel, tab') /\ tab' \in Tab
      /\ \E last \in Tab : lastTab' = [lastTab EXCEPT ![sel] = last] /\ SameButCamera(last, tab')
  <2>1. CASE tab' = [tab EXCEPT !.own = Token] /\ lastTab' = [lastTab EXCEPT ![sel].own = Token]
    <3>1. tab' \in TabNat /\ tab' \in Tab
      BY <1>3, <1>4, <2>1 DEF TabNat, Tab
    <3>2. tab'.own = Token /\ tab'.tool = tab.tool /\ tab'.camera = tab.camera
      BY <1>4, <2>1 DEF TabNat
    <3>3. GivenTabNext(sel, tab')
      BY <1>3, <1>4, <3>1, <3>2 DEF GivenTabNext
    <3>4. [old EXCEPT !.own = Token] \in Tab /\ SameButCamera([old EXCEPT !.own = Token], tab')
      BY <1>3, <1>4, <3>2 DEF Tab, SameButCamera
    <3>5. lastTab' = [lastTab EXCEPT ![sel] = [old EXCEPT !.own = Token]]
      BY <2>1
    <3>6. QED
      BY <3>1, <3>3, <3>4, <3>5
  <2>2. CASE tab' = [tab EXCEPT !.tool = Token] /\ lastTab' = [lastTab EXCEPT ![sel].tool = Token]
    <3>1. tab' \in TabNat /\ tab' \in Tab
      BY <1>3, <1>4, <2>2 DEF TabNat, Tab
    <3>2. tab'.own = tab.own /\ tab'.tool = Token /\ tab'.camera = tab.camera
      BY <1>4, <2>2 DEF TabNat
    <3>3. GivenTabNext(sel, tab')
      BY <1>3, <1>4, <3>1, <3>2 DEF GivenTabNext
    <3>4. [old EXCEPT !.tool = Token] \in Tab /\ SameButCamera([old EXCEPT !.tool = Token], tab')
      BY <1>3, <1>4, <3>2 DEF Tab, SameButCamera
    <3>5. lastTab' = [lastTab EXCEPT ![sel] = [old EXCEPT !.tool = Token]]
      BY <2>2
    <3>6. QED
      BY <3>1, <3>3, <3>4, <3>5
  <2>3. QED
    BY <2>1, <2>2 DEF EditTab
<1>6. /\ lastTab' \in [Files -> Tab \cup {Unknown}]
      /\ lastTab'[sel] \in Tab /\ SameButCamera(lastTab'[sel], tab')
      /\ \A g \in Files : g # sel => lastTab'[g] = lastTab[g]
  BY <1>3, <1>4, <1>5
<1>7. ValuesOK' /\ TabsOK'
  BY <1>1, <1>2, <1>5, <1>6, TabEdited
<1>8. LoadsOK' /\ CatalogOK' /\ MotionsOK' /\ UrlIsSelection'
  BY <1>1, <1>2, <1>3 DEF LoadsOK, CatalogOK, MotionsOK, UrlIsSelection
<1>9. TimerMoves
  BY <1>2 DEF TimerMoves
<1>10. TimerOK'
  BY <1>1, <1>3, <1>7, <1>8, <1>9, TimerNext
<1>11. QED
  BY <1>7, <1>8, <1>10 DEF SessionIInv

\* The open tab follows only when the drawings of the old view go.
LEMMA MoveCameraStep == ASSUME SessionIInv, MoveCamera PROVE SessionIInv'
<1>1. CatalogOK /\ LoadsOK /\ ValuesOK /\ TabsOK /\ MotionsOK /\ UrlIsSelection /\ TimerOK
  BY DEF SessionIInv
<1>2. /\ sel # None /\ Edit /\ timer' = Armed'
      /\ exists' = exists /\ version' = version /\ url' = url /\ sel' = sel /\ shown' = shown
      /\ motion' = motion /\ ready' = ready /\ loads' = loads /\ playing' = playing
      /\ stored' = stored /\ lastMotion' = lastMotion /\ events' = events
  BY DEF MoveCamera
<1>3. /\ sel \in Files /\ Grows /\ owner' \in Seq(Files) /\ Len(owner') <= MaxEdits
      /\ GivenNext(sel, Token) /\ Token \in Edits /\ Token \in Nat /\ Token \in 0..Len(owner')
  BY <1>1, <1>2, EditGiven
<1>4. /\ tab \in TabNat /\ tab \in Tab /\ GivenTabNext(sel, tab)
      /\ lastTab \in [Files -> Tab \cup {Unknown}] /\ lastTab[sel] \in Tab
      /\ SameButCamera(lastTab[sel], tab)
  BY <1>1, <1>2, <1>3, TabBefore
<1> DEFINE old == lastTab[sel]
<1>5. /\ GivenTabNext(sel, tab') /\ tab' \in Tab
      /\ \E last \in Tab : lastTab' = [lastTab EXCEPT ![sel] = last] /\ SameButCamera(last, tab')
      /\ open' = [open EXCEPT ![sel] = tab'] \/ (open' = open /\ SameButCamera(tab', tab))
  <2>1. CASE /\ tab' = [tab EXCEPT !.camera = Token] /\ open' = open
             /\ lastTab' = [lastTab EXCEPT ![sel].camera = Token]
    <3>1. tab' \in TabNat /\ tab' \in Tab
      BY <1>3, <1>4, <2>1 DEF TabNat, Tab
    <3>2. tab'.own = tab.own /\ tab'.tool = tab.tool /\ tab'.camera = Token
      BY <1>4, <2>1 DEF TabNat
    <3>3. GivenTabNext(sel, tab') /\ SameButCamera(tab', tab)
      BY <1>3, <1>4, <3>1, <3>2 DEF GivenTabNext, SameButCamera
    <3>4. [old EXCEPT !.camera = Token] \in Tab /\ SameButCamera([old EXCEPT !.camera = Token], tab')
      BY <1>3, <1>4, <3>2 DEF Tab, SameButCamera
    <3>5. lastTab' = [lastTab EXCEPT ![sel] = [old EXCEPT !.camera = Token]]
      BY <2>1
    <3>6. QED
      BY <2>1, <3>1, <3>3, <3>4, <3>5
  <2>2. CASE /\ tab' = [tab EXCEPT !.camera = Token, !.own = Token]
             /\ lastTab' = [lastTab EXCEPT ![sel].camera = Token, ![sel].own = Token]
             /\ open' = [open EXCEPT ![sel] = tab']
    <3> DEFINE last == [old EXCEPT !.camera = Token, !.own = Token]
    <3>1. tab' \in TabNat /\ tab' \in Tab
      BY <1>3, <1>4, <2>2 DEF TabNat, Tab
    <3>2. tab'.own = Token /\ tab'.tool = tab.tool /\ tab'.camera = Token
      BY <1>4, <2>2 DEF TabNat
    <3>3. GivenTabNext(sel, tab')
      BY <1>3, <1>4, <3>1, <3>2 DEF GivenTabNext
    <3>4. last \in Tab /\ SameButCamera(last, tab')
      BY <1>3, <1>4, <3>2 DEF Tab, SameButCamera
    <3>5. lastTab' = [lastTab EXCEPT ![sel] = last]
      BY <1>3, <1>4, <2>2
    <3>6. QED
      BY <2>2, <3>1, <3>3, <3>4, <3>5
  <2>3. QED
    BY <2>1, <2>2 DEF MoveCamera
<1>6. /\ lastTab' \in [Files -> Tab \cup {Unknown}]
      /\ lastTab'[sel] \in Tab /\ SameButCamera(lastTab'[sel], tab')
      /\ \A g \in Files : g # sel => lastTab'[g] = lastTab[g]
  BY <1>3, <1>4, <1>5
<1>7. ValuesOK' /\ TabsOK'
  BY <1>1, <1>2, <1>5, <1>6, TabEdited
<1>8. LoadsOK' /\ CatalogOK' /\ MotionsOK' /\ UrlIsSelection'
  BY <1>1, <1>2, <1>3 DEF LoadsOK, CatalogOK, MotionsOK, UrlIsSelection
<1>9. TimerMoves
  BY <1>2 DEF TimerMoves
<1>10. TimerOK'
  BY <1>1, <1>3, <1>7, <1>8, <1>9, TimerNext
<1>11. QED
  BY <1>7, <1>8, <1>10 DEF SessionIInv

LEMMA EditMotionStep == ASSUME SessionIInv, EditMotion PROVE SessionIInv'
<1>1. CatalogOK /\ LoadsOK /\ ValuesOK /\ TabsOK /\ MotionsOK /\ UrlIsSelection /\ TimerOK
  BY DEF SessionIInv
<1>2. /\ sel # None /\ Edit /\ motion' = Token /\ lastMotion' = [lastMotion EXCEPT ![sel] = Token]
      /\ timer' = timer \/ timer' = Armed'
      /\ exists' = exists /\ version' = version /\ url' = url /\ sel' = sel /\ shown' = shown
      /\ tab' = tab /\ open' = Filed /\ ready' = ready /\ loads' = loads /\ playing' = playing
      /\ stored' = stored /\ lastTab' = lastTab /\ events' = events
  BY DEF EditMotion, Rearm
<1>3. /\ sel \in Files /\ Grows /\ owner' \in Seq(Files) /\ Len(owner') <= MaxEdits
      /\ GivenNext(sel, Token) /\ Token \in Edits /\ Token \in Nat
  BY <1>1, <1>2, EditGiven
<1>4. /\ open' \in [DOMAIN open' -> TabNat] /\ DOMAIN open' \subseteq exists'
      /\ \A g \in DOMAIN open' : GivenTabNext(g, open'[g])
      /\ TabsOK'
  <2>1. Keeps
    BY <1>1, <1>2, SameTabs DEF ValuesOK
  <2>2. QED
    BY <1>1, <1>2, <1>3, <2>1, TabsKept
<1>5. ValuesOK'
  <2>1. stored' \in [Files -> Slices] /\ \A g \in Files : MineNext(g, stored'[g])
    BY <1>1, <1>2, <1>3, MineKept DEF ValuesOK
  <2>2. GivenTabNext(sel', tab') /\ GivenNext(sel', motion')
    <3>1. GivenTabNext(sel, tab)
      BY <1>1, <1>2, <1>3, TabKept DEF ValuesOK
    <3>2. QED
      BY <1>2, <1>3, <3>1
  <2>3. QED
    BY <1>2, <1>4, <2>1, <2>2, ValuesNext
<1>6. LoadsOK' /\ CatalogOK' /\ MotionsOK' /\ UrlIsSelection'
  BY <1>1, <1>2, <1>3 DEF LoadsOK, CatalogOK, MotionsOK, UrlIsSelection
<1>7. TimerMoves
  BY <1>2 DEF TimerMoves
<1>8. TimerOK'
  BY <1>1, <1>3, <1>5, <1>6, <1>7, TimerNext
<1>9. QED
  BY <1>4, <1>5, <1>6, <1>8 DEF SessionIInv

\* What the timer writes is of the file it was armed for, the camera included.
LEMMA SavedMine ==
  ASSUME SessionIInv, Save
  PROVE  stored' \in [Files -> Slices] /\ \A g \in Files : Mine(g, stored'[g])
<1>1. CatalogOK /\ ValuesOK /\ TimerOK
  BY DEF SessionIInv
<1>2. /\ timer # Off
      /\ stored' = [stored EXCEPT ![timer.file] = [timer.seen EXCEPT !.tab.camera = tab.camera]]
  BY DEF Save
<1>3. /\ timer.file \in Files /\ timer.seen \in Slices /\ Mine(timer.file, timer.seen)
      /\ sel # None => timer.file = sel
  BY <1>1, <1>2 DEF TimerOK
<1>4. Given(timer.file, tab.camera) /\ tab.camera \in Nat
  <2>1. CASE sel = None
    BY <1>1, <2>1, ZeroGiven DEF ValuesOK, Fresh
  <2>2. CASE sel # None
    BY <1>1, <1>3, <2>2 DEF ValuesOK, GivenTab, Given
  <2>3. QED
    BY <2>1, <2>2
<1> DEFINE t == timer.seen.tab
           u == [t EXCEPT !.camera = tab.camera]
           s == [timer.seen EXCEPT !.tab = u]
<1>5. t \in TabNat /\ GivenTab(timer.file, t) /\ Given(timer.file, timer.seen.motion)
  BY <1>3 DEF Mine, Slices
<1>6. u \in TabNat /\ u.own = t.own /\ u.tool = t.tool /\ u.camera = tab.camera
  BY <1>4, <1>5 DEF TabNat
<1>7. GivenTab(timer.file, u)
  BY <1>4, <1>5, <1>6 DEF GivenTab
<1>8. s \in Slices /\ s.sig = timer.seen.sig /\ s.tab = u /\ s.motion = timer.seen.motion
  BY <1>3, <1>6 DEF Slices
<1>9. Mine(timer.file, s)
  BY <1>3, <1>5, <1>7, <1>8 DEF Mine
<1>10. stored' = [stored EXCEPT ![timer.file] = s]
  BY <1>2
<1>11. stored \in [Files -> Slices] /\ \A g \in Files : Mine(g, stored[g])
  BY <1>1 DEF ValuesOK
<1> HIDE DEF s
<1>12. QED
  BY <1>3, <1>8, <1>9, <1>10, <1>11

\* Playing, stopping, saving and nothing at all leave the page's values alone.
LEMMA QuietStep ==
  ASSUME SessionIInv, Play \/ Stop \/ Save \/ UNCHANGED vars
  PROVE  SessionIInv'
<1>1. CatalogOK /\ LoadsOK /\ ValuesOK /\ TabsOK /\ MotionsOK /\ UrlIsSelection /\ TimerOK
  BY DEF SessionIInv
<1>2. /\ sel' = sel /\ tab' = tab /\ url' = url /\ exists' = exists /\ shown' = shown
      /\ version' = version /\ owner' = owner /\ lastTab' = lastTab /\ motion' = motion
      /\ lastMotion' = lastMotion /\ ready' = ready /\ loads' = loads /\ events' \in 0..MaxEvents
      /\ open' = open \/ open' = Filed
  BY <1>1, Counted DEF Play, Stop, Save, vars, page, history, CatalogOK
<1>3. stored' \in [Files -> Slices] /\ \A g \in Files : Mine(g, stored'[g])
  <2>1. CASE Save
    BY <2>1, SavedMine
  <2>2. CASE Play \/ Stop \/ UNCHANGED vars
    <3>1. stored' = stored
      BY <2>2 DEF Play, Stop, vars
    <3>2. QED
      BY <1>1, <3>1 DEF ValuesOK
  <2>3. QED
    BY <2>1, <2>2
<1>4. ValuesOK' /\ TabsOK'
  BY <1>1, <1>2, <1>3, StaysWhole
<1>5. playing' \in BOOLEAN /\ (playing' => sel # None)
  <2>1. CASE Play \/ Stop
    BY <2>1 DEF Play, Stop
  <2>2. CASE Save \/ UNCHANGED vars
    <3>1. playing' = playing
      BY <2>2 DEF Save, vars, page
    <3>2. QED
      BY <1>1, <3>1 DEF LoadsOK
  <2>3. QED
    BY <2>1, <2>2
<1>6. LoadsOK' /\ CatalogOK' /\ MotionsOK' /\ UrlIsSelection'
  BY <1>1, <1>2, <1>5 DEF LoadsOK, CatalogOK, MotionsOK, UrlIsSelection
<1>7. TimerMoves
  <2>1. Stop => sel # None
    BY <1>1 DEF Stop, LoadsOK
  <2>2. timer' = Off \/ timer' = timer \/ (timer' = Armed /\ sel # None)
    BY <2>1 DEF Play, Stop, Arms, Save, vars, page
  <2>3. Armed' = Armed
    BY <1>2 DEF Armed, Snapshot, Signature
  <2>4. QED
    BY <1>2, <2>2, <2>3 DEF TimerMoves
<1>8. TimerOK'
  BY <1>1, <1>2, <1>4, <1>6, <1>7, TimerNext DEF Grows
<1>9. QED
  BY <1>4, <1>6, <1>8 DEF SessionIInv

LEMMA ReloadStep == ASSUME SessionIInv, Reload PROVE SessionIInv'
<1>1. CatalogOK /\ LoadsOK /\ ValuesOK /\ TabsOK /\ MotionsOK /\ UrlIsSelection /\ TimerOK
  BY DEF SessionIInv
<1>2. /\ exists' = exists /\ version' = version /\ url' = url /\ owner' = owner
      /\ events' \in 0..MaxEvents /\ Grows
  BY <1>1, Counted DEF Reload, Grows
<1> DEFINE f == IF url \in exists THEN url ELSE None
           t(kept) == IF f # None /\ kept[f].sig = version[f] THEN kept[f].tab ELSE Fresh
<1>3. PICK kept \in {stored, Flushed} :
        /\ stored' = kept /\ sel' = f /\ shown' = TRUE /\ tab' = t(kept)
        /\ open' = [g \in {f} \ {None} |-> t(kept)]
        /\ lastTab' = [g \in Files |-> IF g = f THEN t(kept) ELSE Unknown]
        /\ motion' = 0 /\ ready' = FALSE /\ playing' = FALSE
        /\ loads' = {[file |-> g, live |-> TRUE] : g \in {f} \ {None}}
        /\ timer' = IF f = None THEN Off ELSE Armed'
        /\ lastMotion' = [g \in Files |-> IF kept[g].sig = version[g] THEN kept[g].motion ELSE 0]
  BY DEF Reload
<1> DEFINE T == t(kept)
<1>4. kept \in [Files -> Slices] /\ \A g \in Files : Mine(g, kept[g])
  BY <1>1, FlushedMine DEF ValuesOK
<1>5. f \in exists \cup {None} /\ exists \subseteq Files
  BY <1>1 DEF CatalogOK
<1>6. f # None => f \in Files
  BY <1>5
<1>7. /\ T \in TabNat /\ T \in Tab /\ (f = None => T = Fresh)
      /\ f # None => GivenTab(f, T)
  <2>1. CASE f = None
    <3>1. T = Fresh /\ GivenTab(f, Fresh)
      BY <1>1, <2>1, FreshGiven
    <3>2. QED
      BY <1>1, <2>1, <3>1, GivenIsTab
  <2>2. CASE f # None
    <3>1. GivenTab(f, kept[f].tab) /\ GivenTab(f, Fresh)
      BY <1>1, <1>4, <1>6, <2>2, FreshGiven DEF Mine
    <3>2. T = kept[f].tab \/ T = Fresh
      OBVIOUS
    <3>3. GivenTab(f, T)
      BY <3>1, <3>2
    <3>4. QED
      BY <1>1, <2>2, <3>3, GivenIsTab
  <2>3. QED
    BY <2>1, <2>2
<1>8. /\ sel' = f /\ tab' = T /\ open' = [g \in {f} \ {None} |-> T] /\ stored' = kept
      /\ lastTab' = [g \in Files |-> IF g = f THEN T ELSE Unknown] /\ motion' = 0
      /\ timer' = IF f = None THEN Off ELSE Armed'
  BY <1>3
<1>9. UrlIsSelection'
  BY <1>2, <1>5, <1>8, SessionAssumption DEF UrlIsSelection
<1> HIDE DEF T, f
<1>10. LoadsOK'
  <2>1. \A r \in loads' : r \in Entry /\ r.file = f
    <3>1. \A g \in {f} \ {None} : LET r == [file |-> g, live |-> TRUE]
                                IN  r \in Entry /\ r.file = f
      BY <1>6 DEF Entry
    <3>2. loads' = {[file |-> g, live |-> TRUE] : g \in {f} \ {None}}
      BY <1>3
    <3>3. QED
      BY <3>1, <3>2
  <2>2. ready' = FALSE /\ playing' = FALSE
    BY <1>3
  <2>3. QED
    BY <1>8, <2>1, <2>2 DEF LoadsOK
<1>11. ValuesOK'
  <2>1. open' \in [DOMAIN open' -> TabNat] /\ DOMAIN open' \subseteq exists'
    BY <1>2, <1>5, <1>7, <1>8
  <2>2. \A g \in DOMAIN open' : GivenTabNext(g, open'[g])
    BY <1>1, <1>2, <1>7, <1>8, TabKept
  <2>3. stored' \in [Files -> Slices] /\ \A g \in Files : MineNext(g, stored'[g])
    BY <1>1, <1>2, <1>4, <1>8, MineKept
  <2>4. IF sel' = None THEN tab' = Fresh /\ motion' = 0
        ELSE GivenTabNext(sel', tab') /\ GivenNext(sel', motion')
    BY <1>1, <1>2, <1>7, <1>8, TabKept, GivenKept, ZeroGiven
  <2>5. QED
    BY <2>1, <2>2, <2>3, <2>4, ValuesNext
<1>12. TabsOK'
  <2>1. SameButCamera(T, T)
    BY DEF SameButCamera
  <2>2. lastTab' \in [Files -> Tab \cup {Unknown}]
    BY <1>7, <1>8
  <2>3. \A g \in Files : IF g \in DOMAIN open'
                        THEN lastTab'[g] \in Tab /\ SameButCamera(lastTab'[g], open'[g])
                        ELSE lastTab'[g] = Unknown
    BY <1>6, <1>7, <1>8, <2>1, SessionAssumption
  <2>4. sel' # None => sel' \in DOMAIN open' /\ SameButCamera(open'[sel'], tab')
    BY <1>8, <2>1
  <2>5. QED
    BY <2>2, <2>3, <2>4 DEF TabsOK, SameButCamera
<1>13. CatalogOK'
  BY <1>1, <1>2, <1>3, <1>5, <1>8 DEF CatalogOK
<1>14. MotionsOK'
  <2>1. \A g \in Files : kept[g].motion \in Edits /\ 0 \in Edits
    BY <1>1, <1>4, SessionAssumption DEF CatalogOK, Mine, Given, Edits
  <2>2. QED
    BY <1>3, <2>1 DEF MotionsOK
<1>15. TimerOK'
  <2>1. TimerMoves
    BY <1>8 DEF TimerMoves
  <2>2. QED
    BY <1>1, <1>2, <1>11, <1>13, <2>1, TimerNext
<1>16. QED
  BY <1>9, <1>10, <1>11, <1>12, <1>13, <1>14, <1>15 DEF SessionIInv

-----------------------------------------------------------------------------
(* The invariant and what follows from it. *)

LEMMA Initial == ASSUME Init PROVE SessionIInv
<1>1. CatalogOK
  BY SessionAssumption DEF Init, CatalogOK
<1>2. LoadsOK
  BY DEF Init, LoadsOK
<1>3. DOMAIN open = {} /\ lastTab = [f \in Files |-> Unknown] /\ sel = None
  BY DEF Init
<1>4. TabsOK
  BY <1>3 DEF TabsOK
<1>5. MotionsOK /\ UrlIsSelection
  BY SessionAssumption DEF Init, MotionsOK, Edits, UrlIsSelection
<1>6. ValuesOK
  BY <1>1, NothingMine DEF Init, ValuesOK
<1>7. TimerOK
  BY DEF Init, TimerOK
<1>8. QED
  BY <1>1, <1>2, <1>4, <1>5, <1>6, <1>7 DEF SessionIInv

LEMMA Inductive == ASSUME SessionIInv, [Next]_vars PROVE SessionIInv'
<1>1. ASSUME NEW f \in Files, Select(f) \/ Touch(f) \/ Remove(f) \/ Appear(f) PROVE SessionIInv'
  BY <1>1, SelectStep, TouchStep, RemoveStep, AppearStep
<1>2. ASSUME NEW u \in Files \cup {None}, GoTo(u) PROVE SessionIInv'
  BY <1>2, GoToStep
<1>3. CASE Compiling \/ Compiled
  BY <1>3, CompilingStep
<1>4. ASSUME NEW r \in loads, SidecarArrives(r) \/ SidecarFails(r) PROVE SessionIInv'
  BY <1>4, SidecarStep
<1>5. CASE EditTab \/ MoveCamera \/ EditMotion
  BY <1>5, EditTabStep, MoveCameraStep, EditMotionStep
<1>6. CASE Play \/ Stop \/ Save \/ UNCHANGED vars
  BY <1>6, QuietStep
<1>7. CASE Reload
  BY <1>7, ReloadStep
<1>8. QED
  BY <1>1, <1>2, <1>3, <1>4, <1>5, <1>6, <1>7 DEF Next

\* The invariant the theorems below follow from holds in every reachable
\* state (CadWorkspace.js:3397-3667).
THEOREM SessionInvariant == Spec => []SessionIInv
<1>1. Init => SessionIInv
  BY Initial
<1>2. SessionIInv /\ [Next]_vars => SessionIInv'
  BY Inductive
<1>3. QED
  BY <1>1, <1>2, PTL DEF Spec

\* Every value keeps its type, and the sidecar load that was not cancelled is
\* always the selected file's (CadWorkspace.js:1643-1709).
THEOREM SessionTyped == Spec => []SessionTypeOK
<1>1. ASSUME SessionIInv PROVE SessionTypeOK
  <2>1. CatalogOK /\ LoadsOK /\ ValuesOK /\ TabsOK /\ MotionsOK /\ TimerOK
    BY <1>1 DEF SessionIInv
  <2>2. \A f, e : Given(f, e) => e \in Edits
    BY <2>1, SessionAssumption DEF CatalogOK, Given, Edits
  <2>3. tab \in Tab /\ motion \in Edits
    <3>1. Fresh \in Tab /\ 0 \in Edits
      BY SessionAssumption DEF Fresh, Tab, Edits
    <3>2. QED
      BY <2>1, <2>2, <3>1, GivenIsTab DEF ValuesOK
  <2>4. DOMAIN open \subseteq exists /\ \A f \in DOMAIN open : open[f] \in Tab
    BY <2>1, GivenIsTab DEF ValuesOK
  <2>5. \A f : \A q \in Slices : Mine(f, q) => q \in Session
    <3>1. SUFFICES ASSUME NEW f, NEW q \in Slices, Mine(f, q) PROVE q \in Session
      OBVIOUS
    <3>2. q.tab \in Tab
      BY <2>1, <3>1, GivenIsTab DEF Mine
    <3>3. q.motion \in Edits /\ q.sig \in -1..MaxVersion
      BY <2>2, <3>1 DEF Mine
    <3>4. QED
      BY <3>2, <3>3 DEF Slices, Session
  <2>6. stored \in [Files -> Session]
    <3>1. \A f \in Files : stored[f] \in Slices /\ Mine(f, stored[f])
      BY <2>1 DEF ValuesOK
    <3>2. \A f \in Files : stored[f] \in Session
      BY <2>5, <3>1
    <3>3. QED
      BY <2>1, <3>2 DEF ValuesOK
  <2>7. loads \subseteq [file : Files, live : BOOLEAN]
    BY <2>1 DEF LoadsOK, Entry
  <2>8. timer \in {Off} \cup [file : Files, seen : Session]
    <3>1. CASE timer # Off
      <4>1. timer \in [file : Files, seen : Slices] /\ Mine(timer.file, timer.seen)
        BY <2>1, <3>1 DEF TimerOK
      <4>2. timer.seen \in Session
        BY <2>5, <4>1
      <4>3. QED
        BY <4>1, <4>2
    <3>2. QED
      BY <3>1
  <2>9. QED
    BY <2>1, <2>3, <2>4, <2>6, <2>7, <2>8 DEF SessionTypeOK, CatalogOK, LoadsOK, TabsOK, MotionsOK
<1>2. QED
  BY <1>1, SessionInvariant, PTL

\* Nothing done to one file, camera and motion included, reaches another, on
\* the page, in its tab or in storage, whatever the order of clicks, history
\* events, catalogue changes, sidecar answers and timers; the drawing tool and
\* mode are exempt (CadWorkspace.js:1668-1709, 3397-3411, 3549-3552).
THEOREM SessionsApart == Spec => []NoMixing
<1>1. ASSUME SessionIInv PROVE NoMixing
  <2>1. ValuesOK
    BY <1>1 DEF SessionIInv
  <2>2. QED
    BY <2>1 DEF ValuesOK, NoMixing, TabOf, Mine, GivenTab, Given
<1>2. QED
  BY <1>1, SessionInvariant, PTL

\* In one page a file always shows the selection, drawings and tools it was
\* last left with, its camera aside (CadWorkspace.js:3545-3551).
THEOREM TabsKeep == Spec => []TabIsLastEdit
<1>1. ASSUME SessionIInv PROVE TabIsLastEdit
  <2>1. TabsOK /\ (sel # None => sel \in Files)
    BY <1>1 DEF SessionIInv, CatalogOK
  <2>2. QED
    BY <2>1 DEF TabsOK, TabIsLastEdit, SameButCamera
<1>2. QED
  BY <1>1, SessionInvariant, PTL

\* The URL names the selected file, and a file the URL names is selected as
\* soon as the catalogue lists it (useCadDirectorySession.js:94-194).
THEOREM UrlNamesSelection == Spec => []UrlIsSelection
<1>1. SessionIInv => UrlIsSelection
  BY DEF SessionIInv
<1>2. QED
  BY <1>1, SessionInvariant, PTL
=============================================================================
