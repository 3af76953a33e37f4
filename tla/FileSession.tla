----------------------------- MODULE FileSession ----------------------------
(***************************************************************************)
(* What the viewer remembers of each file: the URL that names the selected *)
(* file, the open tabs with the state each was left in, the pose and the   *)
(* animation of the selected model (its "motion"), and the copy of all     *)
(* that in session storage, under the signature of the file it was made    *)
(* for (components/CadWorkspace.js, hooks/useCadDirectorySession.js,       *)
(* workbench/fileSessionState.js).                                         *)
(*                                                                         *)
(* React runs the effects of a click, a history event or a catalogue       *)
(* refresh before it handles the next event, so each action takes the      *)
(* event and the effects it triggers as one step.  What stays apart is     *)
(* what the code waits for: the sidecar load and the save timer.           *)
(***************************************************************************)
EXTENDS Integers, Sequences, FiniteSets

CONSTANTS
  Files,       \* the models of the directory
  None,        \* no file selected, no file in the URL
  MaxVersion,  \* bound: versions of a model's document
  MaxEdits,    \* bound: edits the user makes
  MaxEvents    \* bound: other things that happen

ASSUME SessionAssumption ==
  /\ None \notin Files
  /\ MaxVersion \in Nat \ {0} /\ MaxEdits \in Nat /\ MaxEvents \in Nat

VARIABLES
  exists,   \* the files the catalogue lists
  version,  \* the hash of each file's document
  url,      \* the file parameter of the page's URL
  sel,      \* selectedKey
  shown,    \* the selected entry has its render assets
  tab,      \* the active tab state: what is the file's own (selection, folds,
            \* strokes), the drawing tool and mode, and the camera
  open,     \* openTabs: the state each open tab was left in
  motion,   \* pose values and animation state of the selected model
  ready,    \* the sidecar of the selected model is loaded
  loads,    \* sidecar loads under way; only one is not cancelled
  playing,  \* a clip plays
  timer,    \* the save timer: Off, or armed for a file with what it saw of it
  stored,   \* session storage
  owner,    \* history: the file each edit was made to
  lastTab,  \* history: the last tab state of each file in this page
  lastMotion, \* history: the last motion the user gave each version
  events

page == <<tab, open, motion, ready, loads, playing, timer>>
history == <<owner, lastTab, lastMotion>>
vars == <<exists, version, url, sel, shown, page, stored, history, events>>

-----------------------------------------------------------------------------
(* Snapshots.  An edit is a number; 0 is the state nobody edited.  The      *)
(* signature of an entry stripped of its assets is 0, that of nothing       *)
(* stored -1.                                                               *)

Fresh == [own |-> 0, tool |-> 0, camera |-> 0]
Nothing == [sig |-> -1, tab |-> Fresh, motion |-> 0]
Signature == IF shown THEN version[sel] ELSE 0
Snapshot == [sig |-> Signature, tab |-> tab, motion |-> motion]

\* A stored slice counts only under the signature it was stored for.
Read(f) == IF stored[f].sig = version[f] THEN stored[f] ELSE Nothing

\* pruneFileSessionState, once the catalogue lists anything at all.
Pruned(old, listed) ==
  IF listed = {} THEN old ELSE [f \in Files |-> IF f \in listed THEN old[f] ELSE Nothing]

\* flushActiveFileSession
Flushed == IF sel = None THEN stored ELSE [stored EXCEPT ![sel] = Snapshot]

(* The save timer keeps the function of the render that armed it, and with  *)
(* it the page as it was then; the camera is a ref, read when it fires.     *)
Off == [file |-> None, seen |-> Nothing]
Armed == [file |-> sel, seen |-> [Snapshot EXCEPT !.tab.camera = 0]]

(* React runs the save effect after every change of what a session holds,   *)
(* which arms nothing while a clip plays or without a selection             *)
Rearm == timer' = IF playing' \/ sel' = None THEN timer ELSE Armed'

(* ... and the layout effect that files the page in its open tab. A move of *)
(* the camera alone runs neither.                                           *)
Filed == IF sel = None THEN open ELSE [open EXCEPT ![sel] = tab]

Unknown == [own |-> -1, tool |-> -1, camera |-> -1]
Known(f, t) == IF lastTab[f] = Unknown THEN [lastTab EXCEPT ![f] = t] ELSE lastTab

-----------------------------------------------------------------------------

Init ==
  /\ exists = Files
  /\ version = [f \in Files |-> 1]
  /\ url = None /\ sel = None /\ shown = TRUE
  /\ tab = Fresh /\ open = [f \in {} |-> Fresh]
  /\ motion = 0 /\ ready = FALSE /\ loads = {} /\ playing = FALSE /\ timer = Off
  /\ stored = [f \in Files |-> Nothing]
  /\ owner = <<>>
  /\ lastTab = [f \in Files |-> Unknown]
  /\ lastMotion = [f \in Files |-> 0]
  /\ events = 0

Happens == events < MaxEvents /\ events' = events + 1

\* The sidecar effects run whenever the selected entry is another object: the
\* motion is reset and loaded again, and the load under way is cancelled.
\* CancelsNothing and the other operators named alike are deliberate mistakes
\* that show what the properties catch.
CancelsNothing == loads
Cancels == {[r EXCEPT !.live = FALSE] : r \in loads}

LoadMotion(f) ==
  /\ motion' = 0 /\ ready' = FALSE /\ playing' = FALSE
  /\ loads' = Cancels \cup {[file |-> g, live |-> TRUE] : g \in {f} \ {None}}
  /\ IF f # None THEN timer' = Armed'
     ELSE \/ timer' = Off
          \/ playing /\ timer' = timer  \* no effect of a playing page disarms it

\* The tab a file opens with: its open tab, else what the session stored, else
\* a new one with the tool and mode of the file that is left.
Stored(f) == Read(f).sig = version[f]
New == [Fresh EXCEPT !.tool = tab.tool]
OpenedStored(f) == IF Stored(f) THEN stored[f].tab
                   ELSE IF f \in DOMAIN open THEN open[f] ELSE New
Opened(f) == IF f \in DOMAIN open THEN open[f]
             ELSE IF Stored(f) THEN stored[f].tab ELSE New

\* activateEntryTab, for a file that is not the selected one.
Activate(f) ==
  /\ sel' = f /\ shown' = TRUE
  /\ tab' = Opened(f)
  /\ open' = [g \in DOMAIN open \cup {f} \cup ({sel} \ {None}) |->
                IF g = sel THEN tab ELSE IF g = f THEN Opened(f) ELSE open[g]]
  /\ lastTab' = Known(f, Opened(f))
  /\ LoadMotion(f)

\* resetActiveDirectory: nothing is flushed.
Reset ==
  /\ sel' = None /\ shown' = TRUE /\ tab' = Fresh
  /\ LoadMotion(None)
  /\ UNCHANGED lastTab

Select(f) ==
  /\ f \in exists /\ f # sel
  /\ Happens
  /\ url' = f
  /\ UNCHANGED <<exists, version, owner, lastMotion>>
  /\ stored' = Flushed
  /\ Activate(f)

GoToKnown(u) ==
  /\ u # url
  /\ Happens
  /\ url' = u
  /\ UNCHANGED <<exists, version, owner, lastMotion>>
  /\ IF u \in exists THEN stored' = Flushed /\ Activate(u)
     ELSE UNCHANGED <<sel, shown, page, stored, lastTab>>

\* popstate: back or forward to a URL of this directory.
GoTo(u) ==
  /\ u # url
  /\ Happens
  /\ url' = u
  /\ UNCHANGED <<exists, version, owner, lastMotion>>
  /\ \/ u \in exists /\ stored' = Flushed /\ Activate(u)
     \/ u \notin exists /\ Reset /\ UNCHANGED <<open, stored>>

\* Another file changes: the catalogue is replaced and every entry with it.
\* The artifact of the selected file is checked anew and shown meanwhile.
SameEntry ==
  IF sel = None THEN UNCHANGED <<motion, ready, playing, loads, timer>> ELSE LoadMotion(sel)

Touch(f) ==
  /\ f \in exists /\ version[f] < MaxVersion
  /\ Happens
  /\ version' = [version EXCEPT ![f] = @ + 1]
  /\ lastMotion' = [lastMotion EXCEPT ![f] = 0]
  /\ shown' = TRUE
  /\ UNCHANGED <<exists, url, sel, tab, owner>>
  /\ open' = Filed
  /\ SameEntry
  /\ lastTab' = IF f \in DOMAIN open THEN lastTab ELSE [lastTab EXCEPT ![f] = Unknown]
  /\ stored' = Pruned(stored, exists)

\* A file leaves the catalogue: its tab and its session go with it.
Remove(f) ==
  /\ f \in exists
  /\ Happens
  /\ exists' = exists \ {f}
  /\ stored' = Pruned(stored, exists')
  /\ open' = [g \in DOMAIN open \ {f} |-> Filed[g]]
  /\ UNCHANGED <<version, url, owner>>
  /\ lastTab' = [lastTab EXCEPT ![f] = Unknown]
  /\ lastMotion' = [lastMotion EXCEPT ![f] = 0]
  /\ IF f = sel
     THEN sel' = None /\ shown' = TRUE /\ tab' = Fresh /\ LoadMotion(None)
     ELSE shown' = TRUE /\ UNCHANGED <<sel, tab>> /\ SameEntry

\* A file comes (back) to the catalogue; one the URL names is selected.
Appear(f) ==
  /\ f \notin exists
  /\ Happens
  /\ exists' = exists \cup {f}
  /\ stored' = Pruned(stored, exists')
  /\ UNCHANGED <<version, url, owner, lastMotion>>
  /\ IF f = url
     THEN Activate(f)
     ELSE shown' = TRUE /\ open' = Filed /\ UNCHANGED <<sel, tab, lastTab>> /\ SameEntry

\* The artifact status says the selected model is not compiled: its assets
\* are hidden until the compile has published it.
Compiling ==
  /\ sel # None /\ shown
  /\ Happens
  /\ shown' = FALSE
  /\ open' = Filed
  /\ UNCHANGED <<exists, version, url, sel, tab, stored, history>>
  /\ LoadMotion(sel)

Compiled ==
  /\ sel # None /\ ~ shown
  /\ Happens
  /\ shown' = TRUE
  /\ \E v \in version[sel]..MaxVersion :
       /\ v <= version[sel] + 1
       /\ version' = [version EXCEPT ![sel] = v]
       /\ lastMotion' = IF v = version[sel] THEN lastMotion ELSE [lastMotion EXCEPT ![sel] = 0]
  /\ open' = Filed
  /\ UNCHANGED <<exists, url, sel, tab, stored, owner, lastTab>>
  /\ LoadMotion(sel)

\* A sidecar load ends.  The session is read now, not when the load began.
SidecarArrives(r) ==
  /\ loads' = loads \ {r}
  /\ UNCHANGED <<exists, version, url, sel, shown, tab, playing, stored, history, events>>
  /\ IF r.live
     THEN /\ motion' = IF shown THEN Read(r.file).motion ELSE 0
          /\ ready' = TRUE
          /\ open' = Filed
          /\ Rearm
     ELSE UNCHANGED <<motion, ready, open, timer>>

SidecarFails(r) ==
  /\ Happens
  /\ loads' = loads \ {r}
  /\ UNCHANGED <<exists, version, url, sel, shown, tab, playing, stored, history>>
  /\ IF r.live THEN motion' = 0 /\ ready' = FALSE /\ open' = Filed /\ Rearm
               ELSE UNCHANGED <<motion, ready, open, timer>>

\* Edits: of the tab, which the open tab follows at once, and of the motion.
Edit == Len(owner) < MaxEdits /\ owner' = Append(owner, sel)
Token == Len(owner) + 1

EditTab ==
  /\ sel # None
  /\ Edit
  /\ \/ tab' = [tab EXCEPT !.own = Token] /\ lastTab' = [lastTab EXCEPT ![sel].own = Token]
     \/ tab' = [tab EXCEPT !.tool = Token] /\ lastTab' = [lastTab EXCEPT ![sel].tool = Token]
  /\ open' = [open EXCEPT ![sel] = tab']
  /\ UNCHANGED <<exists, version, url, sel, shown, motion, ready, loads, playing,
                 stored, lastMotion, events>>
  /\ Rearm

\* handlePerspectiveChange: the camera is a ref, which no effect follows; the
\* timer is armed although a clip may play. Drawings made for the old view go.
MoveCamera ==
  /\ sel # None
  /\ Edit
  /\ \/ /\ tab' = [tab EXCEPT !.camera = Token]
        /\ lastTab' = [lastTab EXCEPT ![sel].camera = Token]
        /\ UNCHANGED open
     \/ /\ tab.own # 0
        /\ tab' = [tab EXCEPT !.camera = Token, !.own = Token]
        /\ lastTab' = [lastTab EXCEPT ![sel].camera = Token, ![sel].own = Token]
        /\ open' = [open EXCEPT ![sel] = tab']
  /\ UNCHANGED <<exists, version, url, sel, shown, motion, ready, loads, playing,
                 stored, lastMotion, events>>
  /\ timer' = Armed'

EditMotion ==
  /\ sel # None /\ ready
  /\ Edit
  /\ motion' = Token
  /\ lastMotion' = [lastMotion EXCEPT ![sel] = Token]
  /\ open' = Filed
  /\ UNCHANGED <<exists, version, url, sel, shown, tab, ready, loads, playing,
                 stored, lastTab, events>>
  /\ Rearm

\* Playing disarms the timer, stopping arms it again.
Play ==
  /\ sel # None /\ ready /\ ~ playing
  /\ Happens
  /\ playing' = TRUE /\ timer' = Off
  /\ open' = Filed
  /\ UNCHANGED <<exists, version, url, sel, shown, tab, motion, ready, loads,
                 stored, history>>

ArmsNothing == timer
Arms == Armed
Stop ==
  /\ playing
  /\ playing' = FALSE /\ timer' = Arms
  /\ open' = Filed
  /\ UNCHANGED <<exists, version, url, sel, shown, tab, motion, ready, loads,
                 stored, history, events>>

\* 180 ms after it was armed.
Save ==
  /\ timer # Off
  /\ timer' = Off
  /\ stored' = [stored EXCEPT ![timer.file] = [timer.seen EXCEPT !.tab.camera = tab.camera]]
  /\ UNCHANGED <<exists, version, url, sel, shown, tab, open, motion, ready, loads,
                 playing, history, events>>

\* The page is loaded anew, after a flush or, when it was killed, without one;
\* the session of the file the URL names is applied.
Reload ==
  /\ Happens
  /\ UNCHANGED <<exists, version, url, owner>>
  /\ \E kept \in {stored, Flushed} :
       LET f == IF url \in exists THEN url ELSE None
           t == IF f # None /\ kept[f].sig = version[f] THEN kept[f].tab ELSE Fresh
       IN  /\ stored' = kept
           /\ sel' = f /\ shown' = TRUE /\ tab' = t
           /\ open' = [g \in {f} \ {None} |-> t]
           /\ lastTab' = [g \in Files |-> IF g = f THEN t ELSE Unknown]
           /\ motion' = 0 /\ ready' = FALSE /\ playing' = FALSE
           /\ loads' = {[file |-> g, live |-> TRUE] : g \in {f} \ {None}}
           /\ timer' = IF f = None THEN Off ELSE Armed'
           /\ lastMotion' = [g \in Files |-> IF kept[g].sig = version[g] THEN kept[g].motion ELSE 0]

Next ==
  \/ \E f \in Files : Select(f) \/ Touch(f) \/ Remove(f) \/ Appear(f)
  \/ \E u \in Files \cup {None} : GoTo(u)
  \/ Compiling \/ Compiled
  \/ \E r \in loads : SidecarArrives(r) \/ SidecarFails(r)
  \/ EditTab \/ MoveCamera \/ EditMotion \/ Play \/ Stop \/ Save \/ Reload

\* The browser fires an armed timer.  Nothing else has to happen.
Spec == Init /\ [][Next]_vars /\ WF_vars(Save)

-----------------------------------------------------------------------------
(* Properties. *)

Edits == 0..MaxEdits
Tab == [own : Edits, tool : Edits, camera : Edits]
Session == [sig : -1..MaxVersion, tab : Tab, motion : Edits]

\* The state is well typed, and the sidecar load that was not cancelled is the
\* selected file's (CadWorkspace.js:1643-1709).
SessionTypeOK ==
  /\ exists \subseteq Files
  /\ version \in [Files -> 1..MaxVersion]
  /\ url \in Files \cup {None} /\ sel \in exists \cup {None}
  /\ shown \in BOOLEAN /\ ready \in BOOLEAN /\ playing \in BOOLEAN
  /\ timer \in {Off} \cup [file : Files, seen : Session]
  /\ tab \in Tab /\ motion \in Edits
  /\ DOMAIN open \subseteq exists /\ \A f \in DOMAIN open : open[f] \in Tab
  /\ loads \subseteq [file : Files, live : BOOLEAN]
  /\ \A r \in loads : r.live => r.file = sel /\ ~ ready
  /\ stored \in [Files -> Session]
  /\ owner \in Seq(Files) /\ Len(owner) <= MaxEdits
  /\ lastTab \in [Files -> Tab \cup {Unknown}]
  /\ lastMotion \in [Files -> Edits]
  /\ events \in 0..MaxEvents

\* Nothing that was done to one file reaches another, on the page or in
\* storage, however late a sidecar arrives and whenever the timer fires, though
\* one armed while a clip played may outlive the selection
\* (CadWorkspace.js:1668-1709, 3397-3411, 6841-6846).  The drawing tool and the
\* mode are not of a file: one that is opened for the first time takes over
\* those of the file that is left (CadWorkspace.js:3549-3552).
Of(f, e) == e = 0 \/ owner[e] = f
TabOf(f, t) == Of(f, t.own) /\ Of(f, t.camera)
NoMixing ==
  /\ sel # None => TabOf(sel, tab) /\ Of(sel, motion)
  /\ \A f \in DOMAIN open : TabOf(f, open[f])
  /\ \A f \in Files : TabOf(f, stored[f].tab) /\ Of(f, stored[f].motion)

\* In one page a file always shows the selection, drawings and tools it was
\* last left with: an open tab outranks the stored copy, which may be older
\* (CadWorkspace.js:3545-3551, useCadDirectorySession.js:196-201).
SameButCamera(t, u) == t.own = u.own /\ t.tool = u.tool
TabIsLastEdit == sel # None => SameButCamera(tab, lastTab[sel])

\* The URL and the selection agree: a selected file is named by the URL, and a
\* file the URL names is selected as soon as the catalogue lists it, the one
\* that was removed and comes back included (useCadDirectorySession.js:94-194).
UrlIsSelection ==
  /\ sel # None => url = sel
  /\ sel = None => url \notin exists

\* What is on the page ends up in storage, edits made while a clip played
\* included (CadWorkspace.js:3653-3667).
EndsSaved == []<>(sel # None /\ ~ playing => stored[sel] = Snapshot)

\* "a session that forgot it would reopen animating a model the user had
\* switched to rest" (fileSessionState.js:236-238): a model whose sidecar is
\* loaded again shows the motion the user last gave this version of it.
MotionIsLastEdit == sel # None /\ ready /\ shown => motion = lastMotion[sel]

\* "Per-file state ... `tab`: file sheet section expansion, reference selection,
\* part visibility, camera, tools, and drawing history" (docs/storage.md:84-98):
\* in one page a file shows the view it was last left with.
CameraIsLastMove == sel # None => tab.camera = lastTab[sel].camera

\* "No session writes while a clip plays" (CadWorkspace.js:3654).
SilentWhilePlaying == [][playing /\ playing' => stored' = stored]_vars
=============================================================================
