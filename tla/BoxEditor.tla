------------------------------ MODULE BoxEditor -----------------------------
(***************************************************************************)
(* The box being edited: its undo history, drags, the draft kept in the    *)
(* browser, saving to and opening from the host, and the board templates   *)
(* that change under it (packages/box-builder: ui/useBoxBuilder.js,        *)
(* ui/BoxBuilderSheet.js, ui/BoxBuilderViewport.js).                       *)
(*                                                                         *)
(* A document is an edit number, the version of the template its board     *)
(* follows, and whether it is in the form this program gives a document:   *)
(* one written by hand or by an older program is not, and is put into it   *)
(* when it is read.  Saves and loads are requests: the host handles one,   *)
(* and answers it, at some later moment, in any order.                     *)
(***************************************************************************)
EXTENDS Integers, Sequences, SequencesExt, FiniteSets

CONSTANTS
  Names,        \* names a box can have
  DefaultName,  \* "box"
  None,
  OldDraft,     \* the browser keeps a draft an older program saved
  HistoryLimit, \* HISTORY_LIMIT
  MaxEdits,     \* bound: documents the user makes
  MaxPresets,   \* bound: versions of the board templates
  MaxRequests,  \* bound: saves and loads
  MaxEvents     \* bound: other things that happen

ASSUME EditorAssumption ==
  /\ DefaultName \in Names /\ None \notin Names /\ OldDraft \in BOOLEAN
  /\ HistoryLimit \in Nat \ {0, 1}
  /\ MaxEdits \in Nat /\ MaxPresets \in Nat /\ MaxRequests \in Nat /\ MaxEvents \in Nat

VARIABLES
  doc,       \* specRef
  name,      \* the box's name
  savedKey,  \* the name and document last saved or opened, or None
  past, future, \* pastRef, futureRef
  origin,    \* gestureOriginRef: the document a drag began with, or None
  dragging,  \* the viewport's drag
  presets,   \* the template version last fetched
  published, \* the one the host has
  saving,    \* the file tab shows a save under way
  requests,  \* saves and loads not yet answered
  stored,    \* the host's boxes
  draft,     \* the copy in local storage
  timer,     \* the draft's write is due
  opened,    \* history: the document opened last, None when that was in a drag
  trimmed,   \* history: the oldest steps were dropped
  disturbed, \* history: the undo history was changed during a drag
  wasStored, \* history: everything the host has held
  dropped,   \* history: unsaved work was replaced that nobody agreed to lose
  edits, asked, events

document == <<doc, name, savedKey>>
steps == <<past, future, origin, dragging>>
templates == <<presets, published>>
host == <<requests, stored, wasStored, asked>>
kept == <<draft, timer>>
history == <<opened, trimmed, disturbed, dropped>>
vars == <<document, steps, templates, saving, host, kept, history, edits, events>>

-----------------------------------------------------------------------------

Own == -1  \* no board follows its template
Documents == [edit : 0..MaxEdits, tpl : Own..MaxPresets, raw : BOOLEAN]
Shown == {d \in Documents : ~ d.raw} \* what the page works with
Keys == [name : Names, doc : Documents]

\* None is neither.
ASSUME NoneAssumption == None \notin Documents /\ None \notin Keys

Blank == [edit |-> 0, tpl |-> Own, raw |-> FALSE]
Written(e) == [edit |-> e, tpl |-> Own, raw |-> TRUE]  \* not by this program
NormalForm(d) == [d EXCEPT !.raw = FALSE]              \* normalizeBoxSpec
Document(n, d) == [name |-> n, doc |-> d]
Dirty == savedKey # Document(name, doc)
Draft == [name |-> name, doc |-> doc, savedKey |-> savedKey]

Happens == events < MaxEvents /\ events' = events + 1

\* readDraft: nothing is kept of an earlier visit, or a draft an older program
\* saved. The document is normalized; the key of the saved one is not.
OldKey == Document(DefaultName, Written(0))
Init ==
  /\ savedKey = IF OldDraft THEN OldKey ELSE None
  /\ draft = [name |-> DefaultName, doc |-> IF OldDraft THEN OldKey.doc ELSE Blank,
              savedKey |-> savedKey]
  /\ stored = [n \in Names |-> IF OldDraft /\ n = DefaultName THEN OldKey.doc ELSE None]
  /\ wasStored = IF OldDraft THEN {OldKey} ELSE {}
  /\ doc = Blank /\ name = DefaultName
  /\ past = <<>> /\ future = <<>> /\ origin = None /\ dragging = FALSE
  /\ presets = 0 /\ published = 0
  /\ saving = FALSE /\ requests = {}
  /\ timer = TRUE
  /\ opened = Blank /\ trimmed = FALSE /\ disturbed = FALSE /\ dropped = FALSE
  /\ edits = 0 /\ asked = 0 /\ events = 0

-----------------------------------------------------------------------------
(* History.  PointerUpCurrent and the operators named alike are deliberate  *)
(* mistakes that show what the properties catch.                            *)

\* pushHistory
Push(previous) ==
  /\ past' = Append(IF Len(past) < HistoryLimit THEN past ELSE Tail(past), previous)
  /\ future' = <<>>
  /\ trimmed' = (trimmed \/ Len(past) >= HistoryLimit)

Disturbs == disturbed' = (disturbed \/ origin # None)

\* edit: one undoable change.
Edit(next) ==
  /\ next # doc
  /\ doc' = next
  /\ Push(doc)
  /\ Disturbs
  /\ timer' = TRUE
  /\ UNCHANGED <<name, savedKey, origin, dragging, opened, dropped>>

\* A change from the panel or the keys; the board may be added, removed,
\* edited by hand or taken back to its template with it.
Change ==
  /\ edits < MaxEdits /\ edits' = edits + 1
  /\ \E t \in {doc.tpl, Own, presets} : Edit([edit |-> edits', tpl |-> t, raw |-> FALSE])
  /\ UNCHANGED <<templates, saving, host, draft, events>>

\* Boards follow their templates when those change, as an edit.
Sync ==
  /\ doc.tpl \notin {Own, presets}
  /\ Edit([doc EXCEPT !.tpl = presets])
  /\ UNCHANGED <<templates, saving, host, draft, edits, events>>

\* The template list is fetched again; answers may come in any order.
Publish ==
  /\ published < MaxPresets
  /\ Happens
  /\ published' = published + 1
  /\ UNCHANGED <<document, steps, presets, saving, host, kept, history, edits>>

FetchPresets ==
  /\ presets' \in 0..published
  /\ presets' # presets
  /\ Happens
  /\ UNCHANGED <<document, steps, published, saving, host, kept, history, edits>>

Undo ==
  /\ past # <<>>
  /\ Happens
  /\ doc' = Last(past)
  /\ past' = Front(past)
  /\ future' = Append(future, doc)
  /\ Disturbs
  /\ timer' = TRUE
  /\ UNCHANGED <<name, savedKey, origin, dragging, templates, saving, host, draft,
                 opened, trimmed, dropped, edits>>

Redo ==
  /\ future # <<>>
  /\ Happens
  /\ doc' = Last(future)
  /\ future' = Front(future)
  /\ past' = Append(past, doc)
  /\ Disturbs
  /\ timer' = TRUE
  /\ UNCHANGED <<name, savedKey, origin, dragging, templates, saving, host, draft,
                 opened, trimmed, dropped, edits>>

-----------------------------------------------------------------------------
(* Drags.  The pointer may be taken away without a pointerup: the drag then *)
(* goes on, and the next press begins another with the first one's origin.  *)

PointerDown ==
  /\ Happens
  /\ dragging' = TRUE
  /\ origin' = IF origin = None THEN doc ELSE origin
  /\ UNCHANGED <<document, past, future, templates, saving, host, kept, history, edits>>

\* gestureEdit
Drag ==
  /\ dragging
  /\ \/ edits < MaxEdits /\ edits' = edits + 1 /\ doc' = [doc EXCEPT !.edit = edits']
     \/ origin # None /\ doc' = [doc EXCEPT !.edit = origin.edit] /\ UNCHANGED edits
  /\ timer' = TRUE
  /\ UNCHANGED <<name, savedKey, steps, templates, saving, host, draft, history, events>>

\* endGesture: a drag that comes back to where it began is no step.
PointerUpCurrent ==
  /\ dragging
  /\ dragging' = FALSE /\ origin' = None
  /\ IF origin \notin {None, doc} THEN Push(doc) ELSE UNCHANGED <<past, future, trimmed>>
  /\ UNCHANGED <<document, templates, saving, host, kept, opened, disturbed, dropped,
                 edits, events>>

PointerUp ==
  /\ dragging
  /\ dragging' = FALSE /\ origin' = None
  /\ IF origin \notin {None, doc} THEN Push(origin) ELSE UNCHANGED <<past, future, trimmed>>
  /\ UNCHANGED <<document, templates, saving, host, kept, opened, disturbed, dropped,
                 edits, events>>

\* Escape
CancelDrag ==
  /\ dragging
  /\ dragging' = FALSE /\ origin' = None
  /\ IF origin # None THEN doc' = origin /\ timer' = TRUE ELSE UNCHANGED <<doc, timer>>
  /\ UNCHANGED <<name, savedKey, past, future, templates, saving, host, draft, history,
                 edits, events>>

\* The viewport is taken away in a drag: the origin stays.
CloseViewport ==
  /\ dragging
  /\ Happens
  /\ dragging' = FALSE
  /\ UNCHANGED <<document, past, future, origin, templates, saving, host, kept, history,
                 edits>>

-----------------------------------------------------------------------------
(* Documents and the host. *)

\* replace: another document, normalized, and a fresh history.
Replace(n, d, key) ==
  /\ doc' = NormalForm(d) /\ name' = n /\ savedKey' = key
  /\ past' = <<>> /\ future' = <<>> /\ origin' = None
  /\ opened' = IF dragging' THEN None ELSE NormalForm(d)
  /\ trimmed' = FALSE /\ disturbed' = FALSE
  /\ timer' = TRUE

Rename(n) ==
  /\ n # name
  /\ Happens
  /\ name' = n /\ timer' = TRUE
  /\ UNCHANGED <<doc, savedKey, steps, templates, saving, host, draft, history, edits>>

\* The user agrees to lose what is not saved.
StartNew(n) ==
  /\ stored[n] = None
  /\ Happens
  /\ UNCHANGED dragging
  /\ Replace(n, Blank, None)
  /\ UNCHANGED <<templates, saving, host, draft, dropped, edits>>

Ask(kind, n, d, agreed) ==
  /\ asked < MaxRequests /\ asked' = asked + 1
  /\ requests' = requests \cup
       {[id |-> asked, kind |-> kind, name |-> n, doc |-> d, handled |-> FALSE,
         alive |-> TRUE, agreed |-> agreed]}

Save ==
  /\ ~ saving
  /\ saving' = TRUE
  /\ Ask("save", name, doc, None)
  /\ UNCHANGED <<document, steps, templates, stored, wasStored, kept, history, edits,
                 events>>

Open(n) ==
  /\ stored[n] # None
  /\ Ask("load", n, None, doc)
  /\ UNCHANGED <<document, steps, templates, saving, stored, wasStored, kept, history,
                 edits, events>>

\* The file tab is left: what it knew of a save goes with it.
LeaveFileTab ==
  /\ saving
  /\ saving' = FALSE
  /\ UNCHANGED <<document, steps, templates, host, kept, history, edits, events>>

\* The host handles a request; the build a save starts ends on its own.
Handled(r, d) == (requests \ {r}) \cup {[r EXCEPT !.handled = TRUE, !.doc = d]}

Handle(r) ==
  /\ ~ r.handled
  /\ \/ /\ r.kind = "save"
        /\ stored' = [stored EXCEPT ![r.name] = r.doc]
        /\ wasStored' = wasStored \cup {Document(r.name, r.doc)}
        /\ requests' = IF r.alive THEN Handled(r, r.doc) ELSE requests \ {r}
     \/ /\ r.kind = "load"
        /\ requests' = Handled(r, stored[r.name])
        /\ UNCHANGED <<stored, wasStored>>
  /\ UNCHANGED <<document, steps, templates, saving, asked, kept, history, edits, events>>

\* A box.json is written by another hand, or was by an older program.
WriteFile(n) ==
  /\ edits < MaxEdits /\ edits' = edits + 1
  /\ Happens
  /\ stored' = [stored EXCEPT ![n] = Written(edits')]
  /\ wasStored' = wasStored \cup {Document(n, Written(edits'))}
  /\ UNCHANGED <<document, steps, templates, saving, requests, asked, kept, history>>

\* markSaved, with what was sent.
MarkedNow(r) == savedKey' = Document(name, doc)
Marked(r) == savedKey' = Document(r.name, NormalForm(r.doc))

SaveAnsweredQuietly(r) ==
  /\ r.kind = "save" /\ r.handled /\ r.alive
  /\ requests' = requests \ {r}
  /\ Marked(r)
  /\ saving' = FALSE
  /\ UNCHANGED <<doc, name, steps, templates, stored, wasStored, asked, kept, history,
                 edits, events>>

SaveAnswered(r) ==
  /\ r.kind = "save" /\ r.handled /\ r.alive
  /\ requests' = requests \ {r}
  /\ Marked(r)
  /\ saving' = FALSE /\ timer' = TRUE
  /\ UNCHANGED <<doc, name, steps, templates, stored, wasStored, asked, draft, history,
                 edits, events>>

\* Another host may say in its answer that it changed the document
\* (ui/adapter.js:9-10); this one returns the file as it is and says nothing.
Changed(r) == FALSE

LoadAnswered(r) ==
  /\ r.kind = "load" /\ r.handled /\ r.alive
  /\ requests' = requests \ {r}
  /\ dropped' = (dropped \/ (Dirty /\ doc # r.agreed))
  /\ UNCHANGED dragging
  /\ Replace(r.name, r.doc, IF Changed(r) THEN None ELSE Document(r.name, NormalForm(r.doc)))
  /\ UNCHANGED <<templates, saving, stored, wasStored, asked, draft, edits,
                 events>>

\* A request or its answer is lost, or the page that made it is gone.
Lost(r) ==
  /\ requests' = requests \ {r}
  /\ saving' = IF r.kind = "save" /\ r.alive THEN FALSE ELSE saving
  /\ UNCHANGED <<document, steps, templates, stored, wasStored, asked, kept, history,
                 edits, events>>

-----------------------------------------------------------------------------
(* The draft in local storage. *)

WriteDraft ==
  /\ timer
  /\ timer' = FALSE /\ draft' = Draft
  /\ UNCHANGED <<document, steps, templates, saving, host, history, edits, events>>

\* The page is loaded anew from the draft; a save the host has may still arrive.
Reload ==
  /\ Happens
  /\ dragging' = FALSE /\ saving' = FALSE
  /\ Replace(draft.name, draft.doc, draft.savedKey)
  /\ requests' = {[r EXCEPT !.alive = FALSE] :
                    r \in {q \in requests : q.kind = "save" /\ ~ q.handled}}
  /\ UNCHANGED <<templates, stored, wasStored, asked, draft, dropped, edits>>

Next ==
  \/ Change \/ Sync \/ Publish \/ FetchPresets \/ Undo \/ Redo
  \/ PointerDown \/ Drag \/ PointerUp \/ CancelDrag \/ CloseViewport
  \/ \E n \in Names : Rename(n) \/ StartNew(n) \/ Open(n) \/ WriteFile(n)
  \/ Save \/ LeaveFileTab
  \/ \E r \in requests : Handle(r) \/ SaveAnswered(r) \/ LoadAnswered(r) \/ Lost(r)
  \/ WriteDraft \/ Reload

\* The browser fires the draft's timer; nobody has to do anything else.
Spec == Init /\ [][Next]_vars /\ WF_vars(WriteDraft)

-----------------------------------------------------------------------------
(* Properties. *)

Requests ==
  [id : 0..MaxRequests, kind : {"save", "load"}, name : Names, doc : Documents \cup {None},
   handled : BOOLEAN, alive : BOOLEAN, agreed : Shown \cup {None}]

\* The state is well typed, and undoing and redoing in any order never keeps
\* more than HISTORY_LIMIT documents, although redo itself trims nothing
\* (useBoxBuilder.js:107-111, 154-174).
EditorTypeOK ==
  /\ doc \in Shown /\ name \in Names /\ savedKey \in Keys \cup {None}
  /\ past \in Seq(Shown) /\ future \in Seq(Shown)
  /\ Len(past) + Len(future) <= HistoryLimit
  /\ origin \in Shown \cup {None} /\ dragging \in BOOLEAN /\ saving \in BOOLEAN
  /\ presets \in 0..published /\ published \in 0..MaxPresets
  /\ requests \subseteq Requests
  /\ stored \in [Names -> Documents \cup {None}]
  /\ draft \in [name : Names, doc : Documents, savedKey : Keys \cup {None}]
  /\ timer \in BOOLEAN

\* While the history is left alone during drags, undoing to the end gives the
\* document that was opened: a drag is one step, whatever frames it took, and
\* no step is lost short of the limit (useBoxBuilder.js:126-152).
Current == IF origin = None THEN doc ELSE origin
UndoReachesOpened ==
  disturbed \/ trimmed \/ opened = None \/ Head(Append(past, Current)) = opened

\* A box shown as saved is one the host has held under that name, or the normal
\* form of one, whatever was typed while the save was under way
\* (BoxBuilderSheet.js:1570-1606, useBoxBuilder.js:177-191).
CleanWasStored ==
  ~ Dirty => \E key \in wasStored : key.name = name /\ NormalForm(key.doc) = doc

\* The draft follows the box (useBoxBuilder.js:193-196).
DraftFollows == []<>(draft = Draft)

\* "A drag is one undo step however many frames it takes"
\* (useBoxBuilder.js:126): also when Ctrl+Z is pressed in the drag.
DragIsOneStep ==
  trimmed \/ opened = None \/ origin # None \/ Head(Append(past, doc)) = opened

\* "whether it matches what was last saved" (useBoxBuilder.js:67), as long as
\* nobody else writes the file.
CleanMeansStored ==
  ~ Dirty => stored[name] = doc \/ \E e \in 0..MaxEdits : stored[name] = Written(e)

\* "A host that had to change the document while reading it opens it as unsaved"
\* (BoxBuilderSheet.js:1602): what is shown as saved is what the host has held.
CleanWasHeld == ~ Dirty => Document(name, doc) \in wasStored

\* The host is asked to confirm "before unsaved changes are dropped"
\* (ui/adapter.js:25-26).
DroppedOnlyIfAgreed == ~ dropped

\* An undo is not undone: what Ctrl+Z brings back stays until the next action
\* ("One undoable change", useBoxBuilder.js:113).
UndoStays == [][Sync => future = <<>>]_vars
=============================================================================
