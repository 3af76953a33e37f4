-------------------------- MODULE BoxBuilderProofs --------------------------
(***************************************************************************)
(* Theorems about the box builder.  BoxEditor's are for any history limit  *)
(* and any number of edits, drags, requests and reloads; BoxBoards' for    *)
(* any templates, dimensions and number of operations.                     *)
(***************************************************************************)
EXTENDS BoxEditor, BoxBoards, SequenceTheorems, FiniteSetTheorems, WellFoundedInduction, TLAPS

\* The type of the state, in parts.
DocumentsOK ==
  /\ doc \in Shown /\ name \in Names /\ savedKey \in Keys \cup {None}
  /\ origin \in Shown \cup {None} /\ opened \in Shown \cup {None}
  /\ draft \in [name : Names, doc : Documents, savedKey : Keys \cup {None}]
  /\ presets \in 0..published /\ published \in 0..MaxPresets
  /\ edits \in 0..MaxEdits

StepsOK ==
  /\ past \in Seq(Shown) /\ future \in Seq(Shown)
  /\ Len(past) + Len(future) <= HistoryLimit

\* What is asked of the host has a document, and what it is asked for exists.
HostOK ==
  /\ asked \in 0..MaxRequests
  /\ stored \in [Names -> Documents \cup {None}]
  /\ requests \subseteq Requests
  /\ \A r \in requests :
       /\ r.kind = "save" => r.doc # None
       /\ r.kind = "load" => stored[r.name] # None
       /\ r.handled => r.doc # None

FlagsOK == dragging \in BOOLEAN /\ saving \in BOOLEAN /\ timer \in BOOLEAN

TypeIInv == DocumentsOK /\ StepsOK /\ HostOK /\ FlagsOK

\* A drag has an origin unless the document arrived during it.
DragHasOrigin == dragging /\ opened # None => origin # None

HistoryIInv == TypeIInv /\ DragHasOrigin /\ UndoReachesOpened

\* Every key is that of something the host has held, or of its normal form; what
\* the host has, and what it answered, it has held.
Held(key) ==
  \E k \in wasStored : k.name = key.name /\ NormalForm(k.doc) = NormalForm(key.doc)
KeysWereStored ==
  /\ savedKey # None => Held(savedKey)
  /\ draft.savedKey # None => Held(draft.savedKey)
  /\ \A n \in Names : stored[n] # None => Document(n, stored[n]) \in wasStored
  /\ \A r \in requests : r.handled => Document(r.name, r.doc) \in wasStored

StoredIInv == TypeIInv /\ KeysWereStored

-----------------------------------------------------------------------------
(* Sequences. *)

\* A push keeps the length under the limit and, below it, the first document.
LEMMA PushProperties ==
    ASSUME NEW S, NEW s \in Seq(S), NEW x \in S, NEW n \in Nat, n >= 2, Len(s) <= n
    PROVE  LET t == Append(IF Len(s) < n THEN s ELSE Tail(s), x)
           IN  /\ t \in Seq(S) /\ Len(t) <= n
               /\ Len(s) < n => \A y : Head(Append(t, y)) = Head(Append(s, x))
<1> DEFINE u == IF Len(s) < n THEN s ELSE Tail(s)
<1>1. u \in Seq(S) /\ Len(u) <= n - 1
  <2>1. CASE Len(s) < n
    BY <2>1, LenProperties
  <2>2. CASE ~(Len(s) < n)
    BY <2>2, LenProperties, HeadTailProperties
  <2>3. QED
    BY <2>1, <2>2
<1>2. Append(u, x) \in Seq(S) /\ Len(Append(u, x)) <= n
  BY <1>1, AppendProperties, LenProperties
<1>3. ASSUME Len(s) < n, NEW y PROVE Head(Append(Append(u, x), y)) = Head(Append(s, x))
  BY <1>3, SMT
<1>4. QED
  BY <1>2, <1>3

\* Taking the last document off and putting it back changes nothing.
LEMMA PopProperties ==
    ASSUME NEW S, NEW s \in Seq(S), s # <<>>
    PROVE  /\ Front(s) \in Seq(S) /\ Last(s) \in S
           /\ Len(Front(s)) = Len(s) - 1 /\ Len(s) >= 1
           /\ Append(Front(s), Last(s)) = s
<1> DEFINE n == Len(s) - 1
           f == SubSeq(s, 1, n)
<1>1. Len(s) \in Nat /\ Len(s) >= 1 /\ n \in Nat /\ n + 1 = Len(s)
  BY LenProperties, EmptySeq
<1>2. \A k \in 1..Len(s) : s[k] \in S
  BY ElementOfSeq
<1>3. f \in Seq(S) /\ Len(f) = n /\ \A k \in 1..n : f[k] = s[k]
  <2>1. 1 \in Int /\ n \in Int
    BY <1>1
  <2>2. \A k \in 1..n : s[k] \in S
    BY <1>1, <1>2
  <2> HIDE DEF n
  <2>3. /\ f \in Seq(S)
        /\ Len(f) = IF 1 <= n THEN n - 1 + 1 ELSE 0
        /\ \A k \in 1..(n - 1 + 1) : f[k] = s[1 + k - 1]
    BY <2>1, <2>2, SubSeqProperties
  <2> HIDE DEF f
  <2>4. QED
    BY <1>1, <2>3
<1>4. Front(s) = f
  BY DEF Front
<1>5. Last(s) \in S
  BY <1>1, <1>2 DEF Last
<1> HIDE DEF f, n
<1>6. Append(f, Last(s)) = s
  <2>1. /\ Append(f, Last(s)) \in Seq(S)
        /\ Len(Append(f, Last(s))) = n + 1
        /\ \A k \in 1..n : Append(f, Last(s))[k] = f[k]
        /\ Append(f, Last(s))[n + 1] = Last(s)
    BY <1>1, <1>3, <1>5, AppendProperties
  <2>2. \A k \in 1..Len(s) : Append(f, Last(s))[k] = s[k]
    BY <1>1, <1>3, <2>1 DEF Last
  <2>3. QED
    BY <1>1, <2>1, <2>2, SeqEqual
<1>7. QED
  BY <1>1, <1>3, <1>4, <1>5, <1>6 DEF n

\* What a history leads back to is its first document.
LEMMA HeadOfAppend ==
    ASSUME NEW S, NEW s \in Seq(S), NEW x
    PROVE  /\ s # <<>> => Head(Append(s, x)) = Head(s)
           /\ s = <<>> => Head(Append(s, x)) = x
           /\ \A y : Head(Append(Append(s, x), y)) = Head(Append(s, x))
  BY SMT

-----------------------------------------------------------------------------
(* Types. *)

LEMMA BlankIsADocument == Blank \in Documents /\ Blank \in Shown
  BY EditorAssumption DEF Blank, Documents, Own, Shown

\* What the page works with are documents, and not None.
LEMMA ShownIs ==
    ASSUME NEW d \in Shown
    PROVE  d \in Documents /\ d # None /\ NormalForm(d) = d
<1>1. d \in Documents /\ ~ d.raw
  BY DEF Shown
<1>2. NormalForm(d) = d
  BY <1>1, Zenon DEF NormalForm, Documents
<1>3. QED
  BY <1>1, <1>2, NoneAssumption

\* What is read is normalized, once and for all.
LEMMA NormalFormIs ==
    ASSUME NEW d \in Documents
    PROVE  NormalForm(d) \in Shown /\ NormalForm(NormalForm(d)) = NormalForm(d)
  BY Zenon DEF NormalForm, Documents, Shown

\* What another hand, or an older program, wrote.
LEMMA WrittenIsADocument ==
    ASSUME NEW e \in 0..MaxEdits
    PROVE  Written(e) \in Documents /\ Written(e) # None
<1>1. Written(e) \in Documents
  BY EditorAssumption DEF Written, Documents, Own
<1>2. QED
  BY <1>1, NoneAssumption

LEMMA OldKeyIs == OldKey \in Keys /\ OldKey.doc \in Documents /\ OldKey.name = DefaultName
<1>1. Written(0) \in Documents /\ DefaultName \in Names
  BY EditorAssumption, WrittenIsADocument
<1>2. QED
  BY <1>1 DEF OldKey, Document, Keys

LEMMA DocumentIsAKey ==
    ASSUME NEW n \in Names, NEW d \in Documents
    PROVE  Document(n, d) \in Keys
  BY DEF Document, Keys

LEMMA TypeInit == Init => TypeIInv
<1> SUFFICES ASSUME Init PROVE TypeIInv
  OBVIOUS
<1>1. /\ Blank \in Documents /\ Blank \in Shown /\ DefaultName \in Names
      /\ OldKey \in Keys /\ OldKey.doc \in Documents
  BY BlankIsADocument, OldKeyIs, EditorAssumption
<1>2. DocumentsOK
  <2>1. savedKey \in Keys \cup {None}
    BY <1>1 DEF Init
  <2>2. draft \in [name : Names, doc : Documents, savedKey : Keys \cup {None}]
    BY <1>1, <2>1 DEF Init
  <2>3. QED
    BY <1>1, <2>1, <2>2, EditorAssumption DEF Init, DocumentsOK
<1>3. StepsOK
  BY EmptySeq, EditorAssumption DEF Init, StepsOK
<1>4. HostOK
  BY <1>1, EditorAssumption DEF Init, HostOK
<1>5. FlagsOK
  BY Zenon DEF Init, FlagsOK
<1>6. QED
  BY <1>2, <1>3, <1>4, <1>5 DEF TypeIInv

\* The actions, one by one.
LEMMA StepCases ==
    ASSUME [Next]_vars
    PROVE  \/ Change \/ Sync \/ Publish \/ FetchPresets \/ Undo \/ Redo
           \/ PointerDown \/ Drag \/ PointerUp \/ CancelDrag \/ CloseViewport
           \/ (\E n \in Names : Rename(n)) \/ (\E n \in Names : StartNew(n))
           \/ (\E n \in Names : Open(n)) \/ (\E n \in Names : WriteFile(n))
           \/ Save \/ LeaveFileTab
           \/ (\E r \in requests : Handle(r)) \/ (\E r \in requests : SaveAnswered(r))
           \/ (\E r \in requests : LoadAnswered(r)) \/ (\E r \in requests : Lost(r))
           \/ WriteDraft \/ Reload \/ UNCHANGED vars
  BY Zenon DEF Next

LEMMA FlagsStep == TypeIInv /\ [Next]_vars => FlagsOK'
<1> SUFFICES ASSUME FlagsOK, [Next]_vars PROVE FlagsOK'
  BY DEF TypeIInv
<1> USE DEF FlagsOK
<1>1. CASE Change
  BY <1>1, Zenon DEF Change, Edit
<1>2. CASE Sync
  BY <1>2, Zenon DEF Sync, Edit
<1>3. CASE Publish \/ FetchPresets
  BY <1>3, Zenon DEF Publish, FetchPresets, steps, kept
<1>4. CASE Undo \/ Redo
  BY <1>4, Zenon DEF Undo, Redo
<1>5. CASE PointerDown \/ Drag \/ CloseViewport
  BY <1>5, Zenon DEF PointerDown, Drag, CloseViewport, steps, kept
<1>6. CASE PointerUp
  BY <1>6, Zenon DEF PointerUp, kept
<1>7. CASE CancelDrag
  BY <1>7, Zenon DEF CancelDrag
<1>8. CASE \E n \in Names : Rename(n) \/ StartNew(n) \/ Open(n) \/ WriteFile(n)
  BY <1>8, Zenon DEF Rename, StartNew, Open, WriteFile, Replace, steps, kept
<1>9. CASE Save \/ LeaveFileTab
  BY <1>9, Zenon DEF Save, LeaveFileTab, steps, kept
<1>10. CASE \E r \in requests : Handle(r) \/ SaveAnswered(r)
  BY <1>10, Zenon DEF Handle, SaveAnswered, steps, kept
<1>11. CASE \E r \in requests : LoadAnswered(r)
  BY <1>11, Zenon DEF LoadAnswered, Replace
<1>12. CASE \E r \in requests : Lost(r)
  <2>1. PICK r \in requests : Lost(r)
    BY <1>12
  <2>2. saving' \in BOOLEAN
    BY <2>1, Zenon DEF Lost
  <2>3. QED
    BY <2>1, <2>2, Zenon DEF Lost, steps, kept
<1>13. CASE WriteDraft \/ Reload \/ UNCHANGED vars
  BY <1>13, Zenon DEF WriteDraft, Reload, Replace, vars, steps, kept
<1>14. QED
  BY StepCases, <1>1, <1>2, <1>3, <1>4, <1>5, <1>6, <1>7, <1>8, <1>9, <1>10, <1>11,
     <1>12, <1>13, Zenon

LEMMA DocumentsStep == TypeIInv /\ [Next]_vars => DocumentsOK'
<1> SUFFICES ASSUME DocumentsOK, StepsOK, HostOK, [Next]_vars PROVE DocumentsOK'
  BY DEF TypeIInv
<1> USE DEF DocumentsOK
<1>0. doc.tpl \in Own..MaxPresets /\ doc.edit \in 0..MaxEdits /\ presets \in Own..MaxPresets
  BY EditorAssumption, ShownIs DEF Documents, Own
<1>00. doc \in [edit : 0..MaxEdits, tpl : Own..MaxPresets, raw : BOOLEAN] /\ ~ doc.raw
  BY DEF Shown, Documents
<1>1. CASE Change
  <2>1. PICK t \in {doc.tpl, Own, presets} : Edit([edit |-> edits', tpl |-> t, raw |-> FALSE])
    BY <1>1 DEF Change
  <2>2. edits' \in 0..MaxEdits /\ t \in Own..MaxPresets
    BY <1>0, <1>1, EditorAssumption DEF Change, Own
  <2>3. [edit |-> edits', tpl |-> t, raw |-> FALSE] \in Shown
    BY <2>2 DEF Documents, Shown
  <2>4. QED
    BY <1>1, <2>1, <2>2, <2>3 DEF Change, Edit, templates
<1>2. CASE Sync
  <2>1. [doc EXCEPT !.tpl = presets] \in Shown
    BY <1>0, <1>00 DEF Documents, Shown
  <2>2. QED
    BY <1>2, <2>1 DEF Sync, Edit, templates
<1>3. CASE Publish
  BY <1>3, EditorAssumption DEF Publish, document, steps, kept, history
<1>4. CASE FetchPresets
  BY <1>4 DEF FetchPresets, document, steps, kept, history
<1>5. CASE Undo
  <2>1. past \in Seq(Shown) /\ past # <<>>
    BY <1>5 DEF Undo, StepsOK
  <2>2. Last(past) \in Shown
    BY <2>1, PopProperties
  <2>3. QED
    BY <1>5, <2>2 DEF Undo, templates
<1>6. CASE Redo
  <2>1. future \in Seq(Shown) /\ future # <<>>
    BY <1>6 DEF Redo, StepsOK
  <2>2. Last(future) \in Shown
    BY <2>1, PopProperties
  <2>3. QED
    BY <1>6, <2>2 DEF Redo, templates
<1>7. CASE PointerDown \/ CloseViewport
  BY <1>7 DEF PointerDown, CloseViewport, document, templates, kept, history
<1>8. CASE Drag
  <2>1. \A e \in 0..MaxEdits : [doc EXCEPT !.edit = e] \in Shown
    BY <1>00 DEF Documents, Shown
  <2>2. edits' \in 0..MaxEdits
    BY <1>8, EditorAssumption DEF Drag
  <2>3. origin # None => origin.edit \in 0..MaxEdits
    BY DEF Documents, Shown
  <2>4. doc' \in Shown
    BY <1>8, <2>1, <2>2, <2>3 DEF Drag
  <2>5. QED
    BY <1>8, <2>2, <2>4 DEF Drag, steps, templates, history
<1>9. CASE PointerUp
  BY <1>9 DEF PointerUp, document, templates, kept
<1>10. CASE CancelDrag
  BY <1>10 DEF CancelDrag, templates, history
<1>11. CASE \E n \in Names : Rename(n) \/ Open(n)
  BY <1>11 DEF Rename, Open, document, steps, templates, kept, history
<1>12. CASE \E n \in Names : StartNew(n)
  <2>1. NormalForm(Blank) = Blank /\ Blank \in Shown
    BY BlankIsADocument, ShownIs
  <2>2. QED
    BY <1>12, <2>1 DEF StartNew, Replace, templates
<1>20. CASE \E n \in Names : WriteFile(n)
  <2>1. edits' \in 0..MaxEdits
    BY <1>20, EditorAssumption DEF WriteFile
  <2>2. QED
    BY <1>20, <2>1 DEF WriteFile, document, steps, templates, kept, history
<1>13. CASE Save \/ LeaveFileTab \/ (\E r \in requests : Handle(r) \/ Lost(r))
  BY <1>13 DEF Save, LeaveFileTab, Handle, Lost, document, steps, templates, kept, history
<1>14. CASE \E r \in requests : SaveAnswered(r)
  <2>1. PICK r \in requests : SaveAnswered(r)
    BY <1>14
  <2>2. r.name \in Names /\ NormalForm(r.doc) \in Documents
    BY <2>1, NormalFormIs, ShownIs DEF HostOK, Requests, SaveAnswered
  <2>3. savedKey' \in Keys
    BY <2>1, <2>2, DocumentIsAKey DEF SaveAnswered, Marked
  <2>4. QED
    BY <2>1, <2>3 DEF SaveAnswered, steps, templates, history
<1>15. CASE \E r \in requests : LoadAnswered(r)
  <2>1. PICK r \in requests : LoadAnswered(r)
    BY <1>15
  <2>2. r.name \in Names /\ NormalForm(r.doc) \in Shown /\ NormalForm(r.doc) \in Documents
    BY <2>1, NormalFormIs, ShownIs DEF HostOK, Requests, LoadAnswered
  <2>3. savedKey' \in Keys
    BY <2>1, <2>2, DocumentIsAKey DEF LoadAnswered, Replace, Changed
  <2>4. QED
    BY <2>1, <2>2, <2>3 DEF LoadAnswered, Replace, templates
<1>16. CASE WriteDraft
  BY <1>16, ShownIs DEF WriteDraft, Draft, document, steps, templates, history
<1>17. CASE Reload
  <2>1. NormalForm(draft.doc) \in Shown
    BY NormalFormIs
  <2>2. QED
    BY <1>17, <2>1 DEF Reload, Replace, templates
<1>18. CASE UNCHANGED vars
  BY <1>18 DEF vars, document, steps, templates, kept, history
<1>19. QED
  BY StepCases, <1>1, <1>2, <1>3, <1>4, <1>5, <1>6, <1>7, <1>8, <1>9, <1>10, <1>11,
     <1>12, <1>13, <1>14, <1>15, <1>16, <1>17, <1>18, <1>20, Zenon

LEMMA StepsStep == TypeIInv /\ [Next]_vars => StepsOK'
<1> SUFFICES ASSUME DocumentsOK, StepsOK, [Next]_vars PROVE StepsOK'
  BY DEF TypeIInv
<1>0. /\ past \in Seq(Shown) /\ future \in Seq(Shown)
      /\ Len(past) \in Nat /\ Len(future) \in Nat /\ Len(past) + Len(future) <= HistoryLimit
      /\ HistoryLimit \in Nat /\ HistoryLimit >= 2
  BY LenProperties, EditorAssumption DEF StepsOK
<1>1. ASSUME NEW x \in Shown, Push(x) PROVE StepsOK'
  <2>1. past' \in Seq(Shown) /\ Len(past') <= HistoryLimit /\ future' = <<>>
    BY <1>0, <1>1, PushProperties DEF Push
  <2>2. future' \in Seq(Shown) /\ Len(future') = 0 /\ Len(past') \in Nat
    BY <2>1, EmptySeq, LenProperties
  <2>3. QED
    BY <1>0, <2>1, <2>2 DEF StepsOK
<1>2. ASSUME UNCHANGED <<past, future>> PROVE StepsOK'
  BY <1>2 DEF StepsOK
<1>3. ASSUME past' = <<>>, future' = <<>> PROVE StepsOK'
  BY <1>3, <1>0, EmptySeq DEF StepsOK
<1>4. CASE Change \/ Sync
  BY <1>1, <1>4 DEF Change, Sync, Edit, DocumentsOK
<1>5. CASE Undo
  <2>1. /\ Front(past) \in Seq(Shown) /\ Len(Front(past)) = Len(past) - 1
        /\ Append(future, doc) \in Seq(Shown) /\ Len(Append(future, doc)) = Len(future) + 1
    BY <1>0, <1>5, PopProperties, AppendProperties DEF Undo, DocumentsOK
  <2>2. QED
    BY <1>0, <1>5, <2>1 DEF Undo, StepsOK
<1>6. CASE Redo
  <2>1. /\ Front(future) \in Seq(Shown) /\ Len(Front(future)) = Len(future) - 1
        /\ Append(past, doc) \in Seq(Shown) /\ Len(Append(past, doc)) = Len(past) + 1
    BY <1>0, <1>6, PopProperties, AppendProperties DEF Redo, DocumentsOK
  <2>2. QED
    BY <1>0, <1>6, <2>1 DEF Redo, StepsOK
<1>7. CASE PointerUp
  BY <1>1, <1>2, <1>7 DEF PointerUp, DocumentsOK
<1>8. CASE Publish \/ FetchPresets \/ PointerDown \/ Drag \/ CancelDrag \/ CloseViewport
  BY <1>2, <1>8 DEF Publish, FetchPresets, PointerDown, Drag, CancelDrag, CloseViewport, steps
<1>9. CASE \/ Save \/ LeaveFileTab \/ WriteDraft \/ UNCHANGED vars
           \/ \E n \in Names : Rename(n) \/ Open(n) \/ WriteFile(n)
           \/ \E r \in requests : Handle(r) \/ SaveAnswered(r) \/ Lost(r)
  BY <1>2, <1>9 DEF Save, LeaveFileTab, WriteDraft, vars, Rename, Open, WriteFile, Handle,
                    SaveAnswered, Lost, steps
<1>10. CASE Reload \/ (\E n \in Names : StartNew(n)) \/ \E r \in requests : LoadAnswered(r)
  BY <1>3, <1>10 DEF Reload, StartNew, LoadAnswered, Replace
<1>11. QED
  BY StepCases, <1>4, <1>5, <1>6, <1>7, <1>8, <1>9, <1>10, Zenon

\* Marking a request changes only what it says it does.
LEMMA RequestChanged ==
    ASSUME NEW r \in Requests
    PROVE  /\ \A d \in Documents \cup {None} :
                LET q == [r EXCEPT !.handled = TRUE, !.doc = d]
                IN  /\ q \in Requests /\ q.handled = TRUE /\ q.doc = d
                    /\ q.kind = r.kind /\ q.name = r.name
           /\ LET q == [r EXCEPT !.alive = FALSE]
              IN  /\ q \in Requests /\ q.handled = r.handled /\ q.doc = r.doc
                  /\ q.kind = r.kind /\ q.name = r.name
  BY Zenon DEF Requests

LEMMA HostStep == TypeIInv /\ [Next]_vars => HostOK'
<1> SUFFICES ASSUME DocumentsOK, HostOK, [Next]_vars PROVE HostOK'
  BY DEF TypeIInv
<1>0. asked \in 0..MaxRequests /\ stored \in [Names -> Documents \cup {None}]
  BY DEF HostOK
<1>1. \A r \in requests :
        /\ r \in Requests /\ r.name \in Names /\ r.doc \in Documents \cup {None}
        /\ r.kind = "save" => r.doc # None
        /\ r.kind = "load" => stored[r.name] # None
        /\ r.handled => r.doc # None
  BY DEF HostOK, Requests
\* Fewer requests of the same host.
<1>2. ASSUME UNCHANGED <<stored, asked>>, requests' \subseteq requests PROVE HostOK'
  BY <1>0, <1>1, <1>2 DEF HostOK
<1>3. ASSUME NEW kind \in {"save", "load"}, NEW n \in Names, NEW d \in Documents \cup {None},
             NEW agreed \in Shown \cup {None}, Ask(kind, n, d, agreed), stored' = stored,
             kind = "save" => d # None, kind = "load" => stored[n] # None
      PROVE HostOK'
  <2> DEFINE q == [id |-> asked, kind |-> kind, name |-> n, doc |-> d, handled |-> FALSE,
                   alive |-> TRUE, agreed |-> agreed]
  <2>1. asked' \in 0..MaxRequests
    BY <1>0, <1>3, EditorAssumption DEF Ask
  <2>2. q \in Requests
    BY <1>0 DEF Requests
  <2>3. q.handled = FALSE /\ q.doc = d /\ q.kind = kind /\ q.name = n
    OBVIOUS
  <2>4. requests' = requests \cup {q}
    BY <1>3 DEF Ask
  <2> HIDE DEF q
  <2>5. QED
    BY <1>0, <1>1, <1>3, <2>1, <2>2, <2>3, <2>4 DEF HostOK
<1>4. CASE \/ Change \/ Sync \/ Publish \/ FetchPresets \/ Undo \/ Redo \/ PointerDown
           \/ Drag \/ PointerUp \/ CancelDrag \/ CloseViewport \/ LeaveFileTab
           \/ WriteDraft \/ UNCHANGED vars \/ \E n \in Names : Rename(n) \/ StartNew(n)
  BY <1>2, <1>4 DEF Change, Sync, Publish, FetchPresets, Undo, Redo, PointerDown, Drag,
                    PointerUp, CancelDrag, CloseViewport, LeaveFileTab, WriteDraft, vars,
                    Rename, StartNew, host
<1>5. CASE \/ \E r \in requests : SaveAnswered(r) \/ LoadAnswered(r) \/ Lost(r)
  BY <1>2, <1>5 DEF SaveAnswered, LoadAnswered, Lost
<1>6. CASE Save
  <2>1. doc \in Documents /\ doc # None /\ name \in Names
    BY ShownIs DEF DocumentsOK
  <2>2. Ask("save", name, doc, None) /\ stored' = stored
    BY <1>6 DEF Save
  <2>3. QED
    BY <1>3, <2>1, <2>2
<1>7. CASE \E n \in Names : Open(n)
  <2>1. PICK n \in Names : Open(n)
    BY <1>7
  <2>2. Ask("load", n, None, doc) /\ stored' = stored /\ stored[n] # None
    BY <2>1 DEF Open
  <2>3. QED
    BY <1>3, <2>2 DEF DocumentsOK
<1>11. CASE \E n \in Names : WriteFile(n)
  <2>1. PICK n \in Names : WriteFile(n)
    BY <1>11
  <2>2. edits' \in 0..MaxEdits
    BY <2>1, EditorAssumption DEF WriteFile, DocumentsOK
  <2>3. UNCHANGED <<requests, asked>> /\ stored' = [stored EXCEPT ![n] = Written(edits')]
    BY <2>1 DEF WriteFile
  <2>4. Written(edits') \in Documents /\ Written(edits') # None
    BY <2>2, WrittenIsADocument
  <2>5. /\ stored' \in [Names -> Documents \cup {None}]
        /\ \A m \in Names : stored[m] # None => stored'[m] # None
    BY <1>0, <2>3, <2>4
  <2>6. QED
    BY <1>0, <1>1, <2>3, <2>5 DEF HostOK
<1>8. CASE \E r \in requests : Handle(r)
  <2>1. PICK r \in requests : Handle(r)
    BY <1>8
  <2>2. asked' = asked
    BY <2>1 DEF Handle
  <2>3. ASSUME NEW d \in Documents, requests' \subseteq Handled(r, d),
               stored' \in [Names -> Documents \cup {None}],
               \A n \in Names : stored[n] # None => stored'[n] # None
        PROVE HostOK'
    <3> DEFINE q == [r EXCEPT !.handled = TRUE, !.doc = d]
    <3>1. /\ q \in Requests /\ q.handled = TRUE /\ q.doc = d
          /\ q.kind = r.kind /\ q.name = r.name
      BY <1>1, RequestChanged
    <3>2. requests' \subseteq requests \cup {q}
      BY <2>3 DEF Handled
    <3>3. d # None
      BY NoneAssumption
    <3> HIDE DEF q
    <3>4. \A p \in requests' :
            /\ p \in Requests
            /\ p.kind = "save" => p.doc # None
            /\ p.kind = "load" => stored'[p.name] # None
            /\ p.handled => p.doc # None
      BY <1>1, <2>3, <3>1, <3>2, <3>3
    <3>5. QED
      BY <1>0, <2>2, <2>3, <3>4 DEF HostOK
  <2>4. CASE r.kind = "save"
    <3>1. r.doc \in Documents
      BY <1>1, <2>4
    <3>2. stored' = [stored EXCEPT ![r.name] = r.doc]
      BY <2>1, <2>4 DEF Handle
    <3>3. /\ stored' \in [Names -> Documents \cup {None}]
          /\ \A n \in Names : stored[n] # None => stored'[n] # None
      BY <1>0, <3>1, <3>2, NoneAssumption
    <3>4. requests' \subseteq Handled(r, r.doc)
      BY <2>1, <2>4, Zenon DEF Handle, Handled
    <3>5. QED
      BY <2>3, <3>1, <3>3, <3>4
  <2>5. CASE r.kind = "load"
    <3>1. stored' = stored /\ requests' = Handled(r, stored[r.name])
      BY <2>1, <2>5 DEF Handle
    <3>2. stored[r.name] \in Documents
      BY <1>0, <1>1, <2>5
    <3>3. QED
      BY <1>0, <2>3, <3>1, <3>2
  <2>6. QED
    BY <2>1, <2>4, <2>5 DEF Handle
<1>9. CASE Reload
  <2>1. UNCHANGED <<stored, asked>>
    BY <1>9 DEF Reload
  <2>2. \A q \in requests' : \E r \in requests : q = [r EXCEPT !.alive = FALSE]
    BY <1>9, Zenon DEF Reload
  <2>3. ASSUME NEW q \in requests'
        PROVE  /\ q \in Requests
               /\ q.kind = "save" => q.doc # None
               /\ q.kind = "load" => stored[q.name] # None
               /\ q.handled => q.doc # None
    <3>1. PICK r \in requests : q = [r EXCEPT !.alive = FALSE]
      BY <2>2
    <3>2. /\ q \in Requests /\ q.handled = r.handled /\ q.doc = r.doc
          /\ q.kind = r.kind /\ q.name = r.name
      BY <1>1, <3>1, RequestChanged
    <3>3. QED
      BY <1>1, <3>2, Zenon
  <2>4. QED
    BY <1>0, <2>1, <2>3 DEF HostOK
<1>10. QED
  BY StepCases, <1>4, <1>5, <1>6, <1>7, <1>8, <1>9, <1>11, Zenon

\* The type invariant is kept.
LEMMA TypeStep == TypeIInv /\ [Next]_vars => TypeIInv'
  BY DocumentsStep, StepsStep, HostStep, FlagsStep, Zenon DEF TypeIInv

LEMMA TypeInvariant == Spec => []TypeIInv
  BY TypeInit, TypeStep, PTL DEF Spec

\* The state is well typed and the history keeps to its limit, however long the
\* session (useBoxBuilder.js:107-174).
THEOREM EditorTyped == Spec => []EditorTypeOK
<1>1. TypeIInv => EditorTypeOK
  BY Zenon DEF TypeIInv, DocumentsOK, StepsOK, HostOK, FlagsOK, EditorTypeOK
<1>2. QED
  BY <1>1, TypeInvariant, PTL

-----------------------------------------------------------------------------
(* The history. *)

\* An untrimmed push leads back to where the history with what was pushed led.
LEMMA PushLeadsBack ==
    ASSUME StepsOK, NEW x \in Shown, Push(x), ~trimmed'
    PROVE  ~trimmed /\ \A y : Head(Append(past', y)) = Head(Append(past, x))
<1>1. ~trimmed /\ ~(Len(past) >= HistoryLimit)
  BY Zenon DEF Push
<1>2. /\ past \in Seq(Shown) /\ Len(past) \in Nat /\ Len(past) < HistoryLimit
      /\ HistoryLimit \in Nat /\ HistoryLimit >= 2
  BY <1>1, LenProperties, EditorAssumption DEF StepsOK
<1>3. past' = Append(past, x)
  BY <1>2 DEF Push
<1>4. \A y : Head(Append(past', y)) = Head(Append(past, x))
  BY <1>2, <1>3, HeadOfAppend
<1>5. QED
  BY <1>1, <1>4

LEMMA OriginStep == HistoryIInv /\ [Next]_vars => DragHasOrigin'
<1> SUFFICES ASSUME DocumentsOK, DragHasOrigin, [Next]_vars PROVE DragHasOrigin'
  BY DEF HistoryIInv, TypeIInv
<1> USE DEF DragHasOrigin
<1>1. ASSUME UNCHANGED <<dragging, opened, origin>> PROVE DragHasOrigin'
  BY <1>1
<1>2. ASSUME NEW n, NEW d, NEW key, Replace(n, d, key) PROVE DragHasOrigin'
  BY <1>2, Zenon DEF Replace
<1>3. ASSUME ~dragging' PROVE DragHasOrigin'
  BY <1>3
<1>4. CASE \/ Change \/ Sync \/ Publish \/ FetchPresets \/ Undo \/ Redo \/ Drag \/ Save
           \/ LeaveFileTab \/ WriteDraft \/ UNCHANGED vars
           \/ \E n \in Names : Rename(n) \/ Open(n) \/ WriteFile(n)
           \/ \E r \in requests : Handle(r) \/ SaveAnswered(r) \/ Lost(r)
  BY <1>1, <1>4, Zenon DEF Change, Sync, Edit, Publish, FetchPresets, Undo, Redo, Drag, Save,
     LeaveFileTab, WriteDraft, vars, Rename, Open, WriteFile, Handle, SaveAnswered, Lost,
     steps, history
<1>5. CASE PointerUp \/ CancelDrag \/ CloseViewport
  BY <1>3, <1>5, Zenon DEF PointerUp, CancelDrag, CloseViewport
<1>6. CASE PointerDown
  BY <1>6, ShownIs, Zenon DEF PointerDown, DocumentsOK
<1>7. CASE Reload \/ (\E n \in Names : StartNew(n)) \/ \E r \in requests : LoadAnswered(r)
  BY <1>2, <1>7, Zenon DEF Reload, StartNew, LoadAnswered
<1>8. QED
  BY StepCases, <1>4, <1>5, <1>6, <1>7, Zenon

LEMMA UndoStep == HistoryIInv /\ [Next]_vars => UndoReachesOpened'
<1> SUFFICES ASSUME DocumentsOK, StepsOK, DragHasOrigin, UndoReachesOpened, [Next]_vars,
                    ~disturbed', ~trimmed', opened' # None
             PROVE  Head(Append(past', Current')) = opened'
  BY Zenon DEF HistoryIInv, TypeIInv, UndoReachesOpened
<1>0. past \in Seq(Shown) /\ doc # None /\ doc \in Shown
  BY ShownIs DEF DocumentsOK, StepsOK
\* What the invariant says of a step that keeps the history's account.
<1>1. ASSUME ~disturbed, ~trimmed, opened' = opened
      PROVE Head(Append(past, Current)) = opened'
  BY <1>1, Zenon DEF UndoReachesOpened
<1>2. ASSUME UNCHANGED <<past, opened, disturbed, trimmed>>, Current' = Current
      PROVE Head(Append(past', Current')) = opened'
  <2>1. ~disturbed /\ ~trimmed
    BY <1>2, Zenon
  <2>2. QED
    BY <1>1, <1>2, <2>1
<1>3. ASSUME Edit(doc'), opened' = opened PROVE Head(Append(past', Current')) = opened'
  <2>1. ~disturbed /\ origin = None /\ origin' = None
    BY <1>3, Zenon DEF Edit, Disturbs
  <2>2. ~trimmed /\ \A y : Head(Append(past', y)) = Head(Append(past, doc))
    BY <1>0, <1>3, PushLeadsBack DEF Edit
  <2>3. QED
    BY <1>1, <1>3, <2>1, <2>2 DEF Current
<1>4. CASE Change \/ Sync
  BY <1>3, <1>4 DEF Change, Sync, Edit
<1>5. CASE Undo
  <2>1. ~disturbed /\ origin = None /\ origin' = None /\ ~trimmed /\ opened' = opened
    BY <1>5, Zenon DEF Undo, Disturbs
  <2>2. past # <<>> /\ past' = Front(past) /\ doc' = Last(past)
    BY <1>5 DEF Undo
  <2>3. Append(past', doc') = past
    BY <1>0, <2>2, PopProperties
  <2>4. Head(Append(past, doc)) = Head(past)
    BY <1>0, <2>2, HeadOfAppend
  <2>5. QED
    BY <1>1, <2>1, <2>3, <2>4 DEF Current
<1>6. CASE Redo
  <2>1. ~disturbed /\ origin = None /\ origin' = None /\ ~trimmed /\ opened' = opened
    BY <1>6, Zenon DEF Redo, Disturbs
  <2>2. past' = Append(past, doc)
    BY <1>6 DEF Redo
  <2>3. Head(Append(past', doc')) = Head(Append(past, doc))
    BY <1>0, <2>2, HeadOfAppend
  <2>4. QED
    BY <1>1, <2>1, <2>3 DEF Current
<1>7. CASE PointerDown
  <2>1. Current' = Current
    BY <1>0, <1>7 DEF PointerDown, document, Current
  <2>2. QED
    BY <1>2, <1>7, <2>1, Zenon DEF PointerDown, history
<1>8. CASE Drag
  <2>1. opened # None /\ dragging
    BY <1>8, Zenon DEF Drag, history
  <2>2. Current' = Current
    BY <1>8, <2>1 DEF Drag, steps, Current, DragHasOrigin
  <2>3. QED
    BY <1>2, <1>8, <2>2, Zenon DEF Drag, steps, history
<1>9. CASE PointerUp
  <2>1. /\ opened' = opened /\ dragging /\ ~disturbed /\ origin' = None /\ doc' = doc
        /\ IF origin \notin {None, doc} THEN Push(origin) ELSE UNCHANGED <<past, future, trimmed>>
    BY <1>9, Zenon DEF PointerUp, document
  <2>2. origin # None /\ origin \in Shown
    BY <2>1, Zenon DEF DragHasOrigin, DocumentsOK
  <2>3. CASE origin # doc
    <3>1. Push(origin)
      BY <2>1, <2>2, <2>3
    <3>2. ~trimmed /\ \A y : Head(Append(past', y)) = Head(Append(past, origin))
      BY <2>2, <3>1, PushLeadsBack
    <3>3. QED
      BY <1>1, <2>1, <2>2, <3>2 DEF Current
  <2>4. CASE origin = doc
    <3>1. UNCHANGED <<past, opened, disturbed, trimmed>>
      BY <1>9, <2>4, Zenon DEF PointerUp
    <3>2. QED
      BY <1>2, <2>1, <2>2, <2>4, <3>1 DEF Current
  <2>5. QED
    BY <2>3, <2>4
<1>10. CASE CancelDrag
  <2>1. opened # None /\ dragging
    BY <1>10, Zenon DEF CancelDrag, history
  <2>2. Current' = Current
    BY <1>10, <2>1 DEF CancelDrag, Current, DragHasOrigin
  <2>3. QED
    BY <1>2, <1>10, <2>2, Zenon DEF CancelDrag, history
<1>11. CASE \/ Publish \/ FetchPresets \/ CloseViewport \/ Save \/ LeaveFileTab
            \/ WriteDraft \/ UNCHANGED vars
            \/ \E n \in Names : Rename(n) \/ Open(n) \/ WriteFile(n)
            \/ \E r \in requests : Handle(r) \/ SaveAnswered(r) \/ Lost(r)
  <2>1. UNCHANGED <<doc, origin, past, opened, disturbed, trimmed>>
    BY <1>11, Zenon DEF Publish, FetchPresets, CloseViewport, Save, LeaveFileTab, WriteDraft,
       vars, Rename, Open, WriteFile, Handle, SaveAnswered, Lost, document, steps, history
  <2>2. QED
    BY <1>2, <2>1, Zenon DEF Current
<1>12. CASE Reload \/ (\E n \in Names : StartNew(n)) \/ \E r \in requests : LoadAnswered(r)
  <2>1. PICK n, d, key : Replace(n, d, key)
    BY <1>12, Zenon DEF Reload, StartNew, LoadAnswered
  <2>2. past' = <<>> /\ origin' = None /\ doc' = opened'
    BY <2>1, Zenon DEF Replace
  <2>3. QED
    BY <2>2, HeadOfAppend, EmptySeq DEF Current
<1>13. QED
  BY StepCases, <1>4, <1>5, <1>6, <1>7, <1>8, <1>9, <1>10, <1>11, <1>12, Zenon

\* Undoing to the end gives the document that was opened, for any limit, any
\* number of changes and drags and any order of answers, as long as nothing
\* touched the history in a drag (useBoxBuilder.js:126-152).
THEOREM UndoReaches == Spec => []UndoReachesOpened
<1>1. Init => HistoryIInv
  <2>1. Init => DragHasOrigin
    BY Zenon DEF Init, DragHasOrigin
  <2>2. Init => Head(Append(past, Current)) = opened
    BY HeadOfAppend, EmptySeq DEF Init, Current
  <2>3. QED
    BY <2>1, <2>2, TypeInit, Zenon DEF HistoryIInv, UndoReachesOpened
<1>2. HistoryIInv /\ [Next]_vars => HistoryIInv'
  BY TypeStep, OriginStep, UndoStep, Zenon DEF HistoryIInv
<1>3. HistoryIInv => UndoReachesOpened
  BY Zenon DEF HistoryIInv
<1>4. QED
  BY <1>1, <1>2, <1>3, PTL DEF Spec

-----------------------------------------------------------------------------
(* What the host has held. *)

LEMMA KeysStep == StoredIInv /\ [Next]_vars => KeysWereStored'
<1> SUFFICES ASSUME DocumentsOK, HostOK, KeysWereStored, [Next]_vars PROVE KeysWereStored'
  BY Zenon DEF StoredIInv, TypeIInv
<1> USE DEF KeysWereStored
<1>1. \A r \in requests :
        /\ r \in Requests /\ r.name \in Names /\ r.doc \in Documents \cup {None}
        /\ r.kind = "load" => stored[r.name] # None
        /\ r.handled => r.doc # None
  BY DEF HostOK, Requests
\* A step that leaves the host alone and takes its key from what is known.
<1>2. ASSUME UNCHANGED <<stored, wasStored>>, requests' \subseteq requests,
             savedKey' \in {None, savedKey} \/ Held(savedKey'),
             draft' = draft \/ draft'.savedKey = savedKey
      PROVE KeysWereStored'
  BY <1>2 DEF Held
<1>3. CASE \/ Change \/ Sync \/ Publish \/ FetchPresets \/ Undo \/ Redo \/ PointerDown
           \/ Drag \/ PointerUp \/ CancelDrag \/ CloseViewport \/ LeaveFileTab
           \/ UNCHANGED vars
           \/ \E n \in Names : Rename(n) \/ StartNew(n)
  BY <1>2, <1>3 DEF Change, Sync, Edit, Publish, FetchPresets, Undo, Redo, PointerDown, Drag,
     PointerUp, CancelDrag, CloseViewport, LeaveFileTab, vars, Rename, StartNew, Replace,
     document, steps, host, kept, history
<1>4. CASE WriteDraft
  BY <1>2, <1>4 DEF WriteDraft, Draft, document, host
<1>5. CASE \E r \in requests : Lost(r)
  BY <1>2, <1>5 DEF Lost, document, kept
<1>6. CASE \E r \in requests : SaveAnswered(r) \/ LoadAnswered(r)
  <2>1. PICK r \in requests : SaveAnswered(r) \/ LoadAnswered(r)
    BY <1>6
  <2>2. r.handled /\ UNCHANGED <<stored, wasStored, draft>>
    BY <2>1, Zenon DEF SaveAnswered, LoadAnswered
  <2>3. savedKey' = Document(r.name, NormalForm(r.doc)) /\ requests' \subseteq requests
    BY <2>1 DEF SaveAnswered, LoadAnswered, Marked, Replace, Changed
  <2>4. Document(r.name, r.doc) \in wasStored /\ r.doc \in Documents
    BY <1>1, <2>2
  <2>5. NormalForm(NormalForm(r.doc)) = NormalForm(r.doc)
    BY <2>4, NormalFormIs
  <2>6. Held(savedKey')
    BY <2>3, <2>4, <2>5, Zenon DEF Held, Document
  <2>7. QED
    BY <1>2, <2>2, <2>3, <2>6
<1>7. CASE Save \/ \E n \in Names : Open(n)
  <2>1. PICK kind, n, d, agreed : Ask(kind, n, d, agreed)
    BY <1>7, Zenon DEF Save, Open
  <2>2. UNCHANGED <<stored, wasStored, savedKey, draft>>
    BY <1>7, Zenon DEF Save, Open, document, kept
  <2>3. \A q \in requests' : q \in requests \/ q.handled = FALSE
    BY <2>1 DEF Ask
  <2>4. QED
    BY <2>2, <2>3 DEF Held
<1>11. CASE \E n \in Names : WriteFile(n)
  <2>1. PICK n \in Names : WriteFile(n)
    BY <1>11
  <2>2. /\ UNCHANGED <<savedKey, draft, requests>>
        /\ stored' = [stored EXCEPT ![n] = Written(edits')]
        /\ wasStored' = wasStored \cup {Document(n, Written(edits'))}
    BY <2>1, Zenon DEF WriteFile, document, kept
  <2>3. \A m \in Names : stored'[m] # None => Document(m, stored'[m]) \in wasStored'
    BY <2>2 DEF HostOK
  <2>4. QED
    BY <2>2, <2>3 DEF Held
<1>8. CASE \E r \in requests : Handle(r)
  <2>1. PICK r \in requests : Handle(r)
    BY <1>8
  <2>2. UNCHANGED <<savedKey, draft>>
    BY <2>1, Zenon DEF Handle, document, kept
  <2>3. ASSUME NEW d \in Documents, requests' \subseteq Handled(r, d),
               wasStored \subseteq wasStored', Document(r.name, d) \in wasStored',
               \A n \in Names : stored'[n] # None => Document(n, stored'[n]) \in wasStored'
        PROVE KeysWereStored'
    <3> DEFINE q == [r EXCEPT !.handled = TRUE, !.doc = d]
    <3>1. q.doc = d /\ q.name = r.name
      BY <1>1, RequestChanged
    <3>2. requests' \subseteq requests \cup {q}
      BY <2>3 DEF Handled
    <3> HIDE DEF q
    <3>3. \A p \in requests' : p.handled => Document(p.name, p.doc) \in wasStored'
      BY <2>3, <3>1, <3>2
    <3>4. QED
      BY <2>2, <2>3, <3>3 DEF Held
  <2>4. CASE r.kind = "save"
    <3>1. r.doc \in Documents
      BY <1>1, <2>1, <2>4 DEF HostOK
    <3>2. /\ stored' = [stored EXCEPT ![r.name] = r.doc]
          /\ wasStored' = wasStored \cup {Document(r.name, r.doc)}
      BY <2>1, <2>4 DEF Handle
    <3>3. \A n \in Names : stored'[n] # None => Document(n, stored'[n]) \in wasStored'
      BY <1>1, <3>2 DEF HostOK
    <3>4. requests' \subseteq Handled(r, r.doc)
      BY <2>1, <2>4, Zenon DEF Handle, Handled
    <3>5. QED
      BY <2>3, <3>1, <3>2, <3>3, <3>4
  <2>5. CASE r.kind = "load"
    <3>1. UNCHANGED <<stored, wasStored>> /\ requests' = Handled(r, stored[r.name])
      BY <2>1, <2>5 DEF Handle
    <3>2. stored[r.name] \in Documents /\ Document(r.name, stored[r.name]) \in wasStored
      BY <1>1, <2>5 DEF HostOK
    <3>3. QED
      BY <2>3, <3>1, <3>2
  <2>6. QED
    BY <2>1, <2>4, <2>5 DEF Handle
<1>9. CASE Reload
  <2>1. UNCHANGED <<stored, wasStored, draft>> /\ savedKey' = draft.savedKey
    BY <1>9, Zenon DEF Reload, Replace
  <2>2. \A q \in requests' : \E r \in requests : q = [r EXCEPT !.alive = FALSE] /\ ~r.handled
    BY <1>9, Zenon DEF Reload
  <2>3. ASSUME NEW q \in requests' PROVE ~q.handled
    <3>1. PICK r \in requests : q = [r EXCEPT !.alive = FALSE] /\ ~r.handled
      BY <2>2
    <3>2. q.handled = r.handled
      BY <1>1, <3>1, RequestChanged
    <3>3. QED
      BY <3>1, <3>2, Zenon
  <2>4. QED
    BY <2>1, <2>3 DEF Held
<1>10. QED
  BY StepCases, <1>3, <1>4, <1>5, <1>6, <1>7, <1>8, <1>9, <1>11, Zenon

\* A box shown as saved is one the host has held under that name, or the normal
\* form of one, whatever order saves are handled and answered in, whoever writes
\* the file, and also after a draft an older program kept
\* (BoxBuilderSheet.js:1570-1606, useBoxBuilder.js:31-42).
THEOREM CleanStored == Spec => []CleanWasStored
<1>1. Init => StoredIInv
  <2>1. ASSUME Init PROVE KeysWereStored
    <3>1. CASE OldDraft
      <4>1. /\ savedKey = OldKey /\ wasStored = {OldKey} /\ requests = {}
            /\ draft.savedKey = OldKey
            /\ stored = [n \in Names |-> IF n = DefaultName THEN OldKey.doc ELSE None]
        BY <2>1, <3>1 DEF Init
      <4>2. OldKey = Document(DefaultName, OldKey.doc)
        BY DEF OldKey, Document
      <4>3. QED
        BY <4>1, <4>2 DEF KeysWereStored, Held
    <3>2. CASE ~ OldDraft
      BY <2>1, <3>2 DEF Init, KeysWereStored
    <3>3. QED
      BY <3>1, <3>2
  <2>2. QED
    BY <2>1, TypeInit, Zenon DEF StoredIInv
<1>2. StoredIInv /\ [Next]_vars => StoredIInv'
  BY TypeStep, KeysStep, Zenon DEF StoredIInv
<1>3. StoredIInv => CleanWasStored
  <2>1. ASSUME DocumentsOK, KeysWereStored, ~ Dirty
        PROVE  \E key \in wasStored : key.name = name /\ NormalForm(key.doc) = doc
    <3>1. doc \in Documents /\ NormalForm(doc) = doc /\ name \in Names
      BY <2>1, ShownIs DEF DocumentsOK
    <3>2. Document(name, doc) # None
      BY <3>1, DocumentIsAKey, NoneAssumption
    <3>3. Held(Document(name, doc))
      BY <2>1, <3>2, Zenon DEF KeysWereStored, Dirty
    <3>4. QED
      BY <3>1, <3>3 DEF Held, Document
  <2>2. QED
    BY <2>1, Zenon DEF StoredIInv, TypeIInv, CleanWasStored
<1>4. QED
  BY <1>1, <1>2, <1>3, PTL DEF Spec

-----------------------------------------------------------------------------
(* Boards in the box                                                        *)

Boxes == [width : Even, depth : Even, height : Int, walls : BOOLEAN, corner : Int]
Boards ==
  [width : Even, length : Even, holes : SUBSET Holes, ports : SUBSET Ports, rail : Int,
   clampOffset : Int, clearance : Nat, clamp : BOOLEAN, rotation : Rotations,
   flipped : BOOLEAN, mounted : BOOLEAN, x : Int, y : Int]

(* Numbers *)

LEMMA Constants ==
  /\ MaxSide \in Even /\ MinSide \in Even /\ MaxBoard \in Even
  /\ MaxSide \in Nat /\ MinSide \in Nat /\ MaxBoard \in Nat /\ MinSide <= MaxBoard
  /\ WallGap \in Nat /\ Reach \in Nat /\ Radius \in Nat /\ PortHeight \in Nat
  /\ PortWidth \in Even /\ RailThickness \in Even /\ PortWidth \in Nat /\ RailThickness \in Nat
  /\ Thickness \in Nat /\ Parts \in Nat /\ Post \in Nat /\ ClampTop \in Nat
  /\ Headroom \in Nat /\ Lip \in Nat /\ Wall \in Nat
  /\ Radius > 0 /\ PortWidth > 0
  /\ Grain \in Even /\ Tenth \in Even /\ HalfMm \in Even
  /\ Grain \in Nat /\ Tenth \in Nat /\ HalfMm \in Nat
  /\ Grain > 0 /\ Tenth > 0 /\ HalfMm > 0
  /\ 5 * Grain <= WallGap /\ WallGap + 2 * Grain <= Reach /\ Corners \subseteq Nat
  /\ Sides \subseteq Even /\ BoxSides \subseteq Even
  /\ Sides \subseteq 0..MaxBoard /\ BoxSides \subseteq 0..MaxSide
  /\ Places \subseteq Nat /\ MaxOperations \in Nat
<1> USE BoardsAssumption
<1>1. {MaxSide, MinSide, MaxBoard, PortWidth, RailThickness, Grain, Tenth, HalfMm} \subseteq Even
  OBVIOUS
<1> QED BY <1>1

(* Halves of even numbers *)
LEMMA EvenIs ==
    ASSUME NEW n \in Int
    PROVE  n \in Even <=> \E k \in Int : n = 2 * k
BY DEF Even

LEMMA Halves ==
    ASSUME NEW k \in Int
    PROVE  2 * k \in Even /\ (2 * k) \div 2 = k
BY DEF Even

LEMMA EvenHalf ==
    ASSUME NEW n \in Even
    PROVE  n \in Int /\ n \div 2 \in Int /\ n = 2 * (n \div 2)
BY EvenIs, Halves DEF Even

LEMMA EvenSum ==
    ASSUME NEW m \in Even, NEW n \in Even
    PROVE  /\ m + n \in Even /\ m - n \in Even /\ -n \in Even
           /\ (m + n) \div 2 = (m \div 2) + (n \div 2)
           /\ (m - n) \div 2 = (m \div 2) - (n \div 2)
<1>1. PICK j \in Int : m = 2 * j
  BY EvenIs DEF Even
<1>2. PICK k \in Int : n = 2 * k
  BY EvenIs DEF Even
<1>3. m + n = 2 * (j + k) /\ m - n = 2 * (j - k) /\ -n = 2 * (-k)
  BY <1>1, <1>2
<1>4. m \div 2 = j /\ n \div 2 = k
  BY <1>1, <1>2, Halves
<1>5. j + k \in Int /\ j - k \in Int /\ -k \in Int
  OBVIOUS
<1> QED BY <1>3, <1>4, <1>5, Halves

(* Quotients, and rounding to and up to a multiple *)
LEMMA QuotientIs ==
    ASSUME NEW n \in Int, NEW g \in Nat, g > 0
    PROVE  /\ n \div g \in Int /\ g * (n \div g) \in Int
           /\ g * (n \div g) <= n /\ n < g * (n \div g) + g
           /\ n % g = n - g * (n \div g)
OBVIOUS

LEMMA QuotientOf ==
    ASSUME NEW n \in Int, NEW k \in Int, NEW g \in Nat, g > 0, g * k <= n, n < g * k + g
    PROVE  n \div g = k
OBVIOUS

LEMMA Multiples ==
    ASSUME NEW m \in Int, NEW n \in Int, NEW g \in Nat, g > 0, m % g = 0, n % g = 0
    PROVE  (m + n) % g = 0 /\ (m - n) % g = 0
<1>1. PICK j \in Int : m = g * j
  BY QuotientIs
<1>2. PICK k \in Int : n = g * k
  BY QuotientIs
<1>3. m + n = g * (j + k) /\ m - n = g * (j - k)
  BY <1>1, <1>2
<1>4. \A i \in Int : (g * i) % g = 0
  OBVIOUS
<1>5. j + k \in Int /\ j - k \in Int
  OBVIOUS
<1> QED BY <1>3, <1>4, <1>5

LEMMA RoundedIs ==
    ASSUME NEW n \in Int
    PROVE  /\ Rounded(n) \in Int
           /\ 2 * Rounded(n) <= 2 * n + Grain /\ 2 * n <= 2 * Rounded(n) + Grain
           /\ n % Grain = 0 => Rounded(n) = n
<1>1. /\ Grain \in Nat /\ Grain > 0 /\ Grain \div 2 \in Int /\ Grain = 2 * (Grain \div 2)
  BY Constants, EvenHalf
<1>2. PICK a \in Int : a = n + Grain \div 2
  BY <1>1
<1>3. PICK q \in Int : q = a \div Grain
  BY <1>1, QuotientIs
<1>4. Grain * q \in Int /\ Grain * q <= a /\ a < Grain * q + Grain
  BY <1>1, <1>3, QuotientIs
<1>5. Rounded(n) = Grain * q
  BY <1>2, <1>3 DEF Rounded
<1>6. ASSUME n % Grain = 0
      PROVE  Rounded(n) = n
  <2>1. PICK k \in Int : n = Grain * k
    BY <1>1, <1>6, QuotientIs
  <2>2. Grain * k <= a /\ a < Grain * k + Grain
    BY <1>1, <1>2, <2>1
  <2>3. a \div Grain = k
    BY <1>1, <2>2, QuotientOf
  <2> QED BY <1>3, <1>5, <2>1, <2>3
<1>7. 2 * Rounded(n) <= 2 * n + Grain /\ 2 * n <= 2 * Rounded(n) + Grain
  <2>1. PICK m \in Int : m = Grain * q
    BY <1>4
  <2> QED BY <1>1, <1>2, <1>4, <1>5, <2>1
<1> QED BY <1>4, <1>5, <1>6, <1>7

LEMMA FineIs ==
    ASSUME NEW n \in Int
    PROVE  Fine(n) \in {n, n + 1}
BY DEF Fine

LEMMA UpIs ==
    ASSUME NEW n \in Int, NEW step \in Even, step \in Nat, step > 0
    PROVE  Up(n, step) \in Even /\ Up(n, step) \in Int /\ Up(n, step) >= n
<1>1. PICK a \in Int : a = n + step - 1
  OBVIOUS
<1>2. PICK q \in Int : q = a \div step
  BY QuotientIs
<1>3. step * q \in Int /\ a < step * q + step
  BY <1>2, QuotientIs
<1>4. Up(n, step) = step * q
  BY <1>1, <1>2 DEF Up
<1>5. step * q \in Even
  <2>1. PICK k \in Int : step = 2 * k
    BY EvenIs DEF Even
  <2>2. step * q = 2 * (k * q) /\ k * q \in Int
    BY <2>1
  <2> QED BY <2>2, Halves
<1>6. step * q >= n
  <2>1. PICK m \in Int : m = step * q
    BY <1>3
  <2> QED BY <1>1, <1>3, <2>1
<1> QED BY <1>3, <1>4, <1>5, <1>6

(* An even number of thousandths: its half is whole too *)
LEMMA WholeIs ==
    ASSUME NEW side \in Int, Whole(side)
    PROVE  side % Grain = 0 /\ (side \div 2) % Grain = 0
<1>1. Grain \in Nat /\ Grain > 0 /\ 2 * Grain \in Nat /\ 2 * Grain > 0
  BY Constants
<1>2. PICK k \in Int : side = (2 * Grain) * k
  BY <1>1, QuotientIs DEF Whole
<1>3. PICK m \in Int : m = Grain * k
  BY <1>1
<1>4. side = 2 * m
  BY <1>1, <1>2, <1>3
<1>5. side \div 2 = m
  BY <1>4
<1>6. m % Grain = 0
  BY <1>1, <1>3
<1>7. (m + m) % Grain = 0
  BY <1>1, <1>6, Multiples
<1>8. m + m = side
  BY <1>4
<1> QED BY <1>5, <1>6, <1>7, <1>8

(* The largest and the smallest of two, and of finitely many *)
LEMMA MaxOfTwo ==
    ASSUME NEW a \in Int, NEW b \in Int
    PROVE  Max({a, b}) = IF a >= b THEN a ELSE b
<1>1. PICK m \in {a, b} : m = IF a >= b THEN a ELSE b
  OBVIOUS
<1>2. \A y \in {a, b} : m >= y
  BY <1>1
<1>3. \A c \in {a, b} : (\A y \in {a, b} : c >= y) => c = m
  BY <1>1
<1> QED BY <1>1, <1>2, <1>3 DEF Max

LEMMA MinOfTwo ==
    ASSUME NEW a \in Int, NEW b \in Int
    PROVE  Min({a, b}) = IF a <= b THEN a ELSE b
<1>1. PICK m \in {a, b} : m = IF a <= b THEN a ELSE b
  OBVIOUS
<1>2. \A y \in {a, b} : m <= y
  BY <1>1
<1>3. \A c \in {a, b} : (\A y \in {a, b} : c <= y) => c = m
  BY <1>1
<1> QED BY <1>1, <1>2, <1>3 DEF Min

LEMMA SmallestOf ==
    ASSUME NEW S \in SUBSET Nat, S # {}
    PROVE  \E n \in S : \A m \in S : n <= m
<1>1. PICK n \in S : \A m \in S : ~(<<m, n>> \in OpToRel(<, Nat))
  BY NatLessThanWellFounded, WFMin
<1>2. \A m \in S : ~(m < n)
  BY <1>1 DEF OpToRel
<1> QED BY <1>2

LEMMA MaxOfMany ==
    ASSUME NEW S \in SUBSET Int, S # {}, IsFiniteSet(S)
    PROVE  Max(S) \in S /\ \A y \in S : Max(S) >= y
<1> DEFINE Above(x) == {y \in S : y > x}
           sizes == {Cardinality(Above(x)) : x \in S}
<1>1. \A x \in S : IsFiniteSet(Above(x)) /\ Cardinality(Above(x)) \in Nat
  BY FS_Subset, FS_CardinalityType
<1>2. sizes \subseteq Nat /\ sizes # {}
  BY <1>1
<1> HIDE DEF sizes
<1>3. PICK n \in sizes : \A m \in sizes : n <= m
  BY <1>2, SmallestOf
<1>4. PICK x \in S : n = Cardinality(Above(x))
  BY DEF sizes
<1>5. ASSUME NEW y \in S, y > x
      PROVE  FALSE
  <2> x \in Int /\ y \in Int
    OBVIOUS
  <2>3. \A z \in S : z \in Int
    OBVIOUS
  <2>4. \A z \in S : z > y => z > x
    BY <1>5, <2>3
  <2>5. Above(y) \subseteq Above(x)
    BY <2>4
  <2>6. y \in Above(x) /\ y \notin Above(y)
    BY <1>5
  <2>2. Cardinality(Above(y)) < Cardinality(Above(x))
    BY <2>5, <2>6, <1>1, FS_Subset
  <2>7. Cardinality(Above(y)) \in sizes
    BY DEF sizes
  <2> QED BY <1>1, <1>2, <1>3, <1>4, <2>2, <2>7
<1>6. x \in S /\ \A y \in S : x >= y
  BY <1>5
<1> QED BY <1>6 DEF Max

LEMMA FiniteImage ==
    ASSUME NEW f, IsFiniteSet(DOMAIN f)
    PROVE  IsFiniteSet({f[s] : s \in DOMAIN f})
<1> DEFINE T == {f[s] : s \in DOMAIN f}
           g == [s \in DOMAIN f |-> f[s]]
<1>1. g \in Surjection(DOMAIN f, T)
  BY DEF Surjection
<1> QED BY <1>1, FS_Surjection

(* A clamped number lies between its bounds, and clamping does nothing to   *)
(* one that does                                                            *)
LEMMA ClampIs ==
    ASSUME NEW v \in Int, NEW low \in Int, NEW high \in Int
    PROVE  /\ Clamp(v, low, high) \in Int
           /\ low <= high => Clamp(v, low, high) \in low..high
           /\ v \in low..high => Clamp(v, low, high) = v
<1>1. Max({v, low}) = IF v >= low THEN v ELSE low
  BY MaxOfTwo
<1>2. Max({low, high}) = IF low >= high THEN low ELSE high
  BY MaxOfTwo
<1>3. Max({v, low}) \in Int /\ Max({low, high}) \in Int
  BY <1>1, <1>2
<1>4. Clamp(v, low, high) =
        IF Max({v, low}) <= Max({low, high}) THEN Max({v, low}) ELSE Max({low, high})
  BY <1>3, MinOfTwo DEF Clamp
<1> QED BY <1>1, <1>2, <1>4

LEMMA ClampFromZero ==
    ASSUME NEW v \in Int, NEW high \in Int
    PROVE  /\ Clamp(v, 0, high) \in Int
           /\ 0 <= high => Clamp(v, 0, high) \in 0..high
           /\ v \in 0..high => Clamp(v, 0, high) = v
<1>1. PICK zero \in Int : zero = 0
  OBVIOUS
<1>2. /\ Clamp(v, zero, high) \in Int
      /\ zero <= high => Clamp(v, zero, high) \in zero..high
      /\ v \in zero..high => Clamp(v, zero, high) = v
  BY ClampIs
<1> QED BY <1>1, <1>2

LEMMA CutIs ==
    ASSUME NEW side \in Even
    PROVE  /\ Cut(side) \in Even /\ Cut(side) \in MinSide..MaxBoard
           /\ side \in MinSide..MaxBoard => Cut(side) = side
<1>1. side \in Int /\ MinSide \in Int /\ MaxBoard \in Int /\ MinSide <= MaxBoard
  BY Constants DEF Even
<1>2. Max({side, MinSide}) = IF side >= MinSide THEN side ELSE MinSide
  BY <1>1, MaxOfTwo
<1>3. Max({MinSide, MaxBoard}) = MaxBoard
  BY <1>1, MaxOfTwo
<1>4. Max({side, MinSide}) \in Int
  BY <1>1, <1>2
<1>5. Cut(side) = IF Max({side, MinSide}) <= MaxBoard THEN Max({side, MinSide}) ELSE MaxBoard
  BY <1>1, <1>3, <1>4, MinOfTwo DEF Cut, Clamp
<1>6. Cut(side) \in {side, MinSide, MaxBoard}
  BY <1>2, <1>5
<1> QED BY <1>1, <1>2, <1>5, <1>6, Constants

LEMMA InsideIs ==
    ASSUME NEW v \in Int, NEW side \in Even
    PROVE  /\ Inside(v, side) \in Int
           /\ Inside(Inside(v, side), side) = Inside(v, side)
<1> DEFINE inset == Min({Radius, side \div 2})
<1>1. side \in Int /\ side \div 2 \in Int /\ side = 2 * (side \div 2)
  BY EvenHalf
<1>2. inset = IF Radius <= side \div 2 THEN Radius ELSE side \div 2
  BY <1>1, Constants, MinOfTwo
<1>3. inset \in Int /\ side - inset \in Int /\ inset <= side - inset
  BY <1>1, <1>2, Constants
<1>4. \A w : Inside(w, side) = Clamp(w, inset, side - inset)
  BY DEF Inside
<1> HIDE DEF inset
<1>5. Clamp(v, inset, side - inset) \in inset..(side - inset)
  BY <1>3, ClampIs
<1>6. ASSUME NEW w \in inset..(side - inset)
      PROVE  Clamp(w, inset, side - inset) = w
  BY <1>3, ClampIs
<1>7. Inside(v, side) \in inset..(side - inset)
  BY <1>4, <1>5
<1> QED BY <1>3, <1>4, <1>6, <1>7

(* A board placed in the box: all but its place is what it was              *)
Moved(b, c) ==
  /\ c \in Boards
  /\ c.width = b.width /\ c.length = b.length /\ c.holes = b.holes /\ c.ports = b.ports

LEMMA InnerIs ==
    ASSUME NEW bx \in Boxes
    PROVE  /\ Inner(bx)[1] = bx.width - (IF bx.walls THEN 2 * Wall ELSE 0)
           /\ Inner(bx)[2] = bx.depth - (IF bx.walls THEN 2 * Wall ELSE 0)
           /\ Inner(bx)[1] \in Even /\ Inner(bx)[2] \in Even
<1>1. bx.width \in Even /\ bx.depth \in Even /\ 0 \in Even /\ 2 * Wall \in Even
  BY Constants, Halves DEF Boxes, Even
<1>2. bx.width - 0 \in Even /\ bx.width - 2 * Wall \in Even
  BY <1>1, EvenSum
<1>3. bx.depth - 0 \in Even /\ bx.depth - 2 * Wall \in Even
  BY <1>1, EvenSum
<1> QED BY <1>2, <1>3 DEF Inner

LEMMA OutlineIs ==
    ASSUME NEW b \in Boards
    PROVE  /\ Outline(b)[1] \in Even /\ Outline(b)[2] \in Even
           /\ b.rotation % 180 = 0 =>
                /\ Outline(b)[1] >= b.width /\ Outline(b)[2] >= b.length
                /\ ~ b.clamp => Outline(b)[1] = b.width /\ Outline(b)[2] = b.length
           /\ b.rotation % 180 # 0 =>
                /\ Outline(b)[1] >= b.length /\ Outline(b)[2] >= b.width
                /\ ~ b.clamp => Outline(b)[1] = b.length /\ Outline(b)[2] = b.width
<1>1. b.width \in Even /\ b.length \in Even /\ 2 * Post \in Even /\ 0 \in Even
  BY Constants, Halves DEF Boards, Even
<1>2. b.width + 2 * Post \in Even /\ b.width + 0 \in Even
  BY <1>1, EvenSum
<1>3. b.length + 2 * Post \in Even /\ b.length + 0 \in Even
  BY <1>1, EvenSum
<1>4. b.width \in Int /\ b.length \in Int /\ 2 * Post >= 0
  BY <1>1, Constants DEF Even
<1> DEFINE reach == IF b.clamp THEN 2 * Post ELSE 0
           s == IF LongAxis(b) = "x" THEN <<b.width, b.length + reach>>
                                     ELSE <<b.width + reach, b.length>>
<1>5. /\ s[1] \in Even /\ s[2] \in Even /\ s[1] >= b.width /\ s[2] >= b.length
      /\ ~ b.clamp => s[1] = b.width /\ s[2] = b.length
  <2>1. /\ b.width + reach \in Even /\ b.length + reach \in Even
        /\ b.width + reach >= b.width /\ b.length + reach >= b.length
        /\ b.width >= b.width /\ b.length >= b.length
        /\ ~ b.clamp => b.width + reach = b.width /\ b.length + reach = b.length
    <3>1. CASE b.clamp
      <4>1. reach = 2 * Post
        BY <3>1
      <4> HIDE DEF reach
      <4> QED BY <1>2, <1>3, <1>4, <3>1, <4>1
    <3>2. CASE ~ b.clamp
      <4>1. reach = 0
        BY <3>2
      <4> HIDE DEF reach
      <4> QED BY <1>2, <1>3, <1>4, <3>2, <4>1
    <3> QED BY <3>1, <3>2
  <2> HIDE DEF reach
  <2>2. CASE LongAxis(b) = "x"
    <3>1. s = <<b.width, b.length + reach>>
      BY <2>2
    <3> QED BY <1>1, <2>1, <3>1
  <2>3. CASE LongAxis(b) # "x"
    <3>1. s = <<b.width + reach, b.length>>
      BY <2>3
    <3> QED BY <1>1, <2>1, <3>1
  <2> QED BY <2>2, <2>3
<1>6. Outline(b) = IF b.rotation % 180 = 0 THEN s ELSE <<s[2], s[1]>>
  BY DEF Outline
<1> HIDE DEF s
<1> QED BY <1>5, <1>6

LEMMA AtIs ==
    ASSUME NEW bx \in Boxes, NEW b \in Boards, NEW x \in Int, NEW y \in Int
    PROVE  LET c == At(bx, b, x, y)
               halfX == (Inner(bx)[1] - Outline(b)[1]) \div 2
               halfY == (Inner(bx)[2] - Outline(b)[2]) \div 2
           IN  /\ Moved(b, c)
               /\ c.rotation = b.rotation /\ c.flipped = b.flipped /\ c.clamp = b.clamp
               /\ c.clearance = b.clearance /\ c.mounted = b.mounted
               /\ c.rail = b.rail /\ c.clampOffset = b.clampOffset
               /\ x \in -halfX..halfX => c.x = Rounded(x)
               /\ y \in -halfY..halfY => c.y = Rounded(y)
<1> DEFINE half(i) == (Inner(bx)[i] - Outline(b)[i]) \div 2
           limit(i) == Max({half(i), 0})
<1>1. half(1) \in Int /\ half(2) \in Int
  <2>1. Inner(bx)[1] - Outline(b)[1] \in Even /\ Inner(bx)[2] - Outline(b)[2] \in Even
    BY InnerIs, OutlineIs, EvenSum
  <2> QED BY <2>1, EvenHalf
<1>2. At(bx, b, x, y) =
        [b EXCEPT !.x = Rounded(Clamp(x, -limit(1), limit(1))),
                  !.y = Rounded(Clamp(y, -limit(2), limit(2)))]
  BY DEF At
<1> HIDE DEF half
<1>3. /\ limit(1) = IF half(1) >= 0 THEN half(1) ELSE 0
      /\ limit(2) = IF half(2) >= 0 THEN half(2) ELSE 0
  BY <1>1, MaxOfTwo
<1>4. limit(1) \in Int /\ -limit(1) \in Int /\ limit(2) \in Int /\ -limit(2) \in Int
  BY <1>1, <1>3
<1> HIDE DEF limit
<1>5. /\ Rounded(Clamp(x, -limit(1), limit(1))) \in Int
      /\ Rounded(Clamp(y, -limit(2), limit(2))) \in Int
  <2>1. Clamp(x, -limit(1), limit(1)) \in Int
    BY <1>4, ClampIs
  <2>2. Clamp(y, -limit(2), limit(2)) \in Int
    BY <1>4, ClampIs
  <2> QED BY <2>1, <2>2, RoundedIs
<1>6. ASSUME x \in -half(1)..half(1)
      PROVE  Clamp(x, -limit(1), limit(1)) = x
  <2>1. x \in -limit(1)..limit(1)
    BY <1>1, <1>3, <1>6
  <2> QED BY <2>1, <1>4, ClampIs
<1>7. ASSUME y \in -half(2)..half(2)
      PROVE  Clamp(y, -limit(2), limit(2)) = y
  <2>1. y \in -limit(2)..limit(2)
    BY <1>1, <1>3, <1>7
  <2> QED BY <2>1, <1>4, ClampIs
<1>8. At(bx, b, x, y) \in Boards
  BY <1>2, <1>5 DEF Boards
<1> QED BY <1>2, <1>6, <1>7, <1>8 DEF Moved, Boards, half

LEMMA GapIs ==
    ASSUME NEW p \in Ports
    PROVE  /\ Gap(p) \in Int /\ Gap(p) >= WallGap /\ Gap(p) >= p.overhang - Wall
           /\ Gap(p) = WallGap \/ Gap(p) = p.overhang - Wall
<1>1. p.overhang - Wall \in Int /\ WallGap \in Int
  BY Constants DEF Ports
<1> QED BY <1>1, MaxOfTwo DEF Gap

LEMMA WallGapIs ==
    ASSUME NEW b \in Boards, IsFiniteSet(b.ports), NEW wall, PortsAt(b, wall) # {}
    PROVE  /\ WallGapAt(b, wall) \in Int /\ WallGapAt(b, wall) >= WallGap
           /\ \A p \in PortsAt(b, wall) : Gap(p) <= WallGapAt(b, wall)
           /\ \E p \in PortsAt(b, wall) : Gap(p) = WallGapAt(b, wall)
<1> DEFINE f == [p \in PortsAt(b, wall) |-> Gap(p)]
           gaps == {Gap(p) : p \in PortsAt(b, wall)}
<1>1. PortsAt(b, wall) \subseteq b.ports /\ b.ports \subseteq Ports
  BY DEF PortsAt, Boards
<1>2. IsFiniteSet(PortsAt(b, wall))
  BY <1>1, FS_Subset
<1>3. DOMAIN f = PortsAt(b, wall) /\ gaps = {f[p] : p \in DOMAIN f}
  OBVIOUS
<1>4. IsFiniteSet(gaps)
  <2> HIDE DEF f, gaps
  <2> QED BY <1>2, <1>3, FiniteImage
<1>5. gaps \in SUBSET Int /\ gaps # {}
  BY <1>1, GapIs
<1>6. Max(gaps) \in gaps /\ \A g \in gaps : Max(gaps) >= g
  <2> HIDE DEF gaps
  <2> QED BY <1>4, <1>5, MaxOfMany
<1>7. WallGapAt(b, wall) = Max(gaps)
  BY DEF WallGapAt
<1> QED BY <1>1, <1>5, <1>6, <1>7, GapIs

(* Where a board is placed: against the one wall its ports go through on    *)
(* an axis, and else where it was, or at the middle                         *)
Against(bx, b, wall, i) == InnerHalf(bx, wall) - WallGapAt(b, wall) - Outline(b)[i] \div 2
Beside(bx, b, low, high, i, current) ==
  IF PortsAt(b, low) = {} /\ PortsAt(b, high) # {} THEN Against(bx, b, high, i)
  ELSE IF PortsAt(b, low) # {} /\ PortsAt(b, high) = {} THEN -Against(bx, b, low, i)
  ELSE current

LEMMA PlacedIs ==
    ASSUME NEW bx, NEW b, NEW keep \in BOOLEAN
    PROVE  Placed(bx, b, keep) =
             At(bx, b, Beside(bx, b, "left", "right", 1, IF keep THEN b.x ELSE 0),
                       Beside(bx, b, "front", "back", 2, IF keep THEN b.y ELSE 0))
BY DEF Placed, Beside, Against

LEMMA BesideTyped ==
    ASSUME NEW bx \in Boxes, NEW b \in Boards, IsFiniteSet(b.ports), NEW i \in {1, 2},
           NEW low \in Edges, NEW high \in Edges, NEW current \in Int
    PROVE  Beside(bx, b, low, high, i, current) \in Int
<1>1. \A wall \in Edges : InnerHalf(bx, wall) \in Int
  BY InnerIs, EvenHalf DEF InnerHalf
<1>2. Outline(b)[i] \div 2 \in Int
  BY OutlineIs, EvenHalf
<1>3. ASSUME NEW wall \in Edges, PortsAt(b, wall) # {}
      PROVE  Against(bx, b, wall, i) \in Int
  BY <1>1, <1>2, <1>3, WallGapIs DEF Against
<1> QED BY <1>3 DEF Beside

LEMMA PlacedMoves ==
    ASSUME NEW bx \in Boxes, NEW b \in Boards, IsFiniteSet(b.ports), NEW keep \in BOOLEAN
    PROVE  LET c == Placed(bx, b, keep)
           IN  /\ Moved(b, c)
               /\ c.rotation = b.rotation /\ c.flipped = b.flipped /\ c.clamp = b.clamp
               /\ c.clearance = b.clearance
<1> DEFINE x == Beside(bx, b, "left", "right", 1, IF keep THEN b.x ELSE 0)
           y == Beside(bx, b, "front", "back", 2, IF keep THEN b.y ELSE 0)
<1>1. (IF keep THEN b.x ELSE 0) \in Int /\ (IF keep THEN b.y ELSE 0) \in Int
  BY DEF Boards
<1>2. x \in Int /\ y \in Int
  <2>1. x \in Int
    BY <1>1, BesideTyped DEF Edges
  <2>2. y \in Int
    BY <1>1, BesideTyped DEF Edges
  <2> QED BY <2>1, <2>2
<1>3. Placed(bx, b, keep) = At(bx, b, x, y)
  BY PlacedIs
<1> HIDE DEF x, y
<1> QED BY <1>2, <1>3, AtIs

LEMMA MountedMoves ==
    ASSUME NEW bx \in Boxes, NEW b \in Boards, IsFiniteSet(b.ports)
    PROVE  Moved(b, Mounted(bx, b))
<1> DEFINE turns == <<b.rotation, 0, 90, 270, 180>>
           fitting == {i \in 1..5 : Fits(bx, b, turns[i])}
           rotation == IF fitting = {} THEN b.rotation ELSE turns[Min(fitting)]
           c == [b EXCEPT !.rotation = rotation, !.mounted = TRUE]
<1>1. \A i \in 1..5 : turns[i] \in Rotations
  BY DEF Rotations, Boards
<1>2. fitting # {} => Min(fitting) \in fitting
  <2>1. SUFFICES ASSUME fitting # {}
                 PROVE  Min(fitting) \in fitting
    OBVIOUS
  <2>2. \E n \in fitting : \A m \in fitting : n <= m
    <3>1. fitting \subseteq Nat
      OBVIOUS
    <3> HIDE DEF fitting
    <3> QED BY <2>1, <3>1, SmallestOf
  <2> QED BY <2>2 DEF Min
<1>3. rotation \in Rotations
  BY <1>1, <1>2 DEF Boards
<1>4. Mounted(bx, b) = Placed(bx, c, FALSE)
  BY DEF Mounted
<1> HIDE DEF rotation
<1>5. /\ c \in Boards /\ c.width = b.width /\ c.length = b.length
      /\ c.holes = b.holes /\ c.ports = b.ports
  BY <1>3 DEF Boards
<1> HIDE DEF c
<1>6. Moved(c, Placed(bx, c, FALSE))
  BY <1>5, PlacedMoves
<1> QED BY <1>4, <1>5, <1>6 DEF Moved

(* Normalizing                                                              *)

BoardOK(b) == b \in Boards /\ IsFiniteSet(b.holes) /\ IsFiniteSet(b.ports)

(* A board on which normalizeBoard has nothing to put right                 *)
Settled(b) ==
  /\ BoardOK(b)
  /\ b.width \in MinSide..MaxBoard /\ b.length \in MinSide..MaxBoard
  /\ \A h \in b.holes : Inside(h.x, b.width) = h.x /\ Inside(h.y, b.length) = h.y
  /\ \A p \in b.ports : Clamp(p.offset, 0, EdgeLength(b, p.edge)) = p.offset

LEMMA MovedSettled ==
    ASSUME NEW b, NEW c, Settled(b), Moved(b, c)
    PROVE  Settled(c)
BY DEF Settled, Moved, BoardOK, EdgeLength

\* Where normalizeBoard puts a hole and a port.
HoleIn(h, w, l) == [h EXCEPT !.x = Inside(h.x, w), !.y = Inside(h.y, l)]
PortIn(p, w, l) ==
  [p EXCEPT !.offset = Clamp(p.offset, 0, IF p.edge \in {"front", "back"} THEN w ELSE l)]

LEMMA HoleInIs ==
    ASSUME NEW h \in Holes, NEW w \in Even, NEW l \in Even
    PROVE  LET g == HoleIn(h, w, l)
           IN  g \in Holes /\ Inside(g.x, w) = g.x /\ Inside(g.y, l) = g.y
<1>1. h.x \in Int /\ h.y \in Int
  BY DEF Holes
<1>2. Inside(h.x, w) \in Int /\ Inside(Inside(h.x, w), w) = Inside(h.x, w)
  BY <1>1, InsideIs
<1>3. Inside(h.y, l) \in Int /\ Inside(Inside(h.y, l), l) = Inside(h.y, l)
  BY <1>1, InsideIs
<1> QED BY <1>2, <1>3 DEF HoleIn, Holes

LEMMA PortInIs ==
    ASSUME NEW p \in Ports, NEW w \in Even, NEW l \in Even, w >= 0, l >= 0
    PROVE  LET q == PortIn(p, w, l)
           IN  /\ q \in Ports /\ q.edge = p.edge
               /\ Clamp(q.offset, 0, IF q.edge \in {"front", "back"} THEN w ELSE l) = q.offset
<1> DEFINE side == IF p.edge \in {"front", "back"} THEN w ELSE l
<1>1. p.offset \in Int /\ side \in Int /\ 0 <= side
  BY DEF Ports, Even
<1>2. PortIn(p, w, l) = [p EXCEPT !.offset = Clamp(p.offset, 0, side)]
  BY DEF PortIn
<1> HIDE DEF side
<1>3. Clamp(p.offset, 0, side) \in 0..side
  BY <1>1, ClampFromZero
<1>4. Clamp(Clamp(p.offset, 0, side), 0, side) = Clamp(p.offset, 0, side)
  BY <1>1, <1>3, ClampFromZero
<1>5. /\ PortIn(p, w, l) \in Ports /\ PortIn(p, w, l).edge = p.edge
      /\ PortIn(p, w, l).offset = Clamp(p.offset, 0, side)
  BY <1>2, <1>3 DEF Ports
<1> QED BY <1>4, <1>5 DEF side

LEMMA NormalizedIs ==
    ASSUME NEW b, BoardOK(b)
    PROVE  LET c == Normalized(b)
           IN  /\ c \in Boards
               /\ c.width = Cut(b.width) /\ c.length = Cut(b.length)
               /\ c.holes = {HoleIn(h, c.width, c.length) : h \in b.holes}
               /\ c.ports = {PortIn(p, c.width, c.length) : p \in b.ports}
               /\ c.rotation = b.rotation /\ c.flipped = b.flipped /\ c.clamp = b.clamp
               /\ c.clearance = b.clearance /\ c.x = b.x /\ c.y = b.y
               /\ c.mounted = b.mounted
<1> DEFINE w == Cut(b.width)
           l == Cut(b.length)
           cut == [b EXCEPT !.width = w, !.length = l]
           holes == {HoleIn(h, w, l) : h \in b.holes}
           ports == {PortIn(p, w, l) : p \in b.ports}
           rail == Clamp(b.rail, 0, Long(cut))
           clampOffset == Clamp(b.clampOffset, 0, Long(cut))
<1>1. b.width \in Even /\ b.length \in Even /\ b.holes \subseteq Holes /\ b.ports \subseteq Ports
  BY DEF BoardOK, Boards
<1>2. w \in Even /\ w >= 0 /\ l \in Even /\ l >= 0
  <2>1. w \in Even /\ w \in MinSide..MaxBoard
    BY <1>1, CutIs
  <2>2. l \in Even /\ l \in MinSide..MaxBoard
    BY <1>1, CutIs
  <2> QED BY <2>1, <2>2, Constants
<1> HIDE DEF w, l
<1>3. cut.width = w /\ cut.length = l
  BY DEF BoardOK, Boards
<1>4. holes \in SUBSET Holes
  BY <1>1, <1>2, HoleInIs
<1>5. ports \in SUBSET Ports
  BY <1>1, <1>2, PortInIs
<1>6. rail \in Int /\ clampOffset \in Int
  <2>1. Long(cut) \in Int
    BY <1>2, <1>3, MaxOfTwo DEF Long, Even
  <2>2. b.rail \in Int /\ b.clampOffset \in Int
    BY DEF BoardOK, Boards
  <2> HIDE DEF cut
  <2>3. rail \in Int
    BY <2>1, <2>2, ClampFromZero
  <2>4. clampOffset \in Int
    BY <2>1, <2>2, ClampFromZero
  <2> QED BY <2>3, <2>4
<1>7. Normalized(b) =
        [cut EXCEPT !.holes = holes, !.ports = ports, !.rail = rail, !.clampOffset = clampOffset]
  BY <1>3 DEF Normalized, HoleIn, PortIn, EdgeLength, w, l
<1> HIDE DEF holes, ports, rail, clampOffset
<1>8. cut \in Boards
  BY <1>2 DEF BoardOK, Boards
<1>9. Normalized(b) \in Boards
  BY <1>4, <1>5, <1>6, <1>7, <1>8 DEF Boards
<1>10. /\ Normalized(b).width = w /\ Normalized(b).length = l
       /\ Normalized(b).holes = holes /\ Normalized(b).ports = ports
  BY <1>7, <1>8 DEF Boards
<1>11. /\ Normalized(b).rotation = b.rotation /\ Normalized(b).flipped = b.flipped
       /\ Normalized(b).clamp = b.clamp /\ Normalized(b).clearance = b.clearance
       /\ Normalized(b).x = b.x /\ Normalized(b).y = b.y /\ Normalized(b).mounted = b.mounted
  BY <1>7 DEF BoardOK, Boards
<1> QED BY <1>9, <1>10, <1>11 DEF holes, ports, w, l

LEMMA NormalizedSettles ==
    ASSUME NEW b, BoardOK(b)
    PROVE  Settled(Normalized(b))
<1> DEFINE c == Normalized(b)
           w == c.width
           l == c.length
<1>1. /\ c \in Boards /\ w = Cut(b.width) /\ l = Cut(b.length)
      /\ c.holes = {HoleIn(h, w, l) : h \in b.holes}
      /\ c.ports = {PortIn(p, w, l) : p \in b.ports}
  BY NormalizedIs
<1> HIDE DEF c
<1>2. b.width \in Even /\ b.length \in Even /\ b.holes \subseteq Holes /\ b.ports \subseteq Ports
  BY DEF BoardOK, Boards
<1>3. w \in Even /\ w \in MinSide..MaxBoard
  BY <1>1, <1>2, CutIs
<1>4. l \in Even /\ l \in MinSide..MaxBoard
  BY <1>1, <1>2, CutIs
<1>5. w >= 0 /\ l >= 0
  BY <1>3, <1>4, Constants
<1> HIDE DEF w, l
<1>6. ASSUME NEW g \in c.holes
      PROVE  Inside(g.x, w) = g.x /\ Inside(g.y, l) = g.y
  BY <1>1, <1>2, <1>3, <1>4, HoleInIs
<1>7. ASSUME NEW q \in c.ports
      PROVE  Clamp(q.offset, 0, IF q.edge \in {"front", "back"} THEN w ELSE l) = q.offset
  <2>1. PICK p \in b.ports : q = PortIn(p, w, l)
    BY <1>1
  <2> QED BY <2>1, <1>2, <1>3, <1>4, <1>5, PortInIs
<1>8. IsFiniteSet(c.holes)
  <2> DEFINE f == [h \in b.holes |-> HoleIn(h, w, l)]
  <2>1. DOMAIN f = b.holes /\ c.holes = {f[h] : h \in DOMAIN f}
    BY <1>1
  <2> HIDE DEF f
  <2> QED BY <2>1, FiniteImage DEF BoardOK
<1>9. IsFiniteSet(c.ports)
  <2> DEFINE f == [p \in b.ports |-> PortIn(p, w, l)]
  <2>1. DOMAIN f = b.ports /\ c.ports = {f[p] : p \in DOMAIN f}
    BY <1>1
  <2> HIDE DEF f
  <2> QED BY <2>1, FiniteImage DEF BoardOK
<1>10. Settled(c)
  BY <1>1, <1>3, <1>4, <1>6, <1>7, <1>8, <1>9 DEF Settled, BoardOK, EdgeLength, w, l
<1> QED BY <1>10 DEF c

LEMMA NormalizedKeeps ==
    ASSUME NEW b, Settled(b)
    PROVE  Moved(b, Normalized(b))
<1> DEFINE c == Normalized(b)
<1>1. BoardOK(b) /\ b.width \in Even /\ b.length \in Even
  BY DEF Settled, BoardOK, Boards
<1>2. /\ c \in Boards /\ c.width = Cut(b.width) /\ c.length = Cut(b.length)
      /\ c.holes = {HoleIn(h, c.width, c.length) : h \in b.holes}
      /\ c.ports = {PortIn(p, c.width, c.length) : p \in b.ports}
  BY <1>1, NormalizedIs
<1> HIDE DEF c
<1>3. c.width = b.width /\ c.length = b.length
  BY <1>1, <1>2, CutIs DEF Settled
<1>4. \A h \in b.holes : HoleIn(h, b.width, b.length) = h
  BY DEF HoleIn, Settled, BoardOK, Boards, Holes
<1>5. \A p \in b.ports : PortIn(p, b.width, b.length) = p
  BY DEF PortIn, Settled, BoardOK, Boards, Ports, EdgeLength
<1>6. c.holes = b.holes
  BY <1>2, <1>3, <1>4
<1>7. c.ports = b.ports
  BY <1>2, <1>3, <1>5
<1> QED BY <1>2, <1>3, <1>6, <1>7 DEF Moved, c

(* Resizing                                                                 *)

Side(b, axis) == IF axis = "x" THEN b.width ELSE b.length
HoleRooms(b, axis) ==
  {Room(IF axis = "x" THEN h.x ELSE h.y, Side(b, axis), Radius) : h \in b.holes}
PortRooms(b, axis) ==
  {Room(p.offset, Side(b, axis), PortWidth \div 2) : p \in PortsAlong(b, axis)}

LEMMA RoomTyped ==
    ASSUME NEW v \in Int, NEW side \in Int, NEW r \in Int
    PROVE  Room(v, side, r) \in Int
BY DEF Room, EdgeDistance

LEMMA MinimumRooms ==
    ASSUME NEW b, NEW axis
    PROVE  Minimum(b, axis) =
             Up(2 * Max({MinSide \div 2} \cup HoleRooms(b, axis) \cup PortRooms(b, axis)), Tenth)
BY DEF Minimum, HoleRooms, PortRooms, Side

LEMMA MinimumIs ==
    ASSUME NEW b, BoardOK(b), NEW axis \in {"x", "y"}
    PROVE  /\ Minimum(b, axis) \in Even /\ Minimum(b, axis) >= MinSide
           /\ \A r \in HoleRooms(b, axis) \cup PortRooms(b, axis) :
                r \in Int /\ Minimum(b, axis) >= 2 * r
<1> DEFINE holes == HoleRooms(b, axis)
           ports == PortRooms(b, axis)
           all == {MinSide \div 2} \cup holes \cup ports
           side == Side(b, axis)
           f == [h \in b.holes |-> Room(IF axis = "x" THEN h.x ELSE h.y, side, Radius)]
           g == [p \in PortsAlong(b, axis) |-> Room(p.offset, side, PortWidth \div 2)]
<1>1. side \in Int /\ b.holes \subseteq Holes /\ b.ports \subseteq Ports
  BY DEF Side, BoardOK, Boards, Even
<1>2. PortsAlong(b, axis) \subseteq b.ports
  BY DEF PortsAlong
<1>3. IsFiniteSet(PortsAlong(b, axis))
  BY <1>2, FS_Subset DEF BoardOK
<1>4. DOMAIN f = b.holes /\ holes = {f[h] : h \in DOMAIN f}
  BY DEF HoleRooms
<1>5. DOMAIN g = PortsAlong(b, axis) /\ ports = {g[p] : p \in DOMAIN g}
  BY DEF PortRooms
<1>6. IsFiniteSet(holes)
  <2> HIDE DEF f, holes
  <2> QED BY <1>4, FiniteImage DEF BoardOK
<1>7. IsFiniteSet(ports)
  <2> HIDE DEF g, ports
  <2> QED BY <1>3, <1>5, FiniteImage
<1>8. PortWidth \div 2 \in Int /\ MinSide \div 2 \in Int /\ Radius \in Int
  BY Constants, EvenHalf
<1>9. ASSUME NEW r \in holes
      PROVE  r \in Int
  <2>1. PICK h \in b.holes : r = Room(IF axis = "x" THEN h.x ELSE h.y, side, Radius)
    BY <1>9 DEF HoleRooms
  <2>2. (IF axis = "x" THEN h.x ELSE h.y) \in Int
    BY <1>1 DEF Holes
  <2> QED BY <2>1, <2>2, <1>1, <1>8, RoomTyped
<1>10. ASSUME NEW r \in ports
       PROVE  r \in Int
  <2>1. PICK p \in PortsAlong(b, axis) : r = Room(p.offset, side, PortWidth \div 2)
    BY <1>10 DEF PortRooms
  <2>2. p.offset \in Int
    BY <1>1, <1>2 DEF Ports
  <2> QED BY <2>1, <2>2, <1>1, <1>8, RoomTyped
<1> HIDE DEF holes, ports
<1>11. all \in SUBSET Int /\ all # {}
  BY <1>8, <1>9, <1>10
<1>12. IsFiniteSet(all)
  <2>1. IsFiniteSet({MinSide \div 2})
    BY FS_Singleton
  <2>2. IsFiniteSet({MinSide \div 2} \cup holes)
    BY <2>1, <1>6, FS_Union
  <2> QED BY <2>2, <1>7, FS_Union
<1>13. Max(all) \in all /\ \A r \in all : Max(all) >= r
  <2> HIDE DEF all
  <2> QED BY <1>11, <1>12, MaxOfMany
<1>14. Max(all) \in Int /\ Max(all) >= MinSide \div 2
  BY <1>11, <1>13
<1>15. Minimum(b, axis) = Up(2 * Max(all), Tenth)
  BY MinimumRooms DEF holes, ports
<1>16. \A r \in holes \cup ports : r \in Int /\ Max(all) >= r
  BY <1>9, <1>10, <1>13
<1> HIDE DEF all
<1>17. MinSide = 2 * (MinSide \div 2)
  BY Constants, EvenHalf
<1>a. Minimum(b, axis) \in Even /\ Minimum(b, axis) \in Int /\ Minimum(b, axis) >= 2 * Max(all)
  <2>1. 2 * Max(all) \in Int
    BY <1>14
  <2> QED BY <2>1, <1>15, UpIs, Constants
<1>18. Minimum(b, axis) \in Even /\ Minimum(b, axis) >= MinSide
  BY <1>8, <1>14, <1>17, <1>a
<1>19. \A r \in holes \cup ports : Minimum(b, axis) >= 2 * r
  BY <1>14, <1>16, <1>a
<1> QED BY <1>16, <1>18, <1>19 DEF holes, ports

\* What Keep rounds.
Stays(v, from, to) ==
  IF 2 * v = from THEN to \div 2 ELSE IF 2 * v > from THEN to - (from - v) ELSE v

LEMMA StaysTyped ==
    ASSUME NEW v \in Int, NEW from \in Even, NEW to \in Even
    PROVE  Stays(v, from, to) \in Int
<1>1. from \in Int /\ to \in Int /\ to \div 2 \in Int
  BY EvenHalf
<1> QED BY <1>1 DEF Stays

LEMMA KeepIs ==
    ASSUME NEW v, NEW from, NEW to
    PROVE  Keep(v, from, to) = Rounded(Stays(v, from, to))
BY DEF Keep, Stays

LEMMA KeepTyped ==
    ASSUME NEW v \in Int, NEW from \in Even, NEW to \in Even
    PROVE  Keep(v, from, to) \in Int
BY StaysTyped, KeepIs, RoundedIs

(* On a board of whole thousandths there is nothing to round *)
LEMMA KeepExact ==
    ASSUME NEW v \in Int, NEW from \in Even, NEW to \in Even,
           v % Grain = 0, Whole(from), Whole(to)
    PROVE  Keep(v, from, to) = Stays(v, from, to)
<1>1. from \in Int /\ to \in Int /\ to \div 2 \in Int /\ Grain \in Nat /\ Grain > 0
  BY EvenHalf, Constants
<1>2. from % Grain = 0 /\ to % Grain = 0 /\ (to \div 2) % Grain = 0
  BY <1>1, WholeIs
<1>3. PICK far \in Int : far = from - v
  BY <1>1
<1>4. far % Grain = 0
  BY <1>1, <1>2, <1>3, Multiples
<1>5. (to - far) % Grain = 0
  BY <1>1, <1>2, <1>4, Multiples
<1>6. Stays(v, from, to) % Grain = 0
  BY <1>2, <1>3, <1>5 DEF Stays
<1> QED BY <1>6, StaysTyped, KeepIs, RoundedIs

\* Where resizeBoard puts a hole and a port.
KeptHole(b, h, w, l) == [h EXCEPT !.x = Keep(h.x, b.width, w), !.y = Keep(h.y, b.length, l)]
KeptPort(b, p, w, l) ==
  [p EXCEPT !.offset = IF p.edge \in {"front", "back"} THEN Keep(p.offset, b.width, w)
                                                      ELSE Keep(p.offset, b.length, l)]

LEMMA KeptTyped ==
    ASSUME NEW b \in Boards, NEW w \in Even, NEW l \in Even
    PROVE  /\ \A h \in b.holes : KeptHole(b, h, w, l) \in Holes
           /\ \A p \in b.ports : KeptPort(b, p, w, l) \in Ports
<1>1. b.width \in Even /\ b.length \in Even /\ b.holes \subseteq Holes /\ b.ports \subseteq Ports
  BY DEF Boards
<1>2. ASSUME NEW h \in b.holes
      PROVE  KeptHole(b, h, w, l) \in Holes
  <2>1. h.x \in Int /\ h.y \in Int
    BY <1>1 DEF Holes
  <2>2. Keep(h.x, b.width, w) \in Int
    BY <2>1, <1>1, KeepTyped
  <2>3. Keep(h.y, b.length, l) \in Int
    BY <2>1, <1>1, KeepTyped
  <2> QED BY <2>2, <2>3, <1>1 DEF KeptHole, Holes
<1>3. ASSUME NEW p \in b.ports
      PROVE  KeptPort(b, p, w, l) \in Ports
  <2>1. p.offset \in Int
    BY <1>1 DEF Ports
  <2>2. Keep(p.offset, b.width, w) \in Int
    BY <2>1, <1>1, KeepTyped
  <2>3. Keep(p.offset, b.length, l) \in Int
    BY <2>1, <1>1, KeepTyped
  <2> QED BY <2>2, <2>3, <1>1 DEF KeptPort, Ports
<1> QED BY <1>2, <1>3

ResizedTo(b, c, width, length, w, l) ==
  /\ w >= width /\ w >= Minimum(b, "x") /\ w \in {width, Minimum(b, "x")}
  /\ l >= length /\ l >= Minimum(b, "y") /\ l \in {length, Minimum(b, "y")}
  /\ c.width = w /\ c.length = l
  /\ c.holes = {KeptHole(b, h, w, l) : h \in b.holes}
  /\ c.ports = {KeptPort(b, p, w, l) : p \in b.ports}

LEMMA ResizedIs ==
    ASSUME NEW bx \in Boxes, NEW b, BoardOK(b), NEW width \in Even, NEW length \in Even
    PROVE  LET c == Resized(bx, b, width, length)
           IN  /\ BoardOK(c)
               /\ \E w \in Even, l \in Even : ResizedTo(b, c, width, length, w, l)
<1> DEFINE w == Max({width, Minimum(b, "x")})
           l == Max({length, Minimum(b, "y")})
           from == IF LongAxis(b) = "x" THEN b.width ELSE b.length
           to == IF LongAxis(b) = "x" THEN w ELSE l
           holes == {KeptHole(b, h, w, l) : h \in b.holes}
           ports == {KeptPort(b, p, w, l) : p \in b.ports}
           most == Max({Keep(b.rail + RailThickness \div 2, from, to) - RailThickness \div 2, 0})
           rail == Rounded(most)
           clampOffset == Keep(b.clampOffset, from, to)
           c == [b EXCEPT !.width = w, !.length = l, !.holes = holes, !.ports = ports,
                          !.rail = rail, !.clampOffset = clampOffset]
<1>1. /\ w \in Even /\ w >= width /\ w >= Minimum(b, "x") /\ w \in {width, Minimum(b, "x")}
      /\ l \in Even /\ l >= length /\ l >= Minimum(b, "y") /\ l \in {length, Minimum(b, "y")}
  <2>1. width \in Int /\ length \in Int /\ Minimum(b, "x") \in Even /\ Minimum(b, "y") \in Even
    BY MinimumIs DEF Even
  <2>2. Minimum(b, "x") \in Int /\ Minimum(b, "y") \in Int
    BY <2>1 DEF Even
  <2>3. w = IF width >= Minimum(b, "x") THEN width ELSE Minimum(b, "x")
    BY <2>1, <2>2, MaxOfTwo
  <2>4. l = IF length >= Minimum(b, "y") THEN length ELSE Minimum(b, "y")
    BY <2>1, <2>2, MaxOfTwo
  <2> HIDE DEF w, l
  <2> QED BY <2>1, <2>2, <2>3, <2>4
<1>2. Resized(bx, b, width, length) = IF b.mounted THEN At(bx, c, b.x, b.y) ELSE c
  BY DEF Resized, KeptHole, KeptPort
<1> HIDE DEF w, l
<1>3. b \in Boards /\ b.width \in Even /\ b.length \in Even
  BY DEF BoardOK, Boards
<1>4. holes \in SUBSET Holes /\ ports \in SUBSET Ports
  BY <1>1, <1>3, KeptTyped
<1>5. IsFiniteSet(holes)
  <2> DEFINE f == [h \in b.holes |-> KeptHole(b, h, w, l)]
  <2>1. DOMAIN f = b.holes /\ holes = {f[h] : h \in DOMAIN f}
    OBVIOUS
  <2> HIDE DEF f, holes
  <2> QED BY <2>1, FiniteImage DEF BoardOK
<1>6. IsFiniteSet(ports)
  <2> DEFINE f == [p \in b.ports |-> KeptPort(b, p, w, l)]
  <2>1. DOMAIN f = b.ports /\ ports = {f[p] : p \in DOMAIN f}
    OBVIOUS
  <2> HIDE DEF f, ports
  <2> QED BY <2>1, FiniteImage DEF BoardOK
<1>7. from \in Even /\ to \in Even
  BY <1>1, <1>3
<1>8. clampOffset \in Int
  <2>1. b.clampOffset \in Int
    BY <1>3 DEF Boards
  <2> HIDE DEF from, to
  <2> QED BY <2>1, <1>7, KeepTyped
<1>9. rail \in Int
  <2>1. b.rail \in Int /\ RailThickness \div 2 \in Int
    BY <1>3, Constants, EvenHalf DEF Boards
  <2>2. b.rail + RailThickness \div 2 \in Int
    BY <2>1
  <2> HIDE DEF from, to
  <2>3. Keep(b.rail + RailThickness \div 2, from, to) \in Int
    BY <2>2, <1>7, KeepTyped
  <2>4. Keep(b.rail + RailThickness \div 2, from, to) - RailThickness \div 2 \in Int
    BY <2>1, <2>3
  <2>5. PICK zero \in Int : zero = 0
    OBVIOUS
  <2>6. most \in Int
    BY <2>4, <2>5, MaxOfTwo
  <2> HIDE DEF most
  <2> QED BY <2>6, RoundedIs
<1> HIDE DEF holes, ports, rail, clampOffset
<1>10. /\ c \in Boards /\ c.width = w /\ c.length = l /\ c.holes = holes /\ c.ports = ports
  BY <1>1, <1>3, <1>4, <1>8, <1>9 DEF Boards
<1> HIDE DEF c
<1>11. b.x \in Int /\ b.y \in Int
  BY <1>3 DEF Boards
<1>12. Moved(c, Resized(bx, b, width, length))
  <2>1. Moved(c, At(bx, c, b.x, b.y))
    BY <1>10, <1>11, AtIs
  <2>2. Moved(c, c)
    BY <1>10 DEF Moved
  <2> QED BY <2>1, <2>2, <1>2
<1>13. BoardOK(Resized(bx, b, width, length))
  BY <1>5, <1>6, <1>10, <1>12 DEF Moved, BoardOK
<1>14. ResizedTo(b, Resized(bx, b, width, length), width, length, w, l)
  BY <1>1, <1>10, <1>12 DEF ResizedTo, Moved, holes, ports
<1> QED BY <1>1, <1>13, <1>14

(* Growing the box                                                          *)

GapOr(b, wall) == IF PortsAt(b, wall) = {} THEN WallGap ELSE WallGapAt(b, wall)

LEMMA GrownSide ==
    ASSUME NEW side \in Even, NEW needed \in Int
    PROVE  LET grown == Min({MaxSide, Max({side, Up(needed, HalfMm)})})
           IN  grown \in Even /\ (grown < MaxSide => grown >= needed)
<1>1. Up(needed, HalfMm) \in Even /\ Up(needed, HalfMm) \in Int /\ Up(needed, HalfMm) >= needed
  BY UpIs, Constants
<1>2. side \in Int /\ MaxSide \in Int /\ MaxSide \in Even
  BY Constants DEF Even
<1>3. Max({side, Up(needed, HalfMm)}) = IF side >= Up(needed, HalfMm) THEN side ELSE Up(needed, HalfMm)
  BY <1>1, <1>2, MaxOfTwo
<1>4. Max({side, Up(needed, HalfMm)}) \in Int /\ Max({side, Up(needed, HalfMm)}) \in Even
      /\ Max({side, Up(needed, HalfMm)}) >= needed
  BY <1>1, <1>2, <1>3
<1>5. Min({MaxSide, Max({side, Up(needed, HalfMm)})}) =
        IF MaxSide <= Max({side, Up(needed, HalfMm)}) THEN MaxSide ELSE Max({side, Up(needed, HalfMm)})
  BY <1>2, <1>4, MinOfTwo
<1> QED BY <1>2, <1>4, <1>5

LEMMA GrownHeight ==
    ASSUME NEW side \in Int, NEW needed \in Int
    PROVE  LET grown == Min({MaxSide, Max({side, Up(needed, HalfMm)})})
           IN  grown \in Int /\ (grown < MaxSide => grown >= needed)
<1>1. Up(needed, HalfMm) \in Int /\ Up(needed, HalfMm) >= needed
  BY UpIs, Constants
<1>2. MaxSide \in Int
  BY Constants
<1>3. Max({side, Up(needed, HalfMm)}) = IF side >= Up(needed, HalfMm) THEN side ELSE Up(needed, HalfMm)
  BY <1>1, MaxOfTwo
<1>4. Max({side, Up(needed, HalfMm)}) \in Int /\ Max({side, Up(needed, HalfMm)}) >= needed
  BY <1>1, <1>3
<1>5. Min({MaxSide, Max({side, Up(needed, HalfMm)})}) =
        IF MaxSide <= Max({side, Up(needed, HalfMm)}) THEN MaxSide ELSE Max({side, Up(needed, HalfMm)})
  BY <1>2, <1>4, MinOfTwo
<1> QED BY <1>2, <1>4, <1>5

LEMMA GapOrIs ==
    ASSUME NEW b, BoardOK(b), NEW wall
    PROVE  GapOr(b, wall) \in Int /\ GapOr(b, wall) >= WallGap
BY WallGapIs, Constants DEF GapOr, BoardOK

LEMMA GrownIs ==
    ASSUME NEW bx \in Boxes, NEW b, BoardOK(b)
    PROVE  LET g == Grown(bx, b)
           IN  /\ g \in Boxes /\ g.walls
               /\ g.width < MaxSide =>
                    g.width >= Outline(b)[1] + GapOr(b, "left") + GapOr(b, "right") + 2 * Wall
               /\ g.depth < MaxSide =>
                    g.depth >= Outline(b)[2] + GapOr(b, "front") + GapOr(b, "back") + 2 * Wall
               /\ g.height < MaxSide =>
                    g.height >= b.clearance + Thickness + (IF b.flipped THEN 0 ELSE Parts) + Lip
<1> DEFINE across == Outline(b)[1] + GapOr(b, "left") + GapOr(b, "right") + 2 * Wall
           along == Outline(b)[2] + GapOr(b, "front") + GapOr(b, "back") + 2 * Wall
           heights == {p.elevation + PortHeight : p \in b.ports}
           above == IF b.flipped THEN 0 ELSE Max({Parts} \cup heights)
           stack == b.clearance + Thickness + above
           clamps == IF b.clamp THEN ClampTop ELSE 0
           top == Max({stack, clamps})
           w == Min({MaxSide, Max({bx.width, Up(across, HalfMm)})})
           d == Min({MaxSide, Max({bx.depth, Up(along, HalfMm)})})
           h == Min({MaxSide, Max({bx.height, Up(top + Headroom + Lip, HalfMm)})})
<1>1. Grown(bx, b) = [bx EXCEPT !.walls = TRUE, !.width = w, !.depth = d, !.height = h]
  BY DEF Grown, GapOr
<1>2. b \in Boards /\ b.ports \subseteq Ports
  BY DEF BoardOK, Boards
<1>3. across \in Int /\ along \in Int
  <2>1. Outline(b)[1] \in Int /\ Outline(b)[2] \in Int
    BY <1>2, OutlineIs DEF Even
  <2>2. \A wall : GapOr(b, wall) \in Int
    BY GapOrIs
  <2> QED BY <2>1, <2>2, Constants
<1>4. Max({Parts} \cup heights) \in Int /\ Max({Parts} \cup heights) >= Parts
  <2> DEFINE f == [p \in b.ports |-> p.elevation + PortHeight]
             all == {Parts} \cup heights
  <2>1. DOMAIN f = b.ports /\ heights = {f[p] : p \in DOMAIN f}
    OBVIOUS
  <2>2. IsFiniteSet(heights)
    <3> HIDE DEF f, heights
    <3> QED BY <2>1, FiniteImage DEF BoardOK
  <2>3. IsFiniteSet(all)
    <3>1. IsFiniteSet({Parts})
      BY FS_Singleton
    <3> QED BY <3>1, <2>2, FS_Union
  <2>4. all \in SUBSET Int /\ all # {}
    BY <1>2, Constants DEF Ports
  <2>5. Max(all) \in all /\ \A r \in all : Max(all) >= r
    <3> HIDE DEF all
    <3> QED BY <2>3, <2>4, MaxOfMany
  <2> QED BY <2>4, <2>5
<1>5. above \in Int /\ above >= (IF b.flipped THEN 0 ELSE Parts)
  <2> HIDE DEF heights
  <2> QED BY <1>4
<1>6. b.clearance \in Int /\ Thickness \in Int /\ Headroom \in Nat /\ Lip \in Int
  BY <1>2, Constants DEF Boards
<1> HIDE DEF above
<1>7. stack \in Int /\ clamps \in Int
  BY <1>5, <1>6, Constants
<1>8. top \in Int /\ top >= stack
  <2> HIDE DEF stack, clamps
  <2>1. top = IF stack >= clamps THEN stack ELSE clamps
    BY <1>7, MaxOfTwo
  <2> QED BY <1>7, <2>1
<1> HIDE DEF top
<1>9. bx.width \in Even /\ bx.depth \in Even /\ bx.height \in Int
  BY DEF Boxes
<1> HIDE DEF across, along
<1>10. w \in Even /\ (w < MaxSide => w >= across)
  BY <1>3, <1>9, GrownSide
<1>11. d \in Even /\ (d < MaxSide => d >= along)
  BY <1>3, <1>9, GrownSide
<1>12. h \in Int /\ (h < MaxSide => h >= top + Headroom + Lip)
  <2>1. top + Headroom + Lip \in Int
    BY <1>6, <1>8
  <2> QED BY <2>1, <1>9, GrownHeight
<1> HIDE DEF w, d, h
<1>13. h < MaxSide => h >= b.clearance + Thickness + (IF b.flipped THEN 0 ELSE Parts) + Lip
  BY <1>5, <1>6, <1>8, <1>12, Constants
<1>14. /\ Grown(bx, b) \in Boxes /\ Grown(bx, b).walls
       /\ Grown(bx, b).width = w /\ Grown(bx, b).depth = d /\ Grown(bx, b).height = h
  BY <1>1, <1>10, <1>11, <1>12 DEF Boxes
<1> QED BY <1>10, <1>11, <1>13, <1>14 DEF across, along

-----------------------------------------------------------------------------
(* The type of the state, and what each operation does to the board         *)

BoardIInv == box \in Boxes /\ Settled(board) /\ Settled(drawn)

LEMMA DrawingTyped ==
    ASSUME NEW t \in Templates, NEW at,
           at.rotation \in Rotations, at.flipped \in BOOLEAN, at.mounted \in BOOLEAN,
           at.x \in Int, at.y \in Int
    PROVE  BoardOK(Drawing(t, at))
<1>1. /\ t.width \in Even /\ t.length \in Even /\ t.holes \in SUBSET Holes
      /\ t.ports \in SUBSET Ports /\ t.rail \in Int /\ t.clearance \in Nat
      /\ t.clamp \in BOOLEAN /\ IsFiniteSet(t.holes) /\ IsFiniteSet(t.ports)
  BY TemplatesAssumption
<1>2. Long(t) \in Even
  <2>1. t.width \in Int /\ t.length \in Int
    BY <1>1 DEF Even
  <2>2. Long(t) = IF t.width >= t.length THEN t.width ELSE t.length
    BY <2>1, MaxOfTwo DEF Long
  <2> QED BY <1>1, <2>2
<1>3. Rounded(Long(t) \div 2) \in Int
  BY <1>2, EvenHalf, RoundedIs
<1> QED BY <1>1, <1>3 DEF Drawing, BoardOK, Boards

(* Rounder corners are cut; the rest of the box stays *)
LEMMA NormalBoxIs ==
    ASSUME NEW bx \in Boxes
    PROVE  LET n == NormalBox(bx)
           IN  /\ n \in Boxes
               /\ n.width = bx.width /\ n.depth = bx.depth /\ n.height = bx.height
               /\ n.walls = bx.walls
<1> DEFINE half == {bx.corner, bx.width \div 2, bx.depth \div 2}
<1>1. bx.corner \in Int /\ bx.width \div 2 \in Int /\ bx.depth \div 2 \in Int
  BY EvenHalf DEF Boxes
<1>2. Min(half) \in Int
  <2>1. \E m \in half : \A k \in half : m <= k
    BY <1>1
  <2>2. Min(half) \in half
    BY <2>1 DEF Min
  <2> QED BY <1>1, <2>2
<1>3. NormalBox(bx) = [bx EXCEPT !.corner = Min(half)]
  BY DEF NormalBox
<1> HIDE DEF half
<1> QED BY <1>2, <1>3 DEF Boxes

LEMMA MovedOK ==
    ASSUME NEW b, NEW c, BoardOK(b), Moved(b, c)
    PROVE  BoardOK(c)
BY DEF BoardOK, Moved

LEMMA BoardTypeInit == BoardInit => BoardIInv /\ drawn = board /\ exact = OnGrid(board)
<1> SUFFICES ASSUME BoardInit
             PROVE  BoardIInv /\ drawn = board /\ exact = OnGrid(board)
  OBVIOUS
<1>1. box \in Boxes
  <2>1. PICK w \in BoxSides, d \in BoxSides, r \in Corners :
          box = NormalBox([width |-> w, depth |-> d, height |-> Parts, walls |-> TRUE,
                           corner |-> r])
    BY DEF BoardInit
  <2>2. w \in Even /\ d \in Even /\ Parts \in Int /\ r \in Int
    BY Constants
  <2>3. [width |-> w, depth |-> d, height |-> Parts, walls |-> TRUE, corner |-> r] \in Boxes
    BY <2>2 DEF Boxes
  <2> QED BY <2>1, <2>3, NormalBoxIs
<1>2. PICK t \in Templates : board = NewBoard(box, t)
  BY DEF BoardInit
<1>3. BoardOK(Drawing(t, Unplaced))
  <2>1. /\ Unplaced.rotation \in Rotations /\ Unplaced.flipped \in BOOLEAN
        /\ Unplaced.mounted \in BOOLEAN /\ Unplaced.x \in Int /\ Unplaced.y \in Int
    BY DEF Unplaced, Rotations
  <2> QED BY <2>1, DrawingTyped
<1>4. Moved(Drawing(t, Unplaced), Mounted(box, Drawing(t, Unplaced)))
  BY <1>1, <1>3, MountedMoves DEF BoardOK
<1>5. Settled(board)
  BY <1>2, <1>3, <1>4, MovedOK, NormalizedSettles DEF NewBoard
<1> QED BY <1>1, <1>5 DEF BoardIInv, BoardInit

(* An edit that leaves the board's size, holes and ports alone              *)
LEMMA EditedMoves ==
    ASSUME BoardIInv, NEW b, Moved(board, b), Edited(b)
    PROVE  Moved(board, board')
<1>1. Settled(b)
  BY MovedSettled DEF BoardIInv
<1>2. Moved(b, Normalized(b))
  BY <1>1, NormalizedKeeps
<1> QED BY <1>2 DEF Moved, Edited

LEMMA MovedTwice ==
    ASSUME NEW a, NEW b, NEW c, Moved(a, b), Moved(b, c)
    PROVE  Moved(a, c)
BY DEF Moved

LEMMA TurnedMoves ==
    ASSUME BoardIInv, NEW b, NEW bx \in Boxes, Moved(board, b),
           \/ Edited(Placed(bx, b, TRUE)) \/ Edited(Placed(bx, b, FALSE))
    PROVE  Moved(board, board')
<1>1. b \in Boards /\ IsFiniteSet(b.ports)
  BY DEF BoardIInv, Settled, BoardOK, Moved
<1>2. Moved(b, Placed(bx, b, TRUE)) /\ Moved(b, Placed(bx, b, FALSE))
  BY <1>1, PlacedMoves
<1> QED BY <1>2, MovedTwice, EditedMoves

LEMMA MovingOperations ==
    ASSUME BoardIInv,
           Mount \/ Unmount \/ Rotate \/ Flip \/ Snap \/ Fit \/ Move \/ ResizeBox
    PROVE  Moved(board, board') /\ box' \in Boxes /\ SameDrawing
<1>1. BoardOK(board) /\ board \in Boards /\ box \in Boxes /\ Moved(board, board)
  BY DEF BoardIInv, Settled, BoardOK, Moved
<1>2. CASE Mount
  <2>1. Moved(board, Mounted(box, board))
    BY <1>1, MountedMoves DEF BoardOK
  <2> QED BY <1>1, <1>2, <2>1, EditedMoves DEF Mount
<1>3. CASE Unmount
  <2>1. Moved(board, [board EXCEPT !.mounted = FALSE])
    BY <1>1 DEF Moved, Boards
  <2> QED BY <1>1, <1>3, <2>1, EditedMoves DEF Unmount
<1>4. CASE Rotate
  <2>1. PICK r \in Rotations : Edited(Placed(box, [board EXCEPT !.rotation = r], FALSE))
    BY <1>4 DEF Rotate
  <2>2. Moved(board, [board EXCEPT !.rotation = r])
    BY <1>1 DEF Moved, Boards
  <2> QED BY <1>1, <1>4, <2>1, <2>2, TurnedMoves DEF Rotate
<1>5. CASE Flip
  <2> DEFINE flipped == ~ board.flipped
             raised == IF flipped /\ board.clearance < Parts THEN Up(Parts, HalfMm)
                                                             ELSE board.clearance
             b == [board EXCEPT !.flipped = flipped, !.clearance = raised]
  <2>1. Edited(Placed(box, b, FALSE)) /\ UNCHANGED box /\ SameDrawing
    BY <1>5 DEF Flip
  <2>2. Up(Parts, HalfMm) \in Nat
    <3>1. Parts \in Int /\ Parts >= 0 /\ HalfMm \in Even /\ HalfMm \in Nat /\ HalfMm > 0
      BY Constants
    <3>2. Up(Parts, HalfMm) \in Int /\ Up(Parts, HalfMm) >= Parts
      BY <3>1, UpIs
    <3> QED BY <3>1, <3>2
  <2>3. raised \in Nat /\ flipped \in BOOLEAN
    BY <1>1, <2>2 DEF Boards
  <2>4. Moved(board, b)
    BY <1>1, <2>3 DEF Moved, Boards
  <2> HIDE DEF b
  <2> QED BY <1>1, <2>1, <2>4, TurnedMoves
<1>6. CASE Snap
  BY <1>1, <1>6, TurnedMoves DEF Snap
<1>7. CASE Fit
  <2>1. /\ Grown(box, board) \in Boxes /\ Edited(Placed(Grown(box, board), board, FALSE))
        /\ box' = NormalBox(Grown(box, board)) /\ SameDrawing
    BY <1>1, <1>7, GrownIs DEF Fit
  <2>2. box' \in Boxes
    BY <2>1, NormalBoxIs
  <2> QED BY <1>1, <2>1, <2>2, TurnedMoves
<1>8. CASE Move
  <2>1. PICK x \in Int, y \in Int : Edited(At(box, board, x, y))
    <3>1. \A v \in Places \cup {-p : p \in Places} : v \in Int
      BY Constants
    <3> QED BY <1>8, <3>1 DEF Move
  <2>2. Moved(board, At(box, board, x, y))
    BY <1>1, AtIs
  <2> QED BY <1>1, <1>8, <2>1, <2>2, EditedMoves DEF Move
<1>9. CASE ResizeBox
  <2>1. \A s \in BoxSides : [box EXCEPT !.width = s] \in Boxes /\ [box EXCEPT !.depth = s] \in Boxes
    BY <1>1, Constants DEF Boxes
  <2>2. \A r \in Corners : [box EXCEPT !.corner = r] \in Boxes
    BY <1>1, Constants DEF Boxes
  <2>3. [box EXCEPT !.walls = ~ @] \in Boxes
    BY <1>1 DEF Boxes
  <2>4. box' \in Boxes
    BY <1>9, <2>1, <2>2, <2>3, NormalBoxIs DEF ResizeBox
  <2> QED BY <1>1, <1>9, <2>4, EditedMoves DEF ResizeBox
<1> QED BY <1>2, <1>3, <1>4, <1>5, <1>6, <1>7, <1>8, <1>9

LEMMA DrawingOperations ==
    ASSUME BoardIInv, Draw \/ FollowTemplate
    PROVE  Settled(board') /\ box' = box /\ NewDrawing
<1>1. /\ BoardOK(board) /\ board \in Boards /\ box \in Boxes
      /\ board.holes \subseteq Holes /\ board.ports \subseteq Ports
  BY DEF BoardIInv, Settled, BoardOK, Boards
<1>2. ASSUME NEW h \in board.holes, NEW x \in Places, NEW y \in Places,
             Edited([board EXCEPT !.holes = (@ \ {h}) \cup {[h EXCEPT !.x = x, !.y = y]}])
      PROVE  Settled(board')
  <2> DEFINE holes == (board.holes \ {h}) \cup {[h EXCEPT !.x = x, !.y = y]}
             b == [board EXCEPT !.holes = holes]
  <2> x \in Int /\ y \in Int
    BY Constants
  <2>1. [h EXCEPT !.x = x, !.y = y] \in Holes
    BY <1>1 DEF Holes
  <2>2. holes \in SUBSET Holes
    BY <1>1, <2>1
  <2>3. IsFiniteSet(holes)
    <3>1. IsFiniteSet(board.holes \ {h})
      BY <1>1, FS_RemoveElement DEF BoardOK
    <3> QED BY <3>1, FS_AddElement
  <2>4. board' = Normalized(b)
    BY <1>2 DEF Edited
  <2> HIDE DEF holes
  <2>5. BoardOK(b)
    BY <1>1, <2>2, <2>3 DEF BoardOK, Boards
  <2> QED BY <2>4, <2>5, NormalizedSettles
<1>3. ASSUME NEW p \in board.ports, NEW e \in Edges, NEW o \in Places,
             Edited([board EXCEPT !.ports = (@ \ {p}) \cup {[p EXCEPT !.edge = e, !.offset = o]}])
      PROVE  Settled(board')
  <2> DEFINE ports == (board.ports \ {p}) \cup {[p EXCEPT !.edge = e, !.offset = o]}
             b == [board EXCEPT !.ports = ports]
  <2> o \in Int
    BY Constants
  <2>1. [p EXCEPT !.edge = e, !.offset = o] \in Ports
    BY <1>1 DEF Ports
  <2>2. ports \in SUBSET Ports
    BY <1>1, <2>1
  <2>3. IsFiniteSet(ports)
    <3>1. IsFiniteSet(board.ports \ {p})
      BY <1>1, FS_RemoveElement DEF BoardOK
    <3> QED BY <3>1, FS_AddElement
  <2>4. board' = Normalized(b)
    BY <1>3 DEF Edited
  <2> HIDE DEF ports
  <2>5. BoardOK(b)
    BY <1>1, <2>2, <2>3 DEF BoardOK, Boards
  <2> QED BY <2>4, <2>5, NormalizedSettles
<1>4. ASSUME Edited([board EXCEPT !.clamp = ~ @])
      PROVE  Settled(board')
  <2>1. BoardOK([board EXCEPT !.clamp = ~ @])
    BY <1>1 DEF BoardOK, Boards
  <2> QED BY <1>4, <2>1, NormalizedSettles DEF Edited
<1>5. ASSUME FollowTemplate
      PROVE  Settled(board')
  <2>1. PICK t \in Templates :
          LET new == Normalized(Drawing(t, board))
          IN  Edited(IF board.mounted THEN Placed(box, new, TRUE) ELSE new)
    BY <1>5 DEF FollowTemplate
  <2> DEFINE new == Normalized(Drawing(t, board))
  <2>2. BoardOK(Drawing(t, board))
    BY <1>1, DrawingTyped DEF Boards
  <2>3. BoardOK(new)
    BY <2>2, NormalizedSettles DEF Settled
  <2>4. BoardOK(Placed(box, new, TRUE))
    <3> HIDE DEF new
    <3>1. Moved(new, Placed(box, new, TRUE))
      BY <1>1, <2>3, PlacedMoves DEF BoardOK
    <3> QED BY <3>1, <2>3, MovedOK
  <2>5. board' = Normalized(IF board.mounted THEN Placed(box, new, TRUE) ELSE new)
    BY <2>1 DEF Edited
  <2> HIDE DEF new
  <2> QED BY <2>3, <2>4, <2>5, NormalizedSettles
<1>6. CASE Draw
  BY <1>2, <1>3, <1>4, <1>6 DEF Draw
<1> QED BY <1>5, <1>6 DEF FollowTemplate, Draw

LEMMA BoardSteps ==
    ASSUME BoardIInv, [BoardNext]_boardVars
    PROVE  /\ BoardIInv'
           /\ \/ /\ SameDrawing
                 /\ \E width, length \in Even :
                      /\ width \in 0..MaxBoard /\ length \in 0..MaxBoard
                      /\ board' = Normalized(Resized(box, board, width, length))
              \/ (SameDrawing \/ UNCHANGED <<drawn, exact>>) /\ Moved(board, board')
              \/ NewDrawing
<1>1. Settled(board) /\ BoardOK(board) /\ board \in Boards /\ box \in Boxes /\ Settled(drawn)
  BY DEF BoardIInv, Settled, BoardOK
<1>2. CASE Resize
  <2>1. /\ board.width \in Even /\ board.width \in 0..MaxBoard
        /\ board.length \in Even /\ board.length \in 0..MaxBoard
    BY <1>1, Constants DEF Settled, Boards, Even
  <2>2. PICK s \in Sides : \/ Edited(Resized(box, board, s, board.length))
                           \/ Edited(Resized(box, board, board.width, s))
    BY <1>2 DEF Resize
  <2>3. s \in Even /\ s \in 0..MaxBoard
    BY Constants
  <2>4. PICK width \in Even, length \in Even :
          /\ width \in 0..MaxBoard /\ length \in 0..MaxBoard
          /\ board' = Normalized(Resized(box, board, width, length))
    BY <2>1, <2>2, <2>3 DEF Edited
  <2>5. BoardOK(Resized(box, board, width, length))
    BY <1>1, ResizedIs
  <2>6. Settled(board')
    BY <2>4, <2>5, NormalizedSettles
  <2>7. UNCHANGED box /\ SameDrawing
    BY <1>2 DEF Resize
  <2>8. BoardIInv'
    BY <1>1, <2>6, <2>7 DEF SameDrawing, BoardIInv, Settled, BoardOK, EdgeLength
  <2> QED BY <2>4, <2>7, <2>8
<1>3. CASE Mount \/ Unmount \/ Rotate \/ Flip \/ Snap \/ Fit \/ Move \/ ResizeBox
  <2>1. Moved(board, board') /\ box' \in Boxes /\ SameDrawing
    BY <1>3, MovingOperations
  <2>2. Settled(board')
    BY <1>1, <2>1, MovedSettled
  <2> QED BY <1>1, <2>1, <2>2 DEF BoardIInv, SameDrawing
<1>4. CASE Draw \/ FollowTemplate
  <2>1. Settled(board') /\ box' = box /\ NewDrawing
    BY <1>4, DrawingOperations
  <2> QED BY <1>1, <2>1 DEF BoardIInv, NewDrawing
<1>5. CASE UNCHANGED boardVars
  BY <1>1, <1>5 DEF boardVars, BoardIInv, Moved
<1> QED BY <1>2, <1>3, <1>4, <1>5 DEF BoardNext

-----------------------------------------------------------------------------
(* Edges and walls                                                          *)

Units == {<<0, -1>>, <<0, 1>>, <<-1, 0>>, <<1, 0>>}
Sideways == {"front", "back"}

LEMMA NormalIs ==
  /\ Normal("front") = <<0, -1>> /\ Normal("back") = <<0, 1>>
  /\ Normal("left") = <<-1, 0>> /\ Normal("right") = <<1, 0>>
BY DEF Normal

LEMMA TurnIs ==
    ASSUME NEW i \in Int, NEW j \in Int
    PROVE  /\ Turn(<<i, j>>, 0) = <<i, j>> /\ Turn(<<i, j>>, 90) = <<-j, i>>
           /\ Turn(<<i, j>>, 180) = <<-i, -j>> /\ Turn(<<i, j>>, 270) = <<j, -i>>
BY DEF Turn

(* A quarter turn takes a direction to a direction, and turns the axis it   *)
(* lies on when it is odd                                                   *)
LEMMA TurnedUnit ==
    ASSUME NEW n \in Units, NEW r \in Rotations
    PROVE  /\ Turn(n, r) \in Units
           /\ (Turn(n, r)[1] = 0) <=> (n[1] = 0 <=> r % 180 = 0)
<1>1. PICK i \in {-1, 0, 1}, j \in {-1, 0, 1} : n = <<i, j>> /\ (i = 0 <=> j # 0)
  BY DEF Units
<1>2. /\ Turn(n, 0) = <<i, j>> /\ Turn(n, 90) = <<-j, i>>
      /\ Turn(n, 180) = <<-i, -j>> /\ Turn(n, 270) = <<j, -i>>
  BY <1>1, TurnIs
<1>3. n[1] = i
  BY <1>1
<1>4. CASE r = 0
  BY <1>1, <1>2, <1>3, <1>4 DEF Units
<1>5. CASE r = 90
  BY <1>1, <1>2, <1>3, <1>5 DEF Units
<1>6. CASE r = 180
  BY <1>1, <1>2, <1>3, <1>6 DEF Units
<1>7. CASE r = 270
  BY <1>1, <1>2, <1>3, <1>7 DEF Units
<1> QED BY <1>4, <1>5, <1>6, <1>7 DEF Rotations

(* Turning a vector and a direction alike changes neither the one's extent  *)
(* along the other, nor that of a sum the sum of the extents                *)
LEMMA TurnedAlong ==
    ASSUME NEW i \in Int, NEW j \in Int, NEW n \in Units, NEW r \in Rotations
    PROVE  Along(Turn(<<i, j>>, r), Turn(n, r)) = Along(<<i, j>>, n)
<1>1. CASE n = <<0, -1>>
  <2>1. /\ Turn(n, 0) = <<0, -1>> /\ Turn(n, 90) = <<1, 0>>
        /\ Turn(n, 180) = <<0, 1>> /\ Turn(n, 270) = <<-1, 0>>
    BY <1>1 DEF Turn
  <2> QED BY <1>1, <2>1, TurnIs DEF Along, Rotations
<1>2. CASE n = <<0, 1>>
  <2>1. /\ Turn(n, 0) = <<0, 1>> /\ Turn(n, 90) = <<-1, 0>>
        /\ Turn(n, 180) = <<0, -1>> /\ Turn(n, 270) = <<1, 0>>
    BY <1>2 DEF Turn
  <2> QED BY <1>2, <2>1, TurnIs DEF Along, Rotations
<1>3. CASE n = <<-1, 0>>
  <2>1. /\ Turn(n, 0) = <<-1, 0>> /\ Turn(n, 90) = <<0, -1>>
        /\ Turn(n, 180) = <<1, 0>> /\ Turn(n, 270) = <<0, 1>>
    BY <1>3 DEF Turn
  <2> QED BY <1>3, <2>1, TurnIs DEF Along, Rotations
<1>4. CASE n = <<1, 0>>
  <2>1. /\ Turn(n, 0) = <<1, 0>> /\ Turn(n, 90) = <<0, 1>>
        /\ Turn(n, 180) = <<-1, 0>> /\ Turn(n, 270) = <<0, -1>>
    BY <1>4 DEF Turn
  <2> QED BY <1>4, <2>1, TurnIs DEF Along, Rotations
<1> QED BY <1>1, <1>2, <1>3, <1>4 DEF Units

LEMMA AlongSum ==
    ASSUME NEW i \in Int, NEW j \in Int, NEW k \in Int, NEW l \in Int, NEW n \in Units
    PROVE  Along(<<i + k, j + l>>, n) = Along(<<i, j>>, n) + Along(<<k, l>>, n)
<1>1. CASE n = <<0, -1>>
  BY <1>1 DEF Along
<1>2. CASE n = <<0, 1>>
  BY <1>2 DEF Along
<1>3. CASE n = <<-1, 0>>
  BY <1>3 DEF Along
<1>4. CASE n = <<1, 0>>
  BY <1>4 DEF Along
<1> QED BY <1>1, <1>2, <1>3, <1>4 DEF Units

\* The direction an edge faces on the board as it lies, turned over or not.
Facing(b, edge) ==
  IF b.flipped THEN <<-Normal(edge)[1], Normal(edge)[2]>> ELSE Normal(edge)

LEMMA FacingIs ==
    ASSUME NEW b, b.flipped \in BOOLEAN, NEW edge \in Edges
    PROVE  /\ Facing(b, edge) \in Units
           /\ Facing(b, edge)[1] = 0 <=> edge \in Sideways
           /\ Facing(b, "front") = <<0, -1>> /\ Facing(b, "back") = <<0, 1>>
           /\ Facing(b, "left") = IF b.flipped THEN <<1, 0>> ELSE <<-1, 0>>
           /\ Facing(b, "right") = IF b.flipped THEN <<-1, 0>> ELSE <<1, 0>>
<1>1. /\ Facing(b, "front") = <<0, -1>> /\ Facing(b, "back") = <<0, 1>>
      /\ Facing(b, "left") = IF b.flipped THEN <<1, 0>> ELSE <<-1, 0>>
      /\ Facing(b, "right") = IF b.flipped THEN <<-1, 0>> ELSE <<1, 0>>
  BY NormalIs DEF Facing
<1> QED BY <1>1 DEF Units, Edges, Sideways

LEMMA EdgeWallIs ==
    ASSUME NEW b, b.flipped \in BOOLEAN, b.rotation \in Rotations, NEW edge \in Edges
    PROVE  /\ EdgeWall(b, edge) \in Edges
           /\ Normal(EdgeWall(b, edge)) = Turn(Facing(b, edge), b.rotation)
           /\ EdgeWall(b, edge) \in Sideways <=>
                (edge \in Sideways <=> b.rotation % 180 = 0)
<1>1. /\ Facing(b, edge) \in Units /\ (Facing(b, edge)[1] = 0 <=> edge \in Sideways)
  BY FacingIs
<1>2. /\ Turn(Facing(b, edge), b.rotation) \in Units
      /\ (Turn(Facing(b, edge), b.rotation)[1] = 0)
           <=> (edge \in Sideways <=> b.rotation % 180 = 0)
  BY <1>1, TurnedUnit
<1>3. \E w \in Edges : Normal(w) = Turn(Facing(b, edge), b.rotation)
  BY <1>2, NormalIs DEF Units, Edges
<1>4. EdgeWall(b, edge) = CHOOSE w \in Edges : Normal(w) = Turn(Facing(b, edge), b.rotation)
  BY DEF EdgeWall, Facing
<1>5. /\ EdgeWall(b, edge) \in Edges
      /\ Normal(EdgeWall(b, edge)) = Turn(Facing(b, edge), b.rotation)
  BY <1>3, <1>4
<1>6. \A w \in Edges : w \in Sideways <=> Normal(w)[1] = 0
  BY NormalIs DEF Edges, Sideways
<1> QED BY <1>2, <1>5, <1>6

(* Where a port is: as far from the board's middle, towards its wall, as    *)
(* the side of the board it is drawn on                                     *)
HalfOf(b, edge) == IF edge \in Sideways THEN b.length \div 2 ELSE b.width \div 2

(* Two whole numbers, each less than two more, extend along a direction at  *)
(* most one further or less far                                             *)
LEMMA FineAlong ==
    ASSUME NEW i \in Int, NEW j \in Int, NEW n \in Units
    PROVE  /\ Along(<<i, j>>, n) \in Int /\ Along(<<Fine(i), Fine(j)>>, n) \in Int
           /\ Along(<<Fine(i), Fine(j)>>, n) - Along(<<i, j>>, n) \in -1..1
<1>1. PICK k \in Int : k = Fine(i) /\ k \in {i, i + 1}
  BY FineIs
<1>2. PICK l \in Int : l = Fine(j) /\ l \in {j, j + 1}
  BY FineIs
<1>3. CASE n = <<0, -1>>
  <2>1. Along(<<i, j>>, n) = -j /\ Along(<<k, l>>, n) = -l
    BY <1>3 DEF Along
  <2> QED BY <1>1, <1>2, <2>1
<1>4. CASE n = <<0, 1>>
  <2>1. Along(<<i, j>>, n) = j /\ Along(<<k, l>>, n) = l
    BY <1>4 DEF Along
  <2> QED BY <1>1, <1>2, <2>1
<1>5. CASE n = <<-1, 0>>
  <2>1. Along(<<i, j>>, n) = -i /\ Along(<<k, l>>, n) = -k
    BY <1>5 DEF Along
  <2> QED BY <1>1, <1>2, <2>1
<1>6. CASE n = <<1, 0>>
  <2>1. Along(<<i, j>>, n) = i /\ Along(<<k, l>>, n) = k
    BY <1>6 DEF Along
  <2> QED BY <1>1, <1>2, <2>1
<1> QED BY <1>3, <1>4, <1>5, <1>6 DEF Units

LEMMA PortPlace ==
    ASSUME NEW b \in Boards, NEW edge \in Edges, NEW offset \in Int
    PROVE  LET n == Normal(EdgeWall(b, edge))
               q == EdgePoint(b, edge, offset)
               v == Point(b, q[1], q[2])
           IN  /\ n \in Units
               /\ Along(v, n) \in Int /\ Along(<<b.x, b.y>>, n) \in Int
               /\ Along(v, n) - (Along(<<b.x, b.y>>, n) + HalfOf(b, edge)) \in -1..1
<1> DEFINE n == Normal(EdgeWall(b, edge))
           q == EdgePoint(b, edge, offset)
           i == (IF b.flipped THEN b.width - q[1] ELSE q[1]) - b.width \div 2
           j == q[2] - b.length \div 2
           u == Facing(b, edge)
           r == b.rotation
           t == Turn(<<i, j>>, r)
<1>1. /\ b.width \in Int /\ b.width \div 2 \in Int /\ b.width = 2 * (b.width \div 2)
      /\ b.length \in Int /\ b.length \div 2 \in Int /\ b.length = 2 * (b.length \div 2)
      /\ b.x \in Int /\ b.y \in Int /\ b.flipped \in BOOLEAN /\ r \in Rotations
  BY EvenHalf DEF Boards
<1>2. u \in Units /\ n = Turn(u, r) /\ n \in Units
  BY <1>1, FacingIs, EdgeWallIs, TurnedUnit
<1>3. Point(b, q[1], q[2]) = <<Fine(b.x + t[1]), Fine(b.y + t[2])>>
  BY DEF Point
<1>4. i \in Int /\ j \in Int /\ Along(<<i, j>>, u) = HalfOf(b, edge)
  <2>1. /\ Facing(b, "front") = <<0, -1>> /\ Facing(b, "back") = <<0, 1>>
        /\ Facing(b, "left") = IF b.flipped THEN <<1, 0>> ELSE <<-1, 0>>
        /\ Facing(b, "right") = IF b.flipped THEN <<-1, 0>> ELSE <<1, 0>>
    BY <1>1, FacingIs
  <2>2. CASE edge = "front"
    <3>1. q = <<offset, 0>>
      BY <2>2 DEF EdgePoint
    <3>2. i \in Int /\ j \in Int /\ j = -(b.length \div 2)
      BY <1>1, <3>1
    <3>3. u = <<0, -1>> /\ HalfOf(b, edge) = b.length \div 2
      BY <2>1, <2>2 DEF HalfOf, Sideways
    <3> HIDE DEF i, j, u
    <3> QED BY <1>1, <3>2, <3>3 DEF Along
  <2>3. CASE edge = "back"
    <3>1. q[1] = offset /\ q[2] = b.length
      BY <2>3 DEF EdgePoint
    <3>2. i \in Int /\ j \in Int /\ j = b.length \div 2
      <4> HIDE DEF q
      <4>1. i \in Int
        BY <1>1, <3>1
      <4>2. j = 2 * (b.length \div 2) - b.length \div 2
        BY <1>1, <3>1
      <4> QED BY <1>1, <4>1, <4>2
    <3>3. u = <<0, 1>> /\ HalfOf(b, edge) = b.length \div 2
      BY <2>1, <2>3 DEF HalfOf, Sideways
    <3> HIDE DEF i, j, u
    <3> QED BY <1>1, <3>2, <3>3 DEF Along
  <2>4. CASE edge = "left"
    <3>1. q[1] = 0 /\ q[2] = offset /\ HalfOf(b, edge) = b.width \div 2
      BY <2>4 DEF EdgePoint, HalfOf, Sideways
    <3>2. CASE b.flipped
      <4>1. u = <<1, 0>>
        BY <2>1, <2>4, <3>2
      <4>2. i \in Int /\ j \in Int /\ i = b.width \div 2
        <5> HIDE DEF q
        <5> QED BY <1>1, <3>1, <3>2
      <4> HIDE DEF i, j, u
      <4> QED BY <1>1, <3>1, <4>1, <4>2 DEF Along
    <3>3. CASE ~ b.flipped
      <4>1. u = <<-1, 0>>
        BY <2>1, <2>4, <3>3
      <4>2. i \in Int /\ j \in Int /\ i = -(b.width \div 2)
        <5> HIDE DEF q
        <5> QED BY <1>1, <3>1, <3>3
      <4> HIDE DEF i, j, u
      <4> QED BY <1>1, <3>1, <4>1, <4>2 DEF Along
    <3> QED BY <1>1, <3>2, <3>3
  <2>5. CASE edge = "right"
    <3>1. q[1] = b.width /\ q[2] = offset /\ HalfOf(b, edge) = b.width \div 2
      BY <2>5 DEF EdgePoint, HalfOf, Sideways
    <3>2. CASE b.flipped
      <4>1. u = <<-1, 0>>
        BY <2>1, <2>5, <3>2
      <4>2. i \in Int /\ j \in Int /\ i = -(b.width \div 2)
        <5> HIDE DEF q
        <5> QED BY <1>1, <3>1, <3>2
      <4> HIDE DEF i, j, u
      <4> QED BY <1>1, <3>1, <4>1, <4>2 DEF Along
    <3>3. CASE ~ b.flipped
      <4>1. u = <<1, 0>>
        BY <2>1, <2>5, <3>3
      <4>2. i \in Int /\ j \in Int /\ i = b.width \div 2
        <5> HIDE DEF q
        <5> QED BY <1>1, <3>1, <3>3
      <4> HIDE DEF i, j, u
      <4> QED BY <1>1, <3>1, <4>1, <4>2 DEF Along
    <3> QED BY <1>1, <3>2, <3>3
  <2> QED BY <2>2, <2>3, <2>4, <2>5 DEF Edges
<1> HIDE DEF i, j, n, u, q
<1>5. t[1] \in Int /\ t[2] \in Int /\ t = <<t[1], t[2]>>
  <2>1. /\ Turn(<<i, j>>, 0) = <<i, j>> /\ Turn(<<i, j>>, 90) = <<-j, i>>
        /\ Turn(<<i, j>>, 180) = <<-i, -j>> /\ Turn(<<i, j>>, 270) = <<j, -i>>
    BY <1>4, TurnIs
  <2>2. PICK k \in Int, l \in Int : t = <<k, l>>
    BY <1>1, <1>4, <2>1 DEF Rotations
  <2> QED BY <2>2
<1>6. Along(t, n) = HalfOf(b, edge)
  BY <1>1, <1>2, <1>4, TurnedAlong
<1> HIDE DEF t
<1>7. Along(<<b.x + t[1], b.y + t[2]>>, n) = Along(<<b.x, b.y>>, n) + Along(<<t[1], t[2]>>, n)
  BY <1>1, <1>2, <1>5, AlongSum
<1>8. PICK k \in Int, l \in Int : k = b.x + t[1] /\ l = b.y + t[2]
  BY <1>1, <1>5
<1>9. /\ Along(<<k, l>>, n) \in Int /\ Along(<<Fine(k), Fine(l)>>, n) \in Int
      /\ Along(<<Fine(k), Fine(l)>>, n) - Along(<<k, l>>, n) \in -1..1
  BY <1>2, FineAlong
<1>10. Along(<<b.x, b.y>>, n) \in Int
  BY <1>1, <1>2, FineAlong
<1>11. Along(<<k, l>>, n) = Along(<<b.x, b.y>>, n) + HalfOf(b, edge)
  BY <1>5, <1>6, <1>7, <1>8
<1>12. Point(b, q[1], q[2]) = <<Fine(k), Fine(l)>>
  BY <1>3, <1>8
<1> QED BY <1>2, <1>9, <1>10, <1>11, <1>12 DEF n, q

LEMMA FacesItsWall ==
    ASSUME NEW b, Settled(b)
    PROVE  \A p \in b.ports :
             LET n == Normal(EdgeWall(b, p.edge))
                 q == EdgePoint(b, p.edge, p.offset)
                 v == Point([b EXCEPT !.x = 0, !.y = 0], q[1], q[2])
                 side == IF p.edge \in {"front", "back"} THEN b.length ELSE b.width
             IN  2 * Along(v, n) \in side - 2..side + 2
<1> SUFFICES ASSUME NEW p \in b.ports
             PROVE  LET n == Normal(EdgeWall(b, p.edge))
                        q == EdgePoint(b, p.edge, p.offset)
                        v == Point([b EXCEPT !.x = 0, !.y = 0], q[1], q[2])
                        side == IF p.edge \in {"front", "back"} THEN b.length ELSE b.width
                    IN  2 * Along(v, n) \in side - 2..side + 2
  OBVIOUS
<1> DEFINE c == [b EXCEPT !.x = 0, !.y = 0]
           n == Normal(EdgeWall(b, p.edge))
           q == EdgePoint(b, p.edge, p.offset)
<1>1. b \in Boards /\ p.edge \in Edges /\ p.offset \in Int
  BY DEF Settled, BoardOK, Boards, Ports
<1>2. /\ c \in Boards /\ c.x = 0 /\ c.y = 0 /\ c.width = b.width /\ c.length = b.length
      /\ c.rotation = b.rotation /\ c.flipped = b.flipped
  <2>1. PICK zero \in Int : zero = 0
    OBVIOUS
  <2>2. c = [b EXCEPT !.x = zero, !.y = zero]
    BY <2>1
  <2>3. /\ c \in Boards /\ c.x = zero /\ c.y = zero /\ c.width = b.width
        /\ c.length = b.length
    BY <1>1, <2>2 DEF Boards
  <2>4. c.rotation = b.rotation /\ c.flipped = b.flipped
    BY <1>1, <2>2 DEF Boards
  <2> QED BY <2>1, <2>3, <2>4
<1> HIDE DEF c
<1>3. EdgeWall(c, p.edge) = EdgeWall(b, p.edge)
  BY <1>2 DEF EdgeWall
<1>4. EdgePoint(c, p.edge, p.offset) = EdgePoint(b, p.edge, p.offset)
  BY <1>1, <1>2 DEF EdgePoint, Edges
<1>5. /\ n \in Units /\ Along(Point(c, q[1], q[2]), n) \in Int
      /\ Along(Point(c, q[1], q[2]), n) - (Along(<<c.x, c.y>>, n) + HalfOf(c, p.edge)) \in -1..1
  BY <1>1, <1>2, <1>3, <1>4, PortPlace
<1> HIDE DEF n, q
<1>6. Along(<<0, 0>>, n) = 0
  BY <1>5 DEF Along, Units
<1>7. /\ b.width = 2 * (b.width \div 2) /\ b.width \div 2 \in Int
      /\ b.length = 2 * (b.length \div 2) /\ b.length \div 2 \in Int
  BY <1>1, EvenHalf DEF Boards
<1>8. HalfOf(c, p.edge) \in Int
      /\ 2 * HalfOf(c, p.edge) = (IF p.edge \in {"front", "back"} THEN b.length ELSE b.width)
  BY <1>2, <1>7 DEF HalfOf, Sideways
<1>9. Along(Point(c, q[1], q[2]), n) - HalfOf(c, p.edge) \in -1..1
  BY <1>2, <1>5, <1>6, <1>8
<1> DEFINE side == IF p.edge \in {"front", "back"} THEN b.length ELSE b.width
<1>10. side \in Int /\ 2 * HalfOf(c, p.edge) = side
  BY <1>7, <1>8
<1> HIDE DEF side
<1>11. 2 * Along(Point(c, q[1], q[2]), n) \in side - 2..side + 2
  BY <1>5, <1>8, <1>9, <1>10
<1> QED BY <1>11 DEF c, n, q, side

LEMMA BoardTypeInvariant == BoardSpec => []BoardIInv
<1>1. BoardInit => BoardIInv
  BY BoardTypeInit
<1>2. BoardIInv /\ [BoardNext]_boardVars => BoardIInv'
  BY BoardSteps
<1> QED BY <1>1, <1>2, PTL DEF BoardSpec

(* A port lies on the side of the board that looks at the wall its cut-out  *)
(* is made in, turned and turned over as the board is, to the               *)
(* ten-thousandth it is rounded to (boardPoint, boardEdgeWall)              *)
THEOREM PortsFace == BoardSpec => []PortsFaceTheirWall
<1>1. BoardIInv => PortsFaceTheirWall
  BY FacesItsWall DEF BoardIInv, PortsFaceTheirWall
<1> QED BY <1>1, BoardTypeInvariant, PTL

-----------------------------------------------------------------------------
(* Resizing and resizing back                                               *)

(* A place kept on a side no shorter than what it needs is on the same half *)
(* of it, as far from the same edge                                         *)
LEMMA StaysPlace ==
    ASSUME NEW v \in Int, NEW from \in Even, NEW to \in Even, NEW r \in Int, r > 0,
           to = from \/ to >= 2 * Room(v, from, r)
    PROVE  /\ to = from => Stays(v, from, to) = v
           /\ Room(Stays(v, from, to), to, r) = Room(v, from, r)
           /\ \A next \in Even : Stays(Stays(v, from, to), to, next) = Stays(v, from, next)
<1>1. /\ from \in Int /\ from \div 2 \in Int /\ from = 2 * (from \div 2)
      /\ to \in Int /\ to \div 2 \in Int /\ to = 2 * (to \div 2)
  BY EvenHalf
<1>2. CASE 2 * v = from
  <2>1. Stays(v, from, to) = to \div 2 /\ \A next \in Even : Stays(v, from, next) = next \div 2
    BY <1>2 DEF Stays
  <2>2. v = from \div 2
    BY <1>1, <1>2
  <2>3. \A next \in Even : Stays(to \div 2, to, next) = next \div 2
    BY <1>1 DEF Stays
  <2>4. Room(v, from, r) = r /\ Room(to \div 2, to, r) = r
    BY <1>1, <1>2 DEF Room
  <2> QED BY <2>1, <2>2, <2>3, <2>4
<1>3. CASE 2 * v > from
  <2>1. Room(v, from, r) = from - v + r
    BY <1>1, <1>3 DEF Room, EdgeDistance
  <2>2. \A next \in Even : Stays(v, from, next) = next - (from - v)
    BY <1>1, <1>3 DEF Stays
  <2>3. PICK k \in Int : k = to - (from - v)
    BY <1>1
  <2>4. 2 * k > to
    BY <1>1, <1>3, <2>1, <2>3
  <2>5. Room(k, to, r) = to - k + r
    BY <1>1, <2>4 DEF Room, EdgeDistance
  <2>6. \A next \in Even : Stays(k, to, next) = next - (to - k)
    BY <1>1, <2>4 DEF Stays
  <2>7. to - k = from - v
    BY <1>1, <2>3
  <2>8. Stays(v, from, to) = k
    BY <2>2, <2>3
  <2>9. to = from => k = v
    BY <1>1, <2>3
  <2> QED BY <2>1, <2>2, <2>5, <2>6, <2>7, <2>8, <2>9
<1>4. CASE 2 * v < from
  <2>1. Room(v, from, r) = v + r
    BY <1>1, <1>4 DEF Room, EdgeDistance
  <2>2. \A next \in Even : Stays(v, from, next) = v
    BY <1>1, <1>4 DEF Stays
  <2>3. 2 * v < to
    BY <1>1, <1>4, <2>1
  <2>4. Room(v, to, r) = v + r
    BY <1>1, <2>3 DEF Room, EdgeDistance
  <2>5. \A next \in Even : Stays(v, to, next) = v
    BY <1>1, <2>3 DEF Stays
  <2> QED BY <2>1, <2>2, <2>4, <2>5
<1> QED BY <1>1, <1>2, <1>3, <1>4

LEMMA InsideBounds ==
    ASSUME NEW v \in Int, NEW side \in Even
    PROVE  Inside(v, side) = v <=> /\ v >= Radius \/ 2 * v >= side
                                   /\ side - v >= Radius \/ 2 * (side - v) >= side
<1> DEFINE inset == Min({Radius, side \div 2})
<1>1. side \in Int /\ side \div 2 \in Int /\ side = 2 * (side \div 2) /\ Radius \in Int
  BY EvenHalf, Constants
<1>2. inset = IF Radius <= side \div 2 THEN Radius ELSE side \div 2
  BY <1>1, MinOfTwo
<1>3. inset \in Int /\ inset <= side - inset
  BY <1>1, <1>2
<1>4. Inside(v, side) = Clamp(v, inset, side - inset)
  BY DEF Inside
<1> HIDE DEF inset
<1>5. Inside(v, side) = v <=> v \in inset..(side - inset)
  <2>1. v \in inset..(side - inset) => Clamp(v, inset, side - inset) = v
    BY <1>1, <1>3, ClampIs
  <2>2. Clamp(v, inset, side - inset) \in inset..(side - inset)
    BY <1>1, <1>3, ClampIs
  <2> QED BY <1>4, <2>1, <2>2
<1> QED BY <1>1, <1>2, <1>5

(* What is whole on the board stays whole                                   *)
LEMMA StaysInside ==
    ASSUME NEW v \in Int, NEW from \in Even, NEW to \in Even, Inside(v, from) = v,
           to = from \/ to >= 2 * Room(v, from, Radius)
    PROVE  Inside(Stays(v, from, to), to) = Stays(v, from, to)
<1>1. /\ from \in Int /\ from \div 2 \in Int /\ from = 2 * (from \div 2)
      /\ to \in Int /\ to \div 2 \in Int /\ to = 2 * (to \div 2)
      /\ Radius \in Int /\ Radius > 0
  BY EvenHalf, Constants
<1>2. CASE to = from
  BY <1>1, <1>2, StaysPlace
<1>3. CASE to >= 2 * Room(v, from, Radius)
  <2>1. PICK k \in Int : k = Stays(v, from, to)
    BY StaysTyped
  <2>2. /\ v >= Radius \/ 2 * v >= from
        /\ from - v >= Radius \/ 2 * (from - v) >= from
    BY InsideBounds
  <2>3. CASE 2 * v = from
    <3>1. k = to \div 2
      BY <2>1, <2>3 DEF Stays
    <3> QED BY <1>1, <2>1, <3>1, InsideBounds
  <2>4. CASE 2 * v > from
    <3>1. k = to - (from - v)
      BY <1>1, <2>1, <2>4 DEF Stays
    <3>2. to >= 2 * (from - v + Radius)
      BY <1>1, <1>3, <2>4 DEF Room, EdgeDistance
    <3>3. from - v >= Radius
      BY <1>1, <2>2, <2>4
    <3>4. k >= Radius /\ to - k >= Radius
      BY <1>1, <3>1, <3>2, <3>3
    <3> QED BY <2>1, <3>4, InsideBounds
  <2>5. CASE 2 * v < from
    <3>1. k = v
      BY <1>1, <2>1, <2>5 DEF Stays
    <3>2. to >= 2 * (v + Radius)
      BY <1>1, <1>3, <2>5 DEF Room, EdgeDistance
    <3>3. v >= Radius
      BY <1>1, <2>2, <2>5
    <3>4. to - k >= Radius
      BY <1>1, <3>1, <3>2, <3>3
    <3> QED BY <2>1, <3>1, <3>3, <3>4, InsideBounds
  <2> QED BY <1>1, <2>3, <2>4, <2>5
<1> QED BY <1>2, <1>3

LEMMA StaysBetween ==
    ASSUME NEW v \in Int, NEW from \in Even, NEW to \in Even, NEW r \in Int, r > 0,
           v \in 0..from, to = from \/ to >= 2 * Room(v, from, r)
    PROVE  Stays(v, from, to) \in 0..to
<1>1. /\ from \in Int /\ from \div 2 \in Int /\ from = 2 * (from \div 2)
      /\ to \in Int /\ to \div 2 \in Int /\ to = 2 * (to \div 2)
  BY EvenHalf
<1>2. CASE 2 * v = from
  <2>1. Stays(v, from, to) = to \div 2
    BY <1>2 DEF Stays
  <2>2. Room(v, from, r) = r
    BY <1>2 DEF Room
  <2> QED BY <1>1, <2>1, <2>2
<1>3. CASE 2 * v > from
  <2>1. Stays(v, from, to) = to - (from - v)
    BY <1>1, <1>3 DEF Stays
  <2>2. Room(v, from, r) = from - v + r
    BY <1>1, <1>3 DEF Room, EdgeDistance
  <2> QED BY <1>1, <1>3, <2>1, <2>2
<1>4. CASE 2 * v < from
  <2>1. Stays(v, from, to) = v
    BY <1>1, <1>4 DEF Stays
  <2>2. Room(v, from, r) = v + r
    BY <1>1, <1>4 DEF Room, EdgeDistance
  <2> QED BY <1>1, <1>4, <2>1, <2>2
<1> QED BY <1>1, <1>2, <1>3, <1>4

(* So it is with rounding, from one size of whole thousandths to another    *)
LEMMA KeepsPlace ==
    ASSUME NEW v \in Int, NEW from \in Even, NEW to \in Even, NEW r \in Int, r > 0,
           v % Grain = 0, Whole(from), Whole(to), to = from \/ to >= 2 * Room(v, from, r)
    PROVE  /\ to = from => Keep(v, from, to) = v
           /\ Room(Keep(v, from, to), to, r) = Room(v, from, r)
           /\ \A next \in Even : Keep(Keep(v, from, to), to, next) = Keep(v, from, next)
           /\ Keep(v, from, to) = Stays(v, from, to)
<1>1. Keep(v, from, to) = Stays(v, from, to)
  BY KeepExact
<1>2. /\ to = from => Stays(v, from, to) = v
      /\ Room(Stays(v, from, to), to, r) = Room(v, from, r)
      /\ \A next \in Even : Stays(Stays(v, from, to), to, next) = Stays(v, from, next)
  BY StaysPlace
<1>3. \A next \in Even : Keep(Keep(v, from, to), to, next) = Keep(v, from, next)
  BY <1>1, <1>2, KeepIs
<1> QED BY <1>1, <1>2, <1>3

\* A board of a size on which all of a drawing's holes and ports have room.
Roomy(d, w, l) ==
  /\ w \in Even /\ l \in Even /\ Whole(w) /\ Whole(l)
  /\ w = d.width \/ w >= Minimum(d, "x")
  /\ l = d.length \/ l >= Minimum(d, "y")

KeptFrom(d, b) ==
  /\ Roomy(d, b.width, b.length)
  /\ b.holes = {KeptHole(d, h, b.width, b.length) : h \in d.holes}
  /\ b.ports = {KeptPort(d, p, b.width, b.length) : p \in d.ports}

LEMMA KeptHoleIs ==
    ASSUME NEW d, Settled(d), OnGrid(d), NEW w, NEW l, Roomy(d, w, l), NEW h \in d.holes
    PROVE  LET g == KeptHole(d, h, w, l)
           IN  /\ g \in Holes
               /\ Room(g.x, w, Radius) = Room(h.x, d.width, Radius)
               /\ Room(g.y, l, Radius) = Room(h.y, d.length, Radius)
               /\ Inside(g.x, w) = g.x /\ Inside(g.y, l) = g.y
               /\ \A next \in Even : /\ Keep(g.x, w, next) = Keep(h.x, d.width, next)
                                     /\ Keep(g.y, l, next) = Keep(h.y, d.length, next)
               /\ w = d.width /\ l = d.length => g = h
<1> DEFINE x == Keep(h.x, d.width, w)
           y == Keep(h.y, d.length, l)
<1>1. /\ BoardOK(d) /\ d.width \in Even /\ d.length \in Even /\ h \in Holes
      /\ h.x \in Int /\ h.y \in Int /\ w \in Even /\ l \in Even
      /\ Inside(h.x, d.width) = h.x /\ Inside(h.y, d.length) = h.y
  BY DEF Settled, BoardOK, Boards, Holes, Roomy
<1>2. /\ Radius \in Int /\ Radius > 0
      /\ h.x % Grain = 0 /\ h.y % Grain = 0
      /\ Whole(d.width) /\ Whole(d.length) /\ Whole(w) /\ Whole(l)
  BY Constants DEF OnGrid, Roomy
<1>3. w = d.width \/ w >= 2 * Room(h.x, d.width, Radius)
  <2>1. Room(h.x, d.width, Radius) \in HoleRooms(d, "x")
    BY DEF HoleRooms, Side
  <2>2. Minimum(d, "x") >= 2 * Room(h.x, d.width, Radius)
        /\ Room(h.x, d.width, Radius) \in Int /\ Minimum(d, "x") \in Even
    BY <1>1, <2>1, MinimumIs
  <2> QED BY <1>1, <2>2 DEF Roomy, Even
<1>4. l = d.length \/ l >= 2 * Room(h.y, d.length, Radius)
  <2>1. Room(h.y, d.length, Radius) \in HoleRooms(d, "y")
    BY DEF HoleRooms, Side
  <2>2. Minimum(d, "y") >= 2 * Room(h.y, d.length, Radius)
        /\ Room(h.y, d.length, Radius) \in Int /\ Minimum(d, "y") \in Even
    BY <1>1, <2>1, MinimumIs
  <2> QED BY <1>1, <2>2 DEF Roomy, Even
<1>5. /\ w = d.width => x = h.x
      /\ Room(x, w, Radius) = Room(h.x, d.width, Radius)
      /\ \A next \in Even : Keep(x, w, next) = Keep(h.x, d.width, next)
      /\ x = Stays(h.x, d.width, w)
  BY <1>1, <1>2, <1>3, KeepsPlace
<1>6. /\ l = d.length => y = h.y
      /\ Room(y, l, Radius) = Room(h.y, d.length, Radius)
      /\ \A next \in Even : Keep(y, l, next) = Keep(h.y, d.length, next)
      /\ y = Stays(h.y, d.length, l)
  BY <1>1, <1>2, <1>4, KeepsPlace
<1>7. Inside(x, w) = x
  <2>1. Inside(Stays(h.x, d.width, w), w) = Stays(h.x, d.width, w)
    BY <1>1, <1>3, StaysInside
  <2> QED BY <2>1, <1>5
<1>8. Inside(y, l) = y
  <2>1. Inside(Stays(h.y, d.length, l), l) = Stays(h.y, d.length, l)
    BY <1>1, <1>4, StaysInside
  <2> QED BY <2>1, <1>6
<1>9. KeptHole(d, h, w, l) = [h EXCEPT !.x = x, !.y = y]
  BY DEF KeptHole
<1>10. x \in Int /\ y \in Int
  <2>1. x \in Int
    BY <1>1, KeepTyped
  <2>2. y \in Int
    BY <1>1, KeepTyped
  <2> QED BY <2>1, <2>2
<1> HIDE DEF x, y
<1>11. /\ KeptHole(d, h, w, l) \in Holes /\ KeptHole(d, h, w, l).x = x
       /\ KeptHole(d, h, w, l).y = y
  BY <1>1, <1>9, <1>10 DEF Holes
<1>12. w = d.width /\ l = d.length => KeptHole(d, h, w, l) = h
  BY <1>1, <1>5, <1>6, <1>9 DEF Holes
<1> QED BY <1>5, <1>6, <1>7, <1>8, <1>11, <1>12

LEMMA KeptPortIs ==
    ASSUME NEW d, Settled(d), OnGrid(d), NEW w, NEW l, Roomy(d, w, l), w >= 0, l >= 0,
           NEW p \in d.ports
    PROVE  LET q == KeptPort(d, p, w, l)
               along == p.edge \in {"front", "back"}
               from == IF along THEN d.width ELSE d.length
               to == IF along THEN w ELSE l
           IN  /\ q \in Ports /\ q.edge = p.edge
               /\ Room(q.offset, to, PortWidth \div 2) = Room(p.offset, from, PortWidth \div 2)
               /\ Clamp(q.offset, 0, to) = q.offset
               /\ q = [p EXCEPT !.offset = q.offset]
               /\ \A next \in Even : Keep(q.offset, to, next) = Keep(p.offset, from, next)
               /\ w = d.width /\ l = d.length => q = p
<1> DEFINE along == p.edge \in {"front", "back"}
           axis == IF along THEN "x" ELSE "y"
           from == IF along THEN d.width ELSE d.length
           to == IF along THEN w ELSE l
           half == PortWidth \div 2
           o == Keep(p.offset, from, to)
<1>1. /\ BoardOK(d) /\ from \in Even /\ to \in Even /\ p \in Ports /\ p.offset \in Int
      /\ to \in Int /\ to >= 0 /\ from \in Int /\ from >= 0
      /\ Clamp(p.offset, 0, from) = p.offset /\ axis \in {"x", "y"}
      /\ from = Side(d, axis) /\ (to = from \/ to >= Minimum(d, axis))
      /\ p.offset % Grain = 0 /\ Whole(from) /\ Whole(to)
  BY Constants DEF Settled, BoardOK, Boards, Ports, Roomy, Even, EdgeLength, Side, OnGrid
<1>2. half \in Int /\ half > 0
  BY Constants, EvenHalf
<1>3. KeptPort(d, p, w, l) = [p EXCEPT !.offset = o]
  BY DEF KeptPort
<1>4. p \in PortsAlong(d, axis)
  BY DEF PortsAlong
<1> HIDE DEF axis, half
<1>5. Room(p.offset, from, half) \in PortRooms(d, axis)
  BY <1>1, <1>4 DEF PortRooms, half
<1>6. (w = d.width /\ l = d.length) => to = from
  OBVIOUS
<1> HIDE DEF from, to
<1>7. to = from \/ to >= 2 * Room(p.offset, from, half)
  <2>1. /\ Minimum(d, axis) >= 2 * Room(p.offset, from, half)
        /\ Room(p.offset, from, half) \in Int /\ Minimum(d, axis) \in Even
    BY <1>1, <1>5, MinimumIs
  <2> QED BY <1>1, <2>1 DEF Even
<1>8. p.offset \in 0..from
  <2>1. Clamp(p.offset, 0, from) = p.offset
    BY <1>1
  <2>2. Clamp(p.offset, 0, from) \in 0..from
    BY <1>1, ClampFromZero
  <2> QED BY <2>1, <2>2
<1>9. /\ to = from => o = p.offset
      /\ Room(o, to, half) = Room(p.offset, from, half)
      /\ \A next \in Even : Keep(o, to, next) = Keep(p.offset, from, next)
      /\ o = Stays(p.offset, from, to)
  BY <1>1, <1>2, <1>7, KeepsPlace
<1>10. o \in 0..to
  <2>1. Stays(p.offset, from, to) \in 0..to
    BY <1>1, <1>2, <1>7, <1>8, StaysBetween
  <2> QED BY <2>1, <1>9
<1> HIDE DEF o
<1>11. Clamp(o, 0, to) = o
  BY <1>1, <1>10, ClampFromZero
<1>12. /\ KeptPort(d, p, w, l) \in Ports /\ KeptPort(d, p, w, l).edge = p.edge
       /\ KeptPort(d, p, w, l).offset = o
  BY <1>1, <1>3, <1>10 DEF Ports
<1>13. o = p.offset => KeptPort(d, p, w, l) = p
  BY <1>1, <1>3 DEF Ports
<1> QED BY <1>3, <1>6, <1>9, <1>11, <1>12, <1>13 DEF from, to, half

LEMMA KeptMinimum ==
    ASSUME NEW d, NEW b, Settled(d), OnGrid(d), Settled(b), KeptFrom(d, b)
    PROVE  Minimum(b, "x") = Minimum(d, "x") /\ Minimum(b, "y") = Minimum(d, "y")
<1> DEFINE w == b.width
           l == b.length
           H(h) == KeptHole(d, h, w, l)
           P(p) == KeptPort(d, p, w, l)
<1>1. /\ Roomy(d, w, l) /\ w >= 0 /\ l >= 0
      /\ b.holes = {H(h) : h \in d.holes} /\ b.ports = {P(p) : p \in d.ports}
  BY Constants DEF KeptFrom, Settled, Roomy
<1>2. \A h \in d.holes : /\ Room(H(h).x, w, Radius) = Room(h.x, d.width, Radius)
                         /\ Room(H(h).y, l, Radius) = Room(h.y, d.length, Radius)
  BY <1>1, KeptHoleIs
<1>3. \A p \in d.ports :
        /\ P(p).edge = p.edge
        /\ p.edge \in {"front", "back"} =>
             Room(P(p).offset, w, PortWidth \div 2) = Room(p.offset, d.width, PortWidth \div 2)
        /\ p.edge \notin {"front", "back"} =>
             Room(P(p).offset, l, PortWidth \div 2) = Room(p.offset, d.length, PortWidth \div 2)
  BY <1>1, KeptPortIs
<1> HIDE DEF H, P
<1>4. HoleRooms(b, "x") = HoleRooms(d, "x")
  <2>1. HoleRooms(b, "x") = {Room(g.x, w, Radius) : g \in b.holes}
    BY DEF HoleRooms, Side
  <2>2. HoleRooms(d, "x") = {Room(h.x, d.width, Radius) : h \in d.holes}
    BY DEF HoleRooms, Side
  <2>3. HoleRooms(b, "x") = {Room(H(h).x, w, Radius) : h \in d.holes}
    BY <1>1, <2>1
  <2> QED BY <1>2, <2>2, <2>3
<1>5. HoleRooms(b, "y") = HoleRooms(d, "y")
  <2>1. HoleRooms(b, "y") = {Room(g.y, l, Radius) : g \in b.holes}
    BY DEF HoleRooms, Side
  <2>2. HoleRooms(d, "y") = {Room(h.y, d.length, Radius) : h \in d.holes}
    BY DEF HoleRooms, Side
  <2>3. HoleRooms(b, "y") = {Room(H(h).y, l, Radius) : h \in d.holes}
    BY <1>1, <2>1
  <2> QED BY <1>2, <2>2, <2>3
<1>6. PortRooms(b, "x") = PortRooms(d, "x")
  <2>1. PortRooms(b, "x") = {Room(q.offset, w, PortWidth \div 2) : q \in PortsAlong(b, "x")}
    BY DEF PortRooms, Side
  <2>2. PortRooms(d, "x") = {Room(p.offset, d.width, PortWidth \div 2) : p \in PortsAlong(d, "x")}
    BY DEF PortRooms, Side
  <2>3. PortsAlong(b, "x") = {q \in b.ports : q.edge \in {"front", "back"}}
    BY DEF PortsAlong
  <2>4. PortsAlong(d, "x") = {p \in d.ports : p.edge \in {"front", "back"}}
    BY DEF PortsAlong
  <2>5. PortsAlong(b, "x") = {P(p) : p \in PortsAlong(d, "x")}
    BY <1>1, <1>3, <2>3, <2>4
  <2>6. \A p \in PortsAlong(d, "x") :
          Room(P(p).offset, w, PortWidth \div 2) = Room(p.offset, d.width, PortWidth \div 2)
    BY <1>3, <2>4
  <2>7. PortRooms(b, "x") =
          {Room(P(p).offset, w, PortWidth \div 2) : p \in PortsAlong(d, "x")}
    BY <2>1, <2>5
  <2> QED BY <2>2, <2>6, <2>7
<1>7. PortRooms(b, "y") = PortRooms(d, "y")
  <2>1. PortRooms(b, "y") = {Room(q.offset, l, PortWidth \div 2) : q \in PortsAlong(b, "y")}
    BY DEF PortRooms, Side
  <2>2. PortRooms(d, "y") = {Room(p.offset, d.length, PortWidth \div 2) : p \in PortsAlong(d, "y")}
    BY DEF PortRooms, Side
  <2>3. PortsAlong(b, "y") = {q \in b.ports : q.edge \notin {"front", "back"}}
    BY DEF PortsAlong
  <2>4. PortsAlong(d, "y") = {p \in d.ports : p.edge \notin {"front", "back"}}
    BY DEF PortsAlong
  <2>5. PortsAlong(b, "y") = {P(p) : p \in PortsAlong(d, "y")}
    BY <1>1, <1>3, <2>3, <2>4
  <2>6. \A p \in PortsAlong(d, "y") :
          Room(P(p).offset, l, PortWidth \div 2) = Room(p.offset, d.length, PortWidth \div 2)
    BY <1>3, <2>4
  <2>7. PortRooms(b, "y") =
          {Room(P(p).offset, l, PortWidth \div 2) : p \in PortsAlong(d, "y")}
    BY <2>1, <2>5
  <2> QED BY <2>2, <2>6, <2>7
<1> QED BY <1>4, <1>5, <1>6, <1>7, MinimumRooms

LEMMA KeptFromItself ==
    ASSUME NEW b, Settled(b), OnGrid(b)
    PROVE  KeptFrom(b, b)
<1>1. Roomy(b, b.width, b.length) /\ b.width >= 0 /\ b.length >= 0
  BY Constants DEF Roomy, Settled, BoardOK, Boards, OnGrid
<1>2. \A h \in b.holes : KeptHole(b, h, b.width, b.length) = h
  BY <1>1, KeptHoleIs
<1>3. \A p \in b.ports : KeptPort(b, p, b.width, b.length) = p
  BY <1>1, KeptPortIs
<1> QED BY <1>1, <1>2, <1>3 DEF KeptFrom

(* A resize takes a board kept from a drawing to one kept from it           *)
LEMMA ResizeKeeps ==
    ASSUME NEW d, NEW b, Settled(d), OnGrid(d), Settled(b), KeptFrom(d, b),
           Minimum(d, "x") <= MaxBoard, Minimum(d, "y") <= MaxBoard,
           NEW bx \in Boxes, NEW width \in Even, NEW length \in Even,
           width \in 0..MaxBoard, length \in 0..MaxBoard,
           OnGrid(Normalized(Resized(bx, b, width, length)))
    PROVE  KeptFrom(d, Normalized(Resized(bx, b, width, length)))
<1> DEFINE c == Resized(bx, b, width, length)
<1>1. BoardOK(b) /\ BoardOK(d)
  BY DEF Settled
<1>0. BoardOK(c) /\ \E w \in Even, l \in Even : ResizedTo(b, c, width, length, w, l)
  BY <1>1, ResizedIs
<1> HIDE DEF c
<1>2. PICK w \in Even, l \in Even :
        /\ BoardOK(c)
        /\ w >= width /\ w >= Minimum(b, "x") /\ w \in {width, Minimum(b, "x")}
        /\ l >= length /\ l >= Minimum(b, "y") /\ l \in {length, Minimum(b, "y")}
        /\ c.width = w /\ c.length = l
        /\ c.holes = {KeptHole(b, g, w, l) : g \in b.holes}
        /\ c.ports = {KeptPort(b, q, w, l) : q \in b.ports}
  BY <1>0 DEF ResizedTo
<1>3. /\ Minimum(b, "x") = Minimum(d, "x") /\ Minimum(b, "y") = Minimum(d, "y")
      /\ Minimum(d, "x") \in Even /\ Minimum(d, "x") >= MinSide
      /\ Minimum(d, "y") \in Even /\ Minimum(d, "y") >= MinSide
  BY <1>1, KeptMinimum, MinimumIs
<1>4. w \in MinSide..MaxBoard /\ l \in MinSide..MaxBoard
  BY <1>2, <1>3, Constants DEF Even
<1>a. Whole(w) /\ Whole(l)
  <2>1. OnGrid(Normalized(c))
    BY DEF c
  <2>2. Normalized(c).width = Cut(w) /\ Normalized(c).length = Cut(l)
    BY <1>2, NormalizedIs
  <2>3. Cut(w) = w
    BY <1>4, CutIs
  <2>4. Cut(l) = l
    BY <1>4, CutIs
  <2> QED BY <2>1, <2>2, <2>3, <2>4 DEF OnGrid
<1>5. Roomy(d, w, l) /\ w >= 0 /\ l >= 0
  BY <1>2, <1>3, <1>4, <1>a, Constants DEF Roomy
<1>6. /\ Roomy(d, b.width, b.length) /\ b.width >= 0 /\ b.length >= 0
      /\ b.holes = {KeptHole(d, h, b.width, b.length) : h \in d.holes}
      /\ b.ports = {KeptPort(d, p, b.width, b.length) : p \in d.ports}
  BY Constants DEF KeptFrom, Settled, Roomy
<1>7. ASSUME NEW h \in d.holes
      PROVE  KeptHole(b, KeptHole(d, h, b.width, b.length), w, l) = KeptHole(d, h, w, l)
  <2> DEFINE g == KeptHole(d, h, b.width, b.length)
  <2>a. /\ g \in Holes
        /\ \A next \in Even : /\ Keep(g.x, b.width, next) = Keep(h.x, d.width, next)
                              /\ Keep(g.y, b.length, next) = Keep(h.y, d.length, next)
    BY <1>6, KeptHoleIs
  <2>1. /\ Keep(g.x, b.width, w) = Keep(h.x, d.width, w)
        /\ Keep(g.y, b.length, l) = Keep(h.y, d.length, l)
    BY <1>2, <2>a
  <2>2. h \in Holes
    BY <1>1 DEF BoardOK, Boards
  <2>3. /\ KeptHole(b, g, w, l) = [g EXCEPT !.x = Keep(h.x, d.width, w),
                                            !.y = Keep(h.y, d.length, l)]
        /\ KeptHole(d, h, w, l) = [h EXCEPT !.x = Keep(h.x, d.width, w),
                                            !.y = Keep(h.y, d.length, l)]
    BY <2>1 DEF KeptHole
  <2>4. g \in Holes
    BY <2>a
  <2> HIDE DEF g
  <2>5. KeptHole(b, g, w, l) = KeptHole(d, h, w, l)
    BY <2>2, <2>3, <2>4 DEF Holes
  <2> QED BY <2>5 DEF g
<1>8. ASSUME NEW p \in d.ports
      PROVE  KeptPort(b, KeptPort(d, p, b.width, b.length), w, l) = KeptPort(d, p, w, l)
  <2> DEFINE q == KeptPort(d, p, b.width, b.length)
             along == p.edge \in {"front", "back"}
             o == IF along THEN Keep(p.offset, d.width, w) ELSE Keep(p.offset, d.length, l)
  <2>1. /\ q \in Ports /\ q.edge = p.edge /\ q = [p EXCEPT !.offset = q.offset]
        /\ along => Keep(q.offset, b.width, w) = Keep(p.offset, d.width, w)
        /\ ~ along => Keep(q.offset, b.length, l) = Keep(p.offset, d.length, l)
    BY <1>2, <1>6, KeptPortIs
  <2>2. p \in Ports
    BY <1>1 DEF BoardOK, Boards
  <2>3. /\ KeptPort(b, q, w, l) = [q EXCEPT !.offset = o]
        /\ KeptPort(d, p, w, l) = [p EXCEPT !.offset = o]
    BY <2>1 DEF KeptPort
  <2> HIDE DEF q, o
  <2>4. KeptPort(b, q, w, l) = KeptPort(d, p, w, l)
    BY <2>1, <2>2, <2>3 DEF Ports
  <2> QED BY <2>4 DEF q
<1>9. c.holes = {KeptHole(d, h, w, l) : h \in d.holes}
  BY <1>2, <1>6, <1>7
<1>10. c.ports = {KeptPort(d, p, w, l) : p \in d.ports}
  BY <1>2, <1>6, <1>8
<1>11. Settled(c)
  <2>1. \A h \in c.holes : Inside(h.x, w) = h.x /\ Inside(h.y, l) = h.y
    BY <1>5, <1>9, KeptHoleIs
  <2>2. ASSUME NEW q \in c.ports
        PROVE  Clamp(q.offset, 0, IF q.edge \in {"front", "back"} THEN w ELSE l) = q.offset
    <3>1. PICK p \in d.ports : q = KeptPort(d, p, w, l)
      BY <1>10
    <3> QED BY <1>5, <3>1, KeptPortIs
  <2> QED BY <1>2, <1>4, <2>1, <2>2 DEF Settled, EdgeLength
<1>12. Moved(c, Normalized(c))
  BY <1>11, NormalizedKeeps
<1>13. KeptFrom(d, Normalized(c))
  BY <1>2, <1>5, <1>9, <1>10, <1>12 DEF KeptFrom, Moved
<1> QED BY <1>13 DEF c

ReturnIInv ==
  /\ BoardIInv
  /\ exact /\ Possible => OnGrid(drawn) /\ KeptFrom(drawn, board)

LEMMA ReturnStep == ReturnIInv /\ [BoardNext]_boardVars => ReturnIInv'
<1> SUFFICES ASSUME ReturnIInv, [BoardNext]_boardVars
             PROVE  ReturnIInv'
  OBVIOUS
<1>1. BoardIInv /\ BoardIInv' /\ box \in Boxes
      /\ Settled(board) /\ Settled(drawn) /\ Settled(board')
  BY BoardSteps DEF ReturnIInv, BoardIInv
<1>2. SUFFICES ASSUME exact', Possible'
               PROVE  OnGrid(drawn') /\ KeptFrom(drawn', board')
  BY <1>1 DEF ReturnIInv
<1>3. CASE NewDrawing
  BY <1>1, <1>2, <1>3, KeptFromItself DEF NewDrawing
<1>4. CASE (SameDrawing \/ UNCHANGED <<drawn, exact>>) /\ Moved(board, board')
  <2>1. drawn' = drawn /\ exact /\ Possible
    BY <1>2, <1>4 DEF SameDrawing, Possible
  <2> QED BY <2>1, <1>4 DEF ReturnIInv, KeptFrom, Moved
<1>5. CASE /\ SameDrawing
           /\ \E width, length \in Even :
                /\ width \in 0..MaxBoard /\ length \in 0..MaxBoard
                /\ board' = Normalized(Resized(box, board, width, length))
  <2>1. drawn' = drawn /\ exact /\ OnGrid(board') /\ Possible
    BY <1>2, <1>5 DEF SameDrawing, Possible
  <2>2. OnGrid(drawn) /\ KeptFrom(drawn, board)
    BY <2>1 DEF ReturnIInv
  <2> QED BY <1>1, <1>5, <2>1, <2>2, ResizeKeeps DEF Possible
<1> QED BY <1>1, <1>3, <1>4, <1>5, BoardSteps

(* Whatever was done to a board, and however its size was changed, its      *)
(* holes and ports are where they were drawn when its size is what it was,  *)
(* if it and the sizes on the way were whole thousandths of a millimetre    *)
(* (resizeBoard, boardMinimumSize)                                          *)
THEOREM ResizeReturned == BoardSpec => []ResizeReturns
<1>1. BoardInit => ReturnIInv
  <2>1. BoardInit => BoardIInv /\ drawn = board /\ exact = OnGrid(board)
    BY BoardTypeInit
  <2>2. BoardIInv /\ drawn = board /\ exact = OnGrid(board) => ReturnIInv
    BY KeptFromItself DEF ReturnIInv, BoardIInv
  <2> QED BY <2>1, <2>2
<1>2. ReturnIInv /\ [BoardNext]_boardVars => ReturnIInv'
  BY ReturnStep
<1>3. ReturnIInv => ResizeReturns
  <2> SUFFICES ASSUME ReturnIInv, exact, Possible,
                      board.width = drawn.width, board.length = drawn.length
               PROVE  board.holes = drawn.holes /\ board.ports = drawn.ports
    BY DEF ResizeReturns, Returned
  <2>1. KeptFrom(drawn, board) /\ Settled(drawn) /\ OnGrid(drawn)
    BY DEF ReturnIInv, BoardIInv
  <2>2. KeptFrom(drawn, drawn)
    BY <2>1, KeptFromItself
  <2> QED BY <2>1, <2>2 DEF KeptFrom
<1> QED BY <1>1, <1>2, <1>3, PTL DEF BoardSpec

-----------------------------------------------------------------------------
(* Fitting the box to the board                                             *)

(* On an axis with room for the board and its gaps, the board is put clear  *)
(* of both walls, and right against the one its ports go through            *)
LEMMA BesideFits ==
    ASSUME NEW bx \in Boxes, NEW b, BoardOK(b), NEW i \in {1, 2},
           NEW low \in Edges, NEW high \in Edges,
           InnerHalf(bx, low) = Inner(bx)[i] \div 2, InnerHalf(bx, high) = Inner(bx)[i] \div 2,
           Inner(bx)[i] >= Outline(b)[i] + GapOr(b, low) + GapOr(b, high)
    PROVE  LET x == Beside(bx, b, low, high, i, 0)
               half == (Inner(bx)[i] - Outline(b)[i]) \div 2
           IN  /\ x \in Int /\ x \in -half..half
               /\ 2 * x + Outline(b)[i] + 2 * WallGap <= Inner(bx)[i]
               /\ -(2 * x) + Outline(b)[i] + 2 * WallGap <= Inner(bx)[i]
               /\ PortsAt(b, high) # {} /\ PortsAt(b, low) = {} =>
                    x = InnerHalf(bx, high) - WallGapAt(b, high) - Outline(b)[i] \div 2
               /\ PortsAt(b, low) # {} /\ PortsAt(b, high) = {} =>
                    -x = InnerHalf(bx, low) - WallGapAt(b, low) - Outline(b)[i] \div 2
<1> DEFINE x == Beside(bx, b, low, high, i, 0)
           inner == Inner(bx)[i]
           outline == Outline(b)[i]
           half == (inner - outline) \div 2
<1>1. inner \in Even /\ outline \in Even
  BY InnerIs, OutlineIs DEF BoardOK
<1>2. /\ inner \in Int /\ inner \div 2 \in Int /\ inner = 2 * (inner \div 2)
      /\ outline \in Int /\ outline \div 2 \in Int /\ outline = 2 * (outline \div 2)
      /\ half = (inner \div 2) - (outline \div 2) /\ WallGap \in Nat
  BY <1>1, EvenHalf, EvenSum, Constants
<1>3. /\ GapOr(b, low) \in Int /\ GapOr(b, low) >= WallGap
      /\ GapOr(b, high) \in Int /\ GapOr(b, high) >= WallGap
  BY GapOrIs
<1> HIDE DEF inner, outline, half
<1>4. CASE PortsAt(b, low) = {} /\ PortsAt(b, high) # {}
  <2>1. GapOr(b, high) = WallGapAt(b, high)
    BY <1>4 DEF GapOr
  <2>2. x = inner \div 2 - WallGapAt(b, high) - outline \div 2
    BY <1>4 DEF Beside, Against, inner, outline
  <2> HIDE DEF x
  <2>3. /\ x \in Int /\ x \in -half..half
        /\ 2 * x + outline + 2 * WallGap <= inner /\ -(2 * x) + outline + 2 * WallGap <= inner
    BY <1>2, <1>3, <2>1, <2>2 DEF inner, outline
  <2> QED BY <1>4, <2>2, <2>3 DEF x, inner, outline, half
<1>5. CASE PortsAt(b, low) # {} /\ PortsAt(b, high) = {}
  <2>1. GapOr(b, low) = WallGapAt(b, low)
    BY <1>5 DEF GapOr
  <2>2. x = -(inner \div 2 - WallGapAt(b, low) - outline \div 2)
    BY <1>5 DEF Beside, Against, inner, outline
  <2> HIDE DEF x
  <2>3. /\ x \in Int /\ x \in -half..half
        /\ 2 * x + outline + 2 * WallGap <= inner /\ -(2 * x) + outline + 2 * WallGap <= inner
        /\ -x = inner \div 2 - WallGapAt(b, low) - outline \div 2
    BY <1>2, <1>3, <2>1, <2>2 DEF inner, outline
  <2> QED BY <1>5, <2>3 DEF x, inner, outline, half
<1>6. CASE (PortsAt(b, low) = {}) = (PortsAt(b, high) = {})
  <2>1. x = 0
    BY <1>6 DEF Beside
  <2> HIDE DEF x
  <2>2. /\ x \in Int /\ x \in -half..half
        /\ 2 * x + outline + 2 * WallGap <= inner /\ -(2 * x) + outline + 2 * WallGap <= inner
    BY <1>2, <1>3, <2>1 DEF inner, outline
  <2> QED BY <1>6, <2>2 DEF x, inner, outline, half
<1> QED BY <1>4, <1>5, <1>6

LEMMA OppositeIs ==
  /\ Opposite("left") = "right" /\ Opposite("right") = "left"
  /\ Opposite("front") = "back" /\ Opposite("back") = "front"
<1>1. \A w \in Edges : /\ Normal(w) = <<1, 0>> <=> w = "right"
                       /\ Normal(w) = <<-1, 0>> <=> w = "left"
                       /\ Normal(w) = <<0, 1>> <=> w = "back"
                       /\ Normal(w) = <<0, -1>> <=> w = "front"
  BY NormalIs DEF Edges
<1>2. "left" \in Edges /\ "right" \in Edges /\ "front" \in Edges /\ "back" \in Edges
  BY DEF Edges
<1>3. Opposite("left") = "right"
  <2>1. Opposite("left") = CHOOSE w \in Edges : Normal(w) = <<1, 0>>
    BY NormalIs DEF Opposite
  <2> QED BY <1>1, <1>2, <2>1
<1>4. Opposite("right") = "left"
  <2>1. Opposite("right") = CHOOSE w \in Edges : Normal(w) = <<-1, 0>>
    BY NormalIs DEF Opposite
  <2> QED BY <1>1, <1>2, <2>1
<1>5. Opposite("front") = "back"
  <2>1. Opposite("front") = CHOOSE w \in Edges : Normal(w) = <<0, 1>>
    BY NormalIs DEF Opposite
  <2> QED BY <1>1, <1>2, <2>1
<1>6. Opposite("back") = "front"
  <2>1. Opposite("back") = CHOOSE w \in Edges : Normal(w) = <<0, -1>>
    BY NormalIs DEF Opposite
  <2> QED BY <1>1, <1>2, <2>1
<1> QED BY <1>3, <1>4, <1>5, <1>6

\* The axis across a wall.
Across(wall) == IF wall \in Sideways THEN 2 ELSE 1

(* How far a connector's front is from its wall, when the board is put      *)
(* against that wall                                                        *)
LEMMA FrontGapIs ==
    ASSUME NEW bx \in Boxes, NEW b, BoardOK(b), NEW wall \in Edges, PortsAt(b, wall) # {},
           2 * Along(<<b.x, b.y>>, Normal(wall))
             - 2 * (InnerHalf(bx, wall) - WallGapAt(b, wall) - Outline(b)[Across(wall)] \div 2)
             \in -Grain..Grain
    PROVE  /\ \A p \in PortsAt(b, wall) : FrontGap(bx, b, p) >= -Wall - 2 * Grain
           /\ ~ b.clamp => \E p \in PortsAt(b, wall) : FrontGap(bx, b, p) <= Reach
<1> DEFINE outline == Outline(b)[Across(wall)]
           gap == WallGapAt(b, wall)
<1>1. /\ b \in Boards /\ b.ports \subseteq Ports /\ b.width \in Even /\ b.length \in Even
      /\ b.flipped \in BOOLEAN /\ b.rotation \in Rotations
  BY DEF BoardOK, Boards
<1>2. outline \in Even /\ outline \in Int /\ outline \div 2 \in Int /\ outline = 2 * (outline \div 2)
  <2>1. outline \in Even
    BY <1>1, OutlineIs DEF Across
  <2> QED BY <2>1, EvenHalf
<1>3. /\ b.width \in Int /\ b.width \div 2 \in Int /\ b.width = 2 * (b.width \div 2)
      /\ b.length \in Int /\ b.length \div 2 \in Int /\ b.length = 2 * (b.length \div 2)
  BY <1>1, EvenHalf
<1>4. /\ gap \in Int /\ \A p \in PortsAt(b, wall) : Gap(p) <= gap
      /\ \E p \in PortsAt(b, wall) : Gap(p) = gap
  BY <1>1, WallGapIs DEF BoardOK
<1>5. InnerHalf(bx, wall) \in Int
  BY InnerIs, EvenHalf DEF InnerHalf
<1> HIDE DEF outline, gap
<1>6. ASSUME NEW p \in PortsAt(b, wall)
      PROVE  LET rest == outline \div 2 - HalfOf(b, p.edge)
             IN  /\ rest \in Int /\ rest >= 0 /\ (~ b.clamp => rest = 0)
                 /\ FrontGap(bx, b, p) \in Int
                 /\ FrontGap(bx, b, p) - (gap + rest - p.overhang) \in -(2 * Grain)..2 * Grain
  <2> DEFINE n == Normal(EdgeWall(b, p.edge))
             q == EdgePoint(b, p.edge, p.offset)
  <2>1. p \in Ports /\ p.edge \in Edges /\ p.offset \in Int /\ EdgeWall(b, p.edge) = wall
    BY <1>1 DEF PortsAt, Ports
  <2>2. wall \in Sideways <=> (p.edge \in Sideways <=> b.rotation % 180 = 0)
    BY <1>1, <2>1, EdgeWallIs
  <2>3. /\ b.rotation % 180 = 0 =>
             /\ Outline(b)[1] >= b.width /\ Outline(b)[2] >= b.length
             /\ ~ b.clamp => Outline(b)[1] = b.width /\ Outline(b)[2] = b.length
        /\ b.rotation % 180 # 0 =>
             /\ Outline(b)[1] >= b.length /\ Outline(b)[2] >= b.width
             /\ ~ b.clamp => Outline(b)[1] = b.length /\ Outline(b)[2] = b.width
    BY <1>1, OutlineIs
  <2>4. /\ outline \div 2 - HalfOf(b, p.edge) \in Int
        /\ outline \div 2 - HalfOf(b, p.edge) >= 0
        /\ ~ b.clamp => outline \div 2 - HalfOf(b, p.edge) = 0
    <3>1. CASE p.edge \in Sideways
      <4>1. HalfOf(b, p.edge) = b.length \div 2
        BY <3>1 DEF HalfOf
      <4>2. outline >= b.length /\ (~ b.clamp => outline = b.length)
        BY <2>2, <2>3, <3>1 DEF outline, Across
      <4> QED BY <1>2, <1>3, <4>1, <4>2
    <3>2. CASE p.edge \notin Sideways
      <4>1. HalfOf(b, p.edge) = b.width \div 2
        BY <3>2 DEF HalfOf
      <4>2. outline >= b.width /\ (~ b.clamp => outline = b.width)
        BY <2>2, <2>3, <3>2 DEF outline, Across
      <4> QED BY <1>2, <1>3, <4>1, <4>2
    <3> QED BY <3>1, <3>2
  <2>5. /\ Along(Point(b, q[1], q[2]), n) \in Int /\ Along(<<b.x, b.y>>, n) \in Int
        /\ Along(Point(b, q[1], q[2]), n) - (Along(<<b.x, b.y>>, n) + HalfOf(b, p.edge)) \in -1..1
    BY <1>1, <2>1, PortPlace
  <2>6. FrontGap(bx, b, p) =
          Rounded(InnerHalf(bx, wall) - (Along(Point(b, q[1], q[2]), n) + p.overhang))
    BY <2>1 DEF FrontGap
  <2>7. 2 * Along(<<b.x, b.y>>, n) - 2 * (InnerHalf(bx, wall) - gap - outline \div 2)
          \in -Grain..Grain
    BY <2>1 DEF gap, outline
  <2>8. HalfOf(b, p.edge) \in Int /\ p.overhang \in Int
    BY <1>3, <2>1 DEF HalfOf, Ports
  <2> HIDE DEF n, q
  <2>9. /\ FrontGap(bx, b, p) \in Int
        /\ FrontGap(bx, b, p) - (gap + (outline \div 2 - HalfOf(b, p.edge)) - p.overhang)
             \in -(2 * Grain)..2 * Grain
    <3>1. PICK m \in Int : m = InnerHalf(bx, wall) - (Along(Point(b, q[1], q[2]), n) + p.overhang)
      BY <1>5, <2>5, <2>8
    <3>2. PICK rest \in Int : rest = gap + (outline \div 2 - HalfOf(b, p.edge)) - p.overhang
      BY <1>2, <1>4, <2>8
    <3>3. Grain \in Int /\ Grain >= 2
      BY Constants, EvenHalf
    <3>4. 2 * m - 2 * rest \in -(Grain + 2)..Grain + 2
      BY <1>2, <1>4, <1>5, <2>5, <2>7, <2>8, <3>1, <3>2, <3>3
    <3>5. /\ Rounded(m) \in Int
          /\ 2 * Rounded(m) <= 2 * m + Grain /\ 2 * m <= 2 * Rounded(m) + Grain
      BY RoundedIs
    <3>6. Rounded(m) - rest \in -(2 * Grain)..2 * Grain
      BY <3>3, <3>4, <3>5
    <3> QED BY <2>6, <3>1, <3>2, <3>5, <3>6
  <2> QED BY <2>4, <2>9
<1>7. /\ Wall \in Int /\ Reach \in Int /\ WallGap \in Int /\ Wall >= 0 /\ WallGap >= 0
      /\ Grain \in Int /\ WallGap + 2 * Grain <= Reach
  BY Constants
<1>8. ASSUME NEW p \in PortsAt(b, wall)
      PROVE  /\ p \in Ports /\ p.overhang \in Int /\ p.overhang >= 0
             /\ Gap(p) >= p.overhang - Wall
             /\ Gap(p) = WallGap \/ Gap(p) = p.overhang - Wall
  <2>1. p \in Ports
    BY <1>1 DEF PortsAt
  <2> QED BY <2>1, GapIs DEF Ports
<1>9. ASSUME NEW p \in PortsAt(b, wall)
      PROVE  FrontGap(bx, b, p) >= -Wall - 2 * Grain
  <2>1. PICK rest \in Int :
          /\ rest >= 0 /\ FrontGap(bx, b, p) \in Int
          /\ FrontGap(bx, b, p) - (gap + rest - p.overhang) \in -(2 * Grain)..2 * Grain
    BY <1>6
  <2>2. gap >= p.overhang - Wall
    <3>1. Gap(p) \in Int
      BY <1>8, GapIs
    <3> QED BY <1>4, <1>7, <1>8, <3>1
  <2> QED BY <1>4, <1>7, <1>8, <2>1, <2>2
<1>10. ASSUME ~ b.clamp
       PROVE  \E p \in PortsAt(b, wall) : FrontGap(bx, b, p) <= Reach
  <2>1. PICK p \in PortsAt(b, wall) : Gap(p) = gap
    BY <1>4
  <2>2. /\ FrontGap(bx, b, p) \in Int
        /\ FrontGap(bx, b, p) - (gap - p.overhang) \in -(2 * Grain)..2 * Grain
    <3>1. PICK rest \in Int :
            /\ rest = 0 /\ FrontGap(bx, b, p) \in Int
            /\ FrontGap(bx, b, p) - (gap + rest - p.overhang) \in -(2 * Grain)..2 * Grain
      BY <1>6, <1>10
    <3> QED BY <1>4, <1>8, <3>1
  <2>3. gap = WallGap \/ gap = p.overhang - Wall
    BY <1>8, <2>1
  <2>4. FrontGap(bx, b, p) <= Reach
    BY <1>4, <1>7, <1>8, <2>2, <2>3
  <2> QED BY <2>4
<1> QED BY <1>9, <1>10

\* Two boards of one size, outline and ports.
LEMMA SameOutline ==
    ASSUME NEW b, NEW c, Moved(b, c),
           c.rotation = b.rotation, c.flipped = b.flipped, c.clamp = b.clamp
    PROVE  /\ Outline(c) = Outline(b)
           /\ \A wall : PortsAt(c, wall) = PortsAt(b, wall) /\ WallGapAt(c, wall) = WallGapAt(b, wall)
<1>1. LongAxis(c) = LongAxis(b)
  BY DEF LongAxis, Moved
<1>2. Outline(c) = Outline(b)
  BY <1>1 DEF Outline, Moved
<1>3. \A edge : EdgeWall(c, edge) = EdgeWall(b, edge)
  BY DEF EdgeWall
<1>4. \A wall : PortsAt(c, wall) = PortsAt(b, wall)
  BY <1>3 DEF PortsAt, Moved
<1>5. \A wall : WallGapAt(c, wall) = WallGapAt(b, wall)
  BY <1>4 DEF WallGapAt
<1> QED BY <1>2, <1>4, <1>5

\* Where a board is put in a box that was grown around it.
LEMMA FitPlace ==
    ASSUME NEW bx \in Boxes, NEW b, Settled(b), Fitted(Grown(bx, b))
    PROVE  LET g == Grown(bx, b)
               c == Normalized(Placed(g, b, FALSE))
               x == Beside(g, b, "left", "right", 1, 0)
               y == Beside(g, b, "front", "back", 2, 0)
           IN  /\ g \in Boxes
               /\ g.height >= b.clearance + Thickness + (IF b.flipped THEN 0 ELSE Parts) + Lip
               /\ Inner(g)[1] >= Outline(b)[1] + GapOr(b, "left") + GapOr(b, "right")
               /\ Inner(g)[2] >= Outline(b)[2] + GapOr(b, "front") + GapOr(b, "back")
               /\ Moved(b, c) /\ BoardOK(c) /\ c.x = Rounded(x) /\ c.y = Rounded(y)
               /\ c.rotation = b.rotation /\ c.flipped = b.flipped /\ c.clamp = b.clamp
               /\ c.clearance = b.clearance
<1> DEFINE g == Grown(bx, b)
           placed == Placed(g, b, FALSE)
           c == Normalized(placed)
           x == Beside(g, b, "left", "right", 1, 0)
           y == Beside(g, b, "front", "back", 2, 0)
<1>1. BoardOK(b) /\ b \in Boards
  BY DEF Settled, BoardOK
<1>2. /\ g \in Boxes /\ g.walls
      /\ g.width >= Outline(b)[1] + GapOr(b, "left") + GapOr(b, "right") + 2 * Wall
      /\ g.depth >= Outline(b)[2] + GapOr(b, "front") + GapOr(b, "back") + 2 * Wall
      /\ g.height >= b.clearance + Thickness + (IF b.flipped THEN 0 ELSE Parts) + Lip
  BY <1>1, GrownIs DEF Fitted
<1> HIDE DEF g
<1>3. Outline(b)[1] \in Int /\ Outline(b)[2] \in Int /\ \A wall : GapOr(b, wall) \in Int
  BY <1>1, OutlineIs, GapOrIs DEF Even
<1>4. /\ Inner(g)[1] >= Outline(b)[1] + GapOr(b, "left") + GapOr(b, "right")
      /\ Inner(g)[2] >= Outline(b)[2] + GapOr(b, "front") + GapOr(b, "back")
  <2>1. Inner(g)[1] = g.width - 2 * Wall /\ Inner(g)[2] = g.depth - 2 * Wall
    BY <1>2, InnerIs
  <2>2. g.width \in Int /\ g.depth \in Int /\ Wall \in Int
    BY <1>2, Constants DEF Boxes, Even
  <2> QED BY <1>2, <1>3, <2>1, <2>2
<1>5. x \in Int /\ x \in -((Inner(g)[1] - Outline(b)[1]) \div 2)..((Inner(g)[1] - Outline(b)[1]) \div 2)
  <2>1. PICK i \in {1, 2} : i = 1
    OBVIOUS
  <2>2. /\ InnerHalf(g, "left") = Inner(g)[i] \div 2 /\ InnerHalf(g, "right") = Inner(g)[i] \div 2
        /\ "left" \in Edges /\ "right" \in Edges
    BY <2>1 DEF InnerHalf, Edges
  <2> QED BY <1>1, <1>2, <1>4, <2>1, <2>2, BesideFits
<1>6. y \in Int /\ y \in -((Inner(g)[2] - Outline(b)[2]) \div 2)..((Inner(g)[2] - Outline(b)[2]) \div 2)
  <2>1. PICK i \in {1, 2} : i = 2
    OBVIOUS
  <2>2. /\ InnerHalf(g, "front") = Inner(g)[i] \div 2 /\ InnerHalf(g, "back") = Inner(g)[i] \div 2
        /\ "front" \in Edges /\ "back" \in Edges
    BY <2>1 DEF InnerHalf, Edges
  <2> QED BY <1>1, <1>2, <1>4, <2>1, <2>2, BesideFits
<1>7. placed = At(g, b, x, y)
  BY PlacedIs
<1> HIDE DEF x, y, placed
<1>8. /\ Moved(b, placed) /\ placed.x = Rounded(x) /\ placed.y = Rounded(y)
      /\ placed.rotation = b.rotation /\ placed.flipped = b.flipped /\ placed.clamp = b.clamp
      /\ placed.clearance = b.clearance
  <2> DEFINE at == At(g, b, x, y)
  <2>1. /\ Moved(b, at) /\ at.x = Rounded(x) /\ at.y = Rounded(y)
        /\ at.rotation = b.rotation /\ at.flipped = b.flipped /\ at.clamp = b.clamp
        /\ at.clearance = b.clearance
    <3>1. g \in Boxes /\ b \in Boards /\ x \in Int /\ y \in Int
      BY <1>1, <1>2, <1>5, <1>6
    <3> QED BY <3>1, <1>5, <1>6, AtIs
  <2> QED BY <2>1, <1>7
<1>9. Settled(placed) /\ BoardOK(placed)
  BY <1>8, MovedSettled DEF Settled
<1>10. /\ Moved(placed, c) /\ c.x = placed.x /\ c.y = placed.y
       /\ c.rotation = placed.rotation /\ c.flipped = placed.flipped /\ c.clamp = placed.clamp
       /\ c.clearance = placed.clearance
  BY <1>9, NormalizedKeeps, NormalizedIs
<1> HIDE DEF c
<1>11. Moved(b, c) /\ BoardOK(c)
  BY <1>1, <1>8, <1>10, MovedTwice, MovedOK
<1> QED BY <1>2, <1>4, <1>8, <1>10, <1>11 DEF g, placed, c, x, y

(* Normalizing the box leaves its inside, but for the corners               *)
LEMMA SameInside ==
    ASSUME NEW bx \in Boxes
    PROVE  LET n == NormalBox(bx)
           IN  /\ Inner(n) = Inner(bx) /\ \A wall : InnerHalf(n, wall) = InnerHalf(bx, wall)
               /\ bx.walls => InnerCorner(n) \in Nat
<1> DEFINE n == NormalBox(bx)
<1>1. /\ n \in Boxes /\ n.width = bx.width /\ n.depth = bx.depth /\ n.walls = bx.walls
  BY NormalBoxIs
<1> HIDE DEF n
<1>2. Inner(n) = Inner(bx)
  BY <1>1 DEF Inner
<1>3. ASSUME bx.walls
      PROVE  InnerCorner(n) \in Nat
  <2>1. PICK k \in Int : k = n.corner - Wall
    BY <1>1, Constants DEF Boxes
  <2>2. PICK zero \in Int : zero = 0
    OBVIOUS
  <2>3. InnerCorner(n) = Max({k, zero})
    BY <1>1, <1>3, <2>1, <2>2 DEF InnerCorner
  <2> QED BY <2>2, <2>3, MaxOfTwo
<1> QED BY <1>2, <1>3 DEF InnerHalf, n

(* Rounded corners: a place that reaches into one by at most seven tenths   *)
(* of its radius on either axis is inside it, since 49 + 49 < 100.          *)
LEMMA SquaresGrow ==
    ASSUME NEW m \in Nat, NEW n \in Nat, m <= n
    PROVE  m * m <= n * n
<1>1. m * m <= m * n /\ m * n <= n * n
  OBVIOUS
<1> QED BY <1>1

LEMMA CornerClear ==
    ASSUME NEW bx, NEW b, InnerCorner(bx) \in Nat, InnerCorner(bx) <= 3 * WallGap,
           \A i \in 1..2 : Spare(bx, b, i) \in Int /\ 2 * Spare(bx, b, i) >= 2 * WallGap - Grain
    PROVE  CornersClear(bx, b)
<1> DEFINE r == InnerCorner(bx)
           into(i) == Max({r - Spare(bx, b, i), 0})
<1>1. WallGap \in Nat /\ Grain \in Nat /\ 5 * Grain <= WallGap
  BY Constants
<1>2. ASSUME NEW i \in 1..2
      PROVE  into(i) \in Nat /\ 10 * into(i) <= 7 * r
  <2>1. PICK s \in Int : s = Spare(bx, b, i) /\ 2 * s >= 2 * WallGap - Grain
    OBVIOUS
  <2>2. PICK zero \in Int : zero = 0
    OBVIOUS
  <2>3. PICK k \in Int : k = r - s
    OBVIOUS
  <2>4. into(i) = Max({k, zero})
    BY <2>1, <2>2, <2>3
  <2>5. 10 * k <= 7 * r
    <3> HIDE DEF r
    <3> QED BY <1>1, <2>1, <2>3 DEF r
  <2>6. into(i) = IF k >= zero THEN k ELSE zero
    BY <2>4, MaxOfTwo
  <2> HIDE DEF into
  <2> QED BY <2>2, <2>5, <2>6
<1>3. PICK a \in Nat : a = into(1) /\ 10 * a <= 7 * r
  BY <1>2
<1>4. PICK c \in Nat : c = into(2) /\ 10 * c <= 7 * r
  BY <1>2
<1>5. (10 * a) * (10 * a) <= (7 * r) * (7 * r)
  BY <1>3, SquaresGrow
<1>6. (10 * c) * (10 * c) <= (7 * r) * (7 * r)
  BY <1>4, SquaresGrow
<1>7. a * a + c * c <= r * r
  <2>1. PICK aa \in Int : aa = a * a
    OBVIOUS
  <2>2. PICK cc \in Int : cc = c * c
    OBVIOUS
  <2>3. PICK rr \in Int : rr = r * r
    OBVIOUS
  <2>4. 100 * aa <= 49 * rr
    BY <1>5, <2>1, <2>3
  <2>5. 100 * cc <= 49 * rr
    BY <1>6, <2>2, <2>3
  <2>6. rr >= 0
    BY <2>3, SquaresGrow
  <2> QED BY <2>1, <2>2, <2>3, <2>4, <2>5, <2>6
<1> HIDE DEF into
<1>8. into(1) * into(1) + into(2) * into(2) <= r * r
  BY <1>3, <1>4, <1>7
<1> QED BY <1>8 DEF CornersClear, into

LEMMA FitFits ==
    ASSUME NEW bx \in Boxes, NEW b, Settled(b), Fitted(Grown(bx, b))
    PROVE  WellFitted(NormalBox(Grown(bx, b)), Normalized(Placed(Grown(bx, b), b, FALSE)))
<1> DEFINE g == Grown(bx, b)
           n == NormalBox(g)
           c == Normalized(Placed(g, b, FALSE))
           x == Beside(g, b, "left", "right", 1, 0)
           y == Beside(g, b, "front", "back", 2, 0)
<1>1. /\ g \in Boxes
      /\ g.height >= b.clearance + Thickness + (IF b.flipped THEN 0 ELSE Parts) + Lip
      /\ Inner(g)[1] >= Outline(b)[1] + GapOr(b, "left") + GapOr(b, "right")
      /\ Inner(g)[2] >= Outline(b)[2] + GapOr(b, "front") + GapOr(b, "back")
      /\ Moved(b, c) /\ BoardOK(c) /\ c.x = Rounded(x) /\ c.y = Rounded(y)
      /\ c.rotation = b.rotation /\ c.flipped = b.flipped /\ c.clamp = b.clamp
      /\ c.clearance = b.clearance
  BY FitPlace
<1>a. g.walls
  BY GrownIs DEF Settled
<1> HIDE DEF g, c
<1>b. /\ n \in Boxes /\ n.height = g.height /\ Inner(n) = Inner(g)
      /\ \A wall : InnerHalf(n, wall) = InnerHalf(g, wall)
      /\ InnerCorner(n) \in Nat
  BY <1>1, <1>a, NormalBoxIs, SameInside
<1> HIDE DEF n
<1>2. BoardOK(b) /\ b \in Boards
  BY DEF Settled, BoardOK
<1>3. /\ Outline(c) = Outline(b)
      /\ \A wall : PortsAt(c, wall) = PortsAt(b, wall) /\ WallGapAt(c, wall) = WallGapAt(b, wall)
  BY <1>1, SameOutline
<1>4. /\ x \in Int
      /\ 2 * x + Outline(b)[1] + 2 * WallGap <= Inner(g)[1]
      /\ -(2 * x) + Outline(b)[1] + 2 * WallGap <= Inner(g)[1]
      /\ PortsAt(b, "right") # {} /\ PortsAt(b, "left") = {} =>
           x = InnerHalf(g, "right") - WallGapAt(b, "right") - Outline(b)[1] \div 2
      /\ PortsAt(b, "left") # {} /\ PortsAt(b, "right") = {} =>
           -x = InnerHalf(g, "left") - WallGapAt(b, "left") - Outline(b)[1] \div 2
  <2>1. PICK i \in {1, 2} : i = 1
    OBVIOUS
  <2>2. /\ InnerHalf(g, "left") = Inner(g)[i] \div 2 /\ InnerHalf(g, "right") = Inner(g)[i] \div 2
        /\ "left" \in Edges /\ "right" \in Edges
    BY <2>1 DEF InnerHalf, Edges
  <2> QED BY <1>1, <1>2, <2>1, <2>2, BesideFits
<1>5. /\ y \in Int
      /\ 2 * y + Outline(b)[2] + 2 * WallGap <= Inner(g)[2]
      /\ -(2 * y) + Outline(b)[2] + 2 * WallGap <= Inner(g)[2]
      /\ PortsAt(b, "back") # {} /\ PortsAt(b, "front") = {} =>
           y = InnerHalf(g, "back") - WallGapAt(b, "back") - Outline(b)[2] \div 2
      /\ PortsAt(b, "front") # {} /\ PortsAt(b, "back") = {} =>
           -y = InnerHalf(g, "front") - WallGapAt(b, "front") - Outline(b)[2] \div 2
  <2>1. PICK i \in {1, 2} : i = 2
    OBVIOUS
  <2>2. /\ InnerHalf(g, "front") = Inner(g)[i] \div 2 /\ InnerHalf(g, "back") = Inner(g)[i] \div 2
        /\ "front" \in Edges /\ "back" \in Edges
    BY <2>1 DEF InnerHalf, Edges
  <2> QED BY <1>1, <1>2, <2>1, <2>2, BesideFits
<1> HIDE DEF x, y
<1>6. \A i \in 1..2 : Spare(n, c, i) \in Int /\ 2 * Spare(n, c, i) >= 2 * WallGap - Grain
  <2>1. /\ c.x \in Int /\ -c.x \in Int /\ 2 * c.x <= 2 * x + Grain /\ 2 * x <= 2 * c.x + Grain
        /\ c.y \in Int /\ -c.y \in Int /\ 2 * c.y <= 2 * y + Grain /\ 2 * y <= 2 * c.y + Grain
    <3>1. /\ c.x \in Int /\ 2 * c.x <= 2 * x + Grain /\ 2 * x <= 2 * c.x + Grain
      BY <1>1, <1>4, RoundedIs
    <3>2. /\ c.y \in Int /\ 2 * c.y <= 2 * y + Grain /\ 2 * y <= 2 * c.y + Grain
      BY <1>1, <1>5, RoundedIs
    <3> QED BY <3>1, <3>2
  <2>2. /\ Max({c.x, -c.x}) = IF c.x >= -c.x THEN c.x ELSE -c.x
        /\ Max({c.y, -c.y}) = IF c.y >= -c.y THEN c.y ELSE -c.y
    BY <2>1, MaxOfTwo
  <2>3. /\ Inner(g)[1] - Outline(b)[1] \in Even /\ Inner(g)[2] - Outline(b)[2] \in Even
        /\ Inner(g)[1] \in Int /\ Inner(g)[2] \in Int
        /\ Outline(b)[1] \in Int /\ Outline(b)[2] \in Int
        /\ WallGap \in Int /\ Grain \in Int
    <3>1. /\ Inner(g)[1] \in Even /\ Inner(g)[2] \in Even
          /\ Outline(b)[1] \in Even /\ Outline(b)[2] \in Even
      BY <1>1, <1>2, InnerIs, OutlineIs
    <3>2. Inner(g)[1] - Outline(b)[1] \in Even
      BY <3>1, EvenSum
    <3>3. Inner(g)[2] - Outline(b)[2] \in Even
      BY <3>1, EvenSum
    <3> QED BY <3>1, <3>2, <3>3, Constants DEF Even
  <2>4. PICK k \in Int : /\ k = (Inner(g)[1] - Outline(b)[1]) \div 2
                         /\ Inner(g)[1] - Outline(b)[1] = 2 * k
    BY <2>3, EvenHalf
  <2>5. PICK l \in Int : /\ l = (Inner(g)[2] - Outline(b)[2]) \div 2
                         /\ Inner(g)[2] - Outline(b)[2] = 2 * l
    BY <2>3, EvenHalf
  <2>6. Spare(n, c, 1) = k - Max({c.x, -c.x}) /\ Spare(n, c, 2) = l - Max({c.y, -c.y})
    BY <1>3, <1>b, <2>4, <2>5 DEF Spare
  <2>7. Spare(n, c, 1) \in Int /\ 2 * Spare(n, c, 1) >= 2 * WallGap - Grain
    BY <1>4, <2>1, <2>2, <2>3, <2>4, <2>6
  <2>8. Spare(n, c, 2) \in Int /\ 2 * Spare(n, c, 2) >= 2 * WallGap - Grain
    BY <1>5, <2>1, <2>2, <2>3, <2>5, <2>6
  <2>9. \A i \in 1..2 : i = 1 \/ i = 2
    OBVIOUS
  <2> QED BY <2>7, <2>8, <2>9
<1>7. c.clearance + Thickness + (IF c.flipped THEN 0 ELSE Parts) + Lip <= n.height
  <2>1. /\ c.clearance \in Int /\ Thickness \in Int /\ Parts \in Int /\ Lip \in Int
        /\ g.height \in Int
    BY <1>1, <1>2, Constants DEF Boxes, Boards
  <2> QED BY <1>1, <1>b, <2>1
<1>8. ASSUME NEW wall \in Edges, PortsAt(c, wall) # {}, PortsAt(c, Opposite(wall)) = {}
      PROVE  /\ \A p \in PortsAt(c, wall) : FrontGap(n, c, p) >= -Wall - 2 * Grain
             /\ ~ c.clamp => \E p \in PortsAt(c, wall) : FrontGap(n, c, p) <= Reach
  <2>1. PortsAt(b, wall) # {} /\ PortsAt(b, Opposite(wall)) = {}
    BY <1>3, <1>8
  <2> DEFINE at == InnerHalf(g, wall) - WallGapAt(b, wall) - Outline(b)[Across(wall)] \div 2
  <2>2. /\ c.x \in Int /\ 2 * c.x - 2 * x \in -Grain..Grain
        /\ c.y \in Int /\ 2 * c.y - 2 * y \in -Grain..Grain /\ Grain \in Int
    <3>1. c.x \in Int /\ 2 * c.x <= 2 * x + Grain /\ 2 * x <= 2 * c.x + Grain
      BY <1>1, <1>4, RoundedIs
    <3>2. c.y \in Int /\ 2 * c.y <= 2 * y + Grain /\ 2 * y <= 2 * c.y + Grain
      BY <1>1, <1>5, RoundedIs
    <3>3. Grain \in Int
      BY Constants
    <3> QED BY <1>4, <1>5, <3>1, <3>2, <3>3
  <2>3. 2 * Along(<<c.x, c.y>>, Normal(wall)) - 2 * at \in -Grain..Grain
    <3>1. CASE wall = "right"
      <4>1. Along(<<c.x, c.y>>, Normal(wall)) = c.x
        BY <2>2, <3>1, NormalIs DEF Along
      <4>2. at = x
        BY <1>4, <2>1, <3>1, OppositeIs DEF Across, Sideways
      <4> QED BY <2>2, <4>1, <4>2
    <3>2. CASE wall = "left"
      <4>1. Along(<<c.x, c.y>>, Normal(wall)) = -c.x
        BY <2>2, <3>2, NormalIs DEF Along
      <4>2. at = -x
        BY <1>4, <2>1, <3>2, OppositeIs DEF Across, Sideways
      <4> HIDE DEF at
      <4> QED BY <1>4, <2>2, <4>1, <4>2
    <3>3. CASE wall = "back"
      <4>1. Along(<<c.x, c.y>>, Normal(wall)) = c.y
        BY <2>2, <3>3, NormalIs DEF Along
      <4>2. at = y
        BY <1>5, <2>1, <3>3, OppositeIs DEF Across, Sideways
      <4> QED BY <2>2, <4>1, <4>2
    <3>4. CASE wall = "front"
      <4>1. Along(<<c.x, c.y>>, Normal(wall)) = -c.y
        BY <2>2, <3>4, NormalIs DEF Along
      <4>2. at = -y
        BY <1>5, <2>1, <3>4, OppositeIs DEF Across, Sideways
      <4> HIDE DEF at
      <4> QED BY <1>5, <2>2, <4>1, <4>2
    <3> QED BY <3>1, <3>2, <3>3, <3>4 DEF Edges
  <2>4. at = InnerHalf(n, wall) - WallGapAt(c, wall) - Outline(c)[Across(wall)] \div 2
    BY <1>3, <1>b
  <2> HIDE DEF at
  <2>5. 2 * Along(<<c.x, c.y>>, Normal(wall))
          - 2 * (InnerHalf(n, wall) - WallGapAt(c, wall) - Outline(c)[Across(wall)] \div 2)
          \in -Grain..Grain
    BY <2>3, <2>4
  <2> QED BY <1>1, <1>8, <1>b, <2>5, FrontGapIs
<1>9. InnerCorner(n) <= 3 * WallGap => CornersClear(n, c)
  BY <1>6, <1>b, CornerClear
<1>10. WellFitted(n, c)
  BY <1>6, <1>7, <1>8, <1>9 DEF WellFitted
<1> QED BY <1>10 DEF g, n, c

(* When the box was fitted to the board, and is not at its largest, the     *)
(* board stands clear of the walls, of corners no rounder than WellFitted   *)
(* allows, and of the lid, no connector sticks out of its wall, and a plug  *)
(* reaches one at each wall (fitBoxToBoard, placeBoard)                     *)
THEOREM FitRoom == BoardSpec => FitMakesRoom
<1>1. BoardIInv => (Fit /\ Fitted(box') => WellFitted(box', board'))
  <2> SUFFICES ASSUME BoardIInv, Fit, Fitted(box')
               PROVE  WellFitted(box', board')
    OBVIOUS
  <2>1. box \in Boxes /\ Settled(board)
    BY DEF BoardIInv
  <2>2. /\ box' = NormalBox(Grown(box, board))
        /\ board' = Normalized(Placed(Grown(box, board), board, FALSE))
    BY DEF Fit, Edited
  <2>3. Fitted(Grown(box, board))
    <3>1. Grown(box, board) \in Boxes
      BY <2>1, GrownIs DEF Settled
    <3> QED BY <2>2, <3>1, NormalBoxIs DEF Fitted
  <2>4. WellFitted(NormalBox(Grown(box, board)), Normalized(Placed(Grown(box, board), board, FALSE)))
    BY <2>1, <2>3, FitFits
  <2> QED BY <2>2, <2>4
<1>2. BoardIInv /\ [BoardNext]_boardVars =>
        [Fit /\ Fitted(box') => WellFitted(box', board')]_boardVars
  BY <1>1
<1> QED BY <1>2, BoardTypeInvariant, PTL DEF BoardSpec, FitMakesRoom
=============================================================================
