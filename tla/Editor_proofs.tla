--------------------------- MODULE Editor_proofs ---------------------------
(***************************************************************************)
(* Theorems about Editor: types, the bound of undo and redo, the two dirty *)
(* flags, and that unsaved text is never given up unasked.                 *)
(***************************************************************************)
EXTENDS Editor, SequenceTheorems, TLAPS

-----------------------------------------------------------------------------
(* The stacks of snapshots.                                                *)

LEMMA PushFacts ==
  ASSUME NEW stack \in Seq(Snapshots), NEW s \in Snapshots
  PROVE  /\ Push(stack, s) \in Seq(Snapshots)
         /\ Len(Push(stack, s)) =
              IF Len(stack) >= EDITOR_UNDO_MAX THEN Len(stack) ELSE Len(stack) + 1
         /\ Push(stack, s)[Len(Push(stack, s))] = s
         /\ \A i \in 1 .. Len(Push(stack, s)) - 1 :
              Push(stack, s)[i] =
                IF Len(stack) >= EDITOR_UNDO_MAX THEN stack[i + 1] ELSE stack[i]
<1>1. Len(stack) \in Nat  BY LenProperties
<1>2. CASE Len(stack) >= EDITOR_UNDO_MAX
  <2>1. stack # <<>>  BY <1>2, UndoMaxPositive, EmptySeq
  <2>2. /\ Tail(stack) \in Seq(Snapshots)
        /\ Len(Tail(stack)) = Len(stack) - 1
        /\ \A i \in 1 .. Len(Tail(stack)) : Tail(stack)[i] = stack[i + 1]
    BY <2>1, HeadTailProperties
  <2>3. Push(stack, s) = Append(Tail(stack), s)  BY <1>2 DEF Push
  <2> QED BY <1>1, <1>2, <2>2, <2>3
<1>3. CASE ~(Len(stack) >= EDITOR_UNDO_MAX)
  BY <1>1, <1>3, UndoMaxPositive DEF Push
<1> QED BY <1>2, <1>3

LEMMA PopFacts ==
  ASSUME NEW stack \in Seq(Snapshots), stack # <<>>
  PROVE  /\ Top(stack) \in Snapshots
         /\ Pop(stack) \in Seq(Snapshots)
         /\ Len(Pop(stack)) = Len(stack) - 1
         /\ \A i \in 1 .. Len(stack) - 1 : Pop(stack)[i] = stack[i]
<1>1. Len(stack) \in Nat \ {0}  BY LenProperties, EmptySeq
<1>2. \A i \in 1 .. Len(stack) : stack[i] \in Snapshots  BY ElementOfSeq
<1>3. \A i \in 1 .. Len(stack) - 1 : stack[i] \in Snapshots  BY <1>1, <1>2
<1>4. /\ SubSeq(stack, 1, Len(stack) - 1) \in Seq(Snapshots)
      /\ Len(SubSeq(stack, 1, Len(stack) - 1)) =
           IF 1 <= Len(stack) - 1 THEN Len(stack) - 1 - 1 + 1 ELSE 0
      /\ \A i \in 1 .. Len(stack) - 1 - 1 + 1 :
           SubSeq(stack, 1, Len(stack) - 1)[i] = stack[1 + i - 1]
  BY <1>1, <1>3, SubSeqProperties
<1>5. Top(stack) \in Snapshots  BY <1>1, <1>2 DEF Top
<1>6. Pop(stack) \in Seq(Snapshots) /\ Len(Pop(stack)) = Len(stack) - 1
  <2> DEFINE p == SubSeq(stack, 1, Len(stack) - 1)
             n == Len(stack)
  <2>1. p \in Seq(Snapshots) /\ Len(p) = IF 1 <= n - 1 THEN n - 1 - 1 + 1 ELSE 0
    BY <1>4
  <2>2. n \in Nat \ {0}  BY <1>1
  <2> HIDE DEF p, n
  <2>3. Len(p) = n - 1  BY <2>1, <2>2
  <2> QED BY <2>1, <2>3 DEF Pop, p, n
<1>7. \A i \in 1 .. Len(stack) - 1 : Pop(stack)[i] = stack[i]
  BY <1>1, <1>4 DEF Pop
<1> QED BY <1>5, <1>6, <1>7

LEMMA SnapshotFacts ==
  ASSUME NEW s \in Snapshots
  PROVE  s[1] \in Docs /\ s[2] \in Positions
BY DEF Snapshots

-----------------------------------------------------------------------------
(* Types.                                                                  *)

LEMMA InitTypeOK == Init => TypeOK
<1>1. <<>> \in Seq(Snapshots)  BY EmptySeq
<1> QED BY <1>1, HomeIsAPosition DEF Init, TypeOK, Sessions, Callbacks, Confirmations

LEMMA RecordTyped ==
  ASSUME TypeOK, pc \in Sessions, Record
  PROVE  undo' \in Seq(Snapshots) /\ redo' \in Seq(Snapshots)
<1>1. <<buffer, cursor>> \in Snapshots  BY DEF TypeOK, Snapshots
<1> QED BY <1>1, PushFacts, EmptySeq DEF Record, TypeOK

LEMMA EndOfLoopTyped ==
  ASSUME TypeOK, NEW c \in Positions, NEW d \in BOOLEAN, EndOfLoop(c, d)
  PROVE  /\ cursor' \in Positions /\ apiCursor' \in Positions /\ before' \in Positions
         /\ dirty' \in BOOLEAN /\ apiDirty' \in BOOLEAN
         /\ pc' \in {"top", "moved"}
BY DEF TypeOK, EndOfLoop

LEMMA TypeOKStep == TypeOK /\ [Next]_vars => TypeOK'
<1> SUFFICES ASSUME TypeOK, [Next]_vars PROVE TypeOK'
  OBVIOUS
<1> USE DEF TypeOK, Sessions, Callbacks, Confirmations, session, cursors, requests, history
<1>1. CASE UNCHANGED vars
  BY <1>1 DEF vars
<1>2. ASSUME NEW f \in Files, Opens(f) \/ OpenFails(f)
      PROVE  TypeOK'
  BY <1>2, HomeIsAPosition DEF Opens, OpenFails
<1>e. ASSUME Exit, UNCHANGED requests \/ (closeReq' = FALSE /\ UNCHANGED reloadReq)
      PROVE  TypeOK'
  BY <1>e, HomeIsAPosition, FilesNotEmpty, EmptySeq DEF Exit
<1>r. ASSUME pc \in Sessions, Reload \/ ReloadFails,
             UNCHANGED requests \/ (reloadReq' = FALSE /\ UNCHANGED closeReq)
      PROVE  TypeOK'
  BY <1>r, HomeIsAPosition DEF Reload, ReloadFails, Reopened, Goto
<1>3. CASE TopReload
  <2>1. CASE (dirty \/ apiDirty) /\ Goto("confirmReload")
    BY <1>3, <2>1 DEF TopReload, Goto
  <2> QED BY <1>3, <2>1, <1>r DEF TopReload
<1>4. CASE TopClose
  <2>1. CASE (dirty \/ apiDirty) /\ Goto("confirmClose")
    BY <1>4, <2>1 DEF TopClose, Goto
  <2> QED BY <1>4, <2>1, <1>e DEF TopClose
<1>5. CASE Discards \/ Declines
  <2>1. CASE Discards  BY <2>1, <1>e, <1>r DEF Discards
  <2>2. CASE Declines  BY <2>2 DEF Declines, Goto
  <2> QED BY <1>5, <2>1, <2>2
<1>6. CASE Mouse \/ KeyPressed \/ KeyHandled \/ KeyPasses \/ NotifiedOfMove
  BY <1>6, ZenonT(40) DEF Mouse, KeyPressed, KeyHandled, KeyPasses, NotifiedOfMove, NoRequest, Goto
<1>7. CASE NotifiedOfKey
  <2>1. EndOfLoop(cursor, dirty)  BY <1>7 DEF NotifiedOfKey
  <2>2. /\ cursor' \in Positions /\ apiCursor' \in Positions /\ before' \in Positions
        /\ dirty' \in BOOLEAN /\ apiDirty' \in BOOLEAN /\ pc' \in {"top", "moved"}
    BY <2>1, EndOfLoopTyped
  <2> QED BY <1>7, <2>2 DEF NotifiedOfKey
<1>8. CASE Dispatch
  <2>1. CASE Blocked \/ SaveKeyCrashes
    BY <2>1 DEF Blocked, SaveKeyCrashes, Goto
  <2>2. CASE QuitKey
    <3>1. CASE dirty /\ Goto("confirmQuit")  BY <2>2, <3>1 DEF QuitKey, Goto
    <3> QED BY <2>2, <3>1, <1>e DEF QuitKey
  <2>3. CASE SaveKey
    BY <2>3 DEF SaveKey, Written, Reopened
  <2>4. CASE SaveKeyCannotOpen
    BY <2>4 DEF SaveKeyCannotOpen
  <2>5. CASE MoveKey
    <3>1. PICK c \in Positions : EndOfLoop(c, dirty)  BY <2>5 DEF MoveKey
    <3> QED BY <2>5, <3>1, EndOfLoopTyped DEF MoveKey
  <2>6. CASE TypeKey
    BY <2>6, RecordTyped DEF TypeKey
  <2>7. CASE BulkEditKey
    <3>1. PICK c \in Positions : EndOfLoop(c, TRUE)  BY <2>7 DEF BulkEditKey
    <3> QED BY <2>7, <3>1, EndOfLoopTyped, RecordTyped DEF BulkEditKey
  <2>8. CASE UndoKey
    <3>1. <<buffer, cursor>> \in Snapshots  BY <2>8 DEF UndoKey, Snapshots
    <3>2. /\ Top(undo) \in Snapshots
          /\ undo' \in Seq(Snapshots) /\ redo' \in Seq(Snapshots)
      BY <2>8, <3>1, PushFacts, PopFacts DEF UndoKey
    <3> QED BY <2>8, <3>2, SnapshotFacts, EndOfLoopTyped DEF UndoKey
  <2>9. CASE RedoKey
    <3>1. <<buffer, cursor>> \in Snapshots  BY <2>9 DEF RedoKey, Snapshots
    <3>2. /\ Top(redo) \in Snapshots
          /\ undo' \in Seq(Snapshots) /\ redo' \in Seq(Snapshots)
      BY <2>9, <3>1, PushFacts, PopFacts DEF RedoKey
    <3> QED BY <2>9, <3>2, SnapshotFacts, EndOfLoopTyped DEF RedoKey
  <2> QED BY <1>8, <2>1, <2>2, <2>3, <2>4, <2>5, <2>6, <2>7, <2>8, <2>9 DEF Dispatch
<1>9. CASE Api
  <2>i. InCallback => buffer \in Docs /\ path \in Files  BY DEF InCallback
  <2>1. ASSUME NEW f \in Files, ApiSaveTo(f)
        PROVE  TypeOK'
    <3>1. disk' \in [Files -> Docs]  BY <2>1, <2>i DEF ApiSaveTo
    <3> QED BY <2>1, <3>1 DEF ApiSaveTo
  <2>s. ASSUME NEW f \in Files, ApiSaveFails(f)
        PROVE  TypeOK'
    <3>1. disk' \in [Files -> Docs]  BY <2>s DEF ApiSaveFails
    <3> QED BY <2>s, <3>1 DEF ApiSaveFails
  <2>2. CASE ApiSave
    <3>1. path \in Files  BY <2>2, <2>i DEF ApiSave, ApiSaveTo, ApiSaveFails
    <3> QED BY <2>1, <2>s, <2>2, <3>1 DEF ApiSave
  <2>3. CASE ApiSaveAs  BY <2>1, <2>s, <2>3 DEF ApiSaveAs
  <2>4. CASE ApiEdit                BY <2>4 DEF ApiEdit, InCallback
  <2>5. CASE ApiUppercase           BY <2>5 DEF ApiUppercase, InCallback
  <2>6. CASE ApiSetCursor           BY <2>6 DEF ApiSetCursor, InCallback
  <2>7. CASE ApiSetCursorCrashes    BY <2>7 DEF ApiSetCursorCrashes, Goto
  <2>8. CASE ApiClose               BY <2>8 DEF ApiClose
  <2>9. CASE ApiReload              BY <2>9 DEF ApiReload
  <2>10. CASE ApiSetReadonly        BY <2>10 DEF ApiSetReadonly
  <2> QED BY <1>9, <2>2, <2>3, <2>4, <2>5, <2>6, <2>7, <2>8, <2>9, <2>10 DEF Api
<1>10. CASE Crashed  BY <1>1, <1>10 DEF Crashed
<1> QED
  BY <1>1, <1>2, <1>3, <1>4, <1>5, <1>6, <1>7, <1>8, <1>9, <1>10 DEF Next, Loop

(* Every variable keeps its type; in particular a session always has a     *)
(* buffer and a path.                                                      *)
THEOREM TypeCorrect == Spec => []TypeOK
BY InitTypeOK, TypeOKStep, PTL DEF Spec

-----------------------------------------------------------------------------
(* Undo and redo.                                                          *)

(* The only steps that touch the two stacks. *)
LEMMA HistorySteps ==
  ASSUME [Next]_vars
  PROVE  \/ UNCHANGED history
         \/ Exit
         \/ TypeKey \/ BulkEditKey \/ UndoKey \/ RedoKey
<1> USE DEF history
<1>1. CASE UNCHANGED vars  BY <1>1 DEF vars
<1>2. ASSUME NEW f \in Files, Opens(f) \/ OpenFails(f) PROVE UNCHANGED history
  BY <1>2 DEF Opens, OpenFails
<1>r. ASSUME Reload \/ ReloadFails PROVE UNCHANGED history
  BY <1>r DEF Reload, ReloadFails, Goto
<1>3. CASE TopReload \/ Declines  BY <1>3, <1>r DEF TopReload, Declines, Goto
<1>4. CASE TopClose \/ Discards \/ QuitKey
  BY <1>4, <1>r DEF TopClose, Discards, QuitKey, Goto
<1>5. CASE Mouse \/ KeyPressed \/ KeyHandled \/ KeyPasses \/ NotifiedOfKey \/ NotifiedOfMove
  BY <1>5 DEF Mouse, KeyPressed, KeyHandled, KeyPasses, NotifiedOfKey, NotifiedOfMove, Goto
<1>6. CASE Blocked \/ SaveKey \/ SaveKeyCannotOpen \/ SaveKeyCrashes \/ MoveKey
  BY <1>6 DEF Blocked, SaveKey, SaveKeyCannotOpen, SaveKeyCrashes, MoveKey, Goto
<1>7. CASE Api
  BY <1>7 DEF Api, ApiEdit, ApiUppercase, ApiSetCursor, ApiSetCursorCrashes, ApiSave,
              ApiSaveAs, ApiSaveTo, ApiSaveFails, ApiClose, ApiReload, ApiSetReadonly, Goto
<1>8. CASE Crashed  BY <1>8 DEF Crashed, vars
<1> QED
  BY <1>1, <1>2, <1>3, <1>4, <1>5, <1>6, <1>7, <1>8 DEF Next, Loop, Dispatch

LEMMA HistoryFitsStep == TypeOK /\ HistoryFits /\ [Next]_vars => HistoryFits'
<1> SUFFICES ASSUME TypeOK, HistoryFits, [Next]_vars PROVE HistoryFits'
  OBVIOUS
<1>1. /\ undo \in Seq(Snapshots) /\ redo \in Seq(Snapshots)
      /\ Len(undo) \in Nat /\ Len(redo) \in Nat /\ EDITOR_UNDO_MAX \in Nat \ {0}
  BY LenProperties, UndoMaxPositive DEF TypeOK
<1>2. pc = "dispatch" => <<buffer, cursor>> \in Snapshots
  BY DEF TypeOK, Sessions, Snapshots
<1>3. CASE UNCHANGED history  BY <1>3 DEF history, HistoryFits
<1>4. CASE Exit  BY <1>1, <1>4, EmptySeq DEF Exit, HistoryFits
<1>5. CASE TypeKey \/ BulkEditKey
  <2>1. Record /\ pc = "dispatch"  BY <1>5 DEF TypeKey, BulkEditKey
  <2>2. Len(undo') <= EDITOR_UNDO_MAX
    <3>1. Len(undo') = IF Len(undo) >= EDITOR_UNDO_MAX THEN Len(undo) ELSE Len(undo) + 1
      BY <1>1, <1>2, <2>1, PushFacts DEF Record
    <3> QED BY <1>1, <3>1 DEF HistoryFits
  <2>3. Len(redo') = 0  BY <2>1, EmptySeq DEF Record
  <2>4. Len(undo') \in Nat  BY <1>1, <1>2, <2>1, PushFacts, LenProperties DEF Record
  <2> QED BY <1>1, <2>2, <2>3, <2>4 DEF HistoryFits
<1>6. CASE UndoKey
  <2>1. Len(undo') = Len(undo) - 1  BY <1>1, <1>6, PopFacts DEF UndoKey
  <2>2. Len(redo') \in {Len(redo), Len(redo) + 1}
    BY <1>1, <1>2, <1>6, PushFacts DEF UndoKey
  <2> QED BY <1>1, <2>1, <2>2 DEF HistoryFits
<1>7. CASE RedoKey
  <2>1. Len(redo') = Len(redo) - 1  BY <1>1, <1>7, PopFacts DEF RedoKey
  <2>2. Len(undo') \in {Len(undo), Len(undo) + 1}
    BY <1>1, <1>2, <1>7, PushFacts DEF RedoKey
  <2> QED BY <1>1, <2>1, <2>2 DEF HistoryFits
<1> QED BY <1>3, <1>4, <1>5, <1>6, <1>7, HistorySteps

LEMMA InitHistoryFits == Init => HistoryFits
BY UndoMaxPositive, EmptySeq DEF Init, HistoryFits

(* The two stacks together never exceed the bound of one. *)
THEOREM UndoBounded == Spec => []HistoryFits
BY InitTypeOK, TypeOKStep, InitHistoryFits, HistoryFitsStep, PTL DEF Spec

-----------------------------------------------------------------------------
(* Unsaved text.                                                           *)

(* The writes of the file succeed, and a plugin that edits in on_key       *)
(* handles the key.                                                        *)
Reliable == Env \cap {"write_fails", "edits_and_passes"} = {}

LEMMA UnsavedIsDirtyStep ==
  Reliable /\ TypeOK /\ TypeOK' /\ UnsavedIsDirty /\ [Next]_vars => UnsavedIsDirty'
<1> SUFFICES ASSUME Reliable, TypeOK, TypeOK', UnsavedIsDirty, [Next]_vars
             PROVE  UnsavedIsDirty'
  OBVIOUS
<1> USE DEF UnsavedIsDirty, Unsaved, Sessions, Callbacks, Confirmations, session,
            cursors, requests, history
<1>1. CASE UNCHANGED vars
  BY <1>1 DEF vars
<1>2. ASSUME NEW f \in Files, Opens(f) \/ OpenFails(f) PROVE UnsavedIsDirty'
  BY <1>2 DEF Opens, OpenFails
<1>e. ASSUME Exit PROVE UnsavedIsDirty'
  BY <1>e DEF Exit
<1>r. ASSUME pc \in Sessions, pc # "dispatch", pc # "changed", Reload \/ ReloadFails
      PROVE  UnsavedIsDirty'
  BY <1>r DEF Reload, ReloadFails, Goto
<1>3. CASE TopReload \/ TopClose
  <2>1. CASE Goto("confirmReload") \/ Goto("confirmClose")
    BY <1>3, <2>1 DEF TopReload, TopClose, Goto
  <2> QED BY <1>3, <2>1, <1>e, <1>r DEF TopReload, TopClose
<1>4. CASE Discards \/ Declines
  <2>1. CASE Declines  BY <2>1 DEF Declines, Goto
  <2> QED BY <1>4, <2>1, <1>e, <1>r DEF Discards
<1>5. CASE Mouse            BY <1>5 DEF Mouse, NoRequest
<1>6. CASE KeyPressed       BY <1>6 DEF KeyPressed, NoRequest, TypeOK
<1>7. CASE KeyHandled       BY <1>7 DEF KeyHandled, TypeOK
<1>8. CASE KeyPasses        BY <1>8 DEF KeyPasses, Goto, Reliable, TypeOK
<1>9. CASE NotifiedOfKey    BY <1>9 DEF NotifiedOfKey, EndOfLoop
<1>10. CASE NotifiedOfMove  BY <1>10 DEF NotifiedOfMove, Goto
<1>11. CASE Blocked \/ SaveKeyCrashes  BY <1>11 DEF Blocked, SaveKeyCrashes, Goto
<1>12. CASE QuitKey
  <2>1. CASE Goto("confirmQuit")  BY <1>12, <2>1 DEF QuitKey, Goto
  <2> QED BY <1>12, <2>1, <1>e DEF QuitKey
<1>13. CASE SaveKey
  BY <1>13 DEF SaveKey, Written, Reliable, TypeOK
<1>14. CASE SaveKeyCannotOpen  BY <1>14 DEF SaveKeyCannotOpen
<1>15. CASE MoveKey            BY <1>15 DEF MoveKey, EndOfLoop
<1>16. CASE TypeKey            BY <1>16 DEF TypeKey
<1>17. CASE BulkEditKey        BY <1>17 DEF BulkEditKey, EndOfLoop
<1>18. CASE UndoKey \/ RedoKey BY <1>18 DEF UndoKey, RedoKey, EndOfLoop
<1>19. CASE Api
  <2>1. CASE ApiEdit \/ ApiUppercase
    BY <2>1 DEF ApiEdit, ApiUppercase, InCallback
  <2>2. CASE ApiSetCursor \/ ApiSetCursorCrashes
    BY <2>2 DEF ApiSetCursor, ApiSetCursorCrashes, Goto
  <2>3. ASSUME NEW f \in Files, ApiSaveTo(f) PROVE UnsavedIsDirty'
    <3>1. disk'[f] = buffer /\ path' = f /\ buffer' = buffer
      BY <2>3 DEF ApiSaveTo, TypeOK
    <3> QED BY <3>1
  <2>4. \A f : ~ApiSaveFails(f)  BY DEF ApiSaveFails, Reliable
  <2>5. ApiSave => path \in Files  BY <2>4 DEF ApiSave, ApiSaveTo, InCallback, TypeOK
  <2>6. CASE ApiClose \/ ApiReload \/ ApiSetReadonly
    BY <2>6 DEF ApiClose, ApiReload, ApiSetReadonly
  <2> QED BY <1>19, <2>1, <2>2, <2>3, <2>4, <2>5, <2>6 DEF Api, ApiSave, ApiSaveAs
<1>20. CASE Crashed  BY <1>1, <1>20 DEF Crashed
<1> QED
  BY <1>1, <1>2, <1>3, <1>4, <1>5, <1>6, <1>7, <1>8, <1>9, <1>10, <1>11, <1>12, <1>13,
     <1>14, <1>15, <1>16, <1>17, <1>18, <1>19, <1>20 DEF Next, Loop, Dispatch

LEMMA InitUnsavedIsDirty == Init => UnsavedIsDirty
BY DEF Init, UnsavedIsDirty, Unsaved, Sessions, Callbacks, Confirmations

(* Where writes succeed and an edit in on_key comes with a handled key,    *)
(* the dirty flags never lose track of unsaved text.                       *)
THEOREM DirtyTracksUnsaved == ASSUME Reliable PROVE Spec => []UnsavedIsDirty
BY InitTypeOK, TypeOKStep, InitUnsavedIsDirty, UnsavedIsDirtyStep, PTL DEF Spec

LEMMA NoSilentDiscardStep ==
  ASSUME TypeOK, TypeOK', UnsavedIsDirty, Next, Unsaved, pc \notin Confirmations
  PROVE  buffer' # NoDoc /\ (pc = "top" => buffer' = buffer)
<1> USE DEF Unsaved
<1>1. pc \in Sessions /\ buffer \in Docs /\ NoDoc \notin Docs /\ (apiDirty \/ dirty)
  BY DocsNotEmpty DEF TypeOK, UnsavedIsDirty
<1>2. pc' \in Sessions => buffer' # NoDoc
  BY <1>1 DEF TypeOK
<1>3. CASE TopReload \/ TopClose
  BY <1>1, <1>3 DEF TopReload, TopClose, Goto
<1>4. CASE QuitKey
  BY <1>1, <1>4 DEF QuitKey, Goto, UnsavedIsDirty
<1>5. CASE Declines \/ Mouse \/ KeyPressed \/ KeyHandled \/ KeyPasses \/ NotifiedOfKey
           \/ NotifiedOfMove
  BY <1>1, <1>5 DEF Declines, Mouse, KeyPressed, KeyHandled, KeyPasses, NotifiedOfKey,
                    NotifiedOfMove, Goto, EndOfLoop
<1>6. CASE Blocked \/ SaveKey \/ SaveKeyCannotOpen \/ SaveKeyCrashes \/ MoveKey
  BY <1>1, <1>6 DEF Blocked, SaveKey, SaveKeyCannotOpen, SaveKeyCrashes, MoveKey, Goto,
                    EndOfLoop
<1>7. CASE TypeKey \/ BulkEditKey \/ UndoKey \/ RedoKey
  BY <1>2, <1>7 DEF TypeKey, BulkEditKey, UndoKey, RedoKey, EndOfLoop, Sessions, Callbacks
<1>8. CASE Api
  BY <1>1, <1>8 DEF Api, ApiEdit, ApiUppercase, ApiSetCursor, ApiSetCursorCrashes, ApiSave,
              ApiSaveAs, ApiSaveTo, ApiSaveFails, ApiClose, ApiReload, ApiSetReadonly, Goto,
              InCallback, Callbacks
<1>9. ~ Discards /\ ~ \E f \in Files : Opens(f) \/ OpenFails(f)
  BY <1>1 DEF Discards, Opens, OpenFails, Sessions, Callbacks, Confirmations
<1>10. CASE Crashed  BY <1>1, <1>10 DEF Crashed, vars
<1> QED
  BY <1>3, <1>4, <1>5, <1>6, <1>7, <1>8, <1>9, <1>10 DEF Next, Loop, Dispatch

(* Where writes succeed and an edit in on_key comes with a handled key, no *)
(* unsaved text is ever given up without a question to the user.           *)
THEOREM NothingDiscardedUnasked == ASSUME Reliable PROVE Spec => NoSilentDiscard
<1>1. TypeOK /\ TypeOK' /\ UnsavedIsDirty /\ [Next]_vars
        => [Unsaved /\ pc \notin Confirmations
              => buffer' # NoDoc /\ (pc = "top" => buffer' = buffer)]_vars
  BY NoSilentDiscardStep
<1> QED
  BY <1>1, InitTypeOK, TypeOKStep, InitUnsavedIsDirty, UnsavedIsDirtyStep, PTL
  DEF Spec, NoSilentDiscard

-----------------------------------------------------------------------------
(* The session implements EditorHistory.                                   *)

(* The main loop leaves no history behind. *)
BrowserIsFresh == pc = "browser" => undo = <<>> /\ redo = <<>>

LEMMA BrowserIsFreshStep == BrowserIsFresh /\ [Next]_vars => BrowserIsFresh'
<1> SUFFICES ASSUME BrowserIsFresh, [Next]_vars PROVE BrowserIsFresh'
  OBVIOUS
<1> USE DEF BrowserIsFresh
<1>1. CASE UNCHANGED history
  <2>1. CASE pc' = "browser" => pc = "browser"  BY <1>1, <2>1 DEF history
  <2>2. CASE pc' = "browser" /\ pc # "browser"
    <3>1. Exit
      BY <2>2 DEF Next, vars, Opens, OpenFails, Reload, ReloadFails, Loop, Dispatch, TopReload,
           TopClose, Discards, Declines, QuitKey, Mouse, KeyPressed, KeyHandled, KeyPasses,
           NotifiedOfKey, NotifiedOfMove, Blocked, SaveKey, SaveKeyCannotOpen,
           SaveKeyCrashes, MoveKey, TypeKey, BulkEditKey, UndoKey, RedoKey, EndOfLoop, Goto,
           Api, ApiEdit, ApiUppercase, ApiSetCursor, ApiSetCursorCrashes, ApiSave,
           ApiSaveAs, ApiSaveTo, ApiSaveFails, ApiClose, ApiReload, ApiSetReadonly, Crashed
    <3> QED BY <3>1 DEF Exit
  <2> QED BY <2>1, <2>2
<1>2. CASE Exit  BY <1>2 DEF Exit
<1>3. CASE TypeKey \/ BulkEditKey \/ UndoKey \/ RedoKey
  BY <1>3 DEF TypeKey, BulkEditKey, UndoKey, RedoKey, EndOfLoop
<1> QED BY <1>1, <1>2, <1>3, HistorySteps

(* The line of versions of two stacks and the text between them. *)
Line(u, b, r) ==
  [i \in 1 .. (Len(u) + 1 + Len(r)) |->
     IF i <= Len(u) THEN u[i][1]
     ELSE IF i = Len(u) + 1 THEN b
     ELSE r[Len(u) + Len(r) + 2 - i][1]]

LEMMA LineFacts ==
  ASSUME NEW u \in Seq(Snapshots), NEW r \in Seq(Snapshots), NEW b \in Docs
  PROVE  /\ Line(u, b, r) \in Seq(Docs)
         /\ Len(Line(u, b, r)) = Len(u) + 1 + Len(r)
         /\ \A i \in 1 .. Len(u) : Line(u, b, r)[i] = u[i][1]
         /\ Line(u, b, r)[Len(u) + 1] = b
         /\ \A i \in Len(u) + 2 .. Len(u) + 1 + Len(r) :
              Line(u, b, r)[i] = r[Len(u) + Len(r) + 2 - i][1]
<1>1. Len(u) \in Nat /\ Len(r) \in Nat  BY LenProperties
<1>2. /\ \A i \in 1 .. Len(u) : u[i][1] \in Docs
      /\ \A i \in 1 .. Len(r) : r[i][1] \in Docs
  BY ElementOfSeq, SnapshotFacts
<1> DEFINE n == Len(u) + 1 + Len(r)
<1>3. Line(u, b, r) \in [1 .. n -> Docs]
  BY <1>1, <1>2 DEF Line
<1>4. n \in Nat  BY <1>1
<1>5. Line(u, b, r) \in Seq(Docs) /\ Len(Line(u, b, r)) = n
  BY <1>3, <1>4
<1>6. \A i \in 1 .. Len(u) : Line(u, b, r)[i] = u[i][1]  BY <1>1 DEF Line
<1>7. Line(u, b, r)[Len(u) + 1] = b  BY <1>1 DEF Line
<1>8. \A i \in Len(u) + 2 .. Len(u) + 1 + Len(r) :
        Line(u, b, r)[i] = r[Len(u) + Len(r) + 2 - i][1]
  BY <1>1 DEF Line
<1> QED BY <1>5, <1>6, <1>7, <1>8

LEMMA SessionLine ==
  /\ pc \in Sessions => Timeline = Line(undo, buffer, redo) /\ Now = Len(undo) + 1
  /\ pc' \in Sessions => Timeline' = Line(undo', buffer', redo') /\ Now' = Len(undo') + 1
  /\ pc \notin Sessions => Timeline = <<>> /\ Now = 0
  /\ pc' \notin Sessions => Timeline' = <<>> /\ Now' = 0
BY DEF Timeline, Now, Line, Sessions, Callbacks, Confirmations

LEMMA StartLine ==
  ASSUME NEW u \in Seq(Snapshots), NEW r \in Seq(Snapshots), NEW b \in Docs,
         Len(u) = 0, Len(r) = 0
  PROVE  Line(u, b, r) = <<b>>
<1>1. /\ Line(u, b, r) \in Seq(Docs)
      /\ Len(Line(u, b, r)) = Len(u) + 1 + Len(r)
      /\ Line(u, b, r)[Len(u) + 1] = b
  BY LineFacts, ZenonT(60)
<1>2. Len(Line(u, b, r)) = 1 /\ Line(u, b, r)[1] = b  BY <1>1
<1> QED BY <1>1, <1>2, SeqEqual

LEMMA AmendLine ==
  ASSUME NEW u \in Seq(Snapshots), NEW r \in Seq(Snapshots), NEW b \in Docs, NEW d \in Docs
  PROVE  Line(u, d, r) = [Line(u, b, r) EXCEPT ![Len(u) + 1] = d]
<1> DEFINE n == Len(u)
           m == Len(r)
           s == Line(u, d, r)
           t == Line(u, b, r)
           x == [t EXCEPT ![n + 1] = d]
<1>1. n \in Nat /\ m \in Nat  BY LenProperties
<1>2. /\ s \in Seq(Docs) /\ Len(s) = n + 1 + m /\ s[n + 1] = d
      /\ \A i \in 1 .. n : s[i] = u[i][1]
      /\ \A i \in n + 2 .. n + 1 + m : s[i] = r[n + m + 2 - i][1]
  BY LineFacts, ZenonT(60)
<1>3. /\ t \in Seq(Docs) /\ Len(t) = n + 1 + m
      /\ \A i \in 1 .. n : t[i] = u[i][1]
      /\ \A i \in n + 2 .. n + 1 + m : t[i] = r[n + m + 2 - i][1]
  BY LineFacts, ZenonT(60)
<1> HIDE DEF n, m, s, t
<1>4. n + 1 \in 1 .. Len(t)  BY <1>1, <1>3
<1>5. /\ x \in Seq(Docs) /\ Len(x) = Len(t)
      /\ \A j \in 1 .. Len(t) : x[j] = IF j = n + 1 THEN d ELSE t[j]
  BY <1>3, <1>4, ExceptSeq
<1> HIDE DEF x
<1>6. \A i \in 1 .. Len(s) : s[i] = x[i]
  <2> SUFFICES ASSUME NEW i \in 1 .. Len(s) PROVE s[i] = x[i]
    OBVIOUS
  <2>1. i \in 1 .. n + 1 + m  BY <1>2
  <2>2. x[i] = IF i = n + 1 THEN d ELSE t[i]  BY <1>3, <1>5, <2>1
  <2>3. i \in 1 .. n \/ i = n + 1 \/ i \in n + 2 .. n + 1 + m  BY <1>1, <2>1
  <2>4. i \in 1 .. n => i # n + 1  BY <1>1
  <2>5. i \in n + 2 .. n + 1 + m => i # n + 1  BY <1>1
  <2> QED BY <1>2, <1>3, <2>2, <2>3, <2>4, <2>5
<1>7. s = x  BY <1>2, <1>3, <1>5, <1>6, SeqEqual
<1> QED BY <1>7 DEF s, x, t, n

LEMMA BackLine ==
  ASSUME NEW u \in Seq(Snapshots), NEW r \in Seq(Snapshots), NEW b \in Docs,
         NEW c \in Positions, u # <<>>, Len(r) < EDITOR_UNDO_MAX
  PROVE  /\ Line(Pop(u), Top(u)[1], Push(r, <<b, c>>)) = Line(u, b, r)
         /\ Len(Pop(u)) = Len(u) - 1 /\ Len(u) \in Nat \ {0}
<1> DEFINE n == Len(u)
           m == Len(r)
           v == Pop(u)
           q == Push(r, <<b, c>>)
           w == Top(u)[1]
           s == Line(v, w, q)
           t == Line(u, b, r)
<1>1. n \in Nat \ {0} /\ m \in Nat /\ m < EDITOR_UNDO_MAX
  BY LenProperties, EmptySeq
<1>2. /\ Top(u) = u[n] /\ Top(u) \in Snapshots
      /\ v \in Seq(Snapshots) /\ Len(v) = n - 1
      /\ \A i \in 1 .. n - 1 : v[i] = u[i]
  BY PopFacts DEF Top
<1>3. <<b, c>> \in Snapshots  BY DEF Snapshots
<1>4. /\ q \in Seq(Snapshots) /\ Len(q) = m + 1
      /\ q[m + 1] = <<b, c>>
      /\ \A i \in 1 .. m : q[i] = r[i]
  <2>1. /\ q \in Seq(Snapshots)
        /\ Len(q) = IF m >= EDITOR_UNDO_MAX THEN m ELSE m + 1
        /\ q[Len(q)] = <<b, c>>
        /\ \A i \in 1 .. Len(q) - 1 : q[i] = IF m >= EDITOR_UNDO_MAX THEN r[i + 1] ELSE r[i]
    BY <1>3, PushFacts
  <2> HIDE DEF m, q
  <2>2. ~(m >= EDITOR_UNDO_MAX)  BY <1>1, UndoMaxPositive
  <2>3. Len(q) = m + 1 /\ Len(q) - 1 = m  BY <1>1, <2>1, <2>2
  <2> QED BY <2>1, <2>2, <2>3
<1>5. w \in Docs /\ w = u[n][1] /\ <<b, c>>[1] = b  BY <1>2, SnapshotFacts
<1> HIDE DEF v, q, w
<1>6. /\ s \in Seq(Docs) /\ Len(s) = Len(v) + 1 + Len(q) /\ s[Len(v) + 1] = w
      /\ \A i \in 1 .. Len(v) : s[i] = v[i][1]
      /\ \A i \in Len(v) + 2 .. Len(v) + 1 + Len(q) : s[i] = q[Len(v) + Len(q) + 2 - i][1]
  <2>1. v \in Seq(Snapshots) /\ q \in Seq(Snapshots) /\ w \in Docs  BY <1>2, <1>4, <1>5
  <2>2. /\ Line(v, w, q) \in Seq(Docs)
        /\ Len(Line(v, w, q)) = Len(v) + 1 + Len(q)
        /\ \A i \in 1 .. Len(v) : Line(v, w, q)[i] = v[i][1]
        /\ Line(v, w, q)[Len(v) + 1] = w
        /\ \A i \in Len(v) + 2 .. Len(v) + 1 + Len(q) :
             Line(v, w, q)[i] = q[Len(v) + Len(q) + 2 - i][1]
    BY <2>1, LineFacts, ZenonT(60)
  <2> QED BY <2>2
<1>7. /\ t \in Seq(Docs) /\ Len(t) = n + 1 + m /\ t[n + 1] = b
      /\ \A i \in 1 .. n : t[i] = u[i][1]
      /\ \A i \in n + 2 .. n + 1 + m : t[i] = r[n + m + 2 - i][1]
  BY LineFacts, ZenonT(60)
<1> HIDE DEF n, m, s, t
<1>8. /\ Len(s) = n + 1 + m /\ s[n] = u[n][1]
      /\ \A i \in 1 .. n - 1 : s[i] = v[i][1]
      /\ \A i \in n + 1 .. n + 1 + m : s[i] = q[n + m + 2 - i][1]
  <2>1. /\ Len(v) + 1 = n /\ Len(v) + 2 = n + 1
        /\ Len(v) + 1 + Len(q) = n + 1 + m /\ Len(v) + Len(q) + 2 = n + m + 2
    BY <1>1, <1>2, <1>4
  <2>2. Len(s) = n + 1 + m /\ s[n] = u[n][1]  BY <1>5, <1>6, <2>1
  <2>3. \A i \in 1 .. n - 1 : s[i] = v[i][1]  BY <1>2, <1>6
  <2>4. ASSUME NEW i \in n + 1 .. n + 1 + m PROVE s[i] = q[n + m + 2 - i][1]
    <3>1. i \in Len(v) + 2 .. Len(v) + 1 + Len(q)  BY <2>1
    <3>2. Len(v) + Len(q) + 2 - i = n + m + 2 - i  BY <1>1, <1>2, <1>4
    <3> QED BY <1>6, <3>1, <3>2
  <2> QED BY <2>2, <2>3, <2>4
<1>9. \A i \in 1 .. Len(s) : s[i] = t[i]
  <2> SUFFICES ASSUME NEW i \in 1 .. n + 1 + m PROVE s[i] = t[i]
    BY <1>8
  <2>1. CASE i \in 1 .. n - 1
    <3>1. i \in 1 .. n  BY <1>1, <2>1
    <3> QED BY <1>2, <1>7, <1>8, <2>1, <3>1
  <2>2. CASE i = n
    <3>1. n \in 1 .. n  BY <1>1
    <3> QED BY <1>7, <1>8, <2>2, <3>1
  <2>3. CASE i = n + 1
    <3>1. n + m + 2 - i = m + 1 /\ i \in n + 1 .. n + 1 + m  BY <1>1, <2>3
    <3> QED BY <1>4, <1>5, <1>7, <1>8, <2>3, <3>1
  <2>4. CASE i \in n + 2 .. n + 1 + m
    <3>1. n + m + 2 - i \in 1 .. m /\ i \in n + 1 .. n + 1 + m  BY <1>1, <2>4
    <3>2. s[i] = q[n + m + 2 - i][1] /\ t[i] = r[n + m + 2 - i][1]
      BY <1>7, <1>8, <2>4, <3>1
    <3> QED BY <1>4, <3>1, <3>2
  <2>5. i \in 1 .. n - 1 \/ i = n \/ i = n + 1 \/ i \in n + 2 .. n + 1 + m
    BY <1>1
  <2> QED BY <2>1, <2>2, <2>3, <2>4, <2>5
<1>10. s = t  BY <1>6, <1>7, <1>8, <1>9, SeqEqual
<1> QED BY <1>1, <1>2, <1>10 DEF s, t, v, q, w, n

LEMMA ForthLine ==
  ASSUME NEW u \in Seq(Snapshots), NEW r \in Seq(Snapshots), NEW b \in Docs,
         NEW c \in Positions, r # <<>>, Len(u) < EDITOR_UNDO_MAX
  PROVE  /\ Line(Push(u, <<b, c>>), Top(r)[1], Pop(r)) = Line(u, b, r)
         /\ Len(Push(u, <<b, c>>)) = Len(u) + 1 /\ Len(u) \in Nat
         /\ Len(r) \in Nat \ {0}
<1> DEFINE n == Len(u)
           m == Len(r)
           v == Push(u, <<b, c>>)
           q == Pop(r)
           w == Top(r)[1]
           s == Line(v, w, q)
           t == Line(u, b, r)
<1>1. n \in Nat /\ m \in Nat \ {0} /\ n < EDITOR_UNDO_MAX
  BY LenProperties, EmptySeq
<1>2. /\ Top(r) = r[m] /\ Top(r) \in Snapshots
      /\ q \in Seq(Snapshots) /\ Len(q) = m - 1
      /\ \A i \in 1 .. m - 1 : q[i] = r[i]
  BY PopFacts DEF Top
<1>3. <<b, c>> \in Snapshots  BY DEF Snapshots
<1>4. /\ v \in Seq(Snapshots) /\ Len(v) = n + 1
      /\ v[n + 1] = <<b, c>>
      /\ \A i \in 1 .. n : v[i] = u[i]
  <2>1. /\ v \in Seq(Snapshots)
        /\ Len(v) = IF n >= EDITOR_UNDO_MAX THEN n ELSE n + 1
        /\ v[Len(v)] = <<b, c>>
        /\ \A i \in 1 .. Len(v) - 1 : v[i] = IF n >= EDITOR_UNDO_MAX THEN u[i + 1] ELSE u[i]
    BY <1>3, PushFacts
  <2> HIDE DEF n, v
  <2>2. ~(n >= EDITOR_UNDO_MAX)  BY <1>1, UndoMaxPositive
  <2>3. Len(v) = n + 1 /\ Len(v) - 1 = n  BY <1>1, <2>1, <2>2
  <2> QED BY <2>1, <2>2, <2>3
<1>5. w \in Docs /\ w = r[m][1] /\ <<b, c>>[1] = b  BY <1>2, SnapshotFacts
<1> HIDE DEF v, q, w
<1>6. /\ s \in Seq(Docs) /\ Len(s) = Len(v) + 1 + Len(q) /\ s[Len(v) + 1] = w
      /\ \A i \in 1 .. Len(v) : s[i] = v[i][1]
      /\ \A i \in Len(v) + 2 .. Len(v) + 1 + Len(q) : s[i] = q[Len(v) + Len(q) + 2 - i][1]
  <2>1. v \in Seq(Snapshots) /\ q \in Seq(Snapshots) /\ w \in Docs  BY <1>2, <1>4, <1>5
  <2>2. /\ Line(v, w, q) \in Seq(Docs)
        /\ Len(Line(v, w, q)) = Len(v) + 1 + Len(q)
        /\ \A i \in 1 .. Len(v) : Line(v, w, q)[i] = v[i][1]
        /\ Line(v, w, q)[Len(v) + 1] = w
        /\ \A i \in Len(v) + 2 .. Len(v) + 1 + Len(q) :
             Line(v, w, q)[i] = q[Len(v) + Len(q) + 2 - i][1]
    BY <2>1, LineFacts, ZenonT(60)
  <2> QED BY <2>2
<1>7. /\ t \in Seq(Docs) /\ Len(t) = n + 1 + m /\ t[n + 1] = b
      /\ \A i \in 1 .. n : t[i] = u[i][1]
      /\ \A i \in n + 2 .. n + 1 + m : t[i] = r[n + m + 2 - i][1]
  BY LineFacts, ZenonT(60)
<1> HIDE DEF n, m, s, t
<1>8. /\ Len(s) = n + 1 + m /\ s[n + 2] = r[m][1]
      /\ \A i \in 1 .. n + 1 : s[i] = v[i][1]
      /\ \A i \in n + 3 .. n + 1 + m : s[i] = q[n + m + 2 - i][1]
  <2>1. /\ Len(v) + 1 = n + 2 /\ Len(v) + 2 = n + 3
        /\ Len(v) + 1 + Len(q) = n + 1 + m /\ Len(v) + Len(q) + 2 = n + m + 2
    BY <1>1, <1>2, <1>4
  <2>2. Len(s) = n + 1 + m /\ s[n + 2] = r[m][1]  BY <1>5, <1>6, <2>1
  <2>3. \A i \in 1 .. n + 1 : s[i] = v[i][1]  BY <1>4, <1>6
  <2>4. ASSUME NEW i \in n + 3 .. n + 1 + m PROVE s[i] = q[n + m + 2 - i][1]
    <3>1. i \in Len(v) + 2 .. Len(v) + 1 + Len(q)  BY <2>1
    <3>2. Len(v) + Len(q) + 2 - i = n + m + 2 - i  BY <1>1, <1>2, <1>4
    <3> QED BY <1>6, <3>1, <3>2
  <2> QED BY <2>2, <2>3, <2>4
<1>9. \A i \in 1 .. Len(s) : s[i] = t[i]
  <2> SUFFICES ASSUME NEW i \in 1 .. n + 1 + m PROVE s[i] = t[i]
    BY <1>8
  <2>1. CASE i \in 1 .. n
    <3>1. i \in 1 .. n + 1  BY <1>1, <2>1
    <3> QED BY <1>4, <1>7, <1>8, <2>1, <3>1
  <2>2. CASE i = n + 1
    <3>1. n + 1 \in 1 .. n + 1  BY <1>1
    <3> QED BY <1>4, <1>5, <1>7, <1>8, <2>2, <3>1
  <2>3. CASE i = n + 2
    <3>1. n + m + 2 - i = m /\ i \in n + 2 .. n + 1 + m  BY <1>1, <2>3
    <3> QED BY <1>7, <1>8, <2>3, <3>1
  <2>4. CASE i \in n + 3 .. n + 1 + m
    <3>1. n + m + 2 - i \in 1 .. m - 1 /\ i \in n + 2 .. n + 1 + m  BY <1>1, <2>4
    <3>2. s[i] = q[n + m + 2 - i][1] /\ t[i] = r[n + m + 2 - i][1]
      BY <1>7, <1>8, <2>4, <3>1
    <3> QED BY <1>2, <3>1, <3>2
  <2>5. i \in 1 .. n \/ i = n + 1 \/ i = n + 2 \/ i \in n + 3 .. n + 1 + m
    BY <1>1
  <2> QED BY <2>1, <2>2, <2>3, <2>4, <2>5
<1>10. s = t  BY <1>6, <1>7, <1>8, <1>9, SeqEqual
<1> QED BY <1>1, <1>4, <1>10 DEF s, t, v, q, w, n, m

(* A line up to its version k, without the oldest when there are too many. *)
Cut(line, k) ==
  IF k > EDITOR_UNDO_MAX THEN Tail(SubSeq(line, 1, k)) ELSE SubSeq(line, 1, k)

(* An edit cuts the line after the present, drops the oldest version of a  *)
(* full one, and adds the new text.                                        *)
LEMMA EditLine ==
  ASSUME NEW u \in Seq(Snapshots), NEW r \in Seq(Snapshots), NEW b \in Docs,
         NEW c \in Positions, NEW d \in Docs, NEW e \in Seq(Snapshots)
  PROVE  /\ Len(e) = 0 =>
              Line(Push(u, <<b, c>>), d, e) = Append(Cut(Line(u, b, r), Len(u) + 1), d)
         /\ Len(Append(Cut(Line(u, b, r), Len(u) + 1), d)) = Len(Push(u, <<b, c>>)) + 1
<1> DEFINE n == Len(u)
           v == Push(u, <<b, c>>)
           t == Line(u, b, r)
           s == Line(v, d, e)
           kept == SubSeq(t, 1, n + 1)
           past == IF n + 1 > EDITOR_UNDO_MAX THEN Tail(kept) ELSE kept
<1>1. n \in Nat /\ Len(r) \in Nat /\ EDITOR_UNDO_MAX \in Nat \ {0}
  BY LenProperties, UndoMaxPositive
<1>2. <<b, c>> \in Snapshots /\ <<b, c>>[1] = b  BY DEF Snapshots
<1>3. /\ v \in Seq(Snapshots)
      /\ Len(v) = IF n >= EDITOR_UNDO_MAX THEN n ELSE n + 1
      /\ v[Len(v)] = <<b, c>>
      /\ \A i \in 1 .. Len(v) - 1 : v[i] = IF n >= EDITOR_UNDO_MAX THEN u[i + 1] ELSE u[i]
  BY <1>2, PushFacts
<1> HIDE DEF v
<1>4. /\ s \in Seq(Docs) /\ Len(s) = Len(v) + 1 + Len(e) /\ s[Len(v) + 1] = d
      /\ \A i \in 1 .. Len(v) : s[i] = v[i][1]
  <2>1. v \in Seq(Snapshots) /\ e \in Seq(Snapshots) /\ d \in Docs  BY <1>3
  <2>2. /\ Line(v, d, e) \in Seq(Docs)
        /\ Len(Line(v, d, e)) = Len(v) + 1 + Len(e)
        /\ \A i \in 1 .. Len(v) : Line(v, d, e)[i] = v[i][1]
        /\ Line(v, d, e)[Len(v) + 1] = d
    BY <2>1, LineFacts, ZenonT(60)
  <2> QED BY <2>2
<1>5. /\ t \in Seq(Docs) /\ Len(t) = n + 1 + Len(r) /\ t[n + 1] = b
      /\ \A i \in 1 .. n : t[i] = u[i][1]
  BY LineFacts, ZenonT(60)
<1> HIDE DEF n, t, s
<1>6. /\ kept \in Seq(Docs) /\ Len(kept) = n + 1
      /\ \A i \in 1 .. n + 1 : kept[i] = t[i]
  <2>1. \A i \in 1 .. n + 1 : t[i] \in Docs
    <3>1. \A i \in 1 .. Len(t) : t[i] \in Docs  BY <1>5, ElementOfSeq
    <3> QED BY <1>1, <1>5, <3>1
  <2>2. /\ kept \in Seq(Docs)
        /\ Len(kept) = IF 1 <= n + 1 THEN n + 1 - 1 + 1 ELSE 0
        /\ \A i \in 1 .. n + 1 - 1 + 1 : kept[i] = t[1 + i - 1]
    BY <1>1, <2>1, SubSeqProperties
  <2> HIDE DEF kept
  <2> QED BY <1>1, <2>2
<1> HIDE DEF kept
<1>p. past = IF n + 1 > EDITOR_UNDO_MAX THEN Tail(kept) ELSE kept  OBVIOUS
<1> HIDE DEF past
<1>7. /\ past \in Seq(Docs) /\ Len(past) = Len(v)
      /\ \A i \in 1 .. Len(v) : past[i] = v[i][1]
  <2>1. CASE n >= EDITOR_UNDO_MAX
    <3>1. past = Tail(kept)  BY <1>1, <1>p, <2>1
    <3>2. kept # <<>>  BY <1>1, <1>6, EmptySeq
    <3>3. /\ Tail(kept) \in Seq(Docs) /\ Len(Tail(kept)) = Len(kept) - 1
          /\ \A i \in 1 .. Len(Tail(kept)) : Tail(kept)[i] = kept[i + 1]
      <4>1. kept \in Seq(Docs)  BY <1>6
      <4> QED BY <3>2, <4>1, HeadTailProperties
    <3>4. Len(v) = n /\ Len(Tail(kept)) = n  BY <1>1, <1>3, <1>6, <2>1, <3>3
    <3>5. ASSUME NEW i \in 1 .. n PROVE past[i] = v[i][1]
      <4>1. i + 1 \in 1 .. n + 1 /\ past[i] = kept[i + 1]
        <5>1. i \in 1 .. Len(Tail(kept))  BY <3>4
        <5>2. Tail(kept)[i] = kept[i + 1]  BY <3>3, <5>1
        <5>3. past[i] = kept[i + 1]  BY <3>1, <5>2, Zenon
        <5>4. i + 1 \in 1 .. n + 1  BY <1>1
        <5> QED BY <5>3, <5>4
      <4>2. past[i] = t[i + 1]  BY <1>6, <4>1
      <4>3. CASE i = n  BY <1>2, <1>3, <1>5, <3>4, <4>2, <4>3
      <4>4. CASE i \in 1 .. n - 1
        <5>1. i + 1 \in 1 .. n  BY <1>1, <4>4
        <5>2. v[i] = u[i + 1]  BY <1>3, <2>1, <3>4, <4>4
        <5> QED BY <1>5, <4>2, <5>1, <5>2
      <4>5. i = n \/ i \in 1 .. n - 1  BY <1>1
      <4> QED BY <4>3, <4>4, <4>5
    <3> QED BY <3>1, <3>3, <3>4, <3>5
  <2>2. CASE ~(n >= EDITOR_UNDO_MAX)
    <3>1. past = kept  BY <1>1, <1>p, <2>2
    <3>2. Len(v) = n + 1 /\ Len(v) - 1 = n  BY <1>1, <1>3, <2>2
    <3>3. ASSUME NEW i \in 1 .. n + 1 PROVE past[i] = v[i][1]
      <4>1. past[i] = t[i]  BY <1>6, <3>1
      <4>2. CASE i = n + 1  BY <1>2, <1>3, <1>5, <3>2, <4>1, <4>2
      <4>3. CASE i \in 1 .. n
        <5>1. v[i] = u[i]  BY <1>3, <2>2, <3>2, <4>3
        <5> QED BY <1>5, <4>1, <4>3, <5>1
      <4>4. i = n + 1 \/ i \in 1 .. n  BY <1>1
      <4> QED BY <4>2, <4>3, <4>4
    <3> QED BY <1>6, <3>1, <3>2, <3>3
  <2> QED BY <2>1, <2>2
<1>8. Len(v) \in Nat  BY <1>3, LenProperties
<1>9. /\ Append(past, d) \in Seq(Docs) /\ Len(Append(past, d)) = Len(v) + 1
      /\ Append(past, d)[Len(v) + 1] = d
      /\ \A i \in 1 .. Len(v) : Append(past, d)[i] = past[i]
  BY <1>7, <1>8
<1>10. Len(e) = 0 => Len(s) = Len(v) + 1  BY <1>4, <1>8
<1>11. \A i \in 1 .. Len(v) + 1 : s[i] = Append(past, d)[i]
  <2> SUFFICES ASSUME NEW i \in 1 .. Len(v) + 1 PROVE s[i] = Append(past, d)[i]
    OBVIOUS
  <2>1. i = Len(v) + 1 \/ i \in 1 .. Len(v)  BY <1>8
  <2> QED BY <1>4, <1>7, <1>9, <2>1
<1>12. Len(e) = 0 => s = Append(past, d)  BY <1>4, <1>9, <1>10, <1>11, SeqEqual
<1> QED BY <1>9, <1>12 DEF s, past, kept, t, v, n, Cut

LEMMA HistoryInit == Init => History!Init
BY SessionLine DEF Init, History!Init, Sessions, Callbacks, Confirmations

(* A key that changes the text goes through the history: what changes the  *)
(* text in a session without one of its four keys comes from elsewhere.    *)
LEMMA AmendedByOthers ==
  ASSUME TypeOK, [Next]_vars, pc \in Sessions, pc' \in Sessions, buffer' # buffer,
         ~(TypeKey \/ BulkEditKey \/ UndoKey \/ RedoKey)
  PROVE  pc # "dispatch" /\ pc' # "dispatch"
<1>1. CASE Exit  BY <1>1 DEF Exit, Sessions, Callbacks, Confirmations
<1>2. CASE Reload
  <2>1. pc' # "dispatch"  BY <1>2 DEF Reload
  <2>2. CASE TopReload \/ Discards
    BY <2>1, <2>2 DEF TopReload, Discards, Confirmations
  <2>3. CASE ~(TopReload \/ Discards)
    BY <1>2, <2>1, <2>3 DEF Exit, Reload, Next, vars, Opens, OpenFails, Loop, Dispatch, TopClose, Declines,
       Mouse, KeyPressed, KeyHandled, KeyPasses, NotifiedOfKey, NotifiedOfMove, NoRequest,
       Blocked, QuitKey, SaveKey, SaveKeyCannotOpen, SaveKeyCrashes, MoveKey, EndOfLoop,
       Goto, Api, ApiEdit, ApiUppercase, ApiSetCursor, ApiSetCursorCrashes, ApiSave,
       ApiSaveAs, ApiSaveTo, ApiSaveFails, ApiClose, ApiReload, ApiSetReadonly, Crashed,
       InCallback, ApiAlive, Sessions, Callbacks, Confirmations
  <2> QED BY <2>2, <2>3
<1>3. CASE ~Exit /\ ~Reload
  <2>1. CASE ApiEdit \/ ApiUppercase
    BY <2>1 DEF ApiEdit, ApiUppercase, InCallback, Callbacks
  <2>2. CASE ~(ApiEdit \/ ApiUppercase)
    BY <1>3, <2>2 DEF Next, vars, Opens, OpenFails, ReloadFails, Loop, Dispatch, TopReload,
       TopClose, Discards, Declines, QuitKey, Mouse, KeyPressed, KeyHandled, KeyPasses,
       NotifiedOfKey, NotifiedOfMove, Blocked, SaveKey, SaveKeyCannotOpen,
       SaveKeyCrashes, MoveKey, EndOfLoop, Goto, Api, ApiSetCursor,
       ApiSetCursorCrashes, ApiSave, ApiSaveAs, ApiSaveTo, ApiSaveFails, ApiClose,
       ApiReload, ApiSetReadonly, Crashed, Sessions, Callbacks, Confirmations
  <2> QED BY <2>1, <2>2
<1> QED BY <1>1, <1>2, <1>3

(* A step within a session that leaves the stacks alone and comes from no  *)
(* key changes the version on the screen in place.                         *)
LEMMA AmendStep ==
  ASSUME TypeOK, TypeOK', pc \in Sessions, pc' \in Sessions, UNCHANGED history,
         pc # "dispatch", pc' # "dispatch"
  PROVE  History!Amend(buffer')
<1>1. /\ undo \in Seq(Snapshots) /\ redo \in Seq(Snapshots)
      /\ buffer \in Docs /\ buffer' \in Docs /\ undo' = undo /\ redo' = redo
  BY DEF TypeOK, history
<1>2. /\ Timeline = Line(undo, buffer, redo) /\ Now = Len(undo) + 1
      /\ Timeline' = Line(undo, buffer', redo) /\ Now' = Len(undo) + 1
  BY <1>1, SessionLine
<1>3. Timeline' = [Timeline EXCEPT ![Now] = buffer']
  BY <1>1, <1>2, AmendLine
<1>4. Timeline # <<>>
  <2>1. Timeline \in Seq(Docs) /\ Len(Timeline) = Len(undo) + 1 + Len(redo)
    BY <1>1, <1>2, LineFacts
  <2>2. Len(undo) \in Nat /\ Len(redo) \in Nat  BY <1>1, LenProperties
  <2> QED BY <2>1, <2>2, EmptySeq
<1> QED BY <1>2, <1>3, <1>4 DEF History!Amend

(* A step within a session that leaves the stacks and the text alone. *)
LEMMA OtherStep ==
  ASSUME TypeOK, TypeOK', pc \in Sessions, pc' \in Sessions, UNCHANGED <<history, buffer>>
  PROVE  History!Other
<1>1. undo' = undo /\ redo' = redo /\ buffer' = buffer  BY DEF history
<1>2. Timeline' = Timeline /\ Now' = Now  BY <1>1, SessionLine
<1> QED BY <1>2 DEF History!Other

LEMMA EditStep ==
  ASSUME TypeOK, TypeOK', pc \in Sessions, pc' \in Sessions, Record,
         pc = "dispatch", pc' # "dispatch"
  PROVE  History!Edit(buffer')
<1>1. /\ undo \in Seq(Snapshots) /\ redo \in Seq(Snapshots)
      /\ buffer \in Docs /\ buffer' \in Docs /\ cursor \in Positions
      /\ undo' = Push(undo, <<buffer, cursor>>) /\ redo' = <<>>
  BY DEF TypeOK, Record
<1>2. /\ Timeline = Line(undo, buffer, redo) /\ Now = Len(undo) + 1
      /\ Timeline' = Line(undo', buffer', redo') /\ Now' = Len(undo') + 1
  BY SessionLine
<1>3. redo' \in Seq(Snapshots) /\ Len(redo') = 0  BY <1>1, EmptySeq
<1>4. /\ Timeline' = Append(History!Past, buffer')
      /\ Len(Timeline') = Now'
  <2>1. /\ Line(Push(undo, <<buffer, cursor>>), buffer', redo') = Append(History!Past, buffer')
        /\ Len(Append(History!Past, buffer')) = Len(Push(undo, <<buffer, cursor>>)) + 1
    <3>1. History!Past = Cut(Line(undo, buffer, redo), Len(undo) + 1)
      BY <1>2 DEF History!Past, Cut
    <3>2. redo' \in Seq(Snapshots)  BY <1>3
    <3>3. /\ undo \in Seq(Snapshots) /\ redo \in Seq(Snapshots)
          /\ buffer \in Docs /\ buffer' \in Docs /\ cursor \in Positions
      BY <1>1
    <3>4. /\ Len(redo') = 0 =>
               Line(Push(undo, <<buffer, cursor>>), buffer', redo')
               = Append(Cut(Line(undo, buffer, redo), Len(undo) + 1), buffer')
          /\ Len(Append(Cut(Line(undo, buffer, redo), Len(undo) + 1), buffer'))
               = Len(Push(undo, <<buffer, cursor>>)) + 1
      BY <3>2, <3>3, EditLine
    <3> QED BY <1>3, <3>1, <3>4
  <2> QED BY <1>1, <1>2, <2>1
<1>5. Timeline # <<>>
  <2>1. Timeline \in Seq(Docs) /\ Len(Timeline) = Len(undo) + 1 + Len(redo)
    BY <1>1, <1>2, LineFacts
  <2>2. Len(undo) \in Nat /\ Len(redo) \in Nat  BY <1>1, LenProperties
  <2> QED BY <2>1, <2>2, EmptySeq
<1> QED BY <1>4, <1>5 DEF History!Edit

LEMMA BackStep ==
  ASSUME TypeOK, HistoryFits, pc' \in Sessions, UndoKey
  PROVE  History!Back
<1>1. /\ undo \in Seq(Snapshots) /\ redo \in Seq(Snapshots) /\ undo # <<>>
      /\ buffer \in Docs /\ cursor \in Positions /\ pc \in Sessions
  BY DEF TypeOK, UndoKey, Sessions
<1>2. Len(redo) < EDITOR_UNDO_MAX
  <2>1. Len(undo) \in Nat \ {0} /\ Len(redo) \in Nat  BY <1>1, LenProperties, EmptySeq
  <2> QED BY <2>1, UndoMaxPositive DEF HistoryFits
<1>3. /\ Timeline = Line(undo, buffer, redo) /\ Now = Len(undo) + 1
      /\ Timeline' = Line(Pop(undo), Top(undo)[1], Push(redo, <<buffer, cursor>>))
      /\ Now' = Len(Pop(undo)) + 1
  BY <1>1, SessionLine DEF UndoKey
<1>4. /\ Timeline' = Timeline /\ Len(Pop(undo)) = Len(undo) - 1 /\ Len(undo) \in Nat \ {0}
  BY <1>1, <1>2, <1>3, BackLine
<1>5. pc = "dispatch" /\ pc' # "dispatch"  BY DEF UndoKey, EndOfLoop
<1> QED BY <1>3, <1>4, <1>5 DEF History!Back

LEMMA ForthStep ==
  ASSUME TypeOK, HistoryFits, pc' \in Sessions, RedoKey
  PROVE  History!Forth
<1>1. /\ undo \in Seq(Snapshots) /\ redo \in Seq(Snapshots) /\ redo # <<>>
      /\ buffer \in Docs /\ cursor \in Positions /\ pc \in Sessions
  BY DEF TypeOK, RedoKey, Sessions
<1>2. Len(undo) < EDITOR_UNDO_MAX
  <2>1. Len(redo) \in Nat \ {0} /\ Len(undo) \in Nat  BY <1>1, LenProperties, EmptySeq
  <2> QED BY <2>1, UndoMaxPositive DEF HistoryFits
<1>3. /\ Timeline = Line(undo, buffer, redo) /\ Now = Len(undo) + 1
      /\ Timeline' = Line(Push(undo, <<buffer, cursor>>), Top(redo)[1], Pop(redo))
      /\ Now' = Len(Push(undo, <<buffer, cursor>>)) + 1
  BY <1>1, SessionLine DEF RedoKey
<1>4. /\ Timeline' = Timeline /\ Len(Push(undo, <<buffer, cursor>>)) = Len(undo) + 1
      /\ Len(undo) \in Nat /\ Len(redo) \in Nat \ {0}
  BY <1>1, <1>2, <1>3, ForthLine
<1>5. Len(Timeline) = Len(undo) + 1 + Len(redo)  BY <1>1, <1>3, LineFacts
<1>6. pc = "dispatch" /\ pc' # "dispatch"  BY DEF RedoKey, EndOfLoop
<1> QED BY <1>3, <1>4, <1>5, <1>6 DEF History!Forth

(* A session begins with an opened file and no history. *)
LEMMA StartStep ==
  ASSUME TypeOK, TypeOK', BrowserIsFresh, [Next]_vars, pc \notin Sessions, pc' \in Sessions
  PROVE  History!Start(buffer')
<1>1. PICK f \in Files : Opens(f)
  BY DEF Next, vars, OpenFails, Loop, Dispatch, TopReload, TopClose, Discards, Declines,
         NoRequest, Mouse, KeyPressed, KeyHandled, KeyPasses, NotifiedOfKey, NotifiedOfMove,
         Blocked, QuitKey, SaveKey, SaveKeyCannotOpen, SaveKeyCrashes, MoveKey, TypeKey,
         BulkEditKey, UndoKey, RedoKey, Goto, Api, ApiEdit, ApiUppercase, ApiSetCursor,
         ApiSetCursorCrashes, ApiSave, ApiSaveAs, ApiSaveTo, ApiSaveFails, ApiClose,
         ApiReload, ApiSetReadonly, Crashed, InCallback, Sessions, Callbacks, Confirmations
<1>2. undo' = <<>> /\ redo' = <<>> /\ buffer' \in Docs
  BY <1>1 DEF Opens, BrowserIsFresh, history, TypeOK
<1>3. <<>> \in Seq(Snapshots) /\ Len(<<>>) = 0  BY EmptySeq
<1>4. Timeline' = <<buffer'>>
  <2>1. undo' \in Seq(Snapshots) /\ redo' \in Seq(Snapshots) /\ Len(undo') = 0 /\ Len(redo') = 0
    BY <1>2, <1>3
  <2> QED BY <1>2, <2>1, StartLine, SessionLine
<1>5. Now' = 1  BY <1>2, <1>3, SessionLine
<1>6. pc' # "dispatch"  BY <1>1 DEF Opens
<1> QED BY <1>4, <1>5, <1>6, SessionLine DEF History!Start

LEMMA HistoryNextStep ==
  TypeOK /\ TypeOK' /\ HistoryFits /\ BrowserIsFresh /\ [Next]_vars
    => [History!Next]_(History!vars)
<1> SUFFICES ASSUME TypeOK, TypeOK', HistoryFits, BrowserIsFresh, [Next]_vars
             PROVE  [History!Next]_(History!vars)
  OBVIOUS
<1>1. pc' \in Sessions => buffer' \in Docs  BY DEF TypeOK
<1>2. CASE pc' \notin Sessions
  <2>1. pc' # "dispatch"  BY <1>2 DEF Sessions
  <2> QED BY <1>2, <2>1, SessionLine DEF History!Next, History!End
<1>3. CASE pc \notin Sessions /\ pc' \in Sessions
  BY <1>1, <1>3, StartStep DEF History!Next
<1>4. CASE pc \in Sessions /\ pc' \in Sessions
  <2>1. CASE TypeKey \/ BulkEditKey
    <3>1. Record /\ pc = "dispatch" /\ pc' # "dispatch"
      BY <2>1 DEF TypeKey, BulkEditKey, EndOfLoop
    <3> QED BY <1>1, <1>4, <3>1, EditStep DEF History!Next
  <2>2. CASE UndoKey  BY <1>4, <2>2, BackStep DEF History!Next
  <2>3. CASE RedoKey  BY <1>4, <2>3, ForthStep DEF History!Next
  <2>4. CASE ~(TypeKey \/ BulkEditKey \/ UndoKey \/ RedoKey)
    <3>1. UNCHANGED history
      <4>1. ~Exit  BY <1>4 DEF Exit, Sessions, Callbacks, Confirmations
      <4> QED BY <2>4, <4>1, HistorySteps
    <3>2. CASE buffer' = buffer
      BY <1>4, <3>1, <3>2, OtherStep DEF History!Next
    <3>3. CASE buffer' # buffer
      <4>1. pc # "dispatch" /\ pc' # "dispatch"
        BY <1>4, <2>4, <3>3, AmendedByOthers
      <4> QED BY <1>1, <1>4, <3>1, <4>1, AmendStep DEF History!Next
    <3> QED BY <3>2, <3>3
  <2> QED BY <2>1, <2>2, <2>3, <2>4
<1> QED BY <1>2, <1>3, <1>4

LEMMA InitBrowserIsFresh == Init => BrowserIsFresh
BY DEF Init, BrowserIsFresh

(* Every session, whatever fails and whatever plugins do, is a walk along  *)
(* one line of versions: undo and redo lose none of them.                  *)
THEOREM UndoIsATimeline == Spec => ImplementsHistory
BY InitTypeOK, TypeOKStep, InitHistoryFits, HistoryFitsStep, InitBrowserIsFresh,
   BrowserIsFreshStep, HistoryInit, HistoryNextStep, PTL
   DEF Spec, ImplementsHistory, History!Spec
=============================================================================
