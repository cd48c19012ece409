------------------------------- MODULE Editor -------------------------------
(***************************************************************************)
(* A session of the built-in editor, edit_file_in_terminal of              *)
(* src/src/fs/files.c: its loop, the plugin callbacks that run inside it   *)
(* and the plugin API they call, the requests they leave behind, the two   *)
(* dirty flags, undo and redo, and the file on the disk.                   *)
(*                                                                         *)
(* Everything runs in one thread, and still steps interleave: a callback   *)
(* may call any number of API functions in the middle of a loop iteration, *)
(* whose locals then disagree with the globals the API works on.           *)
(*                                                                         *)
(* A content and a cursor position are opaque here, and an edit gives any  *)
(* of them: EditorText says which one.  Allocations do not fail, a         *)
(* callback returns, and no line of a file is too long for the buffer it   *)
(* is read into, so that what was saved is what is loaded.                 *)
(***************************************************************************)
EXTENDS Integers, Sequences

CONSTANTS
  Docs,       (* contents of a text                                      *)
  NoDoc,      (* no buffer: g_editor_buffer is NULL                      *)
  Files,      (* paths                                                   *)
  NoFile,     (* the empty path                                          *)
  Positions,  (* cursor positions                                        *)
  Home,       (* the first of them                                       *)
  EDITOR_UNDO_MAX,
  Env         (* what the world may do: fopen fails "open_fails", writes  *)
              (* fail "write_fails", a plugin edits the text in on_key   *)
              (* and lets the key pass "edits_and_passes"                 *)

ASSUME DocsNotEmpty == Docs # {} /\ NoDoc \notin Docs
ASSUME FilesNotEmpty == Files # {} /\ NoFile \notin Files
ASSUME HomeIsAPosition == Home \in Positions
ASSUME UndoMaxPositive == EDITOR_UNDO_MAX \in Nat \ {0}
ASSUME EnvKnown == Env \subseteq {"open_fails", "write_fails", "edits_and_passes"}

VARIABLES
  pc,         (* where the thread is, see Sessions below               *)
  isEditing,  (* is_editing                                            *)
  path,       (* g_editor_path                                         *)
  fileOpen,   (* the local FILE *file is not NULL                      *)
  buffer,     (* the text buffer                                       *)
  cursor,     (* the locals cursor_line and cursor_col                 *)
  apiCursor,  (* g_editor_cursor_line and g_editor_cursor_col          *)
  before,     (* the locals old_cursor_line and old_cursor_col         *)
  dirty,      (* the local editor_dirty                                *)
  apiDirty,   (* g_editor_dirty                                        *)
  clearReq,   (* g_editor_dirty_clear_requested                        *)
  closeReq,   (* g_editor_close_requested                              *)
  reloadReq,  (* g_editor_reload_requested                             *)
  readonly,   (* g_editor_readonly                                     *)
  undo,       (* um.undo: pairs of a content and a cursor, oldest first *)
  redo,       (* um.redo                                               *)
  disk        (* what loading each file gives                          *)

requests == <<closeReq, reloadReq>>
session == <<isEditing, path, fileOpen>>
cursors == <<cursor, apiCursor, before>>
history == <<undo, redo>>
vars == <<pc, session, buffer, cursors, dirty, apiDirty, clearReq, requests,
          readonly, history, disk>>

(* "browser": the main loop, no editor; "top": the top of the editor's     *)
(* loop, and its wait for a key; "dispatch": a key that no plugin handled; *)
(* the confirmations are modal; "crashed": a NULL FILE or buffer was used. *)
(* In a callback a plugin is running: on_editor_open, on_key,              *)
(* on_editor_change, on_editor_save or on_editor_cursor_move.              *)
Callbacks == {"opened", "key", "changed", "saved", "moved"}
Confirmations == {"confirmQuit", "confirmClose", "confirmReload"}
Sessions == {"top", "dispatch"} \cup Callbacks \cup Confirmations

Init ==
  /\ pc = "browser"
  /\ isEditing = FALSE /\ path = NoFile /\ fileOpen = FALSE
  /\ buffer = NoDoc
  /\ cursor = Home /\ apiCursor = Home /\ before = Home
  /\ dirty = FALSE /\ apiDirty = FALSE /\ clearReq = FALSE
  /\ closeReq = FALSE /\ reloadReq = FALSE
  /\ readonly = FALSE
  /\ undo = <<>> /\ redo = <<>>
  /\ disk \in [Files -> Docs]

-----------------------------------------------------------------------------
(* Steps that several actions share.  None of them says what becomes of    *)
(* the requests.                                                           *)

(* A "continue": nothing but the place in the loop changes. *)
Goto(place) ==
  /\ pc' = place
  /\ UNCHANGED <<session, buffer, cursors, dirty, apiDirty, clearReq, readonly,
                 history, disk>>

(* The end of an iteration, with the cursor c and the local dirty flag d:  *)
(* the globals follow the locals, and a move is announced.                 *)
EndOfLoop(c, d) ==
  /\ cursor' = c /\ apiCursor' = c
  /\ dirty' = d /\ apiDirty' = (d \/ apiDirty)
  /\ pc' = IF c # before THEN "moved" ELSE "top"
  /\ UNCHANGED before

(* The cleanup after the loop; it closes the file, open or not. *)
Exit ==
  /\ pc' = IF fileOpen THEN "browser" ELSE "crashed"
  /\ isEditing' = FALSE /\ path' = NoFile /\ fileOpen' = FALSE
  /\ buffer' = NoDoc
  /\ cursor' = Home /\ before' = Home
  /\ dirty' = FALSE /\ apiDirty' = FALSE
  /\ undo' = <<>> /\ redo' = <<>>
  /\ UNCHANGED <<apiCursor, clearReq, readonly, disk>>

(* Whether fopen succeeded. *)
Reopened == IF "open_fails" \in Env THEN BOOLEAN ELSE {TRUE}

(* What a write of the buffer may leave in the file. *)
Written == IF "write_fails" \in Env THEN Docs ELSE {buffer}

(* Mutant: a full stack refuses the newest snapshot. *)
PushRefuses(stack, snapshot) ==
  IF Len(stack) >= EDITOR_UNDO_MAX THEN stack ELSE Append(stack, snapshot)

(* editor_stack_push: the oldest snapshot makes room. *)
Push(stack, snapshot) ==
  Append(IF Len(stack) >= EDITOR_UNDO_MAX THEN Tail(stack) ELSE stack, snapshot)

Top(stack) == stack[Len(stack)]
Pop(stack) == SubSeq(stack, 1, Len(stack) - 1)

(* Mutant: an edit leaves what was undone on the redo stack. *)
RecordKeepsRedo == undo' = Push(undo, <<buffer, cursor>>) /\ redo' = redo

(* editor_undo_record *)
Record == undo' = Push(undo, <<buffer, cursor>>) /\ redo' = <<>>

-----------------------------------------------------------------------------
(* Opening, and the top of the loop.                                       *)

(* The file is opened and read; the locals and most globals are reset. *)
Opens(f) ==
  /\ pc = "browser"
  /\ pc' = "top"
  /\ isEditing' = TRUE /\ path' = f /\ fileOpen' = TRUE
  /\ buffer' = disk[f]
  /\ cursor' = Home /\ apiCursor' = Home
  /\ dirty' = FALSE /\ apiDirty' = FALSE /\ readonly' = FALSE
  /\ UNCHANGED <<before, clearReq, requests, history, disk>>

(* Mutant: the early return is missing. *)
OpenFailsThrough(f) ==
  /\ pc = "browser" /\ "open_fails" \in Env
  /\ pc' = "top"
  /\ isEditing' = TRUE /\ path' = f
  /\ UNCHANGED <<fileOpen, buffer, cursors, dirty, apiDirty, clearReq, requests,
                 readonly, history, disk>>

(* The file cannot be opened: the function returns from the middle. *)
OpenFails(f) ==
  /\ pc = "browser" /\ "open_fails" \in Env
  /\ isEditing' = TRUE /\ path' = f
  /\ UNCHANGED <<pc, fileOpen, buffer, cursors, dirty, apiDirty, clearReq, requests,
                 readonly, history, disk>>

(* editor_load_file_into_buffer and the reset of the view; undo and redo   *)
(* are kept, the handle is reopened as well as possible.                   *)
Reload ==
  /\ pc' = "top"
  /\ buffer' = disk[path]
  /\ fileOpen' \in Reopened
  /\ cursor' = Home /\ apiCursor' = Home
  /\ dirty' = FALSE /\ apiDirty' = FALSE /\ clearReq' = TRUE
  /\ UNCHANGED <<isEditing, path, before, readonly, history, disk>>

ReloadFails == "open_fails" \in Env /\ Goto("top")

(* Mutant: both requests are taken back. *)
TopReloadDropsClose ==
  /\ pc = "top" /\ reloadReq
  /\ reloadReq' = FALSE /\ closeReq' = FALSE
  /\ \/ (dirty \/ apiDirty) /\ Goto("confirmReload")
     \/ ~(dirty \/ apiDirty) /\ (Reload \/ ReloadFails)

TopReload ==
  /\ pc = "top" /\ reloadReq
  /\ reloadReq' = FALSE /\ UNCHANGED closeReq
  /\ \/ (dirty \/ apiDirty) /\ Goto("confirmReload")
     \/ ~(dirty \/ apiDirty) /\ (Reload \/ ReloadFails)

(* Mutant: only the loop's own flag is looked at. *)
TopCloseOwnFlag ==
  /\ pc = "top" /\ ~reloadReq /\ closeReq
  /\ closeReq' = FALSE /\ UNCHANGED reloadReq
  /\ \/ dirty /\ Goto("confirmClose")
     \/ ~dirty /\ Exit

TopClose ==
  /\ pc = "top" /\ ~reloadReq /\ closeReq
  /\ closeReq' = FALSE /\ UNCHANGED reloadReq
  /\ \/ (dirty \/ apiDirty) /\ Goto("confirmClose")
     \/ ~(dirty \/ apiDirty) /\ Exit

(* The user answers confirm_discard_unsaved. *)
Discards ==
  /\ pc \in Confirmations
  /\ IF pc = "confirmReload" THEN Reload \/ ReloadFails ELSE Exit
  /\ UNCHANGED requests

Declines == pc \in Confirmations /\ Goto("top") /\ UNCHANGED requests

NoRequest == pc = "top" /\ ~reloadReq /\ ~closeReq

(* A mouse event: the cursor follows it. *)
Mouse ==
  /\ NoRequest
  /\ apiCursor' = cursor
  /\ cursor' \in Positions
  /\ UNCHANGED <<pc, session, buffer, before, dirty, apiDirty, clearReq, requests,
                 readonly, history, disk>>

(* Mutant: the flags are merged first and cleared then. *)
KeyPressedClearsLate ==
  /\ NoRequest
  /\ pc' = "key"
  /\ before' = cursor /\ apiCursor' = cursor
  /\ clearReq' = FALSE
  /\ dirty' = ((apiDirty \/ dirty) /\ ~clearReq) /\ apiDirty' = dirty'
  /\ UNCHANGED <<session, buffer, cursor, requests, readonly, history, disk>>

(* A key: the dirty flags are brought in line, and on_key runs. *)
KeyPressed ==
  /\ NoRequest
  /\ pc' = "key"
  /\ before' = cursor /\ apiCursor' = cursor
  /\ clearReq' = FALSE
  /\ dirty' = (apiDirty \/ (dirty /\ ~clearReq)) /\ apiDirty' = dirty'
  /\ UNCHANGED <<session, buffer, cursor, requests, readonly, history, disk>>

-----------------------------------------------------------------------------
(* The end of a callback.                                                  *)

(* on_key handled the key: the loop takes over the cursor and the flag,    *)
(* unless a close was requested.                                           *)
KeyHandled ==
  /\ pc = "key"
  /\ pc' = "top"
  /\ IF closeReq
       THEN UNCHANGED <<cursor, dirty>>
       ELSE cursor' = apiCursor /\ dirty' = (dirty \/ apiDirty)
  /\ UNCHANGED <<session, buffer, apiCursor, before, apiDirty, clearReq, requests,
                 readonly, history, disk>>

KeyPasses ==
  /\ pc = "key"
  /\ apiDirty /\ ~dirty => "edits_and_passes" \in Env
  /\ Goto("dispatch") /\ UNCHANGED requests

(* on_editor_change or on_editor_save returns to the key that raised it. *)
NotifiedOfKey ==
  /\ pc \in {"changed", "saved"}
  /\ EndOfLoop(cursor, dirty)
  /\ UNCHANGED <<session, buffer, clearReq, requests, readonly, history, disk>>

NotifiedOfMove == pc = "moved" /\ Goto("top") /\ UNCHANGED requests

-----------------------------------------------------------------------------
(* The keys.                                                               *)

(* editor_block_if_readonly, for every key that saves or edits. *)
Blocked == pc = "dispatch" /\ readonly /\ Goto("top") /\ UNCHANGED requests

QuitKey ==
  /\ pc = "dispatch"
  /\ \/ dirty /\ Goto("confirmQuit")
     \/ ~dirty /\ Exit
  /\ UNCHANGED requests

(* The handle is closed, open or not, the file is truncated and written;   *)
(* whether that worked is not looked at.                                   *)
SaveKey ==
  /\ pc = "dispatch" /\ ~readonly /\ fileOpen
  /\ \E d \in Written : disk' = [disk EXCEPT ![path] = d]
  /\ fileOpen' \in Reopened
  /\ dirty' = FALSE /\ apiDirty' = FALSE
  /\ pc' = "saved"
  /\ UNCHANGED <<isEditing, path, buffer, cursors, clearReq, requests, readonly, history>>

SaveKeyCannotOpen ==
  /\ pc = "dispatch" /\ ~readonly /\ fileOpen /\ "open_fails" \in Env
  /\ fileOpen' = FALSE
  /\ pc' = "top"
  /\ UNCHANGED <<isEditing, path, buffer, cursors, dirty, apiDirty, clearReq, requests,
                 readonly, history, disk>>

SaveKeyCrashes ==
  /\ pc = "dispatch" /\ ~readonly /\ ~fileOpen
  /\ Goto("crashed") /\ UNCHANGED requests

(* A key that moves the cursor, selects, copies, or does nothing. *)
MoveKey ==
  /\ pc = "dispatch"
  /\ \E c \in Positions : EndOfLoop(c, dirty)
  /\ UNCHANGED <<session, buffer, clearReq, requests, readonly, history, disk>>

(* Enter, Backspace and the printable characters: on_editor_change runs    *)
(* before the globals follow.                                              *)
TypeKey ==
  /\ pc = "dispatch" /\ ~readonly
  /\ Record
  /\ buffer' \in Docs \ {buffer}
  /\ cursor' \in Positions
  /\ dirty' = TRUE
  /\ pc' = "changed"
  /\ UNCHANGED <<session, apiCursor, before, apiDirty, clearReq, requests, readonly, disk>>

(* Cut, paste and uppercase. *)
BulkEditKey ==
  /\ pc = "dispatch" /\ ~readonly
  /\ Record
  /\ buffer' \in Docs
  /\ \E c \in Positions : EndOfLoop(c, TRUE)
  /\ UNCHANGED <<session, clearReq, requests, readonly, disk>>

(* editor_do_undo, editor_do_redo.  editor_apply_snapshot clamps the saved *)
(* cursor into the text, which a position here does not tell.              *)
UndoKey ==
  /\ pc = "dispatch" /\ ~readonly /\ undo # <<>>
  /\ undo' = Pop(undo) /\ redo' = Push(redo, <<buffer, cursor>>)
  /\ buffer' = Top(undo)[1]
  /\ EndOfLoop(Top(undo)[2], TRUE)
  /\ UNCHANGED <<session, clearReq, requests, readonly, disk>>

RedoKey ==
  /\ pc = "dispatch" /\ ~readonly /\ redo # <<>>
  /\ redo' = Pop(redo) /\ undo' = Push(undo, <<buffer, cursor>>)
  /\ buffer' = Top(redo)[1]
  /\ EndOfLoop(Top(redo)[2], TRUE)
  /\ UNCHANGED <<session, clearReq, requests, readonly, disk>>

-----------------------------------------------------------------------------
(* The plugin API.  After a failed open is_editing stays set, and the main *)
(* loop's callbacks reach the part of the API that needs no buffer.        *)

InCallback == pc \in Callbacks
ApiAlive == InCallback \/ (pc = "browser" /\ isEditing)

(* editor_insert_text, editor_replace_text, editor_delete_range *)
ApiEdit ==
  /\ InCallback
  /\ buffer' \in Docs
  /\ apiCursor' \in Positions
  /\ apiDirty' = TRUE
  /\ UNCHANGED <<pc, session, cursor, before, dirty, clearReq, requests, readonly,
                 history, disk>>

(* editor_apply_uppercase_to_selection *)
ApiUppercase ==
  /\ InCallback /\ ~readonly
  /\ buffer' \in Docs
  /\ apiDirty' = TRUE
  /\ UNCHANGED <<pc, session, cursors, dirty, clearReq, requests, readonly, history, disk>>

ApiSetCursor ==
  /\ InCallback
  /\ apiCursor' \in Positions
  /\ UNCHANGED <<pc, session, buffer, cursor, before, dirty, apiDirty, clearReq,
                 requests, readonly, history, disk>>

(* editor_set_cursor looks into the buffer, which is NULL. *)
ApiSetCursorCrashes ==
  /\ pc = "browser" /\ isEditing
  /\ Goto("crashed") /\ UNCHANGED requests

(* editor_save_current and editor_save_as.  A failed write leaves anything *)
(* in the file and changes no flag.                                        *)
ApiSaveTo(f) ==
  /\ InCallback /\ ~readonly
  /\ disk' = [disk EXCEPT ![f] = buffer]
  /\ path' = f
  /\ apiDirty' = FALSE /\ clearReq' = TRUE
  /\ UNCHANGED <<pc, isEditing, fileOpen, buffer, cursors, dirty, requests, readonly,
                 history>>

ApiSaveFails(f) ==
  /\ InCallback /\ ~readonly /\ "write_fails" \in Env
  /\ \E d \in Docs : disk' = [disk EXCEPT ![f] = d]
  /\ UNCHANGED <<pc, session, buffer, cursors, dirty, apiDirty, clearReq, requests,
                 readonly, history>>

ApiSave == ApiSaveTo(path) \/ ApiSaveFails(path)
ApiSaveAs == \E f \in Files : ApiSaveTo(f) \/ ApiSaveFails(f)

(* editor_request_close, editor_request_reload, editor_set_readonly *)
ApiClose ==
  /\ ApiAlive
  /\ closeReq' = TRUE
  /\ UNCHANGED <<pc, session, buffer, cursors, dirty, apiDirty, clearReq, reloadReq,
                 readonly, history, disk>>

ApiReload ==
  /\ ApiAlive
  /\ reloadReq' = TRUE
  /\ UNCHANGED <<pc, session, buffer, cursors, dirty, apiDirty, clearReq, closeReq,
                 readonly, history, disk>>

ApiSetReadonly ==
  /\ ApiAlive
  /\ readonly' \in BOOLEAN
  /\ UNCHANGED <<pc, session, buffer, cursors, dirty, apiDirty, clearReq, requests,
                 history, disk>>

Crashed == pc = "crashed" /\ UNCHANGED vars

-----------------------------------------------------------------------------
Dispatch ==
  \/ Blocked \/ QuitKey \/ SaveKey \/ SaveKeyCannotOpen \/ SaveKeyCrashes
  \/ MoveKey \/ TypeKey \/ BulkEditKey \/ UndoKey \/ RedoKey

Api ==
  \/ ApiEdit \/ ApiUppercase \/ ApiSetCursor \/ ApiSetCursorCrashes
  \/ ApiSave \/ ApiSaveAs \/ ApiClose \/ ApiReload \/ ApiSetReadonly

Loop ==
  \/ TopReload \/ TopClose \/ Discards \/ Declines \/ Mouse \/ KeyPressed
  \/ KeyHandled \/ KeyPasses \/ NotifiedOfKey \/ NotifiedOfMove
  \/ Dispatch

Next ==
  \/ \E f \in Files : Opens(f) \/ OpenFails(f)
  \/ Loop \/ Api \/ Crashed

Spec == Init /\ [][Next]_vars

(* The loop wakes up every 10 ms, with or without a key, and a callback    *)
(* ends.  The user need not answer a confirmation.                         *)
Fairness ==
  /\ WF_vars(TopReload) /\ WF_vars(TopClose)
  /\ WF_vars(KeyHandled \/ KeyPasses) /\ WF_vars(Dispatch)
  /\ WF_vars(NotifiedOfKey) /\ WF_vars(NotifiedOfMove)

FairSpec == Spec /\ Fairness

-----------------------------------------------------------------------------
(* Properties.                                                             *)

Snapshots == Docs \X Positions

TypeOK ==
  /\ pc \in {"browser", "crashed"} \cup Sessions
  /\ isEditing \in BOOLEAN /\ path \in Files \cup {NoFile} /\ fileOpen \in BOOLEAN
  /\ buffer \in Docs \cup {NoDoc}
  /\ pc \in Sessions => buffer \in Docs /\ path \in Files
  /\ cursor \in Positions /\ apiCursor \in Positions /\ before \in Positions
  /\ dirty \in BOOLEAN /\ apiDirty \in BOOLEAN /\ clearReq \in BOOLEAN
  /\ closeReq \in BOOLEAN /\ reloadReq \in BOOLEAN /\ readonly \in BOOLEAN
  /\ undo \in Seq(Snapshots) /\ redo \in Seq(Snapshots)
  /\ disk \in [Files -> Docs]

Unsaved == pc \in Sessions /\ buffer # disk[path]

(* Text that is not on the disk is never given up without a confirmation:  *)
(* not by the quit key, a requested close or a requested reload, whatever  *)
(* the plugins did to the text, the flags and the requests before.         *)
NoSilentDiscard ==
  [][Unsaved /\ pc \notin Confirmations
       => buffer' # NoDoc /\ (pc = "top" => buffer' = buffer)]_vars

(* The two dirty flags together: unsaved text is known to the flag that    *)
(* survives the next key, and at a key to the loop's own flag.             *)
UnsavedIsDirty ==
  Unsaved => /\ apiDirty \/ (dirty /\ (clearReq => pc = "changed"))
             /\ pc = "dispatch" => dirty

(* Undo and redo share one line of versions, and together never hold more  *)
(* than EDITOR_UNDO_MAX of them: a redo is never pushed out by an undo.    *)
HistoryFits == Len(undo) + Len(redo) <= EDITOR_UNDO_MAX

(* A requested close is not forgotten: the editor closes, or asks about    *)
(* unsaved text.  Only a question about a reload, which comes first, may    *)
(* stay open for ever.                                                      *)
CloseIsHandled ==
  closeReq /\ pc \in Sessions
    ~> pc \in {"browser", "confirmClose", "confirmQuit", "confirmReload", "crashed"}

-----------------------------------------------------------------------------
(* The session implements EditorHistory: the versions before the current   *)
(* one are on the undo stack, those after it on the redo stack.            *)
Timeline ==
  IF pc \notin Sessions THEN <<>>
  ELSE [i \in 1..(Len(undo) + 1 + Len(redo)) |->
          IF i <= Len(undo) THEN undo[i][1]
          ELSE IF i = Len(undo) + 1 THEN buffer
          ELSE redo[Len(undo) + Len(redo) + 2 - i][1]]
Now == IF pc \notin Sessions THEN 0 ELSE Len(undo) + 1

History == INSTANCE EditorHistory
  WITH Depth <- EDITOR_UNDO_MAX, timeline <- Timeline, now <- Now,
       keyed <- pc = "dispatch"

(* Undo and redo move along one line of versions, in both directions and   *)
(* without losing any.                                                     *)
ImplementsHistory == History!Spec

-----------------------------------------------------------------------------
(* What documents and comments say of the editor.                          *)

(* CUPIDFM_CUPIDSCRIPT_API.md:842: "If the save operation fails, the       *)
(* callback will not be triggered".                                        *)
AnnouncedSaveIsOnDisk ==
  [][pc = "dispatch" /\ pc' = "saved" => disk'[path] = buffer]_vars

(* src/src/fs/files.c:3176: "keep dirty state in sync (plugins may set     *)
(* g_editor_dirty)": a key is acted on, the quit key above all, with a     *)
(* loop flag that knows of every plugin's edits.                           *)
DirtyInSync == pc = "dispatch" /\ apiDirty => dirty
=============================================================================
