--------------------------- MODULE EditorHistory ---------------------------
(***************************************************************************)
(* What undo and redo of the built-in editor (src/src/fs/files.c) promise: *)
(* the versions of the text form a line of time.  An edit cuts off what    *)
(* was undone and adds a version, undo and redo only move along the line,  *)
(* and no version is lost but the oldest, when there are too many.         *)
(***************************************************************************)
EXTENDS Integers, Sequences

CONSTANTS
  Docs,   (* contents of a text                               *)
  Depth   (* how many versions before the current one are kept *)

VARIABLES
  timeline,  (* the versions, oldest first; none: the editor is closed *)
  now,       (* the index of the version on the screen                 *)
  keyed      (* a key of the user is being acted on                    *)

vars == <<timeline, now, keyed>>

Init == timeline = <<>> /\ now = 0 /\ keyed = FALSE

Start(d) ==
  /\ timeline = <<>> /\ timeline' = <<d>>
  /\ now' = 1 /\ keyed' = FALSE

Past == LET kept == SubSeq(timeline, 1, now)
        IN  IF now > Depth THEN Tail(kept) ELSE kept

(* A key edits, or moves along the line. *)
Edit(d) ==
  /\ keyed /\ timeline # <<>>
  /\ timeline' = Append(Past, d)
  /\ now' = Len(timeline') /\ keyed' = FALSE

Back == keyed /\ now > 1 /\ now' = now - 1 /\ keyed' = FALSE /\ UNCHANGED timeline

Forth ==
  /\ keyed /\ now < Len(timeline)
  /\ now' = now + 1 /\ keyed' = FALSE /\ UNCHANGED timeline

(* The version on the screen is changed in place, never by a key: by a     *)
(* plugin, or by a reload from the disk.                                   *)
Amend(d) ==
  /\ ~keyed /\ timeline # <<>>
  /\ timeline' = [timeline EXCEPT ![now] = d]
  /\ UNCHANGED <<now, keyed>>

(* A key arrives, or was none of these. *)
Other == keyed' \in BOOLEAN /\ UNCHANGED <<timeline, now>>

End == timeline' = <<>> /\ now' = 0 /\ keyed' = FALSE

Next ==
  \/ \E d \in Docs : Start(d) \/ Edit(d) \/ Amend(d)
  \/ Back \/ Forth \/ Other \/ End

Spec == Init /\ [][Next]_vars
=============================================================================
