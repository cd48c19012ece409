----------------------------- MODULE EditorText -----------------------------
(***************************************************************************)
(* What the keys of the built-in editor do to its text, its cursor, its    *)
(* selection and its clipboard (src/src/fs/files.c): a TextBuffer is an    *)
(* array of lines, and typing, deleting and pasting split and join them.   *)
(* When a key acts, and what it costs in flags and snapshots, is in Editor.*)
(*                                                                         *)
(* A step is a key with everything it does, or a plugin's edit.  Reading   *)
(* or writing outside of the lines is undefined, and nothing is said of    *)
(* the program after that.  Allocations do not fail.                       *)
(***************************************************************************)
EXTENDS Integers, Sequences, FiniteSets, SequencesExt

CONSTANTS
  Chars,    (* characters without the line end                       *)
  Blanks,   (* those that separate words                             *)
  Upper,    (* toupper                                               *)
  NL,       (* the line end                                          *)
  Snippets, (* what plugins insert                                   *)
  MaxText   (* bound: how many characters a text has, line ends too  *)

ASSUME LineEndIsNoChar == NL \notin Chars /\ Blanks \subseteq Chars
ASSUME UpperIsTotal == /\ Upper \in [Chars \cup {NL} -> Chars \cup {NL}] /\ Upper[NL] = NL
                       /\ \A c \in Chars : Upper[c] \in Chars
ASSUME SnippetsAreTexts == Snippets \subseteq Seq(Chars \cup {NL})
ASSUME MaxTextInNat == MaxText \in Nat

VARIABLES
  lines,      (* the lines of text_buffer                            *)
  cursor,     (* cursor_line, from 1, and cursor_col, from 0         *)
  sel,        (* None: g_sel_active is FALSE; or its anchor and end  *)
  dragging,   (* g_editor_mouse_dragging                             *)
  clip,       (* g_editor_clipboard; <<>>: NULL                      *)
  undefined   (* a key has read or written outside of the lines      *)

vars == <<lines, cursor, sel, dragging, clip, undefined>>

None == <<>>

-----------------------------------------------------------------------------
(* Lines and places in them.                                               *)

Smaller(a, b) == IF a < b THEN a ELSE b

Before(p, q) == p[1] < q[1] \/ (p[1] = q[1] /\ p[2] <= q[2])
PlacesOf(ls) == UNION {{l} \X (0..Len(ls[l])) : l \in DOMAIN ls}

Flat(ls) ==
  LET upTo[l \in DOMAIN ls] == IF l = 1 THEN ls[1] ELSE upTo[l - 1] \o <<NL>> \o ls[l]
  IN  upTo[Len(ls)]
Offset(ls, p) ==
  LET start[l \in 1..p[1]] == IF l = 1 THEN 0 ELSE start[l - 1] + Len(ls[l - 1]) + 1
  IN  start[p[1]] + p[2]

(* The parts of a text between its line ends. *)
Parts(s) ==
  LET upTo[i \in 0..Len(s)] ==
        IF i = 0 THEN << <<>> >>
        ELSE IF s[i] = NL THEN Append(upTo[i - 1], <<>>)
        ELSE [upTo[i - 1] EXCEPT ![Len(upTo[i - 1])] = Append(@, s[i])]
  IN  upTo[Len(s)]

(* The part of line l between the places s and e, clamped into it. *)
Clamped(ls, l, s, e) ==
  LET from == IF l = s[1] THEN Smaller(s[2], Len(ls[l])) ELSE 0
      to == IF l = e[1] THEN Smaller(e[2], Len(ls[l])) ELSE Len(ls[l])
  IN  <<from, IF to < from THEN from ELSE to>>

(* An end behind the last line is brought into it; the column stays. *)
InLastLine(ls, e) == <<Smaller(e[1], Len(ls)), e[2]>>

(* copy_selection_or_line, of the text between s and e *)
Copied(ls, s, end) ==
  LET e == InLastLine(ls, end)
  IN  Flat([i \in 1..(e[1] - s[1] + 1) |->
              LET l == s[1] + i - 1
              IN  SubSeq(ls[l], Clamped(ls, l, s, e)[1] + 1, Clamped(ls, l, s, e)[2])])

(* Mutant: the character under the end goes too. *)
DeletedInclusive(ls, s, end) ==
  IF s[1] > Len(ls) THEN ls
  ELSE LET e == InLastLine(ls, end)
           rest == SubSeq(ls[e[1]], Clamped(ls, e[1], s, e)[2] + 2, Len(ls[e[1]]))
       IN  SubSeq(ls, 1, s[1] - 1)
             \o <<SubSeq(ls[s[1]], 1, Clamped(ls, s[1], s, e)[1]) \o rest>>
             \o SubSeq(ls, e[1] + 1, Len(ls))

(* delete_selection, of the text between s and e *)
Deleted(ls, s, end) ==
  IF s[1] > Len(ls) THEN ls
  ELSE LET e == InLastLine(ls, end)
           rest == SubSeq(ls[e[1]], Clamped(ls, e[1], s, e)[2] + 1, Len(ls[e[1]]))
       IN  SubSeq(ls, 1, s[1] - 1)
             \o <<SubSeq(ls[s[1]], 1, Clamped(ls, s[1], s, e)[1]) \o rest>>
             \o SubSeq(ls, e[1] + 1, Len(ls))

(* insert_text_at_cursor: what becomes of the lines, and the place behind  *)
(* the inserted text.                                                      *)
Inserted(ls, p, s) ==
  LET line == ls[p[1]]
      col == Smaller(p[2], Len(line))
      ps == Parts(s)
      n == Len(ps)
      new == [k \in 1..n |->
                (IF k = 1 THEN SubSeq(line, 1, col) ELSE <<>>) \o ps[k]
                  \o (IF k = n THEN SubSeq(line, col + 1, Len(line)) ELSE <<>>)]
  IN  SubSeq(ls, 1, p[1] - 1) \o new \o SubSeq(ls, p[1] + 1, Len(ls))

Behind(ls, p, s) ==
  LET ps == Parts(s)
  IN  <<p[1] + Len(ps) - 1,
        (IF Len(ps) = 1 THEN Smaller(p[2], Len(ls[p[1]])) ELSE 0) + Len(ps[Len(ps)])>>

(* editor_selection_to_uppercase, of the text between s and e *)
Uppercased(ls, s, end) ==
  LET e == InLastLine(ls, end)
  IN  [l \in DOMAIN ls |->
         [c \in DOMAIN ls[l] |->
            IF l \in s[1]..e[1] /\ Clamped(ls, l, s, e)[1] < c /\ c <= Clamped(ls, l, s, e)[2]
              THEN Upper[ls[l][c]] ELSE ls[l][c]]]

(* word_left_col and word_right_col: the start of the word before the      *)
(* column, the start of the word behind it.                                *)
WordStarts(line) ==
  {c \in 0..(Len(line) - 1) : line[c + 1] \notin Blanks /\ (c = 0 \/ line[c] \in Blanks)}
Largest(S) == CHOOSE x \in S : \A y \in S : y <= x
Least(S) == CHOOSE x \in S : \A y \in S : x <= y

WordLeft(line, col) == Largest({0} \cup {c \in WordStarts(line) : c < col})
WordRight(line, col) ==
  LET c == Smaller(col, Len(line))
  IN  Least({Len(line)} \cup {w \in WordStarts(line) : c < w})

-----------------------------------------------------------------------------
Line == cursor[1]
Col == cursor[2]
LineExists == Line <= Len(lines)
Here == lines[Line]

(* normalize_selection, selection_is_empty *)
SelFrom == IF Before(sel[1], sel[2]) THEN sel[1] ELSE sel[2]
SelTo == IF Before(sel[1], sel[2]) THEN sel[2] ELSE sel[1]
Selected == sel # None /\ sel[1] # sel[2]

Init ==
  /\ \E text \in BoundedSeq(Chars \cup {NL}, MaxText) :
       lines = Inserted(<< <<>> >>, <<1, 0>>, text)
  /\ cursor = <<1, 0>>
  /\ sel = None
  /\ dragging = FALSE
  /\ clip = <<>>
  /\ undefined = FALSE

(* What a key leaves behind, if the text is not too long for this model. *)
Leaves(ls, p, s) ==
  /\ Len(Flat(ls)) <= MaxText
  /\ lines' = ls /\ cursor' = p /\ sel' = s
  /\ UNCHANGED <<dragging, clip, undefined>>

(* From here on the other variables mean nothing. *)
Undefined ==
  /\ undefined' = TRUE
  /\ lines' = << <<>> >> /\ cursor' = <<1, 0>> /\ sel' = None
  /\ dragging' = FALSE /\ clip' = <<>>

-----------------------------------------------------------------------------
(* Keys that move the cursor, to the place p.  With Shift they extend the  *)
(* selection, or start one; without, they end it.                          *)
MovesTo(p) ==
  \/ Leaves(lines, p, None)
  \/ Leaves(lines, p, <<IF sel = None THEN cursor ELSE sel[1], p>>)

Up ==
  IF Line > 1
    THEN IF Line - 1 <= Len(lines)
           THEN MovesTo(<<Line - 1, Smaller(Col, Len(lines[Line - 1]))>>)
           ELSE Undefined
    ELSE MovesTo(cursor)

Down ==
  IF Line < Len(lines)
    THEN MovesTo(<<Line + 1, Smaller(Col, Len(lines[Line + 1]))>>)
    ELSE MovesTo(cursor)

Left ==
  IF Col > 0 THEN MovesTo(<<Line, Col - 1>>)
  ELSE IF Line = 1 THEN MovesTo(cursor)
  ELSE IF Line - 1 <= Len(lines) THEN MovesTo(<<Line - 1, Len(lines[Line - 1])>>)
  ELSE Undefined

Right ==
  IF ~LineExists THEN Undefined
  ELSE IF Col < Len(Here) THEN MovesTo(<<Line, Col + 1>>)
  ELSE IF Line < Len(lines) THEN MovesTo(<<Line + 1, 0>>)
  ELSE MovesTo(cursor)

(* Ctrl with an arrow: to a word of line l. *)
WordKey(l) ==
  IF l > Len(lines) THEN Undefined
  ELSE \/ l <= Line /\ Leaves(lines, <<l, WordLeft(lines[l], Col)>>, None)
       \/ l >= Line /\ Leaves(lines, <<l, WordRight(lines[l], Col)>>, None)

WordKeys ==
  \/ WordKey(Line)
  \/ Line > 1 /\ WordKey(Line - 1)
  \/ Line < Len(lines) /\ WordKey(Line + 1)

SelectAll ==
  LET end == <<Len(lines), Len(lines[Len(lines)])>>
  IN  Leaves(lines, end, << <<1, 0>>, end >>)

(* A mouse event over the place p: the button, a move, the wheel (which    *)
(* counts as a move if the text scrolls), or something else.  Over no      *)
(* place it changes nothing, so that a release out of the window leaves    *)
(* g_editor_mouse_dragging set.                                            *)
Mouse(p, event) ==
  LET drags == dragging \/ event = "pressed"
  IN  /\ sel' = IF event = "pressed" /\ ~dragging THEN <<p, p>>
                ELSE IF sel # None /\ drags /\ event # "other" THEN <<sel[1], p>>
                ELSE sel
      /\ dragging' = (drags /\ event # "released")
      /\ cursor' = p
      /\ UNCHANGED <<lines, clip, undefined>>

-----------------------------------------------------------------------------
(* Keys that copy and edit.                                                *)

(* What copy_selection_or_line puts into the clipboard. *)
Copies ==
  clip' = IF Selected
            THEN IF SelFrom[1] <= Len(lines) THEN Copied(lines, SelFrom, SelTo) ELSE clip
          ELSE IF LineExists THEN Append(Here, NL) ELSE clip

CopyKey == Copies /\ UNCHANGED <<lines, cursor, sel, dragging, undefined>>

CutSelection ==
  /\ Selected
  /\ Copies
  /\ lines' = Deleted(lines, SelFrom, SelTo) /\ cursor' = SelFrom /\ sel' = None
  /\ UNCHANGED <<dragging, undefined>>

(* Mutant: the last line is not replaced by an empty one. *)
CutLineToNothing ==
  /\ ~Selected
  /\ Copies
  /\ IF LineExists
       THEN /\ lines' = RemoveAt(lines, Line)
            /\ cursor' = IF Len(lines) > 1 /\ Line = Len(lines)
                           THEN <<Line - 1, Smaller(Col, Len(lines[Line - 1]))>>
                           ELSE cursor
       ELSE UNCHANGED <<lines, cursor>>
  /\ UNCHANGED <<sel, dragging, undefined>>

(* The line of the cursor goes.  The cursor stays in its line and column,  *)
(* unless that was the last line: the next line may be shorter.            *)
CutLine ==
  /\ ~Selected
  /\ Copies
  /\ IF ~LineExists THEN UNCHANGED <<lines, cursor>>
     ELSE IF Len(lines) = 1 THEN lines' = << <<>> >> /\ cursor' = <<1, 0>>
     ELSE /\ lines' = RemoveAt(lines, Line)
          /\ cursor' = IF Line = Len(lines)
                         THEN <<Line - 1, Smaller(Col, Len(lines[Line - 1]))>>
                         ELSE cursor
  /\ UNCHANGED <<sel, dragging, undefined>>

(* The clipboard replaces the selection, also an empty one that is not at  *)
(* the cursor.                                                             *)
PasteKey ==
  /\ clip # <<>>
  /\ LET rest == IF Selected THEN Deleted(lines, SelFrom, SelTo) ELSE lines
         at == IF sel = None THEN cursor ELSE SelFrom
     IN  IF at[1] <= Len(rest)
           THEN Leaves(Inserted(rest, at, clip), Behind(rest, at, clip), None)
           ELSE Undefined

UppercaseKey ==
  /\ Selected
  /\ IF SelFrom[1] <= Len(lines)
       THEN Leaves(Uppercased(lines, SelFrom, SelTo), cursor, sel)
       ELSE UNCHANGED vars

Enter ==
  IF LineExists /\ Col <= Len(Here)
    THEN Leaves(Inserted(lines, cursor, <<NL>>), <<Line + 1, 0>>, None)
    ELSE Undefined

(* One column behind the end of the line the character goes behind the     *)
(* terminating zero; further right the length of the move wraps around.    *)
Type(c) ==
  IF ~LineExists \/ Col > Len(Here) + 1 THEN Undefined
  ELSE IF Col = Len(Here) + 1 THEN Leaves(lines, <<Line, Col + 1>>, None)
  ELSE Leaves(Inserted(lines, cursor, <<c>>), <<Line, Col + 1>>, None)

(* Mutant: two lines are joined, and the cursor keeps its column. *)
BackspaceAtStart ==
  \/ /\ Col > 0
     /\ IF ~LineExists \/ Col > Len(Here) + 1 THEN Undefined
        ELSE IF Col = Len(Here) + 1 THEN Leaves(lines, <<Line, Col - 1>>, sel)
        ELSE Leaves([lines EXCEPT ![Line] = RemoveAt(@, Col)], <<Line, Col - 1>>, sel)
  \/ /\ Col = 0 /\ Line > 1
     /\ IF ~LineExists THEN Undefined
        ELSE Leaves([RemoveAt(lines, Line) EXCEPT ![Line - 1] = @ \o Here],
                    <<Line - 1, 0>>, sel)

(* The selection is not ended. *)
Backspace ==
  \/ /\ Col > 0
     /\ IF ~LineExists \/ Col > Len(Here) + 1 THEN Undefined
        ELSE IF Col = Len(Here) + 1 THEN Leaves(lines, <<Line, Col - 1>>, sel)
        ELSE Leaves([lines EXCEPT ![Line] = RemoveAt(@, Col)], <<Line, Col - 1>>, sel)
  \/ /\ Col = 0 /\ Line > 1
     /\ IF ~LineExists THEN Undefined
        ELSE Leaves([RemoveAt(lines, Line) EXCEPT ![Line - 1] = @ \o Here],
                    <<Line - 1, Len(lines[Line - 1])>>, sel)

-----------------------------------------------------------------------------
(* A plugin replaces the text between two places, by editor_delete_range,  *)
(* editor_replace_text or editor_insert_text.  The loop's cursor follows   *)
(* if on_key handled the key, and stays where it was after on_key passed   *)
(* the key and after on_editor_cursor_move and on_editor_change.  The      *)
(* places are in the text: their columns are not always looked at.         *)
PluginEdits(p, q, s) ==
  /\ Before(p, q)
  /\ LET rest == Deleted(lines, p, q)
     IN  \E c \in {cursor, Behind(rest, p, s)} : Leaves(Inserted(rest, p, s), c, sel)

(* editor_set_cursor, in an on_key that handles the key *)
PluginMoves(p) == Leaves(lines, p, sel)

-----------------------------------------------------------------------------
Keys ==
  \/ Up \/ Down \/ Left \/ Right \/ WordKeys \/ SelectAll
  \/ CopyKey \/ CutSelection \/ CutLine \/ PasteKey \/ UppercaseKey
  \/ Enter \/ Backspace
  \/ \E c \in Chars : Type(c)

Plugins ==
  \/ \E p, q \in PlacesOf(lines) : \E s \in Snippets :
       PluginEdits(p, q, s)
  \/ \E p \in PlacesOf(lines) : PluginMoves(p)

Next ==
  \/ /\ ~undefined
     /\ \/ Keys \/ Plugins
        \/ \E p \in PlacesOf(lines) : 
             \E event \in {"pressed", "moved", "released", "other"} : Mouse(p, event)
  \/ undefined /\ UNCHANGED vars

Spec == Init /\ [][Next]_vars

-----------------------------------------------------------------------------
(* Properties.                                                             *)

(* There is always a line to type in; the places may be out of the text. *)
Anywhere == (Nat \ {0}) \X Nat
TypeOK ==
  /\ lines \in Seq(Seq(Chars)) /\ lines # <<>>
  /\ cursor \in Anywhere
  /\ sel = None \/ sel \in Anywhere \X Anywhere
  /\ dragging \in BOOLEAN /\ undefined \in BOOLEAN
  /\ clip \in Seq(Chars \cup {NL})

(* What is cut from anywhere can be pasted where it was: the text is the   *)
(* same again, and the cursor behind it.  Stated of the text followed by   *)
(* itself, which has lines before, inside and behind what is cut.          *)
CutPasteRestores ==
  LET ls == lines \o lines
  IN  \A p, q \in PlacesOf(ls) :
        Before(p, q) =>
          LET cut == Deleted(ls, p, q)
              copied == Copied(ls, p, q)
          IN  /\ Inserted(cut, p, copied) = ls
              /\ Behind(cut, p, copied) = q

-----------------------------------------------------------------------------
(* The editor implements FlatText: as long as its cursor and its selection *)
(* are inside the text, every key does to the one sequence of characters   *)
(* what it says, and reads and writes nothing else.                        *)
FlatCaret ==
  IF ~undefined /\ cursor \in PlacesOf(lines) THEN Offset(lines, cursor) ELSE -1
FlatSelection ==
  IF sel = None THEN None
  ELSE IF sel[1] \in PlacesOf(lines) /\ sel[2] \in PlacesOf(lines)
    THEN <<Offset(lines, sel[1]), Offset(lines, sel[2])>>
  ELSE <<-1>>

FT == INSTANCE FlatText
  WITH text <- Flat(lines), caret <- FlatCaret, sel <- FlatSelection

ImplementsFlatText == FT!Spec
=============================================================================
