------------------------------ MODULE FlatText ------------------------------
(***************************************************************************)
(* What the keys of the built-in editor (src/src/fs/files.c) promise: the  *)
(* text is one sequence of characters, line ends among them, the caret is  *)
(* between two of them, and a selection is a pair of such places.          *)
(*                                                                         *)
(* Some keys and the plugins change the text before the caret or the       *)
(* selection and leave their lines and columns as they are.  That may put  *)
(* them outside the text; nothing is promised before both are inside again.*)
(***************************************************************************)
EXTENDS Integers, Sequences, FiniteSets

CONSTANTS
  Chars,  (* characters without the line end *)
  NL,     (* the line end                    *)
  Upper,  (* toupper                         *)
  Snippets  (* what plugins insert           *)

VARIABLES
  text,   (* the characters                                        *)
  caret,  (* how many of them are before the caret, or Nowhere     *)
  sel,    (* None, Stale, or where the selection begins and ends   *)
  clip    (* what was copied last                                  *)

vars == <<text, caret, sel, clip>>

Nowhere == -1
None == <<>>
Stale == <<Nowhere>>

Places(t) == 0..Len(t)

Insert(t, at, s) == SubSeq(t, 1, at) \o s \o SubSeq(t, at + 1, Len(t))
Remove(t, from, to) == SubSeq(t, 1, from) \o SubSeq(t, to + 1, Len(t))

(* The line and the column of a place. *)
LineStart(t, at) == CHOOSE i \in 0..at :
                      /\ i = 0 \/ t[i] = NL
                      /\ \A j \in i + 1 .. at : t[j] # NL
Coordinates(t, at) ==
  <<Cardinality({i \in 1..at : t[i] = NL}), at - LineStart(t, at)>>

(* The place in the text u with the coordinates of a place in t. *)
Kept(at, t, u) ==
  LET same == {c \in Places(u) : Coordinates(u, c) = Coordinates(t, at)}
  IN  IF same = {} THEN Nowhere ELSE CHOOSE c \in same : TRUE
SelKept(t, u) ==
  IF sel = None THEN None
  ELSE IF Nowhere \in {Kept(sel[1], t, u), Kept(sel[2], t, u)} THEN Stale
  ELSE <<Kept(sel[1], t, u), Kept(sel[2], t, u)>>

Sound == caret # Nowhere /\ sel # Stale
From == IF sel[1] < sel[2] THEN sel[1] ELSE sel[2]
To == IF sel[1] < sel[2] THEN sel[2] ELSE sel[1]
Selected == sel # None /\ sel[1] # sel[2]

(* The line of the caret is text[LineFrom + 1 .. LineTo]. *)
LineFrom == LineStart(text, caret)
LineTo == CHOOSE i \in caret..Len(text) :
              /\ i = Len(text) \/ text[i + 1] = NL
              /\ \A j \in caret + 1 .. i : text[j] # NL

Chosen == IF Selected THEN SubSeq(text, From + 1, To)
          ELSE Append(SubSeq(text, LineFrom + 1, LineTo), NL)

Init == text \in Seq(Chars \cup {NL}) /\ caret = 0 /\ sel = None /\ clip = <<>>

Move ==
  /\ Sound
  /\ caret' \in Places(text)
  /\ sel' \in {sel, None, <<caret', caret'>>, <<0, Len(text)>>,
               <<IF sel = None THEN caret ELSE sel[1], caret'>>}
  /\ UNCHANGED <<text, clip>>

Type(c) ==
  /\ Sound
  /\ text' = Insert(text, caret, <<c>>) /\ caret' = caret + 1
  /\ sel' = None
  /\ UNCHANGED clip

(* The selection keeps its lines and columns, wherever they are now. *)
Erase ==
  /\ Sound /\ caret > 0
  /\ text' = Remove(text, caret - 1, caret) /\ caret' = caret - 1
  /\ sel' = SelKept(text, text')
  /\ UNCHANGED clip

Copy == Sound /\ clip' = Chosen /\ UNCHANGED <<text, caret, sel>>

Cut ==
  /\ Sound /\ Selected
  /\ clip' = Chosen
  /\ text' = Remove(text, From, To) /\ caret' = From /\ sel' = None

(* The line goes with its line end, the last line with the one before it.  *)
CutLine ==
  /\ Sound /\ ~Selected
  /\ clip' = Chosen
  /\ text' = IF LineTo < Len(text) THEN Remove(text, LineFrom, LineTo + 1)
             ELSE IF LineFrom > 0 THEN Remove(text, LineFrom - 1, LineTo)
             ELSE <<>>
  /\ IF LineTo < Len(text) THEN caret' = Kept(caret, text, text')
     ELSE caret' \in Places(text') /\ LineStart(text', caret') = LineStart(text', Len(text'))
  /\ sel' = SelKept(text, text')

Paste ==
  /\ Sound /\ clip # <<>>
  /\ LET at == IF sel = None THEN caret ELSE From
         rest == IF sel = None THEN text ELSE Remove(text, From, To)
     IN  text' = Insert(rest, at, clip) /\ caret' = at + Len(clip)
  /\ sel' = None
  /\ UNCHANGED clip

Uppercase ==
  /\ Sound /\ Selected
  /\ text' = [i \in DOMAIN text |-> IF i \in From + 1 .. To THEN Upper[text[i]] ELSE text[i]]
  /\ UNCHANGED <<caret, sel, clip>>

(* A plugin replaces text[from + 1 .. to] by s.  The caret follows only if *)
(* the plugin handled a key, and keeps its line and column otherwise.      *)
Plugin(from, to, s) ==
  /\ Sound
  /\ text' = Insert(Remove(text, from, to), from, s)
  /\ caret' \in {from + Len(s), Kept(caret, text, text')}
  /\ sel' = SelKept(text, text')
  /\ UNCHANGED clip

Adrift == ~Sound

Next ==
  \/ Move \/ Erase \/ Copy \/ Cut \/ CutLine \/ Paste \/ Uppercase
  \/ \E c \in Chars \cup {NL} : Type(c)
  \/ \E from, to \in Places(text) : \E s \in Snippets :
       from <= to /\ Plugin(from, to, s)
  \/ Adrift

Spec == Init /\ [][Next]_vars
=============================================================================
