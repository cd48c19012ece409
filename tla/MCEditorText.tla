---------------------------- MODULE MCEditorText ----------------------------
(* EditorText with a letter and its capital, which also separates words.   *)
EXTENDS EditorText

MCChars == {"a", "A"}
MCUpper == [c \in MCChars \cup {NL} |-> IF c = "a" THEN "A" ELSE c]
MCSnippets == {<<>>, <<NL>>}
=============================================================================
