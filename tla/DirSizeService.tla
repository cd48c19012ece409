--------------------------- MODULE DirSizeService ---------------------------
(***************************************************************************)
(* What the directory-size cache of src/src/fs/files.c promises to the     *)
(* user interface: a directory is asked about at most once, the questions  *)
(* are answered one by one in the order they were asked, an answer is      *)
(* given once and never revised, and everything is forgotten once, on      *)
(* exit, after which nothing is asked or answered.                         *)
(***************************************************************************)
EXTENDS Sequences

CONSTANTS
  Paths,    (* directories                              *)
  Answers,  (* results of get_directory_size            *)
  Unknown   (* no answer yet                            *)

VARIABLES
  asked,    (* the questions not answered yet, in order *)
  answer,   (* what is known of each directory          *)
  closed    (* the service has been stopped             *)

vars == <<asked, answer, closed>>

Init == asked = <<>> /\ answer = [p \in Paths |-> Unknown] /\ closed = FALSE

(* A directory without an answer, and without a question, is asked about. *)
Ask(p) ==
  /\ ~closed
  /\ answer[p] = Unknown
  /\ \A i \in DOMAIN asked : asked[i] # p
  /\ asked' = Append(asked, p)
  /\ UNCHANGED <<answer, closed>>

(* The oldest question is answered. *)
Deliver ==
  /\ ~closed
  /\ asked # <<>>
  /\ answer'[Head(asked)] \in Answers
  /\ answer' = [answer EXCEPT ![Head(asked)] = answer'[Head(asked)]]
  /\ asked' = Tail(asked)
  /\ UNCHANGED closed

(* Exit, whatever is still asked. *)
Forget ==
  /\ ~closed
  /\ closed' = TRUE
  /\ asked' = <<>>
  /\ answer' = [p \in Paths |-> Unknown]

Next ==
  \/ \E p \in Paths : Ask(p)
  \/ Deliver
  \/ Forget

Spec == Init /\ [][Next]_vars
=============================================================================
