--------------------------- MODULE Script_proofs ---------------------------
(* The script machine for any program, any number of frames, promises and     *)
(* sockets: its types, the nesting of calls, the owners of promises and the    *)
(* cleaning up of blocks and try statements.  And its map, for any keys, any   *)
(* hash function and any capacity: it is the function its history says it is.  *)
(* And its heap, for any objects and any items: the counts are exact and the   *)
(* collector frees what nothing keeps alive.                                   *)
EXTENDS Script, ScriptMap, ScriptHeap, DataLemmas

FrameRec ==
  [kind : FrameKinds, phase : {"body", "defers", "catch", "finally"}, left : Nat,
   base : Completions, saved : Nat, fin : BOOLEAN]

(* The frames that are on the stack trace *)
Traced == {f \in FrameRec : \/ f.kind \in {"host", "task"}
                            \/ f.kind \in {"call", "method"} /\ f.left = 1}

(* y is the place of the innermost call by name, 0 if there is none *)
Innermost(fs, y) ==
  /\ y \in 0 .. Len(fs)
  /\ y # 0 => fs[y].kind = "call"
  /\ \A i \in 1 .. Len(fs) : fs[i].kind = "call" => i <= y

(* What a frame on top of the stack below knows of it: the list that yields    *)
(* went to when it was entered, and how far the stack trace can be cut.  There *)
(* are n promises.                                                            *)
FrameOK(below, f, n) ==
  /\ below = << >> => f.kind \in {"host", "module"} /\ f.saved = 0
  /\ f.kind = "task" => below # << >> /\ Last(below).kind = "await"
  /\ f.kind \in {"task", "await"} => f.left \in 1 .. n
  /\ f.kind \in {"call", "method"} => f.left \in {0, 1}
  /\ f.kind = "call" => Innermost(below, f.saved)
  /\ f.kind \in {"host", "module", "try"} => f.saved >= Tally(below, Traced)

StackOK(fs, n) ==
  /\ fs \in Seq(FrameRec)
  /\ \A i \in 1 .. Len(fs) : FrameOK(SubSeq(fs, 1, i - 1), fs[i], n)

(* The stack, the stack trace and the list of yields fit together *)
Control(fs, dep, y, n) ==
  /\ StackOK(fs, n)
  /\ Innermost(fs, y)
  /\ dep \in Nat /\ dep >= Tally(fs, Traced)
  /\ fs = << >> => dep = 0

-----------------------------------------------------------------------------
(* Stacks *)

LEMMA Pushed ==
  ASSUME NEW n, NEW fs, NEW f \in FrameRec, StackOK(fs, n), FrameOK(fs, f, n)
  PROVE  StackOK(Append(fs, f), n)
<1>1. fs \in Seq(FrameRec) /\ Append(fs, f) \in Seq(FrameRec) /\ Len(fs) \in Nat
  BY DEF StackOK
<1>2. SUFFICES ASSUME NEW i \in 1 .. Len(Append(fs, f))
               PROVE  FrameOK(SubSeq(Append(fs, f), 1, i - 1), Append(fs, f)[i], n)
  BY <1>1 DEF StackOK
<1>3. Len(Append(fs, f)) = Len(fs) + 1
  BY <1>1
<1>4. CASE i = Len(fs) + 1
  <2>1. SubSeq(Append(fs, f), 1, i - 1) = fs /\ Append(fs, f)[i] = f
    BY <1>1, <1>4
  <2> QED  BY <2>1
<1>5. CASE i # Len(fs) + 1
  <2>1. i \in 1 .. Len(fs)  BY <1>1, <1>3, <1>5
  <2>2. SubSeq(Append(fs, f), 1, i - 1) = SubSeq(fs, 1, i - 1) /\ Append(fs, f)[i] = fs[i]
    BY <1>1, <2>1
  <2> QED  BY <2>1, <2>2 DEF StackOK
<1> QED
  BY <1>4, <1>5

LEMMA TopAndRest ==
  ASSUME NEW S, NEW fs \in Seq(S), fs # << >>
  PROVE  /\ fs = Append(Front(fs), Last(fs))
         /\ Front(fs) \in Seq(S) /\ Last(fs) \in S
         /\ Len(Front(fs)) = Len(fs) - 1 /\ Len(fs) \in Nat \ {0}
<1>1. Len(fs) \in Nat \ {0}
  OBVIOUS
<1>2. Front(fs) = SubSeq(fs, 1, Len(fs) - 1) /\ Last(fs) = fs[Len(fs)]
  BY DEF Front, Last
<1>3. /\ SubSeq(fs, 1, Len(fs) - 1) \in Seq(S) /\ fs[Len(fs)] \in S
      /\ Len(SubSeq(fs, 1, Len(fs) - 1)) = Len(fs) - 1
  <2> DEFINE m == Len(fs) - 1
  <2>1. m \in 0 .. Len(fs) /\ m \in Nat  BY <1>1
  <2>2. \A i \in 1 .. m : fs[i] \in S  BY <2>1
  <2>3. SubSeq(fs, 1, m) \in Seq(S)
    <3> HIDE DEF m
    <3> QED  BY <2>1, <2>2
  <2>4. Len(SubSeq(fs, 1, m)) = m
    <3> HIDE DEF m
    <3> QED  BY <2>1
  <2> QED  BY <1>1, <2>3, <2>4
<1>4. fs = Append(SubSeq(fs, 1, Len(fs) - 1), fs[Len(fs)])
  BY <1>1, <1>3
<1> QED
  BY <1>1, <1>2, <1>3, <1>4

LEMMA LastOfAppended ==
  ASSUME NEW S, NEW fs \in Seq(S), NEW f \in S
  PROVE  /\ Last(Append(fs, f)) = f /\ Front(Append(fs, f)) = fs
         /\ Append(fs, f) # << >> /\ Append(fs, f) \in Seq(S)
         /\ Len(Append(fs, f)) = Len(fs) + 1
<1>1. Len(fs) \in Nat /\ Len(Append(fs, f)) = Len(fs) + 1 /\ Append(fs, f)[Len(fs) + 1] = f
  OBVIOUS
<1>2. SubSeq(Append(fs, f), 1, Len(fs)) = fs
  OBVIOUS
<1>3. Len(Append(fs, f)) - 1 = Len(fs)
  BY <1>1
<1> QED
  BY <1>1, <1>2, <1>3 DEF Front, Last

LEMMA Popped ==
  ASSUME NEW n, NEW fs, StackOK(fs, n), fs # << >>
  PROVE  StackOK(Front(fs), n) /\ FrameOK(Front(fs), Last(fs), n)
<1>1. /\ fs \in Seq(FrameRec) /\ Front(fs) \in Seq(FrameRec)
      /\ Len(Front(fs)) = Len(fs) - 1 /\ Len(fs) \in Nat \ {0}
  BY TopAndRest DEF StackOK
<1>2. Front(fs) = SubSeq(fs, 1, Len(fs) - 1) /\ Last(fs) = fs[Len(fs)]
  BY DEF Front, Last
<1>3. FrameOK(Front(fs), Last(fs), n)
  BY <1>1, <1>2 DEF StackOK
<1>4. ASSUME NEW i \in 1 .. Len(Front(fs))
      PROVE  FrameOK(SubSeq(Front(fs), 1, i - 1), Front(fs)[i], n)
  <2>1. i \in 1 .. Len(fs)
    BY <1>1
  <2>2. SubSeq(Front(fs), 1, i - 1) = SubSeq(fs, 1, i - 1) /\ Front(fs)[i] = fs[i]
    BY <1>1, <1>2
  <2> QED  BY <2>1, <2>2 DEF StackOK
<1> QED
  BY <1>1, <1>3, <1>4 DEF StackOK

LEMMA MorePromises ==
  ASSUME NEW n \in Nat, NEW m \in Nat, n <= m, NEW fs, StackOK(fs, n)
  PROVE  StackOK(fs, m)
<1>1. SUFFICES ASSUME NEW i \in 1 .. Len(fs) PROVE FrameOK(SubSeq(fs, 1, i - 1), fs[i], m)
  BY DEF StackOK
<1>2. FrameOK(SubSeq(fs, 1, i - 1), fs[i], n)
  BY DEF StackOK
<1>3. 1 .. n \subseteq 1 .. m
  OBVIOUS
<1> QED
  BY <1>2, <1>3 DEF FrameOK

LEMMA InnermostOfAppend ==
  ASSUME NEW fs \in Seq(FrameRec), NEW f \in FrameRec, NEW y, Innermost(fs, y)
  PROVE  Innermost(Append(fs, f), IF f.kind = "call" THEN Len(fs) + 1 ELSE y)
<1>1. /\ Len(fs) \in Nat /\ Len(Append(fs, f)) = Len(fs) + 1
      /\ \A i \in 1 .. Len(fs) : Append(fs, f)[i] = fs[i]
      /\ Append(fs, f)[Len(fs) + 1] = f
  OBVIOUS
<1>2. CASE f.kind = "call"
  BY <1>1, <1>2 DEF Innermost
<1>3. CASE f.kind # "call"
  <2>1. y \in 0 .. Len(fs) + 1 /\ (y # 0 => Append(fs, f)[y].kind = "call")
    BY <1>1 DEF Innermost
  <2>2. ASSUME NEW i \in 1 .. Len(fs) + 1, Append(fs, f)[i].kind = "call"
        PROVE  i <= y
    <3>1. i \in 1 .. Len(fs)  BY <1>1, <1>3, <2>2
    <3> QED  BY <1>1, <2>2, <3>1 DEF Innermost
  <2> QED  BY <1>1, <1>3, <2>1, <2>2 DEF Innermost
<1> QED
  BY <1>2, <1>3

LEMMA InnermostOfFront ==
  ASSUME NEW fs \in Seq(FrameRec), NEW f \in FrameRec, NEW y, Innermost(Append(fs, f), y),
         f.kind # "call"
  PROVE  Innermost(fs, y)
<1>1. /\ Len(fs) \in Nat /\ Len(Append(fs, f)) = Len(fs) + 1
      /\ \A i \in 1 .. Len(fs) : Append(fs, f)[i] = fs[i]
      /\ Append(fs, f)[Len(fs) + 1] = f
  OBVIOUS
<1>2. y \in 0 .. Len(fs)
  BY <1>1 DEF Innermost
<1> QED
  BY <1>1, <1>2 DEF Innermost

LEMMA InnermostIs ==
  ASSUME NEW fs \in Seq(FrameRec), NEW y, Innermost(fs, y)
  PROVE  y = Max({0} \cup {i \in DOMAIN fs : fs[i].kind = "call"})
<1> DEFINE T == {0} \cup {i \in DOMAIN fs : fs[i].kind = "call"}
<1>1. DOMAIN fs = 1 .. Len(fs) /\ Len(fs) \in Nat
  OBVIOUS
<1>2. T \subseteq Int /\ y \in T /\ \A i \in T : i <= y
  BY <1>1 DEF Innermost
<1> HIDE DEF T
<1>3. Max(T) = y
  BY <1>2, MaxIs
<1> QED
  BY <1>3 DEF T

LEMMA TallyOfPushed ==
  ASSUME NEW fs \in Seq(FrameRec), NEW f \in FrameRec
  PROVE  /\ Tally(fs, Traced) \in Nat
         /\ f \in Traced => Tally(Append(fs, f), Traced) = Tally(fs, Traced) + 1
         /\ f \notin Traced => Tally(Append(fs, f), Traced) = Tally(fs, Traced)
<1>1. Tally(fs, Traced) \in Nat
  <2>1. Tally(fs, Traced) \in 0 .. Len(fs)  BY TallyIsNat
  <2>2. Len(fs) \in Nat  OBVIOUS
  <2> QED  BY <2>1, <2>2
<1>2. Tally(Append(fs, f), Traced) = Tally(fs, Traced) + (IF f \in Traced THEN 1 ELSE 0)
  BY TallyOfAppend
<1> QED
  BY <1>1, <1>2

-----------------------------------------------------------------------------
(* What the steps do to the stack *)

(* Everything that is known of the top and of what is below it *)
LEMMA Unstacked ==
  ASSUME NEW n, NEW fs, NEW dep, NEW y, Control(fs, dep, y, n), fs # << >>
  PROVE  /\ fs \in Seq(FrameRec) /\ Front(fs) \in Seq(FrameRec) /\ Last(fs) \in FrameRec
         /\ fs = Append(Front(fs), Last(fs))
         /\ StackOK(Front(fs), n) /\ FrameOK(Front(fs), Last(fs), n)
         /\ dep \in Nat /\ Tally(Front(fs), Traced) \in Nat
         /\ Last(fs) \in Traced => dep >= Tally(Front(fs), Traced) + 1
         /\ dep >= Tally(Front(fs), Traced)
         /\ Last(fs).kind # "call" => Innermost(Front(fs), y)
<1>1. /\ fs \in Seq(FrameRec) /\ Front(fs) \in Seq(FrameRec) /\ Last(fs) \in FrameRec
      /\ fs = Append(Front(fs), Last(fs))
  BY TopAndRest DEF Control, StackOK
<1>2. StackOK(Front(fs), n) /\ FrameOK(Front(fs), Last(fs), n)
  BY Popped DEF Control
<1>3. /\ Tally(Front(fs), Traced) \in Nat
      /\ Last(fs) \in Traced => Tally(Append(Front(fs), Last(fs)), Traced)
                                  = Tally(Front(fs), Traced) + 1
      /\ Last(fs) \notin Traced => Tally(Append(Front(fs), Last(fs)), Traced)
                                  = Tally(Front(fs), Traced)
  BY <1>1, TallyOfPushed
<1>4. dep \in Nat /\ dep >= Tally(Append(Front(fs), Last(fs)), Traced)
  BY <1>1 DEF Control
<1>5. Last(fs).kind # "call" => Innermost(Front(fs), y)
  BY <1>1, InnermostOfFront DEF Control
<1> QED
  BY <1>1, <1>2, <1>3, <1>4, <1>5

Plain == {"block", "loop", "switch", "try", "await"}

(* Frames of statements come and go without a trace *)
LEMMA PlainPops ==
  ASSUME NEW n, NEW fs, NEW dep, NEW y, Control(fs, dep, y, n), fs # << >>,
         Last(fs).kind \in Plain
  PROVE  Control(Front(fs), dep, y, n) /\ Front(fs) # << >>
<1>1. Last(fs).kind \notin {"call", "host", "module"}
  BY DEF Plain
<1>2. Front(fs) # << >>
  BY <1>1, Unstacked DEF FrameOK
<1> QED
  BY <1>1, <1>2, Unstacked DEF Control

LEMMA PlainPushes ==
  ASSUME NEW n, NEW fs, NEW dep, NEW y, Control(fs, dep, y, n), fs # << >>,
         NEW f \in FrameRec, f.kind \in Plain, f.kind = "await" => f.left \in 1 .. n,
         f.kind = "try" => f.saved >= Tally(fs, Traced)
  PROVE  Control(Append(fs, f), dep, y, n)
<1>1. f \notin Traced /\ f.kind # "call"
  BY DEF Plain, Traced
<1>2. fs \in Seq(FrameRec)
  BY DEF Control, StackOK
<1>3. FrameOK(fs, f, n)
  BY DEF Plain, FrameOK
<1>4. StackOK(Append(fs, f), n)
  BY <1>3, Pushed DEF Control
<1>5. Innermost(Append(fs, f), y)
  BY <1>1, <1>2, InnermostOfAppend DEF Control
<1>6. Tally(Append(fs, f), Traced) = Tally(fs, Traced)
  BY <1>1, <1>2, TallyOfPushed
<1>7. Append(fs, f) # << >>
  BY <1>2
<1> QED
  BY <1>4, <1>5, <1>6, <1>7 DEF Control

(* ... and go on in another state *)
LEMMA PlainGoesOn ==
  ASSUME NEW n, NEW fs, NEW dep, NEW y, Control(fs, dep, y, n), fs # << >>,
         NEW f \in FrameRec, f.kind = Last(fs).kind, f.saved = Last(fs).saved,
         f.kind \in Plain \ {"await"}
  PROVE  Control(Append(Front(fs), f), dep, y, n)
<1>1. Control(Front(fs), dep, y, n) /\ Front(fs) # << >>
  BY PlainPops
<1>2. f.kind = "try" => f.saved >= Tally(Front(fs), Traced)
  BY Unstacked DEF FrameOK
<1> QED
  BY <1>1, <1>2, PlainPushes

(* A catch cuts the stack trace down to what it was at the try *)
LEMMA TraceIsCut ==
  ASSUME NEW n, NEW fs, NEW dep, NEW y, Control(fs, dep, y, n), fs # << >>,
         Last(fs).kind = "try"
  PROVE  Control(fs, Min({dep, Last(fs).saved}), y, n)
<1>1. Last(fs).saved >= Tally(Front(fs), Traced) /\ Last(fs) \notin Traced
  BY Unstacked DEF FrameOK, Traced
<1>2. Last(fs).saved \in Nat /\ dep \in Nat
  <2>1. Last(fs) \in FrameRec /\ dep \in Nat  BY Unstacked
  <2> QED  BY <2>1 DEF FrameRec
<1>3. Tally(fs, Traced) = Tally(Front(fs), Traced)
  <2>1. /\ Front(fs) \in Seq(FrameRec) /\ Last(fs) \in FrameRec
        /\ fs = Append(Front(fs), Last(fs))
    BY Unstacked
  <2>2. Tally(Append(Front(fs), Last(fs)), Traced) = Tally(Front(fs), Traced)
    BY <1>1, <2>1, TallyOfPushed
  <2> QED  BY <2>1, <2>2
<1>4. Min({dep, Last(fs).saved}) \in {dep, Last(fs).saved}
  BY <1>2, MinMaxOfTwo
<1> QED
  BY <1>1, <1>2, <1>3, <1>4 DEF Control

LEMMA CallPushes ==
  ASSUME NEW n, NEW fs, NEW dep, NEW y, Control(fs, dep, y, n), fs # << >>,
         NEW f \in FrameRec, f.kind \in {"call", "method"}, f.left \in {0, 1},
         f.kind = "call" => f.saved = y
  PROVE  Control(Append(fs, f), dep + f.left, IF f.kind = "call" THEN Len(fs) + 1 ELSE y, n)
<1>1. fs \in Seq(FrameRec) /\ dep \in Nat /\ dep >= Tally(fs, Traced)
  BY DEF Control, StackOK
<1>2. FrameOK(fs, f, n)
  BY DEF Control, FrameOK
<1>3. StackOK(Append(fs, f), n)
  BY <1>2, Pushed DEF Control
<1>4. Innermost(Append(fs, f), IF f.kind = "call" THEN Len(fs) + 1 ELSE y)
  BY <1>1, InnermostOfAppend DEF Control
<1>5. dep + f.left >= Tally(Append(fs, f), Traced)
  <2>1. f \in Traced => f.left = 1
    BY DEF Traced
  <2>2. /\ Tally(fs, Traced) \in Nat
        /\ f \in Traced => Tally(Append(fs, f), Traced) = Tally(fs, Traced) + 1
        /\ f \notin Traced => Tally(Append(fs, f), Traced) = Tally(fs, Traced)
    BY <1>1, TallyOfPushed
  <2> QED  BY <1>1, <2>1, <2>2
<1>6. Append(fs, f) # << >> /\ dep + f.left \in Nat
  BY <1>1
<1> QED
  BY <1>3, <1>4, <1>5, <1>6 DEF Control

LEMMA CallPops ==
  ASSUME NEW n, NEW fs, NEW dep, NEW y, Control(fs, dep, y, n), fs # << >>,
         Last(fs).kind \in {"call", "method"}, NEW d \in {dep, dep - Last(fs).left}
  PROVE  /\ Control(Front(fs), d, IF Last(fs).kind = "call" THEN Last(fs).saved ELSE y, n)
         /\ Front(fs) # << >>
<1>1. Front(fs) # << >>
  BY Unstacked DEF FrameOK
<1>2. Last(fs).left \in {0, 1} /\ (Last(fs).kind = "call" => Innermost(Front(fs), Last(fs).saved))
  BY Unstacked DEF FrameOK
<1>3. Last(fs).left = 1 => Last(fs) \in Traced
  BY Unstacked DEF Traced
<1>4. d \in Nat /\ d >= Tally(Front(fs), Traced)
  BY <1>2, <1>3, Unstacked
<1> QED
  BY <1>1, <1>2, <1>4, Unstacked DEF Control

LEMMA TaskPushes ==
  ASSUME NEW n, NEW fs, NEW dep, NEW y, Control(fs, dep, y, n), fs # << >>,
         Last(fs).kind = "await", NEW f \in FrameRec, f.kind = "task", f.left \in 1 .. n
  PROVE  Control(Append(fs, f), dep + 1, y, n)
<1>1. fs \in Seq(FrameRec) /\ dep \in Nat /\ dep >= Tally(fs, Traced) /\ f \in Traced
  BY DEF Control, StackOK, Traced
<1>2. FrameOK(fs, f, n)
  BY DEF FrameOK
<1>3. StackOK(Append(fs, f), n) /\ Innermost(Append(fs, f), y)
  BY <1>1, <1>2, Pushed, InnermostOfAppend DEF Control
<1>4. Tally(fs, Traced) \in Nat /\ Tally(Append(fs, f), Traced) = Tally(fs, Traced) + 1
  BY <1>1, TallyOfPushed
<1>5. Append(fs, f) # << >> /\ dep + 1 \in Nat /\ dep + 1 >= Tally(Append(fs, f), Traced)
  BY <1>1, <1>4
<1> QED
  BY <1>3, <1>5 DEF Control

LEMMA TaskPops ==
  ASSUME NEW n, NEW fs, NEW dep, NEW y, Control(fs, dep, y, n), fs # << >>,
         Last(fs).kind = "task"
  PROVE  /\ Control(Front(fs), dep - 1, y, n)
         /\ Front(fs) # << >> /\ Last(Front(fs)).kind = "await"
<1>1. Front(fs) # << >> /\ Last(Front(fs)).kind = "await" /\ Last(fs) \in Traced
  BY Unstacked DEF FrameOK, Traced
<1>2. dep - 1 \in Nat /\ dep - 1 >= Tally(Front(fs), Traced)
  BY <1>1, Unstacked
<1> QED
  BY <1>1, <1>2, Unstacked DEF Control

LEMMA MachinePushes ==
  ASSUME NEW n, NEW fs, NEW dep, NEW y, Control(fs, dep, y, n),
         NEW f \in FrameRec, f.kind \in {"host", "module"}, f.saved = dep
  PROVE  Control(Append(fs, f), IF f.kind = "host" THEN dep + 1 ELSE dep, y, n)
<1>1. fs \in Seq(FrameRec) /\ dep \in Nat /\ dep >= Tally(fs, Traced)
  BY DEF Control, StackOK
<1>2. FrameOK(fs, f, n)
  BY DEF Control, FrameOK
<1>3. StackOK(Append(fs, f), n) /\ Innermost(Append(fs, f), y)
  BY <1>1, <1>2, Pushed, InnermostOfAppend DEF Control
<1>4. f \in Traced => f.kind = "host"
  BY DEF Traced
<1>5. /\ Tally(fs, Traced) \in Nat
      /\ f \in Traced => Tally(Append(fs, f), Traced) = Tally(fs, Traced) + 1
      /\ f \notin Traced => Tally(Append(fs, f), Traced) = Tally(fs, Traced)
  BY <1>1, TallyOfPushed
<1>6. Append(fs, f) # << >>
  BY <1>1
<1> QED
  BY <1>1, <1>3, <1>4, <1>5, <1>6 DEF Control

LEMMA MachinePops ==
  ASSUME NEW n, NEW fs, NEW dep, NEW y, Control(fs, dep, y, n), fs # << >>,
         Last(fs).kind \in {"host", "module"}
  PROVE  Control(Front(fs), Min({dep, Last(fs).saved}), y, n)
<1>1. /\ Last(fs).saved >= Tally(Front(fs), Traced)
      /\ Front(fs) = << >> => Last(fs).saved = 0
  BY Unstacked DEF FrameOK
<1>2. Last(fs).saved \in Nat /\ dep \in Nat
  BY Unstacked DEF FrameRec
<1>3. Min({dep, Last(fs).saved}) = IF dep <= Last(fs).saved THEN dep ELSE Last(fs).saved
  BY <1>2, MinMaxOfTwo
<1>4. Min({dep, Last(fs).saved}) \in Nat /\ Min({dep, Last(fs).saved}) >= Tally(Front(fs), Traced)
  BY <1>1, <1>2, <1>3, Unstacked
<1>5. Front(fs) = << >> => Min({dep, Last(fs).saved}) = 0
  BY <1>1, <1>2, <1>3
<1>6. Innermost(Front(fs), y) /\ StackOK(Front(fs), n)
  BY Unstacked
<1> QED
  BY <1>4, <1>5, <1>6 DEF Control
-----------------------------------------------------------------------------
(* The invariant: the state of the evaluator and that of the scheduler *)

ControlInv ==
  /\ Control(frames, depth, yieldTo, Len(promises))
  /\ done \in Completions \cup {"run", "abort"}
  /\ frames # << >> /\ done = "run" => Top.kind \in Plain \ {"try"}
  /\ pending \in BOOLEAN /\ picks \in 0 .. MaxPicks

Timer(n) == [due : 0 .. MaxClock, p : 1 .. n]
Operation(n) == [fd : Sockets, p : 1 .. n]

Queued(ts, ti, so, lo, n) ==
  /\ ts \in Seq(1 .. n) /\ ti \in Seq(Timer(n))
  /\ so \subseteq Operation(n) /\ IsFiniteSet(so)
  /\ lo \subseteq 1 .. n

LoopInv ==
  /\ promises \in Seq(Settled \cup {"pending"})
  /\ Queued(tasks, timers, sockets, lost, Len(promises))
  /\ clock \in 0 .. MaxClock

LEMMA QueuedForMore ==
  ASSUME NEW n \in Nat, NEW m \in Nat, n <= m, NEW ts, NEW ti, NEW so, NEW lo,
         Queued(ts, ti, so, lo, n)
  PROVE  Queued(ts, ti, so, lo, m)
<1>1. 1 .. n \subseteq 1 .. m
  OBVIOUS
<1>2. Timer(n) \subseteq Timer(m) /\ Operation(n) \subseteq Operation(m)
  BY <1>1 DEF Timer, Operation
<1>3. ts \in Seq(1 .. m)
  BY <1>1 DEF Queued
<1>4. ti \in Seq(Timer(m))
  BY <1>2 DEF Queued
<1> QED
  BY <1>1, <1>2, <1>3, <1>4 DEF Queued

(* A sequence of settled and pending promises of which some change *)
LEMMA PromisesChange ==
  ASSUME NEW A, NEW s \in Seq(A), NEW t, DOMAIN t = DOMAIN s,
         t = [i \in DOMAIN s |-> t[i]], \A i \in DOMAIN s : t[i] \in A
  PROVE  t \in Seq(A) /\ Len(t) = Len(s)
<1>1. DOMAIN s = 1 .. Len(s) /\ Len(s) \in Nat
  OBVIOUS
<1>2. t \in [1 .. Len(s) -> A]
  BY <1>1
<1>3. t \in Seq(A)
  BY <1>1, <1>2
<1> QED
  BY <1>1, <1>3

LEMMA SettledIn ==
  ASSUME LoopInv, NEW p \in 1 .. Len(promises), NEW s \in Settled
  PROVE  /\ SettleIn(promises, p, s) \in Seq(Settled \cup {"pending"})
         /\ Len(SettleIn(promises, p, s)) = Len(promises)
         /\ \A q \in 1 .. Len(promises) :
              SettleIn(promises, p, s)[q] = "pending" => promises[q] = "pending" /\ q # p
<1>1. promises \in Seq(Settled \cup {"pending"})
  BY DEF LoopInv
<1>2. DOMAIN promises = 1 .. Len(promises)
  BY <1>1
<1>3. [promises EXCEPT ![p] = s] \in Seq(Settled \cup {"pending"})
  BY <1>1
<1>4. Len([promises EXCEPT ![p] = s]) = Len(promises)
  BY <1>1
<1>5. s # "pending"
  BY DEF Settled
<1> QED
  BY <1>1, <1>2, <1>3, <1>4, <1>5 DEF SettleIn

(* How many timers are due *)
LEMMA DueIs ==
  ASSUME LoopInv, NEW t \in Int
  PROVE  /\ DueAt(t) \in 0 .. Len(timers)
         /\ \A i \in 1 .. DueAt(t) : timers[i].due <= t
<1> DEFINE T == {n \in 0 .. Len(timers) : \A i \in 1 .. n : timers[i].due <= t}
<1>1. Len(timers) \in Nat
  BY DEF LoopInv, Queued
<1>2. 0 \in T
  BY <1>1
<1>3. CASE T = {0}
  <2>1. \A y \in T : y <= 0  BY <1>3
  <2>2. T \subseteq Int  BY <1>1
  <2> HIDE DEF T
  <2>3. Max(T) = 0  BY <1>2, <2>1, <2>2, MaxIs
  <2>4. DueAt(t) = 0
    <3>1. DueAt(t) = Max(T)  BY DEF DueAt, T
    <3> QED  BY <2>3, <3>1
  <2> QED  BY <1>1, <2>4
<1>4. CASE T # {0}
  <2> DEFINE P == T \ {0}
  <2>1. P \subseteq 1 .. Len(timers) /\ P # {}
    BY <1>1, <1>2, <1>4
  <2>2. Max(P) \in P /\ \A y \in P : y <= Max(P)
    <3> HIDE DEF P
    <3> QED  BY <1>1, <2>1, MaxOfInterval
  <2>3. Max(P) \in T /\ Max(P) \in Nat
    BY <2>1, <2>2
  <2>4. \A y \in T : y <= Max(P)
    <3> HIDE DEF T
    <3> QED  BY <2>2, <2>3
  <2>5. T \subseteq Int
    BY <1>1
  <2>6. Max(T) = Max(P)
    <3> HIDE DEF T, P
    <3> QED  BY <2>3, <2>4, <2>5, MaxIs
  <2> QED  BY <2>3, <2>6 DEF DueAt
<1> QED
  BY <1>3, <1>4
LEMMA SplitAt ==
  ASSUME NEW A, NEW s \in Seq(A), NEW k \in 0 .. Len(s)
  PROVE  /\ SubSeq(s, 1, k) \in Seq(A) /\ SubSeq(s, k + 1, Len(s)) \in Seq(A)
         /\ s = SubSeq(s, 1, k) \o SubSeq(s, k + 1, Len(s))
<1>1. Len(s) \in Nat /\ k \in Nat
  OBVIOUS
<1>2. SubSeq(s, 1, k) \in Seq(A)
  <2>1. \A i \in 1 .. k : s[i] \in A  BY <1>1
  <2> QED  BY <1>1, <2>1
<1>3. SubSeq(s, k + 1, Len(s)) \in Seq(A)
  <2>1. \A i \in k + 1 .. Len(s) : s[i] \in A  BY <1>1
  <2> QED  BY <1>1, <2>1
<1>4. /\ Len(SubSeq(s, 1, k)) = k /\ Len(SubSeq(s, k + 1, Len(s))) = Len(s) - k
      /\ \A i \in 1 .. k : SubSeq(s, 1, k)[i] = s[i]
      /\ \A i \in k + 1 .. Len(s) : SubSeq(s, k + 1, Len(s))[i - k] = s[i]
  BY <1>1
<1>5. s = SubSeq(s, 1, k) \o SubSeq(s, k + 1, Len(s))
  <2> DEFINE a == SubSeq(s, 1, k)
             b == SubSeq(s, k + 1, Len(s))
  <2> SUFFICES s = a \o b
    OBVIOUS
  <2>1. /\ a \in Seq(A) /\ b \in Seq(A)
        /\ Len(a) = k /\ Len(b) = Len(s) - k
        /\ \A i \in 1 .. k : a[i] = s[i]
        /\ \A i \in k + 1 .. Len(s) : b[i - k] = s[i]
    BY <1>2, <1>3, <1>4
  <2> HIDE DEF a, b
  <2>2. Len(a \o b) = Len(s) /\ a \o b \in Seq(A)
    BY <1>1, <2>1
  <2>3. ASSUME NEW i \in 1 .. Len(s) PROVE (a \o b)[i] = s[i]
    <3>1. CASE i <= k
      <4>1. i \in 1 .. k  BY <1>1, <3>1
      <4> QED  BY <1>1, <2>1, <4>1
    <3>2. CASE ~(i <= k)
      <4>1. i \in k + 1 .. Len(s)  BY <1>1, <3>2
      <4>2. (a \o b)[i] = b[i - k]  BY <1>1, <2>1, <4>1
      <4> QED  BY <2>1, <4>1, <4>2
    <3> QED  BY <3>1, <3>2
  <2> DEFINE u == a \o b
  <2>4. u \in Seq(A) /\ Len(u) = Len(s) /\ \A i \in 1 .. Len(s) : u[i] = s[i]
    BY <2>2, <2>3
  <2> HIDE DEF u
  <2>5. s = u  BY <2>4
  <2> QED  BY <2>5 DEF u
<1> QED
  BY <1>2, <1>3, <1>5

(* A timer is put somewhere between the others                                *)
LEMMA TimerAdded ==
  ASSUME NEW A, timers \in Seq(A), NEW t \in A
  PROVE  \E k \in 0 .. Len(timers) :
           AddTimer(t) = SubSeq(timers, 1, k) \o << t >> \o SubSeq(timers, k + 1, Len(timers))
<1> DEFINE T == {i \in DOMAIN timers : timers[i].due <= t.due}
<1>1. T \in SUBSET (1 .. Len(timers)) /\ Len(timers) \in Nat
  OBVIOUS
<1>2. IsFiniteSet(1 .. Len(timers)) /\ Cardinality(1 .. Len(timers)) = Len(timers)
  BY <1>1, FS_Interval
<1>3. Cardinality(T) \in Nat /\ Cardinality(T) <= Len(timers)
  <2> HIDE DEF T
  <2>1. IsFiniteSet(T) /\ Cardinality(T) <= Len(timers)
    BY <1>1, <1>2, FS_Subset
  <2> QED  BY <2>1, FS_CardinalityType
<1>4. AddTimer(t) = SubSeq(timers, 1, Cardinality(T)) \o << t >>
                      \o SubSeq(timers, Cardinality(T) + 1, Len(timers))
  BY DEF AddTimer
<1> HIDE DEF T
<1>5. Cardinality(T) \in 0 .. Len(timers)
  BY <1>1, <1>3
<1> QED
  BY <1>4, <1>5

LEMMA TimersAfterAdding ==
  ASSUME NEW A, timers \in Seq(A), NEW t \in A, NEW S
  PROVE  /\ AddTimer(t) \in Seq(A)
         /\ Tally(AddTimer(t), S) = Tally(timers, S) + (IF t \in S THEN 1 ELSE 0)
<1>1. PICK k \in 0 .. Len(timers) :
        AddTimer(t) = SubSeq(timers, 1, k) \o << t >> \o SubSeq(timers, k + 1, Len(timers))
  BY TimerAdded
<1> DEFINE u == SubSeq(timers, 1, k)
           v == SubSeq(timers, k + 1, Len(timers))
<1>2. u \in Seq(A) /\ v \in Seq(A) /\ timers = u \o v
  BY SplitAt
<1>3. AddTimer(t) = Append(u, t) \o v
  <2>1. u \o << t >> = Append(u, t)
    <3> HIDE DEF u
    <3> QED  BY <1>2
  <2> QED  BY <1>1, <2>1
<1> HIDE DEF u, v
<1>4. Append(u, t) \in Seq(A)
  BY <1>2
<1>5. Append(u, t) \o v \in Seq(A)
  BY <1>2, <1>4
<1>6. Tally(Append(u, t) \o v, S) = Tally(Append(u, t), S) + Tally(v, S)
  BY <1>2, <1>4, TallyOfConcat
<1>7. Tally(Append(u, t), S) = Tally(u, S) + (IF t \in S THEN 1 ELSE 0)
  BY <1>2, TallyOfAppend
<1>8. Tally(timers, S) = Tally(u, S) + Tally(v, S)
  BY <1>2, TallyOfConcat
<1>9. Tally(u, S) \in Nat /\ Tally(v, S) \in Nat
  <2>1. Tally(u, S) \in 0 .. Len(u) /\ Tally(v, S) \in 0 .. Len(v)
    BY <1>2, TallyIsNat
  <2> QED  BY <1>2, <2>1
<1> QED
  BY <1>3, <1>5, <1>6, <1>7, <1>8, <1>9

LEMMA TopKnows ==
  ASSUME ControlInv, frames # << >>
  PROVE  /\ Top \in FrameRec
         /\ Top.kind \in {"task", "await"} => Top.left \in 1 .. Len(promises)
  BY Unstacked DEF ControlInv, Top, FrameOK

LEMMA NewPromiseTyped ==
  ASSUME LoopInv, NEW s \in Settled \cup {"pending"}
  PROVE  /\ Append(promises, s) \in Seq(Settled \cup {"pending"})
         /\ Len(promises) \in Nat /\ Len(Append(promises, s)) = Len(promises) + 1
         /\ Append(promises, s)[NextP] = s
         /\ \A q \in 1 .. Len(promises) : Append(promises, s)[q] = promises[q]
         /\ Queued(tasks, timers, sockets, lost, Len(promises) + 1)
<1>1. promises \in Seq(Settled \cup {"pending"}) /\ Len(promises) \in Nat
  BY DEF LoopInv
<1>2. Len(promises) + 1 \in Nat /\ Len(promises) <= Len(promises) + 1
  BY <1>1
<1>3. Queued(tasks, timers, sockets, lost, Len(promises) + 1)
  BY <1>1, <1>2, QueuedForMore DEF LoopInv
<1> QED
  BY <1>1, <1>3 DEF NextP

LEMMA SocketsRemoved ==
  ASSUME NEW n, NEW fds, NEW answered, sockets \subseteq Operation(n), IsFiniteSet(sockets),
         lost \subseteq 1 .. n, RemoveSockets(fds, answered)
  PROVE  sockets' \subseteq Operation(n) /\ IsFiniteSet(sockets') /\ lost' \subseteq 1 .. n
<1>1. sockets' \in SUBSET sockets
  BY DEF RemoveSockets
<1>2. IsFiniteSet(sockets')
  BY <1>1, FS_Subset
<1>3. \A io \in sockets : io.p \in 1 .. n
  BY DEF Operation
<1> QED
  BY <1>1, <1>2, <1>3 DEF RemoveSockets

LEMMA LoopStep ==
  ASSUME ScriptAssumption, ControlInv, LoopInv, ScriptNext
  PROVE  LoopInv' /\ Len(promises') >= Len(promises) /\ Len(promises) \in Nat
<1> DEFINE n == Len(promises)
           P == Settled \cup {"pending"}
<1>1. /\ promises \in Seq(P) /\ n \in Nat /\ DOMAIN promises = 1 .. n
      /\ tasks \in Seq(1 .. n) /\ timers \in Seq(Timer(n))
      /\ sockets \subseteq Operation(n) /\ IsFiniteSet(sockets)
      /\ lost \subseteq 1 .. n /\ clock \in 0 .. MaxClock
      /\ MaxClock \in Nat /\ Delays \subseteq Nat
  BY DEF LoopInv, Queued, ScriptAssumption
<1>2. NextP = n + 1 /\ n + 1 \in 1 .. n + 1
  BY <1>1 DEF NextP
<1>3. \A s \in P : /\ Append(promises, s) \in Seq(P)
                   /\ Len(Append(promises, s)) = n + 1
  BY NewPromiseTyped
<1>4. /\ tasks \in Seq(1 .. n + 1) /\ timers \in Seq(Timer(n + 1))
      /\ sockets \subseteq Operation(n + 1) /\ lost \subseteq 1 .. n + 1
  <2>1. Queued(tasks, timers, sockets, lost, n + 1)
    BY NewPromiseTyped DEF Settled
  <2> QED  BY <2>1 DEF Queued
<1>5. CASE CallAsync
  <2>1. Append(tasks, NextP) \in Seq(1 .. n + 1)  BY <1>2, <1>4
  <2> QED
    BY <1>1, <1>3, <1>4, <1>5, <2>1 DEF CallAsync, NewPromise, NativeSucceeds, LoopInv, Queued
<1>6. CASE CallSleep
  <2>1. PICK d \in Delays :
          /\ clock + d <= MaxClock
          /\ NativeSucceeds /\ NewPromise(IF d = 0 THEN "fulfilled" ELSE "pending")
          /\ timers' = IF d = 0 THEN timers ELSE AddTimer([due |-> clock + d, p |-> NextP])
          /\ UNCHANGED << tasks, sockets, lost >>
    BY <1>6 DEF CallSleep
  <2>2. [due |-> clock + d, p |-> NextP] \in Timer(n + 1)
    <3>1. d \in Nat /\ clock \in Nat /\ MaxClock \in Nat /\ clock + d <= MaxClock
      <4>1. d \in Nat /\ MaxClock \in Nat
        BY DEF ScriptAssumption
      <4>2. clock \in 0 .. MaxClock
        BY DEF LoopInv
      <4>3. clock + d <= MaxClock
        BY <2>1
      <4> QED  BY <4>1, <4>2, <4>3
    <3>2. clock + d \in 0 .. MaxClock
      BY <3>1
    <3> QED  BY <1>2, <3>2 DEF Timer
  <2>3. AddTimer([due |-> clock + d, p |-> NextP]) \in Seq(Timer(n + 1))
    BY <1>4, <2>2, TimersAfterAdding
  <2>4. (IF d = 0 THEN "fulfilled" ELSE "pending") \in P
    BY DEF Settled
  <2> QED
    BY <1>1, <1>3, <1>4, <2>1, <2>3, <2>4 DEF NewPromise, NativeSucceeds, LoopInv, Queued
<1>7. CASE CallPromise
  <2>1. lost \cup {NextP} \subseteq 1 .. n + 1  BY <1>2, <1>4
  <2>2. "pending" \in P  OBVIOUS
  <2> QED
    BY <1>1, <1>3, <1>4, <1>7, <2>1, <2>2 DEF CallPromise, NewPromise, NativeSucceeds, LoopInv, Queued
<1>8. CASE CallSettle
  <2>1. PICK p \in DOMAIN promises, s \in Settled :
          /\ NativeSucceeds
          /\ promises' = SettleIn(promises, p, s)
          /\ UNCHANGED << tasks, timers, sockets, lost >>
    BY <1>8 DEF CallSettle
  <2>2. SettleIn(promises, p, s) \in Seq(P) /\ Len(SettleIn(promises, p, s)) = n
    BY <1>1, SettledIn
  <2> QED  BY <1>1, <2>1, <2>2 DEF NativeSucceeds, LoopInv, Queued
<1>9. CASE CallSocket
  <2>1. PICK fd \in Sockets :
          /\ NativeSucceeds /\ NewPromise("pending")
          /\ sockets' = sockets \cup {[fd |-> fd, p |-> NextP]}
          /\ UNCHANGED << tasks, timers, lost >>
    BY <1>9 DEF CallSocket
  <2>2. [fd |-> fd, p |-> NextP] \in Operation(n + 1)
    BY <1>2 DEF Operation
  <2>3. IsFiniteSet(sockets \cup {[fd |-> fd, p |-> NextP]})
    BY <1>1, FS_AddElement
  <2> QED
    BY <1>1, <1>3, <1>4, <2>1, <2>2, <2>3 DEF NewPromise, NativeSucceeds, LoopInv, Queued
<1>10. CASE CloseSocket
  <2>1. PICK fd \in Sockets : /\ NativeSucceeds /\ RemoveSockets({fd}, {})
                              /\ UNCHANGED << promises, tasks, timers >>
    BY <1>10 DEF CloseSocket
  <2>2. sockets' \subseteq Operation(n) /\ IsFiniteSet(sockets') /\ lost' \subseteq 1 .. n
    BY <1>1, <2>1, SocketsRemoved
  <2> QED  BY <1>1, <2>1, <2>2 DEF NativeSucceeds, LoopInv, Queued
<1>11. ASSUME NEW t \in 0 .. MaxClock, RunTimersAt(t)
       PROVE  LoopInv' /\ Len(promises') = n
  <2>1. promises' \in Seq(P) /\ Len(promises') = n
    <3>1. /\ DOMAIN promises' = DOMAIN promises
          /\ promises' = [i \in DOMAIN promises |-> promises'[i]]
      BY <1>11 DEF RunTimersAt
    <3>2. \A i \in DOMAIN promises : promises'[i] \in P
      BY <1>1, <1>11 DEF RunTimersAt, Settled
    <3> QED  BY <1>1, <3>1, <3>2, PromisesChange
  <2>2. timers' \in Seq(Timer(n))
    <3>1. t \in Int  BY <1>1
    <3>2. DueAt(t) \in 0 .. Len(timers)  BY <3>1, DueIs
    <3> QED  BY <1>1, <1>11, <3>2, SplitAt DEF RunTimersAt
  <2> QED  BY <1>1, <1>11, <2>1, <2>2 DEF RunTimersAt, LoopInv, Queued
<1>12. CASE RunDueTimers
  BY <1>1, <1>11, <1>12 DEF RunDueTimers
<1>13. CASE SleepToTimer
  <2>1. timers # << >> /\ RunTimersAt(timers[1].due)
    BY <1>13 DEF SleepToTimer
  <2>2. timers[1] \in Timer(n)
    BY <1>1, <2>1
  <2>3. timers[1].due \in 0 .. MaxClock
    BY <2>2 DEF Timer
  <2> QED  BY <1>1, <1>11, <2>1, <2>3
<1>14. CASE RunTask
  <2>1. tasks # << >> /\ tasks' = Tail(tasks)
    BY <1>14 DEF RunTask
  <2>2. Tail(tasks) \in Seq(1 .. n) /\ Head(tasks) \in 1 .. n
    BY <1>1, <2>1
  <2>3. promises' \in Seq(P) /\ Len(promises') = n
    <3>1. promises' = promises \/ promises' = SettleIn(promises, Head(tasks), "rejected")
      BY <1>14 DEF RunTask
    <3> QED  BY <1>1, <2>2, <3>1, SettledIn DEF Settled
  <2> QED  BY <1>1, <1>14, <2>1, <2>2, <2>3 DEF RunTask, LoopInv, Queued
<1>15. CASE PollSockets
  <2>1. PICK ready \in SUBSET sockets \ {{}}, s \in Settled :
          LET answered == {io \in ready : promises[io.p] = "pending"}
          IN  /\ promises' = [p \in DOMAIN promises |->
                               IF p \in {io.p : io \in answered} THEN s ELSE promises[p]]
              /\ RemoveSockets({io.fd : io \in answered}, answered)
    BY <1>15 DEF PollSockets
  <2>2. promises' \in Seq(P) /\ Len(promises') = n
    <3>1. /\ DOMAIN promises' = DOMAIN promises
          /\ promises' = [i \in DOMAIN promises |-> promises'[i]]
      BY <2>1
    <3>2. \A i \in DOMAIN promises : promises'[i] \in P
      BY <1>1, <2>1
    <3> QED  BY <1>1, <3>1, <3>2, PromisesChange
  <2>3. sockets' \subseteq Operation(n) /\ IsFiniteSet(sockets') /\ lost' \subseteq 1 .. n
    BY <1>1, <2>1, SocketsRemoved
  <2> QED  BY <1>1, <1>15, <2>2, <2>3 DEF PollSockets, LoopInv, Queued
<1>16. CASE SocketTimesOut
  <2>1. PICK io \in sockets : /\ promises' = SettleIn(promises, io.p, "rejected")
                              /\ RemoveSockets({io.fd}, {io})
    BY <1>16 DEF SocketTimesOut
  <2>2. io.p \in 1 .. n
    BY <1>1 DEF Operation
  <2>3. promises' \in Seq(P) /\ Len(promises') = n
    BY <2>1, <2>2, SettledIn DEF Settled
  <2>4. sockets' \subseteq Operation(n) /\ IsFiniteSet(sockets') /\ lost' \subseteq 1 .. n
    BY <1>1, <2>1, SocketsRemoved
  <2> QED  BY <1>1, <1>16, <2>3, <2>4 DEF SocketTimesOut, LoopInv, Queued
<1>17. CASE TaskEnds
  <2>1. PICK s \in Settled : promises' = SettleIn(promises, Top.left, s)
    BY <1>17 DEF TaskEnds, Settled
  <2>2. Top.left \in 1 .. n
    BY <1>17, TopKnows DEF TaskEnds, Gets
  <2>3. promises' \in Seq(P) /\ Len(promises') = n
    BY <2>1, <2>2, SettledIn
  <2> QED  BY <1>1, <1>17, <2>3 DEF TaskEnds, LoopInv, Queued
<1>18. CASE ClockTicks
  BY <1>1, <1>18 DEF ClockTicks, LoopInv, Queued
<1>19. CASE UNCHANGED loopVars
  BY <1>1, <1>19 DEF loopVars, LoopInv, Queued
<1>20. \/ CallAsync \/ CallSleep \/ CallPromise \/ CallSettle \/ CallSocket \/ CloseSocket
       \/ RunDueTimers \/ RunTask \/ PollSockets \/ SocketTimesOut \/ SleepToTimer
       \/ TaskEnds \/ ClockTicks \/ UNCHANGED loopVars
  BY DEF ScriptNext, SimpleStatement, Jump, FailingExpression, DeferStatement, Nest,
         YieldStatement, BlockEnds, BlockGets, BlockIsDone, LoopTurns, LoopGets, SwitchTurns,
         SwitchGets, TryGets, CallFunction, CallThroughPipe, CallMethod, ConstructThroughPipe,
         StartBody, CallUnbound, CallReturns, HostCalls, RequireModule, EnterMachine,
         MachineReturns, StartAwait, AwaitEnds, AwaitStopped, AwaitDeadlock, ScriptIsOver,
         scriptVars, loopVars
<1> QED
  BY <1>5, <1>6, <1>7, <1>8, <1>9, <1>10, <1>12, <1>13, <1>14, <1>15, <1>16, <1>17, <1>18,
     <1>19, <1>20
-----------------------------------------------------------------------------
(* Control *)

LEMMA FramesTyped ==
  ASSUME NEW k \in FrameKinds
  PROVE  /\ Frame(k) \in FrameRec /\ Frame(k).kind = k
         /\ Frame(k).left = 0 /\ Frame(k).saved = 0
  BY DEF Frame, FrameRec, Completions

LEMMA FrameWithLeft ==
  ASSUME NEW f \in FrameRec, NEW l \in Nat
  PROVE  /\ [f EXCEPT !.left = l] \in FrameRec
         /\ [f EXCEPT !.left = l].kind = f.kind /\ [f EXCEPT !.left = l].saved = f.saved
         /\ [f EXCEPT !.left = l].left = l
  BY DEF FrameRec

LEMMA FrameWithSaved ==
  ASSUME NEW f \in FrameRec, NEW s \in Nat
  PROVE  /\ [f EXCEPT !.saved = s] \in FrameRec
         /\ [f EXCEPT !.saved = s].kind = f.kind /\ [f EXCEPT !.saved = s].saved = s
         /\ [f EXCEPT !.saved = s].left = f.left
  BY DEF FrameRec

LEMMA FrameInPhase ==
  ASSUME NEW f \in FrameRec, NEW ph \in {"body", "defers", "catch", "finally"}
  PROVE  /\ [f EXCEPT !.phase = ph] \in FrameRec
         /\ [f EXCEPT !.phase = ph].kind = f.kind /\ [f EXCEPT !.phase = ph].saved = f.saved
  BY DEF FrameRec

LEMMA FrameWithBase ==
  ASSUME NEW f \in FrameRec, NEW ph \in {"body", "defers", "catch", "finally"},
         NEW c \in Completions
  PROVE  /\ [f EXCEPT !.phase = ph, !.base = c] \in FrameRec
         /\ [f EXCEPT !.phase = ph, !.base = c].kind = f.kind
         /\ [f EXCEPT !.phase = ph, !.base = c].saved = f.saved
  BY DEF FrameRec

LEMMA BlockFrameTyped == BlockFrame \in FrameRec /\ BlockFrame.kind = "block"
  BY FramesTyped DEF BlockFrame, FrameKinds

(* One or two frames on top *)
LEMMA FewOnTop ==
  ASSUME NEW S, NEW fs \in Seq(S), NEW f \in S, NEW g \in S
  PROVE  /\ fs \o << >> = fs
         /\ fs \o << f >> = Append(fs, f)
         /\ fs \o << f, g >> = Append(Append(fs, f), g)
  OBVIOUS

(* A block that executes a statement *)
LEMMA Picks ==
  ASSUME ControlInv, ScriptAssumption, MayPick
  PROVE  /\ Control(Become(Picked), depth, yieldTo, Len(promises))
         /\ Become(Picked) \in Seq(FrameRec) /\ Become(Picked) # << >>
         /\ Last(Become(Picked)).kind = "block" /\ Len(Become(Picked)) = Len(frames)
         /\ Min({picks + 1, MaxPicks}) \in 0 .. MaxPicks
<1>1. frames # << >> /\ Top.kind = "block" /\ done = "run"
      /\ (Top.phase # "body" => Top.left > 0)
  BY DEF MayPick, Runs
<1>2. Control(frames, depth, yieldTo, Len(promises)) /\ Top = Last(frames)
  BY DEF ControlInv, Top
<1>3. Top \in FrameRec /\ Front(frames) \in Seq(FrameRec)
  BY <1>1, <1>2, Unstacked
<1>4. Picked \in FrameRec /\ Picked.kind = "block" /\ Picked.saved = Top.saved
  <2>1. CASE Top.phase = "body"
    BY <1>1, <1>3, <2>1 DEF Picked
  <2>2. CASE Top.phase # "body"
    <3>1. Top.left - 1 \in Nat
      BY <1>1, <1>3, <2>2 DEF FrameRec
    <3>2. Picked = [Top EXCEPT !.left = Top.left - 1]
      BY <2>2 DEF Picked
    <3> QED  BY <1>1, <1>3, <3>1, <3>2, FrameWithLeft
  <2> QED  BY <2>1, <2>2
<1>5. Become(Picked) = Append(Front(frames), Picked)
  BY <1>3, <1>4, FewOnTop DEF Become
<1>6. Control(Append(Front(frames), Picked), depth, yieldTo, Len(promises))
  BY <1>1, <1>2, <1>4, PlainGoesOn DEF Plain
<1>7. /\ Last(Become(Picked)) = Picked /\ Become(Picked) # << >>
      /\ Become(Picked) \in Seq(FrameRec) /\ Len(Become(Picked)) = Len(Front(frames)) + 1
  BY <1>3, <1>4, <1>5, LastOfAppended
<1>8. Len(frames) \in Nat \ {0} /\ Len(Front(frames)) = Len(frames) - 1
  <2>1. frames \in Seq(FrameRec)  BY <1>1, <1>2, Unstacked
  <2> QED  BY <1>1, <2>1, TopAndRest
<1>9. Len(Become(Picked)) = Len(frames)
  BY <1>7, <1>8
<1>10. Min({picks + 1, MaxPicks}) \in 0 .. MaxPicks
  <2>1. picks \in 0 .. MaxPicks /\ MaxPicks \in Nat
    BY DEF ControlInv, ScriptAssumption
  <2>2. Min({picks + 1, MaxPicks}) = IF picks + 1 <= MaxPicks THEN picks + 1 ELSE MaxPicks
    BY <2>1, MinMaxOfTwo
  <2> QED  BY <2>1, <2>2
<1> QED
  BY <1>4, <1>5, <1>6, <1>7, <1>9, <1>10

(* Several ways to keep the invariant: the stack fits, and the top may run *)
LEMMA ControlKept ==
  ASSUME NEW n \in Nat, n = Len(promises'), Control(frames', depth', yieldTo', n),
         done' \in Completions \cup {"run", "abort"},
         frames' # << >> /\ done' = "run" => Last(frames').kind \in Plain \ {"try"},
         pending' \in BOOLEAN, picks' \in 0 .. MaxPicks
  PROVE  ControlInv'
  BY DEF ControlInv, Top
LEMMA ControlForMore ==
  ASSUME NEW n \in Nat, NEW m \in Nat, n <= m, NEW fs, NEW dep, NEW y, Control(fs, dep, y, n)
  PROVE  Control(fs, dep, y, m)
  BY MorePromises DEF Control

(* A statement that starts no other one *)
LEMMA StatementEnds ==
  ASSUME ControlInv, ScriptAssumption, Start(<< >>), done' \in Completions \cup {"abort"},
         UNCHANGED << depth, yieldTo >>, pending' \in BOOLEAN,
         Len(promises) \in Nat, Len(promises') \in Nat, Len(promises') >= Len(promises)
  PROVE  ControlInv'
<1>1. MayPick /\ frames' = Become(Picked) \o << >> /\ picks' = Min({picks + 1, MaxPicks})
  BY DEF Start
<1>2. /\ Control(Become(Picked), depth, yieldTo, Len(promises))
      /\ Become(Picked) \in Seq(FrameRec)
      /\ picks' \in 0 .. MaxPicks
  BY <1>1, Picks
<1>3. frames' = Become(Picked)
  BY <1>1, <1>2
<1>4. Control(frames', depth', yieldTo', Len(promises'))
  BY <1>2, <1>3, ControlForMore
<1>5. done' # "run"
  BY DEF Completions, Abrupt
<1> QED
  BY <1>2, <1>4, <1>5, ControlKept

(* A statement ends *)
LEMMA FrameEnds ==
  ASSUME ControlInv, frames # << >>, Top.kind \in Plain, NEW c \in Completions, PopWith(c),
         UNCHANGED << depth, yieldTo, promises >>, pending' \in BOOLEAN, picks' = picks,
         Len(promises) \in Nat
  PROVE  ControlInv'
<1>1. frames' = Front(frames) /\ done' = c /\ c # "run"
  BY DEF PopWith, Completions, Abrupt
<1>2. Control(Front(frames), depth, yieldTo, Len(promises))
  BY PlainPops DEF ControlInv, Top
<1>3. Control(frames', depth', yieldTo', Len(promises')) /\ Len(promises') \in Nat
  BY <1>1, <1>2
<1> QED
  BY <1>1, <1>3, ControlKept DEF ControlInv

(* A statement goes on in another phase, perhaps with a block *)
LEMMA FrameGoesOn ==
  ASSUME ControlInv, frames # << >>, NEW f \in FrameRec, f.kind = Top.kind,
         f.saved = Top.saved, f.kind \in Plain \ {"await"}
  PROVE  /\ Become(f) = Append(Front(frames), f)
         /\ Become(f) \in Seq(FrameRec)
         /\ Become(f) # << >> /\ Last(Become(f)) = f
         /\ Control(Become(f), depth, yieldTo, Len(promises))
         /\ Control(Append(Become(f), BlockFrame), depth, yieldTo, Len(promises))
         /\ Become(f) \o << BlockFrame >> = Append(Become(f), BlockFrame)
         /\ Last(Append(Become(f), BlockFrame)) = BlockFrame
<1>1. Control(frames, depth, yieldTo, Len(promises)) /\ Front(frames) \in Seq(FrameRec)
  BY Unstacked DEF ControlInv
<1>2. Become(f) = Append(Front(frames), f)
  BY <1>1, FewOnTop DEF Become
<1>3. /\ Become(f) \in Seq(FrameRec)
      /\ Become(f) # << >> /\ Last(Become(f)) = f
  BY <1>1, <1>2, LastOfAppended
<1>4. Control(Become(f), depth, yieldTo, Len(promises))
  BY <1>1, <1>2, PlainGoesOn DEF Top
<1>5. Control(Append(Become(f), BlockFrame), depth, yieldTo, Len(promises))
  BY <1>3, <1>4, PlainPushes, BlockFrameTyped DEF Plain
<1>6. /\ Become(f) \o << BlockFrame >> = Append(Become(f), BlockFrame)
      /\ Last(Append(Become(f), BlockFrame)) = BlockFrame
  BY <1>3, FewOnTop, LastOfAppended, BlockFrameTyped
<1> QED
  BY <1>2, <1>3, <1>4, <1>5, <1>6

LEMMA FailureIs == Failure \in {"throw", "error"} /\ Failure \in Completions
  BY DEF Failure, Completions, Abrupt

(* A statement that starts others *)
LEMMA NestControl ==
  ASSUME ControlInv, ScriptAssumption, Len(promises) \in Nat, Nest
  PROVE  ControlInv'
<1> DEFINE G == Become(Picked)
           n == Len(promises)
<1>1. MayPick /\ picks' = Min({picks + 1, MaxPicks}) /\ done = "run"
      /\ UNCHANGED << done, depth, yieldTo, pending, promises >>
  BY DEF Nest, Start, MayPick, Runs, loopVars
<1>2. /\ Control(G, depth, yieldTo, n) /\ G \in Seq(FrameRec) /\ G # << >>
      /\ picks' \in 0 .. MaxPicks
  BY <1>1, Picks
<1>3. depth \in Nat /\ depth >= Tally(G, Traced)
  BY <1>2 DEF Control
<1> SUFFICES Control(frames', depth, yieldTo, n) /\ Last(frames').kind \in Plain \ {"try"}
  BY <1>1, <1>2, ControlKept DEF ControlInv
<1> HIDE DEF G
<1>4. ASSUME NEW f \in FrameRec, f.kind \in {"block", "loop", "switch"}, frames' = G \o << f >>
      PROVE  Control(frames', depth, yieldTo, n) /\ Last(frames').kind \in Plain \ {"try"}
  <2>1. frames' = Append(G, f)
    BY <1>2, <1>4, FewOnTop
  <2>2. Last(frames') = f
    BY <1>2, <2>1, LastOfAppended
  <2>3. f.kind \in Plain \ {"try", "await"}
    BY <1>4 DEF Plain
  <2>4. Control(Append(G, f), depth, yieldTo, n)
    BY <1>2, <2>3, PlainPushes
  <2> QED  BY <2>1, <2>2, <2>3, <2>4
<1>5. CASE Start(<< BlockFrame >>)
  BY <1>4, <1>5, BlockFrameTyped DEF Start, G
<1>6. CASE Start(<< Frame("loop") >>)
  BY <1>4, <1>6, FramesTyped DEF Start, G, FrameKinds
<1>7. CASE \E l \in 1 .. 2 : Start(<< [Frame("switch") EXCEPT !.left = l] >>)
  <2>1. PICK l \in 1 .. 2 : Start(<< [Frame("switch") EXCEPT !.left = l] >>)
    BY <1>7
  <2>2. /\ [Frame("switch") EXCEPT !.left = l] \in FrameRec
        /\ [Frame("switch") EXCEPT !.left = l].kind = "switch"
    <3>1. Frame("switch") \in FrameRec /\ Frame("switch").kind = "switch" /\ l \in Nat
      BY FramesTyped DEF FrameKinds
    <3> QED  BY <3>1, FrameWithLeft
  <2> QED  BY <1>4, <2>1, <2>2 DEF Start, G
<1>8. CASE \E fin \in BOOLEAN :
             Start(<< [Frame("try") EXCEPT !.fin = fin, !.saved = depth], BlockFrame >>)
  <2>1. PICK fin \in BOOLEAN :
          Start(<< [Frame("try") EXCEPT !.fin = fin, !.saved = depth], BlockFrame >>)
    BY <1>8
  <2> DEFINE f == [Frame("try") EXCEPT !.fin = fin, !.saved = depth]
  <2>2. f \in FrameRec /\ f.kind = "try" /\ f.saved = depth
    <3>1. Frame("try") \in FrameRec /\ Frame("try").kind = "try"
      BY FramesTyped DEF FrameKinds
    <3> QED  BY <1>3, <3>1 DEF FrameRec
  <2>3. frames' = G \o << f, BlockFrame >>
    BY <2>1 DEF Start, G
  <2> HIDE DEF f
  <2>4. frames' = Append(Append(G, f), BlockFrame)
    BY <1>2, <2>2, <2>3, FewOnTop, BlockFrameTyped
  <2>5. Control(Append(G, f), depth, yieldTo, n)
    BY <1>2, <1>3, <2>2, PlainPushes DEF Plain
  <2>6. Append(G, f) # << >> /\ Append(G, f) \in Seq(FrameRec)
    BY <1>2, <2>2
  <2>7. Control(Append(Append(G, f), BlockFrame), depth, yieldTo, n)
    BY <2>5, <2>6, PlainPushes, BlockFrameTyped DEF Plain
  <2>8. Last(frames') = BlockFrame
    BY <2>4, <2>6, LastOfAppended, BlockFrameTyped
  <2> QED  BY <2>4, <2>7, <2>8, BlockFrameTyped DEF Plain
<1> QED
  BY <1>5, <1>6, <1>7, <1>8 DEF Nest

(* Blocks: deferring, ending, and what a statement gives back *)
LEMMA BlockControl ==
  ASSUME ControlInv, ScriptAssumption, Len(promises) \in Nat,
         DeferStatement \/ BlockEnds \/ BlockGets \/ BlockIsDone
  PROVE  ControlInv'
<1>1. frames # << >> /\ Top.kind = "block" /\ Top \in FrameRec
  BY TopKnows DEF DeferStatement, MayPick, Runs, BlockEnds, BlockGets, Gets, BlockIsDone
<1>2. Top.left + 1 \in Nat /\ Top.base \in Completions /\ picks \in 0 .. MaxPicks
      /\ MaxPicks \in Nat /\ pending \in BOOLEAN
  BY <1>1 DEF FrameRec, ControlInv, ScriptAssumption
<1>3. ASSUME NEW f \in FrameRec, f.kind = "block", f.saved = Top.saved, frames' = Become(f),
             done' = "run", UNCHANGED << depth, yieldTo, pending, promises >>,
             picks' \in 0 .. MaxPicks
      PROVE  ControlInv'
  <2>1. Control(frames', depth', yieldTo', Len(promises')) /\ Last(frames').kind = "block"
    BY <1>1, <1>3, FrameGoesOn DEF Plain
  <2> QED  BY <1>2, <1>3, <2>1, ControlKept DEF Plain
<1>4. CASE DeferStatement
  <2>1. /\ frames' = Become([Top EXCEPT !.left = Top.left + 1]) /\ done' = "run"
        /\ picks' = picks + 1 /\ picks < MaxPicks
        /\ UNCHANGED << depth, yieldTo, pending, promises >>
    BY <1>4 DEF DeferStatement, MayPick, Runs, loopVars
  <2>2. picks + 1 \in 0 .. MaxPicks
    BY <1>2, <2>1
  <2>3. /\ [Top EXCEPT !.left = Top.left + 1] \in FrameRec
        /\ [Top EXCEPT !.left = Top.left + 1].kind = Top.kind
        /\ [Top EXCEPT !.left = Top.left + 1].saved = Top.saved
    BY <1>1, <1>2, FrameWithLeft
  <2> QED  BY <1>1, <1>3, <2>1, <2>2, <2>3
<1>5. CASE BlockEnds
  <2>1. /\ frames' = Become([Top EXCEPT !.phase = "defers"]) /\ done' = "run"
        /\ UNCHANGED << depth, yieldTo, pending, picks, promises >>
    BY <1>5 DEF BlockEnds, Runs, loopVars
  <2>2. "defers" \in {"body", "defers", "catch", "finally"}
    OBVIOUS
  <2>3. /\ [Top EXCEPT !.phase = "defers"] \in FrameRec
        /\ [Top EXCEPT !.phase = "defers"].kind = Top.kind
        /\ [Top EXCEPT !.phase = "defers"].saved = Top.saved
    BY <1>1, <2>2, FrameInPhase
  <2> QED  BY <1>1, <1>2, <1>3, <2>1, <2>3
<1>6. CASE BlockGets
  <2>1. UNCHANGED << depth, yieldTo, pending, picks, promises >> /\ done \in Completions
    BY <1>6 DEF BlockGets, Gets, loopVars
  <2>2. CASE done' = "run" /\ UNCHANGED frames
    <3>1. Control(frames', depth', yieldTo', Len(promises')) /\ Last(frames').kind = "block"
      BY <1>1, <2>1, <2>2 DEF ControlInv, Top
    <3> QED  BY <1>2, <2>1, <2>2, <3>1, ControlKept DEF Plain
  <2>3. CASE frames' = Become([Top EXCEPT !.phase = "defers", !.base = done]) /\ done' = "run"
    <3>1. /\ [Top EXCEPT !.phase = "defers", !.base = done] \in FrameRec
          /\ [Top EXCEPT !.phase = "defers", !.base = done].kind = Top.kind
          /\ [Top EXCEPT !.phase = "defers", !.base = done].saved = Top.saved
      BY <1>1, <2>1, FrameWithBase
    <3> QED  BY <1>1, <1>2, <1>3, <2>1, <2>3, <3>1
  <2>4. CASE PopWith(done)
    BY <1>1, <1>2, <2>1, <2>4, FrameEnds DEF Plain
  <2> QED  BY <1>6, <2>2, <2>3, <2>4 DEF BlockGets
<1>7. CASE BlockIsDone
  BY <1>1, <1>2, <1>7, FrameEnds DEF BlockIsDone, loopVars, Plain
<1> QED
  BY <1>4, <1>5, <1>6, <1>7
LEMMA LoopSwitchControl ==
  ASSUME ControlInv, ScriptAssumption, Len(promises) \in Nat,
         LoopTurns \/ LoopGets \/ SwitchTurns \/ SwitchGets
  PROVE  ControlInv'
<1>1. frames # << >> /\ Top.kind \in {"loop", "switch"} /\ Top \in FrameRec
  BY TopKnows DEF LoopTurns, Runs, LoopGets, Gets, SwitchTurns, SwitchGets
<1>2. UNCHANGED << depth, yieldTo, promises >>
  BY DEF LoopTurns, LoopGets, SwitchTurns, SwitchGets, loopVars
<1>3. /\ Control(frames, depth, yieldTo, Len(promises)) /\ frames \in Seq(FrameRec)
      /\ picks \in 0 .. MaxPicks /\ MaxPicks \in Nat /\ pending \in BOOLEAN
      /\ Top = Last(frames) /\ Top.kind \in Plain \ {"await", "try"}
  BY <1>1 DEF ControlInv, Control, StackOK, ScriptAssumption, Top, Plain
<1>4. ASSUME UNCHANGED << frames, pending, picks >>, done' = "run"
      PROVE  ControlInv'
  BY <1>2, <1>3, <1>4, ControlKept
<1>5. ASSUME NEW c \in Completions, PopWith(c), pending' \in BOOLEAN, picks' = picks
      PROVE  ControlInv'
  BY <1>1, <1>2, <1>3, <1>5, FrameEnds
<1>6. CASE LoopTurns
  <2>1. CASE /\ picks < MaxPicks /\ frames' = Append(frames, BlockFrame)
             /\ picks' = picks + 1 /\ UNCHANGED << done, pending >>
    <3>1. Control(Append(frames, BlockFrame), depth, yieldTo, Len(promises))
      BY <1>1, <1>3, PlainPushes, BlockFrameTyped DEF Plain
    <3>2. Last(Append(frames, BlockFrame)) = BlockFrame
      BY <1>3, LastOfAppended, BlockFrameTyped
    <3>3. picks' \in 0 .. MaxPicks /\ done' = "run"
      BY <1>3, <1>6, <2>1 DEF LoopTurns, Runs
    <3> QED
      BY <1>2, <1>3, <2>1, <3>1, <3>2, <3>3, ControlKept, BlockFrameTyped DEF Plain
  <2>2. CASE PopWith("normal") /\ UNCHANGED << pending, picks >>
    BY <1>3, <1>5, <2>2 DEF Completions
  <2>3. CASE PopWith(Failure) /\ pending' = FALSE /\ UNCHANGED picks
    BY <1>3, <1>5, <2>3, FailureIs
  <2> QED  BY <1>6, <2>1, <2>2, <2>3 DEF LoopTurns
<1>7. CASE LoopGets
  <2>1. UNCHANGED << pending, picks >>
    BY <1>7 DEF LoopGets
  <2>2. (done' = "run" /\ UNCHANGED frames) \/ PopWith("normal") \/ PopWith(done)
    BY <1>7 DEF LoopGets
  <2>3. done \in Completions
    BY <1>7 DEF LoopGets, Gets
  <2>4. PopWith("normal") => ControlInv'
    BY <1>3, <1>5, <2>1 DEF Completions
  <2>5. PopWith(done) => ControlInv'
    BY <1>3, <1>5, <2>1, <2>3
  <2> QED  BY <1>4, <2>1, <2>2, <2>4, <2>5
<1>8. CASE SwitchTurns
  <2>1. UNCHANGED << pending, picks >> /\ done = "run"
    BY <1>8 DEF SwitchTurns, Runs
  <2>2. CASE /\ Top.left > 0
             /\ frames' = Become([Top EXCEPT !.left = Top.left - 1]) \o << BlockFrame >>
             /\ UNCHANGED done
    <3> DEFINE f == [Top EXCEPT !.left = Top.left - 1]
    <3>1. Top.left - 1 \in Nat
      BY <1>1, <2>2 DEF FrameRec
    <3>2. f \in FrameRec /\ f.kind = Top.kind /\ f.saved = Top.saved
      BY <1>1, <3>1, FrameWithLeft
    <3>3. frames' = Become(f) \o << BlockFrame >>
      BY <2>2
    <3> HIDE DEF f
    <3>4. /\ Control(frames', depth, yieldTo, Len(promises)) /\ Last(frames') = BlockFrame
      BY <1>1, <1>3, <3>2, <3>3, FrameGoesOn
    <3>5. /\ Control(frames', depth', yieldTo', Len(promises')) /\ Len(promises') \in Nat
          /\ pending' \in BOOLEAN /\ picks' \in 0 .. MaxPicks
      BY <1>2, <1>3, <2>1, <3>4
    <3>6. Last(frames').kind \in Plain \ {"try"} /\ done' = "run"
      BY <2>1, <2>2, <3>4, BlockFrameTyped DEF Plain
    <3> QED  BY <3>5, <3>6, ControlKept
  <2>3. CASE PopWith("normal")
    BY <1>3, <1>5, <2>1, <2>3 DEF Completions
  <2> QED  BY <1>8, <2>2, <2>3 DEF SwitchTurns
<1>9. CASE SwitchGets
  <2>1. UNCHANGED << pending, picks >>
    BY <1>9 DEF SwitchGets
  <2>2. (done' = "run" /\ UNCHANGED frames) \/ PopWith("normal") \/ PopWith(done)
    BY <1>9 DEF SwitchGets
  <2>3. done \in Completions
    BY <1>9 DEF SwitchGets, Gets
  <2>4. PopWith("normal") => ControlInv'
    BY <1>3, <1>5, <2>1 DEF Completions
  <2>5. PopWith(done) => ControlInv'
    BY <1>3, <1>5, <2>1, <2>3
  <2> QED  BY <1>4, <2>1, <2>2, <2>4, <2>5
<1> QED
  BY <1>6, <1>7, <1>8, <1>9

(* try: a catch cuts the stack trace, finally runs on the way out *)
LEMMA TryControl ==
  ASSUME ControlInv, Len(promises) \in Nat, TryGets
  PROVE  ControlInv'
<1>1. /\ frames # << >> /\ Top.kind = "try" /\ Top \in FrameRec /\ done \in Completions
      /\ UNCHANGED << yieldTo, pending, picks, promises >>
  BY TopKnows DEF TryGets, Gets, loopVars
<1>2. /\ Control(frames, depth, yieldTo, Len(promises))
      /\ picks \in 0 .. MaxPicks /\ pending \in BOOLEAN
      /\ Top = Last(frames) /\ "try" \in Plain /\ Top.base \in Completions
  BY <1>1 DEF ControlInv, Top, Plain, FrameRec
<1>3. ASSUME NEW c \in Completions, PopWith(c), depth' = depth
      PROVE  ControlInv'
  BY <1>1, <1>2, <1>3, FrameEnds
<1>4. ASSUME NEW c \in Completions, Finally(Top, c), depth' = depth
      PROVE  ControlInv'
  <2>1. CASE Top.fin
    <3> DEFINE f == [Top EXCEPT !.phase = "finally", !.base = c]
    <3>1. f \in FrameRec /\ f.kind = Top.kind /\ f.saved = Top.saved
      <4>1. "finally" \in {"body", "defers", "catch", "finally"}  OBVIOUS
      <4> QED  BY <1>1, <4>1, FrameWithBase
    <3>2. frames' = Become(f) \o << BlockFrame >> /\ done' = "run"
      BY <1>4, <2>1 DEF Finally
    <3> HIDE DEF f
    <3>3. Control(frames', depth, yieldTo, Len(promises)) /\ Last(frames') = BlockFrame
      BY <1>1, <1>2, <3>1, <3>2, FrameGoesOn
    <3> QED  BY <1>1, <1>2, <1>4, <3>2, <3>3, ControlKept, BlockFrameTyped DEF Plain
  <2>2. CASE ~Top.fin
    BY <1>3, <1>4, <2>2 DEF Finally
  <2> QED  BY <2>1, <2>2
<1>5. CASE /\ depth' = Min({depth, Top.saved}) /\ done' = "run"
           /\ frames' = Become([Top EXCEPT !.phase = "catch"]) \o << BlockFrame >>
  <2> DEFINE f == [Top EXCEPT !.phase = "catch"]
             d == Min({depth, Top.saved})
  <2>1. f \in FrameRec /\ f.kind = Top.kind /\ f.saved = Top.saved
    <3>1. "catch" \in {"body", "defers", "catch", "finally"}  OBVIOUS
    <3> QED  BY <1>1, <3>1, FrameInPhase
  <2>2. frames' = Become(f) \o << BlockFrame >>
    BY <1>5
  <2>3. Control(frames, d, yieldTo, Len(promises))
    BY <1>1, <1>2, TraceIsCut
  <2> HIDE DEF f, d
  <2>4. Front(frames) \in Seq(FrameRec)
    BY <1>1, <1>2, Unstacked
  <2>5. Become(f) = Append(Front(frames), f)
    BY <2>1, <2>4, FewOnTop DEF Become
  <2>6. Control(Become(f), d, yieldTo, Len(promises))
    BY <1>1, <1>2, <2>1, <2>3, <2>5, PlainGoesOn
  <2>7. Become(f) # << >> /\ Become(f) \in Seq(FrameRec)
    BY <2>1, <2>4, <2>5
  <2>8. frames' = Append(Become(f), BlockFrame)
    BY <2>2, <2>7, FewOnTop, BlockFrameTyped
  <2>9. Control(frames', d, yieldTo, Len(promises))
    BY <2>6, <2>7, <2>8, PlainPushes, BlockFrameTyped DEF Plain
  <2>10. Last(frames') = BlockFrame
    BY <2>7, <2>8, LastOfAppended, BlockFrameTyped
  <2> QED  BY <1>1, <1>2, <1>5, <2>9, <2>10, ControlKept, BlockFrameTyped DEF Plain, d
<1>6. \/ PopWith("error") /\ UNCHANGED depth
      \/ /\ depth' = Min({depth, Top.saved}) /\ done' = "run"
         /\ frames' = Become([Top EXCEPT !.phase = "catch"]) \o << BlockFrame >>
      \/ Finally(Top, done) /\ UNCHANGED depth
      \/ PopWith(Top.base) /\ UNCHANGED depth
      \/ PopWith(done) /\ UNCHANGED depth
  BY DEF TryGets
<1>7. "error" \in Completions
  BY DEF Completions, Abrupt
<1> QED
  BY <1>1, <1>2, <1>3, <1>4, <1>5, <1>6, <1>7

LEMMA StartBodyControl ==
  ASSUME ControlInv, ScriptAssumption, Len(promises) \in Nat,
         NEW kind \in {"call", "method"}, NEW l \in {0, 1}, StartBody(kind, l)
  PROVE  ControlInv'
<1> DEFINE G == Become(Picked)
           n == Len(promises)
           f == [Frame(kind) EXCEPT !.saved = yieldTo, !.left = l]
           y == IF kind = "call" THEN Len(frames) + 1 ELSE yieldTo
<1>1. /\ MayPick /\ picks' = Min({picks + 1, MaxPicks}) /\ frames' = G \o << f, BlockFrame >>
      /\ done = "run" /\ depth' = depth + l /\ yieldTo' = y
      /\ UNCHANGED << done, pending, promises >>
  BY DEF StartBody, Start, MayPick, Runs, loopVars
<1>2. /\ Control(G, depth, yieldTo, n) /\ G \in Seq(FrameRec) /\ G # << >>
      /\ picks' \in 0 .. MaxPicks /\ Len(G) = Len(frames)
  BY <1>1, Picks
<1>3. yieldTo \in Nat
  BY <1>2 DEF Control, Innermost
<1>4. f \in FrameRec /\ f.kind = kind /\ f.saved = yieldTo /\ f.left = l
  <2>1. Frame(kind) \in FrameRec /\ Frame(kind).kind = kind
    BY FramesTyped DEF FrameKinds
  <2>2. /\ [Frame(kind) EXCEPT !.saved = yieldTo] \in FrameRec
        /\ [Frame(kind) EXCEPT !.saved = yieldTo].kind = kind
        /\ [Frame(kind) EXCEPT !.saved = yieldTo].saved = yieldTo
    BY <1>3, <2>1, FrameWithSaved
  <2>3. l \in Nat  OBVIOUS
  <2> QED  BY <2>2, <2>3, FrameWithLeft
<1> HIDE DEF G, f
<1>5. Control(Append(G, f), depth + f.left, IF f.kind = "call" THEN Len(G) + 1 ELSE yieldTo, n)
  BY <1>2, <1>4, CallPushes
<1>6. Control(Append(G, f), depth', yieldTo', n)
  BY <1>1, <1>2, <1>4, <1>5
<1>7. Append(G, f) # << >> /\ Append(G, f) \in Seq(FrameRec)
  BY <1>2, <1>4
<1>8. frames' = Append(Append(G, f), BlockFrame)
  BY <1>1, <1>2, <1>4, FewOnTop, BlockFrameTyped, SMTT(30)
<1>9. Control(frames', depth', yieldTo', n)
  BY <1>6, <1>7, <1>8, PlainPushes, BlockFrameTyped DEF Plain
<1>10. Last(frames') = BlockFrame
  BY <1>7, <1>8, LastOfAppended, BlockFrameTyped
<1> QED
  BY <1>1, <1>2, <1>9, <1>10, ControlKept, BlockFrameTyped DEF Plain, ControlInv

LEMMA ReturnControl ==
  ASSUME ControlInv, Len(promises) \in Nat, CallReturns
  PROVE  ControlInv'
<1>1. /\ frames # << >> /\ Top.kind \in {"call", "method"}
      /\ frames' = Front(frames)
      /\ done' \in Completions /\ done' # "run"
      /\ pending' \in BOOLEAN
      /\ depth' \in {depth, depth - Top.left}
      /\ yieldTo' = (IF Top.kind = "call" THEN Top.saved ELSE yieldTo)
      /\ UNCHANGED << picks, promises >>
  <2>1. "throw" \in Completions /\ "normal" \in Completions /\ "run" \notin Completions
    BY DEF Completions, Abrupt
  <2> QED  BY <2>1, FailureIs DEF CallReturns, Gets, PopWith, loopVars, ControlInv
<1>2. Control(frames, depth, yieldTo, Len(promises)) /\ picks \in 0 .. MaxPicks
  BY DEF ControlInv
<1>3. Control(frames', depth', yieldTo', Len(promises))
  BY <1>1, <1>2, CallPops DEF Top
<1> QED
  BY <1>1, <1>2, <1>3, ControlKept
LEMMA EnterControl ==
  ASSUME ControlInv, ScriptAssumption, Len(promises) \in Nat,
         NEW kind \in {"host", "module"}, EnterMachine(kind)
  PROVE  ControlInv'
<1> DEFINE n == Len(promises)
           f == [Frame(kind) EXCEPT !.saved = depth]
<1>1. /\ done' = done /\ yieldTo' = yieldTo /\ promises' = promises /\ pending' = FALSE
      /\ depth' = IF kind = "host" THEN depth + 1 ELSE depth
  BY DEF EnterMachine, loopVars
<1>2. Control(frames, depth, yieldTo, n) /\ picks \in 0 .. MaxPicks /\ MaxPicks \in Nat
      /\ done \in Completions \cup {"run", "abort"} /\ depth \in Nat
  BY DEF ControlInv, ScriptAssumption, Control
<1>3. f \in FrameRec /\ f.kind = kind /\ f.saved = depth
  <2>1. Frame(kind) \in FrameRec /\ Frame(kind).kind = kind
    BY FramesTyped DEF FrameKinds
  <2> QED  BY <1>2, <2>1, FrameWithSaved
<1>4. ASSUME NEW G, G \in Seq(FrameRec), Control(G, depth, yieldTo, n),
             frames' = G \o << f, BlockFrame >>, picks' \in 0 .. MaxPicks
      PROVE  ControlInv'
  <2> HIDE DEF f
  <2>1. Control(Append(G, f), depth', yieldTo', n)
    BY <1>1, <1>3, <1>4, MachinePushes
  <2>2. Append(G, f) # << >> /\ Append(G, f) \in Seq(FrameRec)
    BY <1>3, <1>4
  <2>3. frames' = Append(Append(G, f), BlockFrame)
    BY <1>3, <1>4, FewOnTop, BlockFrameTyped
  <2>4. Control(frames', depth', yieldTo', n)
    BY <2>1, <2>2, <2>3, PlainPushes, BlockFrameTyped DEF Plain
  <2>5. Last(frames') = BlockFrame
    BY <2>2, <2>3, LastOfAppended, BlockFrameTyped
  <2>6. Last(frames').kind \in Plain \ {"try"}
    BY <2>5, BlockFrameTyped DEF Plain
  <2> QED  BY <1>1, <1>2, <1>4, <2>4, <2>6, ControlKept
<1>5. CASE Start(Entry(kind))
  <2>1. /\ MayPick /\ picks' = Min({picks + 1, MaxPicks})
        /\ frames' = Become(Picked) \o << f, BlockFrame >>
    BY <1>5 DEF Start, Entry
  <2>2. /\ Control(Become(Picked), depth, yieldTo, n) /\ Become(Picked) \in Seq(FrameRec)
        /\ picks' \in 0 .. MaxPicks
    BY <2>1, Picks
  <2> HIDE DEF f
  <2> QED  BY <1>4, <2>1, <2>2
<1>6. CASE /\ frames = << >> /\ picks < MaxPicks
           /\ frames' = Entry(kind) /\ picks' = picks + 1
  <2>1. frames' = << f, BlockFrame >>
    BY <1>6 DEF Entry
  <2> HIDE DEF f
  <2>2. frames \in Seq(FrameRec)
    BY <1>2 DEF Control, StackOK
  <2>3. frames' = frames \o << f, BlockFrame >>
    BY <1>3, <1>6, <2>1, BlockFrameTyped
  <2>4. picks' \in 0 .. MaxPicks
    BY <1>2, <1>6
  <2> QED  BY <1>2, <1>4, <2>2, <2>3, <2>4
<1> QED
  BY <1>5, <1>6 DEF EnterMachine

LEMMA MachineControl ==
  ASSUME ControlInv, Len(promises) \in Nat, MachineReturns
  PROVE  ControlInv'
<1>1. /\ frames # << >> /\ Top.kind \in {"host", "module"}
      /\ frames' = Front(frames) /\ depth' = Min({depth, Top.saved})
      /\ done' \in Completions \cup {"run", "abort"}
      /\ pending' \in BOOLEAN
      /\ UNCHANGED << yieldTo, picks, promises >>
  <2>1. "throw" \in Completions /\ "normal" \in Completions
    BY DEF Completions, Abrupt
  <2> QED  BY <2>1, FailureIs DEF MachineReturns, Gets, PopWith, loopVars, ControlInv
<1>2. Control(frames, depth, yieldTo, Len(promises)) /\ picks \in 0 .. MaxPicks
  BY DEF ControlInv
<1>3. Control(frames', depth', yieldTo', Len(promises))
  BY <1>1, <1>2, MachinePops DEF Top
<1>4. done' = "run" => frames' = << >>
  <2>1. done' = "run" => Len(frames) = 1
    BY FailureIs DEF MachineReturns, PopWith
  <2>2. Len(frames) = 1 => Front(frames) = << >>
    <3>1. frames \in Seq(FrameRec)
      BY <1>2 DEF Control, StackOK
    <3>2. Len(frames) = 1 => Len(Front(frames)) = 0 /\ Front(frames) \in Seq(FrameRec)
      BY <1>1, <3>1, TopAndRest
    <3> QED  BY <3>2
  <2> QED  BY <1>1, <2>1, <2>2
<1> QED
  BY <1>1, <1>2, <1>3, <1>4, ControlKept

LEMMA AwaitControl ==
  ASSUME ControlInv, ScriptAssumption, Len(promises) \in Nat, promises \in Seq(Settled \cup {"pending"}),
         StartAwait \/ AwaitEnds \/ AwaitStopped \/ AwaitDeadlock
  PROVE  ControlInv'
<1>1. CASE StartAwait
  <2> DEFINE G == Become(Picked)
             n == Len(promises)
  <2>1. PICK p \in DOMAIN promises :
          /\ Start(<< [Frame("await") EXCEPT !.left = p] >>)
          /\ UNCHANGED << done, depth, yieldTo, pending, loopVars >>
    BY <1>1 DEF StartAwait
  <2> DEFINE f == [Frame("await") EXCEPT !.left = p]
  <2>2. p \in 1 .. n /\ p \in Nat
    OBVIOUS
  <2>3. f \in FrameRec /\ f.kind = "await" /\ f.left = p
    <3>1. Frame("await") \in FrameRec /\ Frame("await").kind = "await"
      BY FramesTyped DEF FrameKinds
    <3> QED  BY <2>2, <3>1, FrameWithLeft
  <2>4. /\ MayPick /\ picks' = Min({picks + 1, MaxPicks}) /\ frames' = G \o << f >>
        /\ done = "run" /\ UNCHANGED << done, depth, yieldTo, pending, promises >>
    BY <2>1 DEF Start, MayPick, Runs, loopVars
  <2>5. /\ Control(G, depth, yieldTo, n) /\ G \in Seq(FrameRec) /\ G # << >>
        /\ picks' \in 0 .. MaxPicks
    BY <2>4, Picks
  <2> HIDE DEF G, f
  <2>6. frames' = Append(G, f) /\ Last(frames') = f
    <3>1. frames' = Append(G, f)
      BY <2>3, <2>4, <2>5
    <3>2. Last(Append(G, f)) = f
      BY <2>3, <2>5, LastOfAppended
    <3> QED  BY <3>1, <3>2
  <2>7. Control(frames', depth, yieldTo, n)
    BY <2>2, <2>3, <2>5, <2>6, PlainPushes DEF Plain
  <2>8. Last(frames').kind \in Plain \ {"try"}
    BY <2>3, <2>6 DEF Plain
  <2> QED  BY <2>4, <2>5, <2>7, <2>8, ControlKept DEF ControlInv
<1>2. CASE AwaitEnds \/ AwaitStopped \/ AwaitDeadlock
  <2>1. /\ frames # << >> /\ Top.kind = "await"
        /\ PopWith("throw") \/ PopWith("normal") \/ PopWith(Failure)
        /\ UNCHANGED << depth, yieldTo, picks, promises >>
        /\ pending' \in BOOLEAN
    BY <1>2 DEF AwaitEnds, AwaitStopped, AwaitDeadlock, Waits, Runs, loopVars, ControlInv
  <2>2. "throw" \in Completions /\ "normal" \in Completions /\ Failure \in Completions
    BY FailureIs DEF Completions, Abrupt
  <2>3. Top.kind \in Plain
    BY <2>1 DEF Plain
  <2>4. \A c \in Completions : PopWith(c) => ControlInv'
    BY <2>1, <2>3, FrameEnds
  <2> QED  BY <2>1, <2>2, <2>4
<1> QED
  BY <1>1, <1>2

LEMMA SchedulerControl ==
  ASSUME ControlInv, LoopInv, Len(promises) \in Nat, Len(promises') \in Nat,
         Len(promises') >= Len(promises),
         \/ RunDueTimers \/ PollSockets \/ SocketTimesOut \/ SleepToTimer \/ ClockTicks
         \/ RunTask \/ TaskEnds
  PROVE  ControlInv'
<1>1. /\ Control(frames, depth, yieldTo, Len(promises)) /\ picks \in 0 .. MaxPicks
      /\ pending \in BOOLEAN /\ frames \in Seq(FrameRec)
  BY DEF ControlInv, Control, StackOK
<1>2. ASSUME UNCHANGED << frames, depth, yieldTo, picks >>, pending' \in BOOLEAN,
             Waits, done' \in {"run", "abort"}
      PROVE  ControlInv'
  <2>1. Control(frames', depth', yieldTo', Len(promises'))
    BY <1>1, <1>2, ControlForMore
  <2>2. Last(frames').kind \in Plain \ {"try"}
    BY <1>2 DEF Waits, Runs, Top, Plain
  <2> QED  BY <1>1, <1>2, <2>1, <2>2, ControlKept
<1>3. CASE RunDueTimers \/ SleepToTimer \/ ClockTicks
  BY <1>1, <1>2, <1>3 DEF RunDueTimers, SleepToTimer, ClockTicks, Waits, Runs
<1>4. CASE PollSockets
  BY <1>1, <1>2, <1>4 DEF PollSockets
<1>5. CASE SocketTimesOut
  BY <1>1, <1>2, <1>5 DEF SocketTimesOut
<1>6. CASE RunTask
  <2>1. CASE UNCHANGED << frames, depth >>
    BY <1>1, <1>2, <1>6, <2>1 DEF RunTask, Waits, Runs
  <2>2. CASE /\ frames' = frames \o << [Frame("task") EXCEPT !.left = Head(tasks)], BlockFrame >>
             /\ depth' = depth + 1 /\ UNCHANGED << pending, promises >>
    <3> DEFINE f == [Frame("task") EXCEPT !.left = Head(tasks)]
    <3>1. tasks # << >> /\ frames # << >> /\ Last(frames).kind = "await" /\ done = "run"
          /\ UNCHANGED << done, yieldTo, picks >>
      BY <1>6 DEF RunTask, Waits, Runs, Top
    <3>2. Head(tasks) \in 1 .. Len(promises)
      BY <3>1 DEF LoopInv, Queued
    <3>3. f \in FrameRec /\ f.kind = "task" /\ f.left = Head(tasks)
      <4>1. Frame("task") \in FrameRec /\ Frame("task").kind = "task" /\ Head(tasks) \in Nat
        BY <3>2, FramesTyped DEF FrameKinds
      <4> QED  BY <4>1, FrameWithLeft
    <3>4. frames' = frames \o << f, BlockFrame >>
      BY <2>2
    <3> HIDE DEF f
    <3>5. frames' = Append(Append(frames, f), BlockFrame)
      BY <1>1, <3>3, <3>4, FewOnTop, BlockFrameTyped
    <3>6. Control(Append(frames, f), depth + 1, yieldTo, Len(promises))
      BY <1>1, <3>1, <3>2, <3>3, TaskPushes
    <3>7. Append(frames, f) # << >> /\ Append(frames, f) \in Seq(FrameRec)
      BY <1>1, <3>3
    <3>8. Control(frames', depth + 1, yieldTo, Len(promises))
      BY <3>5, <3>6, <3>7, PlainPushes, BlockFrameTyped DEF Plain
    <3>9. Last(frames').kind \in Plain \ {"try"}
      BY <3>5, <3>7, LastOfAppended, BlockFrameTyped DEF Plain
    <3> QED  BY <1>1, <2>2, <3>1, <3>8, <3>9, ControlKept
  <2> QED  BY <1>6, <2>1, <2>2 DEF RunTask
<1>7. CASE TaskEnds
  <2>1. /\ frames # << >> /\ Last(frames).kind = "task" /\ frames' = Front(frames)
        /\ done' = "run" /\ depth' = depth - 1 /\ UNCHANGED << yieldTo, pending, picks >>
    BY <1>7 DEF TaskEnds, Gets, Top, PopWith
  <2>2. /\ Control(Front(frames), depth - 1, yieldTo, Len(promises))
        /\ Last(Front(frames)).kind = "await"
    BY <1>1, <2>1, TaskPops
  <2>3. Control(frames', depth', yieldTo', Len(promises')) /\ Last(frames').kind \in Plain \ {"try"}
    BY <2>1, <2>2, ControlForMore DEF Plain
  <2> QED  BY <1>1, <2>1, <2>3, ControlKept
<1> QED
  BY <1>3, <1>4, <1>5, <1>6, <1>7

LEMMA ControlStep ==
  ASSUME ScriptAssumption, ControlInv, LoopInv, ScriptNext
  PROVE  ControlInv'
<1>1. /\ LoopInv' /\ Len(promises') >= Len(promises) /\ Len(promises) \in Nat
      /\ Len(promises') \in Nat /\ promises \in Seq(Settled \cup {"pending"})
  <2>1. LoopInv' /\ Len(promises') >= Len(promises) /\ Len(promises) \in Nat
    BY LoopStep
  <2> QED  BY <2>1 DEF LoopInv
<1>2. CASE \/ SimpleStatement \/ Jump \/ FailingExpression \/ YieldStatement \/ CallUnbound
           \/ CallAsync \/ CallSleep \/ CallPromise \/ CallSettle \/ CallSocket \/ CloseSocket
  <2>1. "normal" \in Completions /\ "error" \in Completions /\ "throw" \in Completions
        /\ Abrupt \subseteq Completions
    BY DEF Completions, Abrupt
  <2>2. /\ Start(<< >>) /\ done' \in Completions \cup {"abort"}
        /\ UNCHANGED << depth, yieldTo >> /\ pending' \in BOOLEAN
    BY <1>2, <2>1, FailureIs
       DEF SimpleStatement, Jump, FailingExpression, YieldStatement, CallUnbound, CallAsync,
           CallSleep, CallPromise, CallSettle, CallSocket, CloseSocket, NativeSucceeds, ControlInv
  <2> QED  BY <1>1, <2>2, StatementEnds
<1>3. CASE Nest
  BY <1>1, <1>3, NestControl
<1>4. CASE DeferStatement \/ BlockEnds \/ BlockGets \/ BlockIsDone
  BY <1>1, <1>4, BlockControl
<1>5. CASE LoopTurns \/ LoopGets \/ SwitchTurns \/ SwitchGets
  BY <1>1, <1>5, LoopSwitchControl
<1>6. CASE TryGets
  BY <1>1, <1>6, TryControl
<1>7. CASE CallFunction \/ CallThroughPipe \/ CallMethod \/ ConstructThroughPipe
  BY <1>1, <1>7, StartBodyControl
     DEF CallFunction, CallThroughPipe, CallMethod, ConstructThroughPipe
<1>8. CASE CallReturns
  BY <1>1, <1>8, ReturnControl
<1>9. CASE HostCalls \/ RequireModule
  BY <1>1, <1>9, EnterControl DEF HostCalls, RequireModule
<1>10. CASE MachineReturns
  BY <1>1, <1>10, MachineControl
<1>11. CASE StartAwait \/ AwaitEnds \/ AwaitStopped \/ AwaitDeadlock
  BY <1>1, <1>11, AwaitControl
<1>12. CASE \/ RunDueTimers \/ PollSockets \/ SocketTimesOut \/ SleepToTimer \/ ClockTicks
            \/ RunTask \/ TaskEnds
  BY <1>1, <1>12, SchedulerControl
<1>13. CASE ScriptIsOver
  BY <1>13 DEF ScriptIsOver, scriptVars, ControlInv, Top
<1> QED
  BY <1>2, <1>3, <1>4, <1>5, <1>6, <1>7, <1>8, <1>9, <1>10, <1>11, <1>12, <1>13
     DEF ScriptNext
-----------------------------------------------------------------------------
(* Owners of promises *)

TaskOf(p) == {f \in FrameRec : f.kind = "task" /\ f.left = p}
TimerOf(p) == {t \in [due : Int, p : Int] : t.p = p}

QueuedTasks(ts, p) == Tally(ts, {p})
RunningTasks(fs, p) == Tally(fs, TaskOf(p))
TimersFor(ti, p) == Tally(ti, TimerOf(p))
OperationsFor(so, p) == Cardinality({io \in so : io.p = p})

OwnInv ==
  \A p \in 1 .. Len(promises) :
    promises[p] = "pending" /\ p \notin lost =>
      QueuedTasks(tasks, p) + RunningTasks(frames, p) + TimersFor(timers, p)
        + OperationsFor(sockets, p) = 1

(* The steps that only the evaluator takes put frames on the stack and off it, *)
(* but no tasks.                                                              *)
SameTasks == \A p : RunningTasks(frames', p) = RunningTasks(frames, p)

Taskless(s) == s \in Seq(FrameRec) /\ \A i \in 1 .. Len(s) : s[i].kind # "task"

LEMMA TasklessOnTop ==
  ASSUME NEW fs \in Seq(FrameRec), NEW s, Taskless(s), NEW p
  PROVE  RunningTasks(fs \o s, p) = RunningTasks(fs, p) /\ RunningTasks(fs, p) \in Nat
<1>1. s \in Seq(FrameRec) /\ DOMAIN s = 1 .. Len(s) /\ Len(fs) \in Nat
  BY DEF Taskless
<1>2. \A i \in DOMAIN s : s[i] \notin TaskOf(p)
  BY <1>1 DEF TaskOf, Taskless
<1>3. Tally(s, TaskOf(p)) = 0
  BY <1>1, <1>2, TallyOfNone
<1>4. Tally(fs \o s, TaskOf(p)) = Tally(fs, TaskOf(p)) + Tally(s, TaskOf(p))
  BY <1>1, TallyOfConcat
<1>5. Tally(fs, TaskOf(p)) \in Nat
  <2>1. Tally(fs, TaskOf(p)) \in 0 .. Len(fs)  BY TallyIsNat
  <2> QED  BY <1>1, <2>1
<1> QED
  BY <1>3, <1>4, <1>5 DEF RunningTasks

LEMMA TopTaskless ==
  ASSUME NEW fs \in Seq(FrameRec), fs # << >>, NEW p, Last(fs) \notin TaskOf(p)
  PROVE  RunningTasks(Front(fs), p) = RunningTasks(fs, p)
<1>1. /\ fs = Append(Front(fs), Last(fs)) /\ Front(fs) \in Seq(FrameRec)
      /\ Last(fs) \in FrameRec
  BY TopAndRest
<1>2. Tally(Append(Front(fs), Last(fs)), TaskOf(p)) = Tally(Front(fs), TaskOf(p)) + 0
  BY <1>1, TallyOfAppend
<1>3. Tally(Front(fs), TaskOf(p)) \in Nat
  <2>1. Tally(Front(fs), TaskOf(p)) \in 0 .. Len(Front(fs))  BY <1>1, TallyIsNat
  <2>2. Len(Front(fs)) \in Nat  BY <1>1
  <2> QED  BY <2>1, <2>2
<1>4. Tally(fs, TaskOf(p)) = Tally(Append(Front(fs), Last(fs)), TaskOf(p))
  <2> DEFINE g == Append(Front(fs), Last(fs))
  <2>1. fs = g
    BY <1>1
  <2> HIDE DEF g
  <2>2. Tally(fs, TaskOf(p)) = Tally(g, TaskOf(p))
    BY <2>1
  <2> QED  BY <2>2 DEF g
<1> QED
  BY <1>2, <1>3, <1>4 DEF RunningTasks

(* The shapes of those steps *)
LEMMA FewTaskless ==
  /\ Taskless(<< >>)
  /\ \A f \in FrameRec : f.kind # "task" => Taskless(<< f >>)
  /\ \A f \in FrameRec, g \in FrameRec :
       f.kind # "task" /\ g.kind # "task" => Taskless(<< f, g >>)
  BY DEF Taskless

LEMMA AboveTaskless ==
  ASSUME frames \in Seq(FrameRec), NEW s, Taskless(s),
         \/ frames' = frames \o s
         \/ frames # << >> /\ Top.kind # "task" /\ frames' = Front(frames) \o s
  PROVE  SameTasks
<1> SUFFICES ASSUME NEW p PROVE RunningTasks(frames', p) = RunningTasks(frames, p)
  BY DEF SameTasks
<1>1. CASE frames' = frames \o s
  BY <1>1, TasklessOnTop
<1>2. CASE frames # << >> /\ Top.kind # "task" /\ frames' = Front(frames) \o s
  <2>1. Front(frames) \in Seq(FrameRec)
    BY <1>2, TopAndRest
  <2>2. RunningTasks(frames', p) = RunningTasks(Front(frames), p)
    BY <1>2, <2>1, TasklessOnTop
  <2>3. Last(frames) \notin TaskOf(p)
    BY <1>2 DEF TaskOf, Top
  <2> QED  BY <1>2, <2>2, <2>3, TopTaskless
<1> QED
  BY <1>1, <1>2

LEMMA StartTaskless ==
  ASSUME ControlInv, ScriptAssumption, NEW s, Taskless(s), Start(s)
  PROVE  SameTasks
<1>1. frames # << >> /\ Top.kind = "block" /\ frames' = Become(Picked) \o s /\ MayPick
  BY DEF Start, MayPick, Runs
<1>2. frames \in Seq(FrameRec)
  BY DEF ControlInv, Control, StackOK
<1>3. Become(Picked) \in Seq(FrameRec) /\ Last(Become(Picked)).kind = "block"
      /\ Become(Picked) # << >>
  BY <1>1, Picks
<1> SUFFICES ASSUME NEW p PROVE RunningTasks(frames', p) = RunningTasks(frames, p)
  BY DEF SameTasks
<1>4. RunningTasks(frames', p) = RunningTasks(Become(Picked), p)
  BY <1>1, <1>3, TasklessOnTop
<1>5. RunningTasks(Front(Become(Picked)), p) = RunningTasks(Become(Picked), p)
  BY <1>3, TopTaskless DEF TaskOf
<1>6. RunningTasks(Front(frames), p) = RunningTasks(frames, p)
  BY <1>1, <1>2, TopTaskless DEF TaskOf, Top
<1>7. Front(Become(Picked)) = Front(frames)
  <2>1. Front(frames) \in Seq(FrameRec) /\ Top \in FrameRec
    BY <1>1, <1>2, TopAndRest DEF Top
  <2>2. Picked \in [kind : FrameKinds, phase : {"body", "defers", "catch", "finally"},
                    left : Int, base : Completions, saved : Nat, fin : BOOLEAN]
    <3> DEFINE R == [kind : FrameKinds, phase : {"body", "defers", "catch", "finally"},
                     left : Int, base : Completions, saved : Nat, fin : BOOLEAN]
    <3>1. ASSUME NEW f \in FrameRec PROVE f \in R /\ [f EXCEPT !.left = f.left - 1] \in R
      BY DEF FrameRec
    <3>2. Top \in R /\ [Top EXCEPT !.left = Top.left - 1] \in R
      BY <2>1, <3>1
    <3>3. Picked = Top \/ Picked = [Top EXCEPT !.left = Top.left - 1]
      BY DEF Picked
    <3> HIDE DEF R
    <3>4. Picked \in R
      BY <3>2, <3>3
    <3> QED  BY <3>4 DEF R
  <2>3. Become(Picked) = Front(frames) \o << Picked >>
    BY DEF Become
  <2>4. Len(Become(Picked)) = Len(Front(frames)) + 1 /\ Len(Front(frames)) \in Nat
    BY <2>1, <2>3
  <2>5. Front(Become(Picked)) = SubSeq(Become(Picked), 1, Len(Front(frames)))
    BY <2>4 DEF Front
  <2> DEFINE F == Front(frames)
  <2>6. F \in Seq(FrameRec)
    BY <2>1
  <2> HIDE DEF F
  <2>7. SubSeq(F \o << Picked >>, 1, Len(F)) = F
    BY <2>6
  <2> QED  BY <2>3, <2>5, <2>7 DEF F
<1> QED
  BY <1>4, <1>5, <1>6, <1>7

(* A frame other than that of a task that goes on in another state *)
LEMMA BecomeTaskless ==
  ASSUME ControlInv, frames # << >>, Top.kind # "task", NEW f \in FrameRec, f.kind # "task",
         frames' = Become(f) \/ frames' = Become(f) \o << BlockFrame >>
  PROVE  SameTasks
<1>1. frames \in Seq(FrameRec)
  BY DEF ControlInv, Control, StackOK
<1>2. Front(frames) \in Seq(FrameRec)
  BY <1>1, TopAndRest
<1>3. Become(f) = Front(frames) \o << f >>
  BY DEF Become
<1>4. Become(f) \o << BlockFrame >> = Front(frames) \o << f, BlockFrame >>
  <2> DEFINE F == Front(frames)
  <2>1. F \in Seq(FrameRec)
    BY <1>2
  <2> HIDE DEF F
  <2>2. (F \o << f >>) \o << BlockFrame >> = F \o << f, BlockFrame >>
    BY <2>1, BlockFrameTyped
  <2> QED  BY <1>3, <2>2 DEF F
<1>5. Taskless(<< f >>) /\ Taskless(<< f, BlockFrame >>)
  BY FewTaskless, BlockFrameTyped
<1> QED
  BY <1>1, <1>3, <1>4, <1>5, AboveTaskless

LEMMA PopTaskless ==
  ASSUME ControlInv, frames # << >>, Top.kind # "task", frames' = Front(frames)
  PROVE  SameTasks
<1>1. frames \in Seq(FrameRec)
  BY DEF ControlInv, Control, StackOK
<1>2. Front(frames) \in Seq(FrameRec)
  BY <1>1, TopAndRest
<1>3. Front(frames) \o << >> = Front(frames)
  BY <1>2, FewOnTop
<1> QED
  BY <1>1, <1>3, AboveTaskless, FewTaskless

LEMMA StatementTaskless ==
  ASSUME ControlInv, LoopInv, ScriptAssumption,
         \/ SimpleStatement \/ Jump \/ FailingExpression \/ Nest \/ YieldStatement
         \/ CallFunction \/ CallThroughPipe \/ CallMethod \/ ConstructThroughPipe
         \/ CallUnbound \/ HostCalls \/ RequireModule
         \/ CallAsync \/ CallSleep \/ CallPromise \/ CallSettle \/ CallSocket \/ CloseSocket
         \/ StartAwait
  PROVE  SameTasks
<1>1. CASE Start(<< >>)
  BY <1>1, StartTaskless, FewTaskless
<1>2. ASSUME NEW f \in FrameRec, f.kind # "task", Start(<< f >>)
      PROVE  SameTasks
  BY <1>2, StartTaskless, FewTaskless
<1>3. ASSUME NEW f \in FrameRec, f.kind # "task", Start(<< f, BlockFrame >>)
      PROVE  SameTasks
  BY <1>3, StartTaskless, FewTaskless, BlockFrameTyped
<1>4. depth \in Nat /\ yieldTo \in Nat
  BY DEF ControlInv, Control, StackOK, Innermost
<1>5. CASE Nest
  <2>1. CASE Start(<< BlockFrame >>)
    BY <1>2, <2>1, BlockFrameTyped
  <2>2. CASE Start(<< Frame("loop") >>)
    BY <1>2, <2>2, FramesTyped DEF FrameKinds
  <2>3. CASE \E n \in 1 .. 2 : Start(<< [Frame("switch") EXCEPT !.left = n] >>)
    <3>1. PICK n \in 1 .. 2 : Start(<< [Frame("switch") EXCEPT !.left = n] >>)
      BY <2>3
    <3>2. Frame("switch") \in FrameRec /\ Frame("switch").kind = "switch" /\ n \in Nat
      BY FramesTyped DEF FrameKinds
    <3>3. /\ [Frame("switch") EXCEPT !.left = n] \in FrameRec
          /\ [Frame("switch") EXCEPT !.left = n].kind = "switch"
      BY <3>2, FrameWithLeft
    <3> QED  BY <1>2, <3>1, <3>3
  <2>4. CASE \E fin \in BOOLEAN :
               Start(<< [Frame("try") EXCEPT !.fin = fin, !.saved = depth], BlockFrame >>)
    <3>1. PICK fin \in BOOLEAN :
            Start(<< [Frame("try") EXCEPT !.fin = fin, !.saved = depth], BlockFrame >>)
      BY <2>4
    <3>2. Frame("try") \in FrameRec /\ Frame("try").kind = "try"
      BY FramesTyped DEF FrameKinds
    <3>3. /\ [Frame("try") EXCEPT !.fin = fin, !.saved = depth] \in FrameRec
          /\ [Frame("try") EXCEPT !.fin = fin, !.saved = depth].kind = "try"
      BY <1>4, <3>2 DEF FrameRec
    <3> QED  BY <1>3, <3>1, <3>3
  <2> QED  BY <1>5, <2>1, <2>2, <2>3, <2>4 DEF Nest
<1>6. ASSUME NEW kind \in {"call", "method"}, NEW l \in {0, 1}, StartBody(kind, l)
      PROVE  SameTasks
  <2> DEFINE f == [Frame(kind) EXCEPT !.saved = yieldTo, !.left = l]
  <2>1. Frame(kind) \in FrameRec /\ Frame(kind).kind = kind
    BY FramesTyped DEF FrameKinds
  <2>2. f \in FrameRec /\ f.kind # "task"
    <3>1. /\ [Frame(kind) EXCEPT !.saved = yieldTo] \in FrameRec
          /\ [Frame(kind) EXCEPT !.saved = yieldTo].kind = kind
      BY <1>4, <2>1, FrameWithSaved
    <3>2. l \in Nat
      OBVIOUS
    <3> QED  BY <3>1, <3>2, FrameWithLeft
  <2>3. Start(<< f, BlockFrame >>)
    BY <1>6 DEF StartBody
  <2> HIDE DEF f
  <2> QED  BY <1>3, <2>2, <2>3
<1>7. CASE CallFunction \/ CallThroughPipe \/ CallMethod \/ ConstructThroughPipe
  BY <1>6, <1>7 DEF CallFunction, CallThroughPipe, CallMethod, ConstructThroughPipe
<1>8. ASSUME NEW kind \in {"host", "module"}, EnterMachine(kind)
      PROVE  SameTasks
  <2> DEFINE f == [Frame(kind) EXCEPT !.saved = depth]
  <2>1. Frame(kind) \in FrameRec /\ Frame(kind).kind = kind
    BY FramesTyped DEF FrameKinds
  <2>2. f \in FrameRec /\ f.kind # "task"
    BY <1>4, <2>1, FrameWithSaved
  <2>3. Start(<< f, BlockFrame >>) \/ (frames = << >> /\ frames' = << f, BlockFrame >>)
    BY <1>8 DEF EnterMachine, Entry
  <2> HIDE DEF f
  <2>4. CASE frames = << >> /\ frames' = << f, BlockFrame >>
    <3>1. frames \in Seq(FrameRec) /\ << f, BlockFrame >> \in Seq(FrameRec)
      BY <2>2, <2>4, BlockFrameTyped
    <3>2. << >> \o << f, BlockFrame >> = << f, BlockFrame >>
      BY <3>1
    <3>3. frames' = frames \o << f, BlockFrame >>
      BY <2>4, <3>2
    <3>4. Taskless(<< f, BlockFrame >>)
      BY <2>2, FewTaskless, BlockFrameTyped
    <3> QED  BY <3>1, <3>3, <3>4, AboveTaskless
  <2> QED  BY <1>3, <2>2, <2>3, <2>4
<1>9. CASE HostCalls \/ RequireModule
  BY <1>8, <1>9 DEF HostCalls, RequireModule
<1>10. CASE StartAwait
  <2>1. PICK p \in DOMAIN promises : Start(<< [Frame("await") EXCEPT !.left = p] >>)
    BY <1>10 DEF StartAwait
  <2>2. p \in Nat
    BY DEF LoopInv
  <2>3. Frame("await") \in FrameRec /\ Frame("await").kind = "await"
    BY FramesTyped DEF FrameKinds
  <2>4. /\ [Frame("await") EXCEPT !.left = p] \in FrameRec
        /\ [Frame("await") EXCEPT !.left = p].kind = "await"
    BY <2>2, <2>3, FrameWithLeft
  <2> QED  BY <1>2, <2>1, <2>4
<1> QED
  BY <1>1, <1>5, <1>7, <1>9, <1>10
     DEF SimpleStatement, Jump, FailingExpression, YieldStatement, CallUnbound, CallAsync,
         CallSleep, CallPromise, CallSettle, CallSocket, CloseSocket, NativeSucceeds

LEMMA EvaluatorTaskless ==
  ASSUME ControlInv,
         \/ BlockEnds \/ BlockGets \/ BlockIsDone \/ DeferStatement
         \/ LoopTurns \/ LoopGets \/ SwitchTurns \/ SwitchGets \/ TryGets
         \/ CallReturns \/ MachineReturns \/ AwaitEnds \/ AwaitStopped \/ AwaitDeadlock
         \/ ScriptIsOver
  PROVE  SameTasks
<1>1. CASE frames' = frames
  BY <1>1 DEF SameTasks
<1>2. ASSUME frames # << >>, Top.kind # "task", frames' = Front(frames)
      PROVE  SameTasks
  BY <1>2, PopTaskless
<1>3. ASSUME frames # << >>, Top.kind # "task", NEW f \in FrameRec, f.kind = Top.kind,
             frames' = Become(f) \/ frames' = Become(f) \o << BlockFrame >>
      PROVE  SameTasks
  BY <1>3, BecomeTaskless
<1>4. CASE ScriptIsOver
  BY <1>1, <1>4 DEF ScriptIsOver, scriptVars
<1>5. CASE \/ CallReturns \/ MachineReturns \/ AwaitEnds \/ AwaitStopped \/ AwaitDeadlock
           \/ LoopGets \/ SwitchGets \/ BlockIsDone
  BY <1>1, <1>2, <1>5
     DEF CallReturns, MachineReturns, AwaitEnds, AwaitStopped, AwaitDeadlock, LoopGets,
         SwitchGets, BlockIsDone, Waits, Runs, Gets, PopWith
<1>6. CASE \/ BlockEnds \/ BlockGets \/ DeferStatement
           \/ LoopTurns \/ SwitchTurns \/ TryGets
  <2>1. frames # << >> /\ Top.kind \in {"block", "loop", "switch", "try"}
    BY <1>6 DEF BlockEnds, BlockGets, DeferStatement, LoopTurns, SwitchTurns, TryGets,
                MayPick, Runs, Gets
  <2>2. Top \in FrameRec /\ frames \in Seq(FrameRec)
    BY <2>1, TopKnows DEF ControlInv, Control, StackOK
  <2>3. CASE BlockEnds
    <3>1. [Top EXCEPT !.phase = "defers"] \in FrameRec
          /\ [Top EXCEPT !.phase = "defers"].kind = Top.kind
      BY <2>2, FrameInPhase
    <3> QED  BY <1>3, <2>1, <2>3, <3>1 DEF BlockEnds
  <2>4. CASE BlockGets
    <3>1. CASE frames' = Become([Top EXCEPT !.phase = "defers", !.base = done])
      <4>1. done \in Completions
        BY <2>4 DEF BlockGets, Gets
      <4>2. [Top EXCEPT !.phase = "defers", !.base = done] \in FrameRec
            /\ [Top EXCEPT !.phase = "defers", !.base = done].kind = Top.kind
        BY <2>2, <4>1, FrameWithBase
      <4> QED  BY <1>3, <2>1, <3>1, <4>2
    <3>2. frames' = frames \/ frames' = Front(frames)
          \/ frames' = Become([Top EXCEPT !.phase = "defers", !.base = done])
      BY <2>4 DEF BlockGets, PopWith
    <3> QED  BY <1>1, <1>2, <2>1, <3>1, <3>2
  <2>5. CASE DeferStatement
    <3>1. Top.left + 1 \in Nat
      BY <2>2 DEF FrameRec
    <3>2. [Top EXCEPT !.left = Top.left + 1] \in FrameRec
          /\ [Top EXCEPT !.left = Top.left + 1].kind = Top.kind
      BY <2>2, <3>1, FrameWithLeft
    <3>3. frames' = Become([Top EXCEPT !.left = Top.left + 1])
      BY <2>5 DEF DeferStatement
    <3> QED  BY <1>3, <2>1, <3>2, <3>3
  <2>6. CASE LoopTurns
    <3>1. CASE frames' = Append(frames, BlockFrame)
      <4>1. frames' = frames \o << BlockFrame >>
        BY <2>2, <3>1, FewOnTop, BlockFrameTyped
      <4>2. Taskless(<< BlockFrame >>)
        BY FewTaskless, BlockFrameTyped
      <4> QED  BY <2>2, <4>1, <4>2, AboveTaskless
    <3>2. frames' = Append(frames, BlockFrame) \/ frames' = Front(frames)
      BY <2>6 DEF LoopTurns, PopWith
    <3> QED  BY <1>2, <2>1, <3>1, <3>2
  <2>7. CASE SwitchTurns
    <3>1. CASE Top.left > 0 /\ frames' = Become([Top EXCEPT !.left = Top.left - 1]) \o << BlockFrame >>
      <4>1. Top.left - 1 \in Nat
        BY <2>2, <3>1 DEF FrameRec
      <4>2. [Top EXCEPT !.left = Top.left - 1] \in FrameRec
            /\ [Top EXCEPT !.left = Top.left - 1].kind = Top.kind
        BY <2>2, <4>1, FrameWithLeft
      <4> QED  BY <1>3, <2>1, <3>1, <4>2
    <3>2. (Top.left > 0 /\ frames' = Become([Top EXCEPT !.left = Top.left - 1]) \o << BlockFrame >>)
          \/ frames' = Front(frames)
      BY <2>7 DEF SwitchTurns, PopWith
    <3> QED  BY <1>2, <2>1, <3>1, <3>2
  <2>8. CASE TryGets
    <3>1. done \in Completions
      BY <2>8 DEF TryGets, Gets
    <3>2. CASE frames' = Become([Top EXCEPT !.phase = "catch"]) \o << BlockFrame >>
      <4>1. [Top EXCEPT !.phase = "catch"] \in FrameRec
            /\ [Top EXCEPT !.phase = "catch"].kind = Top.kind
        BY <2>2, FrameInPhase
      <4> QED  BY <1>3, <2>1, <3>2, <4>1
    <3>3. CASE frames' = Become([Top EXCEPT !.phase = "finally", !.base = done]) \o << BlockFrame >>
      <4>1. [Top EXCEPT !.phase = "finally", !.base = done] \in FrameRec
            /\ [Top EXCEPT !.phase = "finally", !.base = done].kind = Top.kind
        BY <2>2, <3>1, FrameWithBase
      <4> QED  BY <1>3, <2>1, <3>3, <4>1
    <3>4. \/ frames' = Front(frames)
          \/ frames' = Become([Top EXCEPT !.phase = "catch"]) \o << BlockFrame >>
          \/ frames' = Become([Top EXCEPT !.phase = "finally", !.base = done]) \o << BlockFrame >>
      BY <2>8 DEF TryGets, Finally, PopWith
    <3> QED  BY <1>2, <2>1, <3>2, <3>3, <3>4
  <2> QED  BY <1>6, <2>3, <2>4, <2>5, <2>6, <2>7, <2>8
<1> QED
  BY <1>4, <1>5, <1>6

LEMMA SeqOfMore ==
  ASSUME NEW A, NEW B, A \subseteq B, NEW s \in Seq(A)
  PROVE  s \in Seq(B)
<1>1. Len(s) \in Nat /\ DOMAIN s = 1 .. Len(s) /\ \A i \in 1 .. Len(s) : s[i] \in B
  OBVIOUS
<1> QED
  BY <1>1

(* The numbers that OwnInv adds up *)
LEMMA OwnersAreNat ==
  ASSUME ControlInv, LoopInv, NEW p
  PROVE  /\ QueuedTasks(tasks, p) \in Nat /\ RunningTasks(frames, p) \in Nat
         /\ TimersFor(timers, p) \in Nat /\ OperationsFor(sockets, p) \in Nat
         /\ IsFiniteSet({io \in sockets : io.p = p})
<1>1. /\ tasks \in Seq(1 .. Len(promises)) /\ timers \in Seq(Timer(Len(promises)))
      /\ IsFiniteSet(sockets) /\ frames \in Seq(FrameRec)
  BY DEF ControlInv, LoopInv, Queued, Control, StackOK
<1>2. Len(tasks) \in Nat /\ Len(timers) \in Nat /\ Len(frames) \in Nat
  BY <1>1
<1>3. /\ Tally(tasks, {p}) \in 0 .. Len(tasks) /\ Tally(timers, TimerOf(p)) \in 0 .. Len(timers)
      /\ Tally(frames, TaskOf(p)) \in 0 .. Len(frames)
  BY <1>1, TallyIsNat
<1>4. IsFiniteSet({io \in sockets : io.p = p})
  <2>1. {io \in sockets : io.p = p} \in SUBSET sockets
    OBVIOUS
  <2> QED  BY <1>1, <2>1, FS_Subset
<1>5. Cardinality({io \in sockets : io.p = p}) \in Nat
  BY <1>4, FS_CardinalityType
<1> QED
  BY <1>2, <1>3, <1>4, <1>5 DEF QueuedTasks, RunningTasks, TimersFor, OperationsFor

(* Nothing refers to a promise that is not made yet *)
LEMMA NewPromiseIsUnowned ==
  ASSUME ControlInv, LoopInv, NEW p, p = Len(promises) + 1
  PROVE  /\ QueuedTasks(tasks, p) = 0 /\ RunningTasks(frames, p) = 0
         /\ TimersFor(timers, p) = 0 /\ {io \in sockets : io.p = p} = {}
<1> DEFINE n == Len(promises)
<1>1. /\ tasks \in Seq(1 .. n) /\ timers \in Seq(Timer(n))
      /\ sockets \subseteq Operation(n) /\ frames \in Seq(FrameRec) /\ n \in Nat
      /\ \A i \in 1 .. Len(frames) : FrameOK(SubSeq(frames, 1, i - 1), frames[i], n)
  BY DEF ControlInv, LoopInv, Queued, Control, StackOK
<1>2. p = n + 1 /\ p \notin 1 .. n
  BY <1>1
<1> HIDE DEF n
<1>3. \A i \in DOMAIN tasks : tasks[i] \notin {p}
  BY <1>1, <1>2
<1>4. \A i \in DOMAIN timers : timers[i] \notin TimerOf(p)
  <2>1. \A i \in DOMAIN timers : timers[i] \in Timer(n)
    BY <1>1
  <2> QED  BY <1>2, <2>1 DEF Timer, TimerOf
<1>5. \A i \in DOMAIN frames : frames[i] \notin TaskOf(p)
  <2>1. \A i \in 1 .. Len(frames) : frames[i].kind = "task" => frames[i].left \in 1 .. n
    BY <1>1 DEF FrameOK
  <2>2. DOMAIN frames = 1 .. Len(frames)
    BY <1>1
  <2> QED  BY <1>2, <2>1, <2>2 DEF TaskOf
<1>6. Tally(tasks, {p}) = 0
  BY <1>1, <1>3, TallyOfNone
<1>7. Tally(timers, TimerOf(p)) = 0
  BY <1>1, <1>4, TallyOfNone
<1>8. Tally(frames, TaskOf(p)) = 0
  BY <1>1, <1>5, TallyOfNone
<1>9. {io \in sockets : io.p = p} = {}
  BY <1>1, <1>2 DEF Operation
<1> QED
  BY <1>6, <1>7, <1>8, <1>9 DEF QueuedTasks, RunningTasks, TimersFor

LEMMA OwnStepMakes ==
  ASSUME ScriptAssumption, ControlInv, LoopInv, OwnInv,
         CallAsync \/ CallSleep \/ CallPromise \/ CallSettle \/ CallSocket \/ CloseSocket
  PROVE  OwnInv'
<1> DEFINE n == Len(promises)
           P == Settled \cup {"pending"}
<1>1. SameTasks
  BY StatementTaskless
<1>2. /\ promises \in Seq(P) /\ n \in Nat /\ NextP = n + 1
      /\ tasks \in Seq(1 .. n) /\ timers \in Seq(Timer(n))
      /\ sockets \subseteq Operation(n) /\ IsFiniteSet(sockets)
      /\ clock \in Nat
  BY DEF LoopInv, Queued, NextP
<1>3. \A s \in P : /\ Len(Append(promises, s)) = n + 1
                   /\ Append(promises, s)[n + 1] = s
                   /\ \A q \in 1 .. n : Append(promises, s)[q] = promises[q]
  BY <1>2, NewPromiseTyped
<1> SUFFICES ASSUME NEW p \in 1 .. Len(promises'), promises'[p] = "pending", p \notin lost'
             PROVE  QueuedTasks(tasks', p) + RunningTasks(frames', p) + TimersFor(timers', p)
                      + OperationsFor(sockets', p) = 1
  BY DEF OwnInv
<1>4. RunningTasks(frames', p) = RunningTasks(frames, p)
  BY <1>1 DEF SameTasks
<1>5. /\ QueuedTasks(tasks, p) \in Nat /\ RunningTasks(frames, p) \in Nat
      /\ TimersFor(timers, p) \in Nat /\ OperationsFor(sockets, p) \in Nat
      /\ IsFiniteSet({io \in sockets : io.p = p})
  BY OwnersAreNat
<1>6. ASSUME p = n + 1
      PROVE  /\ QueuedTasks(tasks, p) = 0 /\ RunningTasks(frames, p) = 0
             /\ TimersFor(timers, p) = 0 /\ {io \in sockets : io.p = p} = {}
             /\ OperationsFor(sockets, p) = 0
  <2>1. /\ QueuedTasks(tasks, p) = 0 /\ RunningTasks(frames, p) = 0
        /\ TimersFor(timers, p) = 0 /\ {io \in sockets : io.p = p} = {}
    BY <1>6, NewPromiseIsUnowned
  <2> QED  BY <2>1, FS_EmptySet DEF OperationsFor
<1>7. ASSUME p \in 1 .. n, promises[p] = "pending", p \notin lost
      PROVE  QueuedTasks(tasks, p) + RunningTasks(frames, p) + TimersFor(timers, p)
               + OperationsFor(sockets, p) = 1
  BY <1>7 DEF OwnInv
<1>8. CASE CallAsync
  <2>1. /\ promises' = Append(promises, "pending") /\ tasks' = Append(tasks, n + 1)
        /\ UNCHANGED << timers, sockets, lost >>
    BY <1>2, <1>8 DEF CallAsync, NewPromise
  <2>2. Tally(tasks', {p}) = Tally(tasks, {p}) + (IF n + 1 \in {p} THEN 1 ELSE 0)
    <3> DEFINE q == n + 1
    <3>1. tasks \in Seq(Nat) /\ q \in Nat
      BY <1>2
    <3>2. tasks' = Append(tasks, q)
      BY <2>1
    <3> HIDE DEF q
    <3>3. Tally(Append(tasks, q), {p}) = Tally(tasks, {p}) + (IF q \in {p} THEN 1 ELSE 0)
      BY <3>1, TallyOfAppend
    <3> QED  BY <3>2, <3>3 DEF q
  <2>3. QueuedTasks(tasks', p) = QueuedTasks(tasks, p) + (IF p = n + 1 THEN 1 ELSE 0)
    BY <2>2 DEF QueuedTasks
  <2>4. p \in 1 .. n + 1 /\ (p # n + 1 => p \in 1 .. n /\ promises[p] = "pending")
    BY <1>2, <1>3, <2>1
  <2> QED  BY <1>4, <1>5, <1>6, <1>7, <2>1, <2>3, <2>4
<1>9. CASE CallSleep
  <2>1. PICK d \in Delays :
          /\ clock + d <= MaxClock
          /\ NewPromise(IF d = 0 THEN "fulfilled" ELSE "pending")
          /\ timers' = IF d = 0 THEN timers ELSE AddTimer([due |-> clock + d, p |-> NextP])
          /\ UNCHANGED << tasks, sockets, lost >>
    BY <1>9 DEF CallSleep
  <2>2. /\ Len(promises') = n + 1
        /\ promises'[n + 1] = IF d = 0 THEN "fulfilled" ELSE "pending"
        /\ \A q \in 1 .. n : promises'[q] = promises[q]
    <3>1. (IF d = 0 THEN "fulfilled" ELSE "pending") \in P
      BY DEF Settled
    <3> QED  BY <1>3, <2>1, <3>1 DEF NewPromise
  <2>3. p \in 1 .. n + 1 /\ (p # n + 1 => p \in 1 .. n /\ promises[p] = "pending")
    <3>1. p \in 1 .. n + 1 /\ n \in Nat
      BY <1>2, <2>2
    <3>2. ASSUME p # n + 1 PROVE p \in 1 .. n /\ promises[p] = "pending"
      <4>1. p \in 1 .. n
        BY <3>1, <3>2
      <4> QED  BY <2>2, <4>1
    <3> QED  BY <3>1, <3>2
  <2>4. CASE d = 0
    <3>1. p # n + 1
      BY <2>2, <2>4
    <3> QED  BY <1>4, <1>7, <2>1, <2>3, <2>4, <3>1
  <2>5. CASE d # 0
    <3> DEFINE t == [due |-> clock + d, p |-> n + 1]
    <3>1. t \in [due : Int, p : Int] /\ (t \in TimerOf(p) <=> p = n + 1)
      <4>1. d \in Nat
        BY DEF ScriptAssumption
      <4> QED  BY <1>2, <4>1 DEF TimerOf
    <3>2. timers \in Seq([due : Int, p : Int])
      <4>1. Timer(n) \subseteq [due : Int, p : Int]
        BY ScriptAssumption, <1>2 DEF Timer
      <4> QED  BY <1>2, <4>1, SeqOfMore
    <3>3. timers' = AddTimer(t)
      BY <1>2, <2>1, <2>5
    <3>4. Tally(timers', TimerOf(p)) = Tally(timers, TimerOf(p)) + (IF t \in TimerOf(p) THEN 1 ELSE 0)
      <4> DEFINE A == [due : Int, p : Int]
      <4>1. timers \in Seq(A) /\ t \in A
        BY <3>1, <3>2
      <4> HIDE DEF A, t
      <4>2. Tally(AddTimer(t), TimerOf(p)) = Tally(timers, TimerOf(p)) + (IF t \in TimerOf(p) THEN 1 ELSE 0)
        BY <4>1, TimersAfterAdding
      <4> QED  BY <3>3, <4>2
    <3> HIDE DEF t
    <3>5. TimersFor(timers', p) = TimersFor(timers, p) + (IF p = n + 1 THEN 1 ELSE 0)
      BY <3>1, <3>4 DEF TimersFor
    <3> QED  BY <1>4, <1>5, <1>6, <1>7, <2>1, <2>3, <3>5
  <2> QED  BY <2>4, <2>5
<1>10. CASE CallPromise
  <2>1. /\ promises' = Append(promises, "pending") /\ lost' = lost \cup {n + 1}
        /\ UNCHANGED << tasks, timers, sockets >>
    BY <1>2, <1>10 DEF CallPromise, NewPromise
  <2>2. p \in 1 .. n /\ promises[p] = "pending" /\ p \notin lost
    BY <1>2, <1>3, <2>1
  <2> QED  BY <1>4, <1>7, <2>1, <2>2
<1>11. CASE CallSettle
  <2>1. PICK q \in DOMAIN promises, s \in Settled :
          promises' = SettleIn(promises, q, s) /\ UNCHANGED << tasks, timers, sockets, lost >>
    BY <1>11 DEF CallSettle
  <2>2. q \in 1 .. n
    BY <1>2
  <2>3. p \in 1 .. n /\ promises[p] = "pending" /\ p \notin lost
    BY <2>1, <2>2, SettledIn
  <2> QED  BY <1>4, <1>7, <2>1, <2>3
<1>12. CASE CallSocket
  <2>1. PICK fd \in Sockets :
          /\ promises' = Append(promises, "pending")
          /\ sockets' = sockets \cup {[fd |-> fd, p |-> n + 1]}
          /\ UNCHANGED << tasks, timers, lost >>
    BY <1>2, <1>12 DEF CallSocket, NewPromise
  <2>2. p \in 1 .. n + 1 /\ (p # n + 1 => p \in 1 .. n /\ promises[p] = "pending")
    BY <1>2, <1>3, <2>1
  <2>3. CASE p = n + 1
    <3>1. {io \in sockets' : io.p = p} = {[fd |-> fd, p |-> n + 1]}
      BY <1>6, <2>1, <2>3
    <3>2. OperationsFor(sockets', p) = 1
      <4> DEFINE x == [fd |-> fd, p |-> n + 1]
      <4> HIDE DEF x
      <4>1. Cardinality({x}) = 1
        BY FS_Singleton
      <4> QED  BY <3>1, <4>1 DEF OperationsFor, x
    <3> QED  BY <1>4, <1>6, <2>1, <2>3, <3>2
  <2>4. CASE p # n + 1
    <3>1. {io \in sockets' : io.p = p} = {io \in sockets : io.p = p}
      BY <2>1, <2>4
    <3> QED  BY <1>4, <1>7, <2>1, <2>2, <2>4, <3>1 DEF OperationsFor
  <2> QED  BY <2>3, <2>4
<1>13. CASE CloseSocket
  <2>1. PICK fd \in Sockets : RemoveSockets({fd}, {}) /\ UNCHANGED << promises, tasks, timers >>
    BY <1>13 DEF CloseSocket
  <2>2. p \in 1 .. n /\ promises[p] = "pending" /\ p \notin lost
    BY <2>1 DEF RemoveSockets
  <2>3. {io \in sockets' : io.p = p} = {io \in sockets : io.p = p}
    BY <2>1 DEF RemoveSockets
  <2> QED  BY <1>4, <1>7, <2>1, <2>2, <2>3 DEF OperationsFor
<1> QED
  BY <1>8, <1>9, <1>10, <1>11, <1>12, <1>13

(* Timers that run had promises that are settled then *)
LEMMA TimersThatRan ==
  ASSUME ControlInv, LoopInv, NEW t \in Nat, RunTimersAt(t), UNCHANGED frames,
         OwnInv
  PROVE  OwnInv'
<1> DEFINE n == Len(promises)
           k == DueAt(t)
           ran == {timers[i].p : i \in 1 .. k}
<1>1. /\ n \in Nat /\ DOMAIN promises = 1 .. n /\ promises \in Seq(Settled \cup {"pending"})
      /\ timers \in Seq(Timer(n)) /\ k \in 0 .. Len(timers) /\ Len(timers) \in Nat
  <2>1. t \in Int  OBVIOUS
  <2>2. k \in 0 .. Len(timers)
    BY <2>1, DueIs
  <2> QED  BY <2>2 DEF LoopInv, Queued
<1>2. /\ promises' = [p \in DOMAIN promises |->
                        IF p \in ran /\ promises[p] = "pending" THEN "fulfilled" ELSE promises[p]]
      /\ timers' = SubSeq(timers, k + 1, Len(timers))
      /\ UNCHANGED << tasks, sockets, lost >>
  BY DEF RunTimersAt
<1>3. Len(promises') = n
  <2>1. promises' \in Seq(Settled \cup {"pending"}) /\ Len(promises') = Len(promises)
    <3>1. /\ DOMAIN promises' = DOMAIN promises
          /\ promises' = [i \in DOMAIN promises |-> promises'[i]]
      BY <1>2
    <3>2. \A i \in DOMAIN promises : promises'[i] \in Settled \cup {"pending"}
      BY <1>1, <1>2 DEF Settled
    <3> QED  BY <1>1, <3>1, <3>2, PromisesChange
  <2> QED  BY <2>1
<1> SUFFICES ASSUME NEW p \in 1 .. n, promises'[p] = "pending", p \notin lost
             PROVE  QueuedTasks(tasks, p) + RunningTasks(frames, p) + TimersFor(timers', p)
                      + OperationsFor(sockets, p) = 1
  BY <1>2, <1>3 DEF OwnInv
<1>4. promises[p] = "pending" /\ p \notin ran
  BY <1>1, <1>2
<1>5. TimersFor(timers', p) = TimersFor(timers, p)
  <2> DEFINE A == Timer(n)
             a == SubSeq(timers, 1, k)
             b == SubSeq(timers, k + 1, Len(timers))
             S == TimerOf(p)
  <2>1. a \in Seq(A) /\ b \in Seq(A) /\ timers = a \o b
    BY <1>1, SplitAt
  <2>2. \A i \in DOMAIN a : a[i] \notin S
    <3>1. DOMAIN a = 1 .. k /\ \A i \in 1 .. k : a[i] = timers[i]
      <4> HIDE DEF k
      <4> QED  BY <1>1
    <3>2. \A i \in 1 .. k : timers[i].p # p
      BY <1>4
    <3> HIDE DEF a, k
    <3> QED  BY <3>1, <3>2 DEF TimerOf
  <2> HIDE DEF a, b, A, S
  <2>3. Tally(a, S) = 0
    BY <2>1, <2>2, TallyOfNone
  <2>4. Tally(a \o b, S) = Tally(a, S) + Tally(b, S)
    BY <2>1, TallyOfConcat
  <2>5. Tally(b, S) \in 0 .. Len(b) /\ Len(b) \in Nat
    <3>1. Tally(b, S) \in 0 .. Len(b)
      BY <2>1, TallyIsNat
    <3> QED  BY <2>1, <3>1
  <2>6. Tally(timers, S) = Tally(a \o b, S)
    <3> DEFINE u == a \o b
    <3>1. timers = u  BY <2>1
    <3> HIDE DEF u
    <3>2. Tally(timers, S) = Tally(u, S)  BY <3>1
    <3> QED  BY <3>2 DEF u
  <2>7. Tally(timers, S) = Tally(b, S)
    BY <2>3, <2>4, <2>5, <2>6
  <2>8. timers' = b
    BY <1>2 DEF b
  <2> QED  BY <2>7, <2>8 DEF TimersFor, S
<1>6. QueuedTasks(tasks, p) + RunningTasks(frames, p) + TimersFor(timers, p)
        + OperationsFor(sockets, p) = 1
  BY <1>4 DEF OwnInv
<1> QED
  BY <1>5, <1>6

(* Operations that are removed were answered, or are in lost then *)
LEMMA OperationsThatStay ==
  ASSUME NEW fds, NEW answered, RemoveSockets(fds, answered), NEW p, p \notin lost',
         \A io \in answered : io.p # p
  PROVE  OperationsFor(sockets', p) = OperationsFor(sockets, p) /\ p \notin lost
<1>1. {io \in sockets' : io.p = p} = {io \in sockets : io.p = p}
  BY DEF RemoveSockets
<1>2. p \notin lost
  BY DEF RemoveSockets
<1> QED
  BY <1>1, <1>2 DEF OperationsFor

LEMMA OwnStepRuns ==
  ASSUME ScriptAssumption, ControlInv, LoopInv, OwnInv,
         \/ RunDueTimers \/ PollSockets \/ SocketTimesOut \/ SleepToTimer \/ ClockTicks
         \/ RunTask \/ TaskEnds
  PROVE  OwnInv'
<1> DEFINE n == Len(promises)
           P == Settled \cup {"pending"}
<1>1. /\ promises \in Seq(P) /\ n \in Nat /\ DOMAIN promises = 1 .. n
      /\ tasks \in Seq(1 .. n) /\ timers \in Seq(Timer(n))
      /\ sockets \subseteq Operation(n) /\ clock \in Nat /\ MaxClock \in Nat
      /\ frames \in Seq(FrameRec)
  BY DEF LoopInv, Queued, ControlInv, Control, StackOK, ScriptAssumption
<1>2. CASE RunDueTimers
  BY <1>1, <1>2, TimersThatRan DEF RunDueTimers
<1>3. CASE SleepToTimer
  <2>1. timers # << >> /\ RunTimersAt(timers[1].due) /\ UNCHANGED frames
    BY <1>3 DEF SleepToTimer
  <2>2. timers[1] \in Timer(n)
    BY <1>1, <2>1
  <2>3. timers[1].due \in Nat
    BY <1>1, <2>2 DEF Timer
  <2> QED  BY <2>1, <2>3, TimersThatRan
<1>4. CASE ClockTicks
  BY <1>4 DEF ClockTicks, OwnInv
<1>5. ASSUME NEW p \in 1 .. n, promises[p] = "pending", p \notin lost
      PROVE  QueuedTasks(tasks, p) + RunningTasks(frames, p) + TimersFor(timers, p)
               + OperationsFor(sockets, p) = 1
  BY <1>5 DEF OwnInv
<1>6. \A p : /\ QueuedTasks(tasks, p) \in Nat /\ RunningTasks(frames, p) \in Nat
             /\ TimersFor(timers, p) \in Nat /\ OperationsFor(sockets, p) \in Nat
  BY OwnersAreNat
<1>7. CASE PollSockets
  <2>1. PICK ready \in SUBSET sockets \ {{}}, s \in Settled :
          LET answered == {io \in ready : promises[io.p] = "pending"}
          IN  /\ promises' = [p \in DOMAIN promises |->
                               IF p \in {io.p : io \in answered} THEN s ELSE promises[p]]
              /\ RemoveSockets({io.fd : io \in answered}, answered)
    BY <1>7 DEF PollSockets
  <2> DEFINE answered == {io \in ready : promises[io.p] = "pending"}
  <2>2. /\ promises' = [p \in DOMAIN promises |->
                          IF p \in {io.p : io \in answered} THEN s ELSE promises[p]]
        /\ RemoveSockets({io.fd : io \in answered}, answered)
        /\ UNCHANGED << frames, tasks, timers >>
    BY <1>7, <2>1 DEF PollSockets
  <2>3. Len(promises') = n
    <3>1. /\ DOMAIN promises' = DOMAIN promises
          /\ promises' = [i \in DOMAIN promises |-> promises'[i]]
      BY <2>2
    <3>2. \A i \in DOMAIN promises : promises'[i] \in P
      BY <1>1, <2>2
    <3> QED  BY <1>1, <3>1, <3>2, PromisesChange
  <2> HIDE DEF answered
  <2> SUFFICES ASSUME NEW p \in 1 .. n, promises'[p] = "pending", p \notin lost'
               PROVE  QueuedTasks(tasks, p) + RunningTasks(frames, p) + TimersFor(timers, p)
                        + OperationsFor(sockets', p) = 1
    BY <2>2, <2>3 DEF OwnInv
  <2>4. promises[p] = "pending" /\ \A io \in answered : io.p # p
    BY <1>1, <2>2 DEF Settled
  <2>5. OperationsFor(sockets', p) = OperationsFor(sockets, p) /\ p \notin lost
    BY <2>2, <2>4, OperationsThatStay
  <2> QED  BY <1>5, <2>4, <2>5
<1>8. CASE SocketTimesOut
  <2>1. PICK io \in sockets : /\ promises' = SettleIn(promises, io.p, "rejected")
                              /\ RemoveSockets({io.fd}, {io})
                              /\ UNCHANGED << frames, tasks, timers >>
    BY <1>8 DEF SocketTimesOut
  <2>2. io.p \in 1 .. n
    BY <1>1 DEF Operation
  <2>3. /\ Len(promises') = n
        /\ \A q \in 1 .. n : promises'[q] = "pending" => promises[q] = "pending" /\ q # io.p
    <3>1. "rejected" \in Settled
      BY DEF Settled
    <3> QED  BY <2>1, <2>2, <3>1, SettledIn
  <2> SUFFICES ASSUME NEW p \in 1 .. n, promises'[p] = "pending", p \notin lost'
               PROVE  QueuedTasks(tasks, p) + RunningTasks(frames, p) + TimersFor(timers, p)
                        + OperationsFor(sockets', p) = 1
    BY <2>1, <2>3 DEF OwnInv
  <2>4. promises[p] = "pending" /\ p # io.p
    BY <2>3
  <2>5. OperationsFor(sockets', p) = OperationsFor(sockets, p) /\ p \notin lost
    <3>1. \A jo \in {io} : jo.p # p
      BY <2>4
    <3> QED  BY <2>1, <3>1, OperationsThatStay
  <2> QED  BY <1>5, <2>4, <2>5
<1>9. CASE RunTask
  <2>1. /\ tasks # << >> /\ tasks' = Tail(tasks) /\ UNCHANGED << timers, sockets, lost >>
        /\ Head(tasks) \in 1 .. n /\ Tail(tasks) \in Seq(1 .. n)
    BY <1>1, <1>9 DEF RunTask
  <2> DEFINE h == Head(tasks)
  <2>2. \A p : QueuedTasks(tasks, p) = QueuedTasks(tasks', p) + (IF p = h THEN 1 ELSE 0)
               /\ QueuedTasks(tasks', p) \in Nat
    <3> SUFFICES ASSUME NEW p
                 PROVE  /\ QueuedTasks(tasks, p) = QueuedTasks(tasks', p) + (IF p = h THEN 1 ELSE 0)
                        /\ QueuedTasks(tasks', p) \in Nat
      OBVIOUS
    <3> DEFINE A == 1 .. n
               t == Tail(tasks)
               u == << h >> \o t
    <3>1. t \in Seq(A) /\ h \in A /\ << h >> \in Seq(A)
      BY <2>1
    <3>2. tasks = u
      BY <1>1, <2>1
    <3>3. Tally(<< >>, {p}) = 0
      BY TallyOfEmpty
    <3>4. Tally(Append(<< >>, h), {p}) = Tally(<< >>, {p}) + (IF h \in {p} THEN 1 ELSE 0)
      <4> HIDE DEF A, h, t
      <4>1. << >> \in Seq(A)
        OBVIOUS
      <4> QED  BY <3>1, <4>1, TallyOfAppend
    <3>5. Append(<< >>, h) = << h >>
      <4> HIDE DEF h, t
      <4> QED OBVIOUS
    <3>6. Tally(<< h >> \o t, {p}) = Tally(<< h >>, {p}) + Tally(t, {p})
      <4> DEFINE g == << h >>
                 S == {p}
      <4>1. t \in Seq(A) /\ g \in Seq(A)
        BY <3>1
      <4> HIDE DEF A, t, g, S
      <4>2. Tally(g \o t, S) = Tally(g, S) + Tally(t, S)
        BY <4>1, TallyOfConcat
      <4> QED  BY <4>2 DEF g, S
    <3>7. Tally(t, {p}) \in 0 .. Len(t) /\ Len(t) \in Nat
      <4> HIDE DEF A, h, t
      <4>1. Tally(t, {p}) \in 0 .. Len(t)
        BY <3>1, TallyIsNat
      <4> QED  BY <3>1, <4>1
    <3>8. Tally(tasks, {p}) = Tally(u, {p}) /\ Tally(tasks', {p}) = Tally(t, {p})
      <4>1. tasks' = t  BY <2>1
      <4> HIDE DEF u, t
      <4> QED  BY <3>2, <4>1
    <3> HIDE DEF h, t
    <3> QED  BY <3>3, <3>4, <3>5, <3>6, <3>7, <3>8 DEF QueuedTasks, u
  <2> HIDE DEF h
  <2>3. CASE /\ frames' = frames \o << [Frame("task") EXCEPT !.left = Head(tasks)], BlockFrame >>
             /\ UNCHANGED promises
    <3> DEFINE f == [Frame("task") EXCEPT !.left = Head(tasks)]
    <3>1. f \in FrameRec /\ f.kind = "task" /\ f.left = h
      <4>1. Frame("task") \in FrameRec /\ Frame("task").kind = "task" /\ Head(tasks) \in Nat
        BY <1>1, <2>1, FramesTyped DEF FrameKinds
      <4> QED  BY <4>1, FrameWithLeft DEF h
    <3>2. frames' = frames \o << f, BlockFrame >>
      BY <2>3
    <3> HIDE DEF f
    <3>3. frames' = Append(Append(frames, f), BlockFrame) /\ Append(frames, f) \in Seq(FrameRec)
      BY <1>1, <3>1, <3>2, FewOnTop, BlockFrameTyped
    <3>4. ASSUME NEW p
          PROVE  RunningTasks(frames', p) = RunningTasks(frames, p) + (IF p = h THEN 1 ELSE 0)
      <4> DEFINE S == TaskOf(p)
                 G == Append(frames, f)
      <4>1. Tally(G, S) = Tally(frames, S) + (IF f \in S THEN 1 ELSE 0)
        BY <1>1, <3>1, TallyOfAppend
      <4>2. G \in Seq(FrameRec) /\ frames' = Append(G, BlockFrame)
        BY <3>3
      <4> HIDE DEF G
      <4>3. Tally(Append(G, BlockFrame), S) = Tally(G, S) + (IF BlockFrame \in S THEN 1 ELSE 0)
        BY <4>2, BlockFrameTyped, TallyOfAppend
      <4>4. (f \in S <=> p = h) /\ BlockFrame \notin S
        BY <3>1, BlockFrameTyped DEF TaskOf
      <4>5. Tally(frames, S) \in Nat
        BY <1>6 DEF RunningTasks
      <4>6. Tally(frames', S) = Tally(frames, S) + (IF p = h THEN 1 ELSE 0)
        BY <4>1, <4>2, <4>3, <4>4, <4>5
      <4> QED  BY <4>6 DEF RunningTasks
    <3> SUFFICES ASSUME NEW p \in 1 .. n, promises[p] = "pending", p \notin lost
                 PROVE  QueuedTasks(tasks', p) + RunningTasks(frames', p) + TimersFor(timers, p)
                          + OperationsFor(sockets, p) = 1
      BY <2>1, <2>3 DEF OwnInv
    <3>5. RunningTasks(frames', p) = RunningTasks(frames, p) + (IF p = h THEN 1 ELSE 0)
      BY <3>4
    <3>6. /\ QueuedTasks(tasks, p) = QueuedTasks(tasks', p) + (IF p = h THEN 1 ELSE 0)
          /\ QueuedTasks(tasks', p) \in Nat
      BY <2>2
    <3>7. QueuedTasks(tasks, p) + RunningTasks(frames, p) + TimersFor(timers, p)
            + OperationsFor(sockets, p) = 1
      BY <1>5
    <3>8. /\ QueuedTasks(tasks, p) \in Nat /\ RunningTasks(frames, p) \in Nat
          /\ TimersFor(timers, p) \in Nat /\ OperationsFor(sockets, p) \in Nat
      BY <1>6
    <3> QED  BY <3>5, <3>6, <3>7, <3>8
  <2>4. CASE promises' = SettleIn(promises, Head(tasks), "rejected") /\ UNCHANGED frames
    <3>1. "rejected" \in Settled
      BY DEF Settled
    <3>2. /\ Len(promises') = n
          /\ \A q \in 1 .. n : promises'[q] = "pending" => promises[q] = "pending" /\ q # h
      BY <2>1, <2>4, <3>1, SettledIn DEF h
    <3> SUFFICES ASSUME NEW p \in 1 .. n, promises'[p] = "pending", p \notin lost
                 PROVE  QueuedTasks(tasks', p) + RunningTasks(frames, p) + TimersFor(timers, p)
                          + OperationsFor(sockets, p) = 1
      BY <2>1, <2>4, <3>2 DEF OwnInv
    <3>3. promises[p] = "pending" /\ p # h
      BY <3>2
    <3>4. QueuedTasks(tasks', p) = QueuedTasks(tasks, p)
      BY <2>2, <3>3
    <3> QED  BY <1>5, <3>3, <3>4
  <2> QED  BY <1>9, <2>3, <2>4 DEF RunTask
<1>10. CASE TaskEnds
  <2>1. PICK s \in Settled :
          /\ promises' = SettleIn(promises, Top.left, s) /\ frames' = Front(frames)
          /\ frames # << >> /\ UNCHANGED << tasks, timers, sockets, lost >>
    BY <1>10 DEF TaskEnds, Settled, PopWith, Gets
  <2>2. Top.left \in 1 .. n
    BY <1>10, TopKnows DEF TaskEnds, Gets
  <2>3. /\ Len(promises') = n
        /\ \A q \in 1 .. n : promises'[q] = "pending" => promises[q] = "pending" /\ q # Top.left
    BY <2>1, <2>2, SettledIn
  <2> SUFFICES ASSUME NEW p \in 1 .. n, promises'[p] = "pending", p \notin lost
               PROVE  QueuedTasks(tasks, p) + RunningTasks(frames', p) + TimersFor(timers, p)
                        + OperationsFor(sockets, p) = 1
    BY <2>1, <2>3 DEF OwnInv
  <2>4. promises[p] = "pending" /\ p # Top.left
    BY <2>3
  <2>5. RunningTasks(frames', p) = RunningTasks(frames, p)
    <3>1. Last(frames) \notin TaskOf(p)
      BY <2>4 DEF TaskOf, Top
    <3> QED  BY <1>1, <2>1, <3>1, TopTaskless
  <2> QED  BY <1>5, <2>4, <2>5
<1> QED
  BY <1>2, <1>3, <1>4, <1>7, <1>8, <1>9, <1>10

LEMMA OwnStep ==
  ASSUME ScriptAssumption, ControlInv, LoopInv, OwnInv, ScriptNext
  PROVE  OwnInv'
<1>1. CASE CallAsync \/ CallSleep \/ CallPromise \/ CallSettle \/ CallSocket \/ CloseSocket
  BY <1>1, OwnStepMakes
<1>2. CASE \/ RunDueTimers \/ PollSockets \/ SocketTimesOut \/ SleepToTimer \/ ClockTicks
           \/ RunTask \/ TaskEnds
  BY <1>2, OwnStepRuns
<1>3. ASSUME SameTasks, UNCHANGED loopVars
      PROVE  OwnInv'
  BY <1>3 DEF OwnInv, SameTasks, loopVars
<1>4. CASE \/ SimpleStatement \/ Jump \/ FailingExpression \/ Nest \/ YieldStatement
           \/ CallFunction \/ CallThroughPipe \/ CallMethod \/ ConstructThroughPipe
           \/ CallUnbound \/ HostCalls \/ RequireModule \/ StartAwait
  <2>1. SameTasks
    BY <1>4, StatementTaskless
  <2>2. UNCHANGED loopVars
    BY <1>4 DEF SimpleStatement, Jump, FailingExpression, Nest, YieldStatement, CallFunction,
                CallThroughPipe, CallMethod, ConstructThroughPipe, StartBody, CallUnbound,
                HostCalls, RequireModule, EnterMachine, StartAwait
  <2> QED  BY <1>3, <2>1, <2>2
<1>5. CASE \/ BlockEnds \/ BlockGets \/ BlockIsDone \/ DeferStatement
           \/ LoopTurns \/ LoopGets \/ SwitchTurns \/ SwitchGets \/ TryGets
           \/ CallReturns \/ MachineReturns \/ AwaitEnds \/ AwaitStopped \/ AwaitDeadlock
           \/ ScriptIsOver
  <2>1. SameTasks
    BY <1>5, EvaluatorTaskless
  <2>2. UNCHANGED loopVars
    BY <1>5 DEF BlockEnds, BlockGets, BlockIsDone, DeferStatement, LoopTurns, LoopGets,
                SwitchTurns, SwitchGets, TryGets, CallReturns, MachineReturns, AwaitEnds,
                AwaitStopped, AwaitDeadlock, ScriptIsOver, scriptVars, loopVars
  <2> QED  BY <1>3, <2>1, <2>2
<1> QED
  BY <1>1, <1>2, <1>4, <1>5 DEF ScriptNext
-----------------------------------------------------------------------------
(* The initial state, the invariant and what it says *)

LEMMA ScriptStarts ==
  ASSUME ScriptAssumption, ScriptInit
  PROVE  ControlInv /\ LoopInv /\ OwnInv
<1>1. /\ MaxPicks \in Nat /\ MaxClock \in Nat
      /\ frames = << >> /\ done = "run" /\ depth = 0 /\ yieldTo = 0 /\ pending = FALSE
      /\ promises = << >> /\ tasks = << >> /\ timers = << >> /\ sockets = {}
      /\ clock = 0 /\ picks = 0 /\ lost = {}
  BY DEF ScriptAssumption, ScriptInit
<1>2. Len(<< >>) = 0
  OBVIOUS
<1>3. ControlInv
  <2>1. StackOK(<< >>, 0)
    BY <1>2 DEF StackOK
  <2>2. Innermost(<< >>, 0)
    BY <1>2 DEF Innermost
  <2>3. Tally(<< >>, Traced) = 0
    BY TallyOfEmpty
  <2>4. Control(<< >>, 0, 0, 0)
    BY <2>1, <2>2, <2>3 DEF Control
  <2>5. Control(frames, depth, yieldTo, Len(promises))
    <3>1. Len(promises) = 0
      BY <1>1, <1>2
    <3> QED  BY <1>1, <2>4, <3>1, Zenon
  <2>6. picks \in 0 .. MaxPicks
    BY <1>1
  <2> QED  BY <1>1, <2>5, <2>6 DEF ControlInv
<1>4. LoopInv
  <2>1. IsFiniteSet({})
    BY FS_EmptySet
  <2> QED  BY <1>1, <1>2, <2>1 DEF LoopInv, Queued
<1>5. OwnInv
  BY <1>1, <1>2 DEF OwnInv
<1> QED
  BY <1>3, <1>4, <1>5

ScriptInv == ControlInv /\ LoopInv /\ OwnInv

LEMMA ScriptInvKept ==
  ASSUME ScriptAssumption, ScriptInv, [ScriptNext]_scriptVars
  PROVE  ScriptInv'
<1>1. CASE ScriptNext
  BY <1>1, ControlStep, LoopStep, OwnStep DEF ScriptInv
<1>2. CASE UNCHANGED scriptVars
  BY <1>2 DEF scriptVars, ScriptInv, ControlInv, LoopInv, OwnInv, Top
<1> QED
  BY <1>1, <1>2

(* The machine's stack, its event loop and the owners of its promises stay    *)
(* consistent in every execution of every program.                            *)
THEOREM ScriptInvariant == ScriptSpec => []ScriptInv
<1>1. ScriptAssumption
  BY ScriptAssumption
<1>2. ScriptInit => ScriptInv
  BY <1>1, ScriptStarts DEF ScriptInv
<1>3. ScriptInv /\ [ScriptNext]_scriptVars => ScriptInv'
  BY <1>1, ScriptInvKept
<1> QED
  BY <1>2, <1>3, PTL DEF ScriptSpec

LEMMA InvIsTyped ==
  ASSUME ScriptAssumption, ScriptInv
  PROVE  ScriptTypeOK
<1>1. /\ Control(frames, depth, yieldTo, Len(promises)) /\ frames \in Seq(FrameRec)
      /\ done \in Completions \cup {"run", "abort"}
      /\ pending \in BOOLEAN /\ picks \in 0 .. MaxPicks
      /\ promises \in Seq(Settled \cup {"pending"})
      /\ clock \in 0 .. MaxClock /\ lost \subseteq 1 .. Len(promises)
      /\ frames # << >> /\ done = "run" => Top.kind \in Plain \ {"try"}
  BY DEF ScriptInv, ControlInv, LoopInv, Queued, Control, StackOK
<1>2. \A i \in DOMAIN frames :
        /\ frames[i].kind \in FrameKinds
        /\ frames[i].phase \in {"body", "defers", "catch", "finally"}
        /\ frames[i].left \in Nat /\ frames[i].saved \in Nat
        /\ frames[i].base \in Completions /\ frames[i].fin \in BOOLEAN
  <2>1. \A i \in DOMAIN frames : frames[i] \in FrameRec
    BY <1>1
  <2> QED  BY <2>1 DEF FrameRec
<1>3. frames # << >> => frames[1].kind \in {"host", "module"}
  <2> SUFFICES ASSUME frames # << >> PROVE frames[1].kind \in {"host", "module"}
    OBVIOUS
  <2>1. 1 \in 1 .. Len(frames) /\ SubSeq(frames, 1, 1 - 1) = << >>
    BY <1>1
  <2>2. FrameOK(SubSeq(frames, 1, 1 - 1), frames[1], Len(promises))
    BY <1>1, <2>1 DEF Control, StackOK
  <2> QED  BY <2>1, <2>2 DEF FrameOK
<1>4. depth \in Nat /\ yieldTo \in 0 .. Len(frames)
  BY <1>1 DEF Control, Innermost
<1>5. DOMAIN promises = 1 .. Len(promises)
      /\ \A p \in DOMAIN promises : promises[p] \in Settled \cup {"pending"}
  BY <1>1
<1> QED
  BY <1>1, <1>2, <1>3, <1>4, <1>5 DEF ScriptTypeOK, Plain

(* The script machine only reaches states of its type (ScriptTypeOK): a stack *)
(* with the host at its bottom and something that runs at its top, and no      *)
(* reference to a promise that was never made (cs_vm.c, cs_event_loop.c).      *)
THEOREM ScriptTyped == ScriptSpec => []ScriptTypeOK
<1>1. ScriptInv => ScriptTypeOK
  BY ScriptAssumption, InvIsTyped
<1> QED
  BY <1>1, ScriptInvariant, PTL

(* Yields reach the innermost call by name, and the stack trace misses no call *)
(* and is empty when the host is back, in every execution of every program     *)
(* (N_CALL, vm_frames_push, vm_frames_pop, base_depth in cs_vm.c).             *)
THEOREM CallsAreNested == ScriptSpec => []CallsNest
<1>1. ScriptInv => CallsNest
  <2> SUFFICES ASSUME ScriptInv PROVE CallsNest
    OBVIOUS
  <2>1. /\ frames \in Seq(FrameRec) /\ Innermost(frames, yieldTo)
        /\ depth \in Nat /\ depth >= Tally(frames, Traced)
        /\ frames = << >> => depth = 0
    BY DEF ScriptInv, ControlInv, Control, StackOK
  <2>2. yieldTo = Max({0} \cup {i \in DOMAIN frames : frames[i].kind = "call"})
    BY <2>1, InnermostIs
  <2>3. {i \in DOMAIN frames : frames[i] \in Traced}
          = {i \in DOMAIN frames :
               \/ frames[i].kind \in {"host", "task"}
               \/ frames[i].kind \in {"call", "method"} /\ frames[i].left = 1}
    <3>1. \A i \in DOMAIN frames : frames[i] \in FrameRec
      BY <2>1
    <3> QED  BY <3>1 DEF Traced
  <2>4. depth >= Cardinality({i \in DOMAIN frames :
                               \/ frames[i].kind \in {"host", "task"}
                               \/ frames[i].kind \in {"call", "method"} /\ frames[i].left = 1})
    BY <2>1, <2>3 DEF Tally
  <2> QED  BY <2>1, <2>2, <2>4 DEF CallsNest
<1> QED
  BY <1>1, ScriptInvariant, PTL

(* Every promise that may be waited for has exactly one thing left that will   *)
(* settle it, whatever the program makes, settles, closes and awaits           *)
(* (cs_event_loop.c, the promise natives of cs_stdlib.c).                      *)
THEOREM PromisesAreOwned == ScriptSpec => []PromisesHaveOwners
<1>1. ScriptInv => PromisesHaveOwners
  <2> SUFFICES ASSUME ScriptInv, NEW p \in DOMAIN promises, promises[p] = "pending", p \notin lost
               PROVE  Cardinality({i \in DOMAIN tasks : tasks[i] = p})
                        + Cardinality({i \in DOMAIN frames :
                                         frames[i].kind = "task" /\ frames[i].left = p})
                        + Cardinality({i \in DOMAIN timers : timers[i].p = p})
                        + Cardinality({io \in sockets : io.p = p}) = 1
    BY DEF PromisesHaveOwners
  <2>1. /\ frames \in Seq(FrameRec) /\ promises \in Seq(Settled \cup {"pending"})
        /\ timers \in Seq(Timer(Len(promises)))
    BY DEF ScriptInv, ControlInv, LoopInv, Queued, Control, StackOK
  <2>2. QueuedTasks(tasks, p) + RunningTasks(frames, p) + TimersFor(timers, p)
          + OperationsFor(sockets, p) = 1
    <3>1. p \in 1 .. Len(promises)
      BY <2>1
    <3> QED  BY <3>1 DEF ScriptInv, OwnInv
  <2>3. {i \in DOMAIN tasks : tasks[i] \in {p}} = {i \in DOMAIN tasks : tasks[i] = p}
    OBVIOUS
  <2>4. {i \in DOMAIN frames : frames[i] \in TaskOf(p)}
          = {i \in DOMAIN frames : frames[i].kind = "task" /\ frames[i].left = p}
    <3>1. \A i \in DOMAIN frames : frames[i] \in FrameRec
      BY <2>1
    <3> QED  BY <3>1 DEF TaskOf
  <2>5. {i \in DOMAIN timers : timers[i] \in TimerOf(p)}
          = {i \in DOMAIN timers : timers[i].p = p}
    <3>1. \A i \in DOMAIN timers : timers[i] \in [due : Int, p : Int]
      <4>1. \A i \in DOMAIN timers : timers[i] \in Timer(Len(promises))
        BY <2>1
      <4>2. Timer(Len(promises)) \subseteq [due : Int, p : Int]
        BY <2>1, ScriptAssumption DEF Timer, ScriptAssumption
      <4> QED  BY <4>1, <4>2
    <3> QED  BY <3>1 DEF TimerOf
  <2> QED
    BY <2>2, <2>3, <2>4, <2>5 DEF QueuedTasks, RunningTasks, TimersFor, OperationsFor, Tally
<1> QED
  BY <1>1, ScriptInvariant, PTL
-----------------------------------------------------------------------------
(* Cleaning up *)

(* What CleanupRuns says of a step *)
Cleans ==
  Len(frames') < Len(frames) =>
    /\ (Top.kind = "block" /\ Top.left > 0) => (Top.phase = "defers" /\ done \in Abrupt)
    /\ (Top.kind = "try" /\ Top.fin) =>
         (Top.phase = "finally" \/ (Top.phase = "body" /\ done = "error"))

LEMMA FewAreLonger ==
  ASSUME NEW u \in Seq(FrameRec), NEW f, NEW g
  PROVE  /\ Len(u \o << >>) >= Len(u) /\ Len(u \o << f >>) >= Len(u)
         /\ Len(u \o << f, g >>) >= Len(u)
<1> DEFINE A == FrameRec \cup {f, g}
<1>1. u \in Seq(A) /\ << >> \in Seq(A) /\ << f >> \in Seq(A) /\ << f, g >> \in Seq(A)
  <2>1. u \in Seq(A)
    BY SeqOfMore
  <2> QED  BY <2>1
<1>2. Len(u) \in Nat
  OBVIOUS
<1> HIDE DEF A
<1> QED
  BY <1>1, <1>2

LEMMA BecomeLength ==
  ASSUME frames \in Seq(FrameRec), frames # << >>, NEW f
  PROVE  /\ Len(Become(f) \o << BlockFrame >>) >= Len(frames)
         /\ Len(Become(f)) = Len(frames)
<1>1. Front(frames) \in Seq(FrameRec) /\ Len(Front(frames)) = Len(frames) - 1 /\ Len(frames) \in Nat
  BY TopAndRest
<1> DEFINE F == Front(frames)
           A == FrameRec \cup {f}
<1>2. F \in Seq(A) /\ << f >> \in Seq(A) /\ << BlockFrame >> \in Seq(A)
  <2>1. F \in Seq(A)
    BY <1>1, SeqOfMore
  <2> QED  BY <2>1, BlockFrameTyped
<1>3. Len(F) = Len(frames) - 1
  BY <1>1
<1>4. Become(f) = F \o << f >>
  BY DEF Become
<1> HIDE DEF F, A
<1>5. F \o << f >> \in Seq(A) /\ Len(F \o << f >>) = Len(F) + 1
  BY <1>2
<1>6. Len((F \o << f >>) \o << BlockFrame >>) = Len(F) + 2
  BY <1>2, <1>5
<1> QED
  BY <1>1, <1>3, <1>4, <1>5, <1>6

(* A block that executes a statement stays on the stack *)
LEMMA StartStays ==
  ASSUME ControlInv, ScriptAssumption, NEW f, NEW g,
         Start(<< >>) \/ Start(<< f >>) \/ Start(<< f, g >>)
  PROVE  Cleans
<1>1. MayPick
  BY DEF Start
<1>2. Become(Picked) \in Seq(FrameRec) /\ Len(Become(Picked)) = Len(frames)
  BY <1>1, Picks
<1>3. Len(frames') >= Len(frames)
  <2> DEFINE u == Become(Picked)
  <2>1. /\ u \in Seq(FrameRec) /\ Len(u) = Len(frames)
        /\ frames' = u \o << >> \/ frames' = u \o << f >> \/ frames' = u \o << f, g >>
    BY <1>2 DEF Start
  <2> HIDE DEF u
  <2>2. /\ Len(u \o << >>) >= Len(u) /\ Len(u \o << f >>) >= Len(u)
        /\ Len(u \o << f, g >>) >= Len(u)
    BY <2>1, FewAreLonger
  <2> QED  BY <2>1, <2>2
<1>4. Len(frames) \in Nat /\ Len(frames') \in Int
  <2>1. Len(frames) \in Nat
    BY DEF ControlInv, Control, StackOK
  <2>2. Len(frames') \in Nat
    <3> DEFINE u == Become(Picked)
               A == FrameRec \cup {f, g}
    <3>1. /\ u \in Seq(A) /\ << >> \in Seq(A) /\ << f >> \in Seq(A) /\ << f, g >> \in Seq(A)
          /\ frames' = u \o << >> \/ frames' = u \o << f >> \/ frames' = u \o << f, g >>
      <4>1. u \in Seq(A)
        BY <1>2, SeqOfMore
      <4>2. frames' = u \o << >> \/ frames' = u \o << f >> \/ frames' = u \o << f, g >>
        BY DEF Start
      <4>3. f \in A /\ g \in A
        OBVIOUS
      <4> HIDE DEF u, A
      <4>4. << f >> \in Seq(A) /\ << f, g >> \in Seq(A) /\ << >> \in Seq(A)
        BY <4>3
      <4> QED  BY <4>1, <4>2, <4>4, Zenon
    <3> HIDE DEF u, A
    <3> QED  BY <3>1
  <2> QED  BY <2>1, <2>2
<1> QED
  BY <1>3, <1>4 DEF Cleans

LEMMA ScriptCleans ==
  ASSUME ScriptAssumption, ControlInv, ScriptNext
  PROVE  Cleans
<1>1. frames \in Seq(FrameRec) /\ Len(frames) \in Nat
  BY DEF ControlInv, Control, StackOK
<1>2. CASE frames # << >> /\ Top.kind \notin {"block", "try"}
  BY <1>2 DEF Cleans
<1>3. CASE Len(frames') >= Len(frames) /\ Len(frames') \in Int
  BY <1>1, <1>3 DEF Cleans
<1>4. CASE \/ SimpleStatement \/ Jump \/ FailingExpression \/ Nest \/ YieldStatement
           \/ CallFunction \/ CallThroughPipe \/ CallMethod \/ ConstructThroughPipe
           \/ CallUnbound \/ CallAsync \/ CallSleep \/ CallPromise \/ CallSettle
           \/ CallSocket \/ CloseSocket \/ StartAwait
  <2>1. \E f, g : Start(<< >>) \/ Start(<< f >>) \/ Start(<< f, g >>)
    BY <1>4
       DEF SimpleStatement, Jump, FailingExpression, Nest, YieldStatement, CallFunction,
           CallThroughPipe, CallMethod, ConstructThroughPipe, StartBody, CallUnbound, CallAsync,
           CallSleep, CallPromise, CallSettle, CallSocket, CloseSocket, StartAwait, NativeSucceeds
  <2> QED  BY <2>1, StartStays
<1>5. CASE HostCalls \/ RequireModule
  <2>1. \E f, g : Start(<< f, g >>) \/ (frames = << >> /\ frames' = << f, g >>)
    BY <1>5 DEF HostCalls, RequireModule, EnterMachine, Entry
  <2>2. PICK f, g : Start(<< f, g >>) \/ (frames = << >> /\ frames' = << f, g >>)
    BY <2>1
  <2>3. CASE frames = << >> /\ frames' = << f, g >>
    BY <1>3, <2>3
  <2> QED  BY <2>2, <2>3, StartStays
<1>6. CASE \/ LoopTurns \/ LoopGets \/ SwitchTurns \/ SwitchGets \/ CallReturns
           \/ MachineReturns \/ AwaitEnds \/ AwaitStopped \/ AwaitDeadlock
           \/ RunDueTimers \/ RunTask \/ PollSockets \/ SocketTimesOut \/ SleepToTimer
           \/ TaskEnds \/ ClockTicks
  <2>1. frames # << >> /\ Top.kind \notin {"block", "try"}
    BY <1>6 DEF LoopTurns, LoopGets, SwitchTurns, SwitchGets, CallReturns, MachineReturns,
                AwaitEnds, AwaitStopped, AwaitDeadlock, RunDueTimers, RunTask, PollSockets,
                SocketTimesOut, SleepToTimer, TaskEnds, ClockTicks, Waits, Runs, Gets
  <2> QED  BY <1>2, <2>1
<1>7. CASE BlockEnds \/ DeferStatement
  <2>1. \E f : frames' = Become(f) /\ frames # << >>
    BY <1>7 DEF BlockEnds, DeferStatement, MayPick, Runs
  <2>2. PICK f : frames' = Become(f) /\ frames # << >>
    BY <2>1
  <2>3. Len(frames') = Len(frames)
    BY <1>1, <2>2, BecomeLength
  <2> QED  BY <1>1, <1>3, <2>3
<1>8. CASE BlockGets \/ BlockIsDone
  <2>1. CASE frames' = frames
    BY <1>1, <1>3, <2>1
  <2>2. CASE \E f : frames' = Become(f) /\ frames # << >>
    <3>1. PICK f : frames' = Become(f) /\ frames # << >>
      BY <2>2
    <3>2. Len(frames') = Len(frames)
      BY <1>1, <3>1, BecomeLength
    <3> QED  BY <1>1, <1>3, <3>2
  <2>3. CASE Top.kind = "block" /\ Top.phase = "defers" /\ (Top.left = 0 \/ done \in Abrupt)
    BY <2>3 DEF Cleans
  <2> QED
    BY <1>8, <2>1, <2>2, <2>3 DEF BlockGets, BlockIsDone, Gets, Runs, Completions
<1>9. CASE TryGets
  <2>1. frames # << >> /\ Top.kind = "try"
    BY <1>9 DEF TryGets, Gets
  <2>2. CASE \E f : frames' = Become(f) \o << BlockFrame >>
    BY <1>1, <2>1, <2>2, BecomeLength DEF Cleans
  <2>3. CASE ~Top.fin \/ Top.phase = "finally" \/ (Top.phase = "body" /\ done = "error")
    BY <2>1, <2>3 DEF Cleans
  <2> QED  BY <1>9, <2>2, <2>3 DEF TryGets, Finally
<1>10. CASE ScriptIsOver
  BY <1>1, <1>3, <1>10 DEF ScriptIsOver, scriptVars
<1> QED
  BY <1>4, <1>5, <1>6, <1>7, <1>8, <1>9, <1>10 DEF ScriptNext

(* No block forgets its deferred statements and no try its finally, except in  *)
(* the ways CleanupRuns names (exec_block, N_TRY in cs_vm.c).                  *)
THEOREM CleaningUp == ScriptSpec => CleanupRuns
<1>1. ScriptInv /\ [ScriptNext]_scriptVars => [Cleans]_scriptVars
  BY ScriptAssumption, ScriptCleans DEF ScriptInv
<1>2. ScriptSpec => [][Cleans]_scriptVars
  BY <1>1, ScriptInvariant, PTL DEF ScriptSpec
<1> QED
  BY <1>2 DEF Cleans, CleanupRuns

-----------------------------------------------------------------------------
(* The map *)

KeyVals == Keys \X Vals

(* An array of slots; no key twice; every entry where its probe sequence finds *)
(* it, behind occupied slots only.                                             *)
IsTable(m) == Cap(m) \in Nat \ {0} /\ m \in [1..Cap(m) -> KeyVals \cup {Empty}]
Distinct(m) == \A i, j \in Used(m) : m[i][1] = m[j][1] => i = j
Placed(m) ==
  \A i \in Used(m) : \E p \in 0..Cap(m) - 1 :
    /\ Slot(m, m[i][1], p) = i
    /\ \A q \in 0..p - 1 : m[Slot(m, m[i][1], q)] # Empty
Good(m) == IsTable(m) /\ Distinct(m) /\ Placed(m)

Entries(m) == {m[i] : i \in Used(m)}
HasRoom(m) == \E i \in 1..Cap(m) : m[i] = Empty

-----------------------------------------------------------------------------
(* Slots *)

(* A number between 0 and c that differs from x by a multiple of c is x % c.   *)
LEMMA RemainderIsUnique ==
  ASSUME NEW c \in Nat \ {0}, NEW x \in Nat, NEW a \in Int, NEW r \in 0..c - 1, x = c * a + r
  PROVE  x % c = r
<1> DEFINE b == x \div c
           s == x % c
<1>1. b \in Int /\ s \in 0..c - 1 /\ x = c * b + s
  OBVIOUS
<1> HIDE DEF b, s
<1>2. c * (a - b) = s - r
  BY <1>1
<1>3. ~ (a - b >= 1)
  <2> SUFFICES ASSUME a - b >= 1 PROVE FALSE  OBVIOUS
  <2>1. c * (a - b) >= c  BY <1>1
  <2> QED  BY <1>1, <1>2, <2>1
<1>4. ~ (b - a >= 1)
  <2> SUFFICES ASSUME b - a >= 1 PROVE FALSE  OBVIOUS
  <2>1. c * (b - a) >= c  BY <1>1
  <2>2. c * (b - a) = r - s  BY <1>1
  <2> QED  BY <1>1, <2>1, <2>2
<1>5. a = b
  BY <1>1, <1>3, <1>4
<1>6. s = r
  BY <1>1, <1>5
<1> QED
  BY <1>6 DEF s

(* The remainders of c consecutive numbers are all numbers below c.            *)
LEMMA RemaindersCover ==
  ASSUME NEW c \in Nat \ {0}, NEW h \in Nat, NEW r \in 0..c - 1
  PROVE  \E p \in 0..c - 1 : (h + p) % c = r
<1> DEFINE r0 == h % c
<1>1. r0 \in 0..c - 1 /\ h \div c \in Nat /\ h = c * (h \div c) + r0
  OBVIOUS
<1> DEFINE p == IF r >= r0 THEN r - r0 ELSE r - r0 + c
<1>2. p \in 0..c - 1
  BY <1>1
<1>3. (h + p) % c = r
  <2>1. CASE r >= r0
    <3>1. h + p = c * (h \div c) + r  BY <1>1, <2>1
    <3> QED  BY <3>1, <1>1, <1>2, RemainderIsUnique
  <2>2. CASE r < r0
    <3> DEFINE a == (h \div c) + 1
               x == h + p
    <3>1. x = c * a + r  BY <1>1, <2>2
    <3>2. a \in Int /\ x \in Nat  BY <1>1, <1>2
    <3> HIDE DEF a, x
    <3>3. x % c = r  BY <3>1, <3>2, RemainderIsUnique
    <3> QED  BY <3>3 DEF x
  <2> QED  BY <1>1, <2>1, <2>2
<1> QED
  BY <1>2, <1>3

(* A key probes slots of the map, and every slot within one round.             *)
LEMMA SlotsAreProbed ==
  ASSUME NEW m, IsTable(m), NEW k \in Keys
  PROVE  /\ \A p \in Nat : Slot(m, k, p) \in 1..Cap(m)
         /\ \A i \in 1..Cap(m) : \E p \in 0..Cap(m) - 1 : Slot(m, k, p) = i
<1> USE MapAssumption
<1>1. Hash[k] \in Nat /\ Cap(m) \in Nat \ {0}
  BY DEF IsTable
<1>2. ASSUME NEW p \in Nat PROVE Slot(m, k, p) \in 1..Cap(m)
  <2>1. (Hash[k] + p) % Cap(m) \in 0..Cap(m) - 1  BY <1>1
  <2> QED  BY <1>1, <2>1 DEF Slot
<1>3. ASSUME NEW i \in 1..Cap(m) PROVE \E p \in 0..Cap(m) - 1 : Slot(m, k, p) = i
  <2>1. PICK p \in 0..Cap(m) - 1 : (Hash[k] + p) % Cap(m) = i - 1
    <3>1. i - 1 \in 0..Cap(m) - 1  BY <1>1
    <3> QED  BY <1>1, <3>1, RemaindersCover
  <2> QED  BY <1>1, <2>1 DEF Slot
<1> QED
  BY <1>2, <1>3

(* In a map with room a probe ends at one slot: the first that is empty or     *)
(* holds the key.                                                              *)
LEMMA ProbeEnds ==
  ASSUME NEW m, IsTable(m), HasRoom(m), NEW k \in Keys
  PROVE  \E p \in 0..Cap(m) - 1 :
           /\ Probe(m, k) = {Slot(m, k, p)}
           /\ m[Slot(m, k, p)] = Empty \/ m[Slot(m, k, p)][1] = k
           /\ \A q \in 0..p - 1 : m[Slot(m, k, q)] # Empty /\ m[Slot(m, k, q)][1] # k
<1> DEFINE Ends(p) == m[Slot(m, k, p)] = Empty \/ m[Slot(m, k, p)][1] = k
           stops == {p \in 0..Cap(m) - 1 : Ends(p)}
<1>1. Cap(m) \in Nat \ {0}
  BY DEF IsTable
<1>2. stops # {}
  BY SlotsAreProbed DEF HasRoom
<1>3. stops \subseteq Nat
  BY <1>1
<1>4. Min(stops) \in stops /\ \A q \in stops : Min(stops) <= q
  <2> HIDE DEF stops
  <2> QED  BY <1>2, <1>3, MinOfNats
<1>5. Probe(m, k) = {Slot(m, k, Min(stops))}
  BY <1>2 DEF Probe
<1>6. ASSUME NEW q \in 0..Min(stops) - 1 PROVE ~ Ends(q)
  <2>1. q \in 0..Cap(m) - 1 /\ q < Min(stops)  BY <1>1, <1>4
  <2>2. q \notin stops
    <3>1. SUFFICES ASSUME q \in stops PROVE FALSE  OBVIOUS
    <3>2. Min(stops) <= q  BY <1>4, <3>1
    <3>3. Min(stops) \in Int  BY <1>3, <1>4
    <3> QED  BY <2>1, <3>2, <3>3
  <2> QED  BY <2>1, <2>2
<1> QED
  BY <1>4, <1>5, <1>6

-----------------------------------------------------------------------------
(* Tables *)

LEMMA EntryFacts ==
  /\ \A e \in KeyVals : e # Empty /\ e[1] \in Keys /\ e[2] \in Vals /\ e = Pair(e[1], e[2])
  /\ \A k \in Keys, v \in Vals : Pair(k, v) \in KeyVals
  /\ \A k, v : Pair(k, v)[1] = k /\ Pair(k, v)[2] = v
  BY DEF KeyVals, Empty, Pair

(* map_find of a good table with room finds the one slot that holds the key.   *)
LEMMA FindFinds ==
  ASSUME NEW m, Good(m), HasRoom(m), NEW k \in Keys
  PROVE  Find(m, k) = {i \in Used(m) : m[i][1] = k}
<1>1. PICK p \in 0..Cap(m) - 1 :
        /\ Probe(m, k) = {Slot(m, k, p)}
        /\ m[Slot(m, k, p)] = Empty \/ m[Slot(m, k, p)][1] = k
        /\ \A q \in 0..p - 1 : m[Slot(m, k, q)] # Empty /\ m[Slot(m, k, q)][1] # k
  BY ProbeEnds DEF Good
<1>2. Cap(m) \in Nat \ {0}
  BY DEF Good, IsTable
<1>3. Slot(m, k, p) \in 1..Cap(m)
  BY <1>2, SlotsAreProbed DEF Good
<1>4. ASSUME NEW i \in Find(m, k) PROVE i \in Used(m) /\ m[i][1] = k
  BY <1>1, <1>3 DEF Find, Used
<1>5. ASSUME NEW i \in Used(m), m[i][1] = k PROVE i \in Find(m, k)
  <2>1. PICK r \in 0..Cap(m) - 1 :
          Slot(m, k, r) = i /\ \A q \in 0..r - 1 : m[Slot(m, k, q)] # Empty
    BY <1>5 DEF Good, Placed
  <2>2. m[i] # Empty
    BY DEF Used
  <2>3. ~ (r < p)
    BY <1>1, <1>2, <1>5, <2>1
  <2>4. m[Slot(m, k, p)] # Empty
    BY <1>2, <2>1, <2>2, <2>3
  <2>5. Slot(m, k, p) \in Used(m) /\ m[Slot(m, k, p)][1] = k
    BY <1>1, <1>3, <2>4 DEF Used
  <2>6. Slot(m, k, p) = i
    BY <1>5, <2>5 DEF Good, Distinct
  <2> QED
    BY <1>1, <2>2, <2>6 DEF Find
<1> QED
  BY <1>4, <1>5

(* Storing an entry in a good table with room takes the place of what has its  *)
(* key and keeps the table good.                                               *)
LEMMA StoreKeepsGood ==
  ASSUME NEW m, Good(m), HasRoom(m), NEW e \in KeyVals
  PROVE  /\ Good(Store(m, e)) /\ Cap(Store(m, e)) = Cap(m)
         /\ Entries(Store(m, e)) = {x \in Entries(m) : x[1] # e[1]} \cup {e}
<1> DEFINE k == e[1]
           n == Store(m, e)
<1>1. k \in Keys /\ e # Empty
  BY EntryFacts
<1>2. PICK p \in 0..Cap(m) - 1 :
        /\ Probe(m, k) = {Slot(m, k, p)}
        /\ m[Slot(m, k, p)] = Empty \/ m[Slot(m, k, p)][1] = k
        /\ \A q \in 0..p - 1 : m[Slot(m, k, q)] # Empty /\ m[Slot(m, k, q)][1] # k
  BY <1>1, ProbeEnds DEF Good
<1> DEFINE i == Slot(m, k, p)
<1>3. Cap(m) \in Nat \ {0} /\ m \in [1..Cap(m) -> KeyVals \cup {Empty}]
  BY DEF Good, IsTable
<1>4. i \in 1..Cap(m)
  <2>1. p \in Nat  BY <1>3
  <2> QED  BY <2>1, <1>1, SlotsAreProbed DEF Good
<1>5. n = [m EXCEPT ![i] = e]
  BY <1>2 DEF Store
<1>6. n \in [1..Cap(m) -> KeyVals \cup {Empty}] /\ n[i] = e
      /\ \A j \in 1..Cap(m) : j # i => n[j] = m[j]
  BY <1>3, <1>4, <1>5
<1>7. Cap(n) = Cap(m)
  BY <1>3, <1>6 DEF Cap
<1>8. IsTable(n)
  BY <1>3, <1>6, <1>7 DEF IsTable
<1>9. \A c, q : Slot(n, c, q) = Slot(m, c, q)
  BY <1>7 DEF Slot
<1> HIDE DEF n, i
<1>10. ASSUME NEW j \in Used(n) PROVE j = i \/ (j # i /\ j \in Used(m) /\ n[j] = m[j])
  BY <1>6, <1>7 DEF Used
<1>11. ASSUME NEW j \in Used(m), m[j][1] = k PROVE j = i
  <2>1. Find(m, k) = {x \in Used(m) : m[x][1] = k}  BY <1>1, FindFinds
  <2>2. j \in Find(m, k)  BY <1>11, <2>1
  <2> QED  BY <2>2, <1>2 DEF Find, i
<1>12. Distinct(n)
  <2> SUFFICES ASSUME NEW x \in Used(n), NEW y \in Used(n), n[x][1] = n[y][1] PROVE x = y
    BY DEF Distinct
  <2>1. CASE x = i /\ y = i  BY <2>1
  <2>2. CASE x = i /\ y # i  BY <1>6, <1>10, <1>11, <2>2
  <2>3. CASE x # i /\ y = i  BY <1>6, <1>10, <1>11, <2>3
  <2>4. CASE x # i /\ y # i  BY <1>10, <2>4 DEF Good, Distinct
  <2> QED  BY <2>1, <2>2, <2>3, <2>4
<1>13. \A j \in 1..Cap(m) : m[j] # Empty => n[j] # Empty
  BY <1>1, <1>6
<1>14. Placed(n)
  <2> SUFFICES ASSUME NEW j \in Used(n)
               PROVE  \E r \in 0..Cap(m) - 1 :
                        /\ Slot(m, n[j][1], r) = j
                        /\ \A q \in 0..r - 1 : n[Slot(m, n[j][1], q)] # Empty
    BY <1>7, <1>9 DEF Placed
  <2>1. CASE j = i
    <3>1. \A q \in 0..p - 1 : n[Slot(m, k, q)] # Empty
      <4> SUFFICES ASSUME NEW q \in 0..p - 1 PROVE n[Slot(m, k, q)] # Empty  OBVIOUS
      <4>1. q \in Nat  BY <1>3
      <4>2. Slot(m, k, q) \in 1..Cap(m)  BY <4>1, <1>1, SlotsAreProbed DEF Good
      <4> QED  BY <1>2, <1>13, <4>2
    <3> QED  BY <1>6, <2>1, <3>1 DEF i
  <2>2. CASE j # i
    <3>1. j \in Used(m) /\ n[j] = m[j]  BY <1>10, <2>2
    <3>2. PICK r \in 0..Cap(m) - 1 :
            Slot(m, m[j][1], r) = j /\ \A q \in 0..r - 1 : m[Slot(m, m[j][1], q)] # Empty
      BY <3>1 DEF Good, Placed
    <3>3. m[j][1] \in Keys  BY <1>3, <3>1, EntryFacts DEF Used
    <3>4. ASSUME NEW q \in 0..r - 1 PROVE n[Slot(m, m[j][1], q)] # Empty
      <4>1. q \in Nat  BY <1>3
      <4>2. Slot(m, m[j][1], q) \in 1..Cap(m)  BY <4>1, <3>3, SlotsAreProbed DEF Good
      <4> QED  BY <1>13, <3>2, <4>2
    <3> QED  BY <3>1, <3>2, <3>4
  <2> QED  BY <2>1, <2>2
<1>15. Entries(n) = {x \in Entries(m) : x[1] # k} \cup {e}
  <2>1. ASSUME NEW x \in Entries(n) PROVE x = e \/ (x \in Entries(m) /\ x[1] # k)
    <3>1. PICK j \in Used(n) : x = n[j]  BY DEF Entries
    <3>2. CASE j = i  BY <1>6, <3>1, <3>2
    <3>3. CASE j # i
      <4>1. j \in Used(m) /\ n[j] = m[j]  BY <1>10, <3>3
      <4>2. m[j][1] # k  BY <1>11, <3>3, <4>1
      <4> QED  BY <3>1, <4>1, <4>2 DEF Entries
    <3> QED  BY <3>2, <3>3
  <2>2. e \in Entries(n)
    BY <1>1, <1>4, <1>6, <1>7 DEF Entries, Used
  <2>3. ASSUME NEW x \in Entries(m), x[1] # k PROVE x \in Entries(n)
    <3>1. PICK j \in Used(m) : x = m[j]  BY DEF Entries
    <3>2. j # i  BY <1>2, <2>3, <3>1 DEF Used, i
    <3> QED  BY <1>6, <1>7, <3>1, <3>2 DEF Entries, Used
  <2> QED  BY <2>1, <2>2, <2>3
<1> QED
  BY <1>7, <1>8, <1>12, <1>14, <1>15 DEF Good, n

-----------------------------------------------------------------------------
(* How many entries there are *)

(* A table has as many occupied slots as entries.                              *)
LEMMA UsedAreEntries ==
  ASSUME NEW m, IsTable(m), Distinct(m)
  PROVE  /\ IsFiniteSet(Used(m)) /\ IsFiniteSet(Entries(m))
         /\ Cardinality(Entries(m)) = Cardinality(Used(m))
         /\ Cardinality(Used(m)) \in Nat
<1>1. IsFiniteSet(1..Cap(m))
  BY FS_Interval DEF IsTable
<1>2. IsFiniteSet(Used(m))
  BY <1>1, FS_Subset DEF Used
<1> DEFINE f == [i \in Used(m) |-> m[i]]
<1>3. f \in Bijection(Used(m), Entries(m))
  <2>1. f \in [Used(m) -> Entries(m)]  BY DEF Entries
  <2>2. \A e \in Entries(m) : \E i \in Used(m) : f[i] = e  BY DEF Entries
  <2>3. \A i, j \in Used(m) : f[i] = f[j] => i = j  BY DEF Distinct
  <2> HIDE DEF f
  <2>4. f \in Injection(Used(m), Entries(m))  BY <2>1, <2>3 DEF Injection, IsInjective
  <2>5. f \in Surjection(Used(m), Entries(m))  BY <2>1, <2>2 DEF Surjection
  <2> QED  BY <2>4, <2>5 DEF Bijection
<1>4. ExistsBijection(Used(m), Entries(m))
  BY <1>3 DEF ExistsBijection
<1> QED
  BY <1>2, <1>4, FS_Bijection, FS_CardinalityType

(* A table with fewer entries than slots has room.                             *)
LEMMA FewEntriesLeaveRoom ==
  ASSUME NEW m, IsTable(m), Cardinality(Used(m)) < Cap(m)
  PROVE  HasRoom(m)
<1> SUFFICES ASSUME ~ HasRoom(m) PROVE FALSE
  OBVIOUS
<1>1. Cap(m) \in Nat \ {0}
  BY DEF IsTable
<1>2. Used(m) = 1..Cap(m)
  BY DEF HasRoom, Used
<1>3. Cardinality(1..Cap(m)) = Cap(m)
  BY <1>1, FS_Interval
<1> QED
  BY <1>1, <1>2, <1>3

-----------------------------------------------------------------------------
(* Rebuilding *)

EmptyTable(c) == [i \in 1..c |-> Empty]

LEMMA EmptyTableIsGood ==
  ASSUME NEW c \in Nat \ {0}
  PROVE  Good(EmptyTable(c)) /\ Cap(EmptyTable(c)) = c /\ Used(EmptyTable(c)) = {}
<1>1. Cap(EmptyTable(c)) = c
  BY DEF EmptyTable, Cap
<1>2. Used(EmptyTable(c)) = {}
  BY <1>1 DEF EmptyTable, Used
<1> QED
  BY <1>1, <1>2 DEF Good, IsTable, Distinct, Placed, EmptyTable

(* A rebuilt table comes about by storing one slot after the other.            *)
LEMMA RebuiltInSteps ==
  ASSUME NEW m, IsTable(m), NEW c \in Nat \ {0}
  PROVE  \E g : /\ g[0] = EmptyTable(c)
                /\ \A k \in 1..Cap(m) : g[k] = Restored(g[k - 1], m[k])
                /\ Rebuilt(m, c) = g[Cap(m)]
<1> DEFINE n == Cap(m)
           A == [1..c -> KeyVals \cup {Empty}]
           step == [x \in A \X (1..n) |-> Restored(x[1], m[x[2]])]
           Eq(f) == f = [s \in SUBSET (1..n) |->
                           IF s = {} THEN EmptyTable(c)
                           ELSE Restored(f[s \ {Max(s)}], m[Max(s)])]
<1>1. n \in Nat /\ DOMAIN m = 1..n
  BY DEF IsTable
<1>2. EmptyTable(c) \in A
  BY DEF EmptyTable
<1>3. step \in [A \X (1..n) -> A]
  <2> SUFFICES ASSUME NEW x \in A \X (1..n) PROVE Restored(x[1], m[x[2]]) \in A
    OBVIOUS
  <2>1. x[1] \in A /\ m[x[2]] \in KeyVals \cup {Empty}  BY DEF IsTable
  <2> QED  BY <2>1 DEF Restored, Store
<1>4. PICK f \in [SUBSET (1..n) -> A] : \A s \in SUBSET (1..n) :
        f[s] = IF s = {} THEN EmptyTable(c) ELSE step[<< f[s \ {Max(s)}], Max(s) >>]
  <2> DEFINE base == EmptyTable(c)
  <2>1. n \in Nat /\ base \in A /\ step \in [A \X (1..n) -> A]  BY <1>1, <1>2, <1>3
  <2> HIDE DEF step, A, n, base
  <2>2. Foldings(n, A, base, step) # {}
    BY <2>1, FoldExists
  <2> QED  BY <2>2 DEF base, Foldings
<1>5. ASSUME NEW s \in SUBSET (1..n), s # {}
      PROVE  step[<< f[s \ {Max(s)}], Max(s) >>] = Restored(f[s \ {Max(s)}], m[Max(s)])
  <2>1. Max(s) \in 1..n  BY <1>1, <1>5, MaxOfInterval
  <2>2. f[s \ {Max(s)}] \in A
    <3> HIDE DEF A
    <3> QED  BY <1>4
  <2> HIDE DEF A, n
  <2> QED  BY <2>1, <2>2
<1>6. Eq(f)
  <2> HIDE DEF A, n, step
  <2> QED  BY <1>4, <1>5
<1> DEFINE iter == CHOOSE it : Eq(it)
<1>7. Eq(iter)
  <2> HIDE DEF Eq
  <2> QED  BY <1>6
<1>8. Rebuilt(m, c) = iter[1..n]
  BY <1>1 DEF Rebuilt, FoldLeft, MapThenFoldSet, EmptyTable
<1> HIDE DEF iter
<1> DEFINE g == [k \in 0..n |-> iter[1..k]]
<1>9. g[0] = EmptyTable(c)
  <2>1. 1..0 = {} /\ 0 \in 0..n  BY <1>1
  <2> QED  BY <1>7, <2>1
<1>10. ASSUME NEW k \in 1..n PROVE g[k] = Restored(g[k - 1], m[k])
  <2>1. k \in 0..n /\ k - 1 \in 0..n  BY <1>1
  <2>2. iter[1..k] = IF 1..k = {} THEN EmptyTable(c)
                     ELSE Restored(iter[(1..k) \ {Max(1..k)}], m[Max(1..k)])
    BY <1>1, <1>7, FoldPasses
  <2> QED  BY <1>1, <2>1, <2>2, FoldPasses
<1>11. g[Cap(m)] = iter[1..n]
  BY <1>1
<1> HIDE DEF g
<1> QED
  BY <1>8, <1>9, <1>10, <1>11

(* map_rehash keeps the entries, when the new array is larger than their       *)
(* number.                                                                     *)
LEMMA RebuiltKeepsEntries ==
  ASSUME NEW m, IsTable(m), Distinct(m), NEW c \in Nat \ {0}, Cardinality(Used(m)) < c
  PROVE  /\ Good(Rebuilt(m, c)) /\ Cap(Rebuilt(m, c)) = c
         /\ Entries(Rebuilt(m, c)) = Entries(m)
<1> DEFINE n == Cap(m)
           Upto(k) == {m[i] : i \in Used(m) \cap (1..k)}
<1>1. n \in Nat
  BY DEF IsTable
<1>2. PICK g : /\ g[0] = EmptyTable(c)
               /\ \A k \in 1..n : g[k] = Restored(g[k - 1], m[k])
               /\ Rebuilt(m, c) = g[n]
  BY RebuiltInSteps
<1> DEFINE Kept == {k \in 0..n : Good(g[k]) /\ Cap(g[k]) = c /\ Entries(g[k]) = Upto(k)}
<1>3. 0 \in Kept
  <2>1. Upto(0) = {} /\ Entries(EmptyTable(c)) = {}
    BY EmptyTableIsGood DEF Entries
  <2> QED  BY <1>1, <1>2, <2>1, EmptyTableIsGood
<1>4. ASSUME NEW k \in 0..n - 1, k \in Kept PROVE k + 1 \in Kept
  <2> DEFINE e == m[k + 1]
  <2>1. k + 1 \in 1..n /\ k + 1 \in 0..n /\ (k + 1) - 1 = k
    BY <1>1
  <2>2. g[k + 1] = Restored(g[k], e)
    BY <1>2, <2>1
  <2>3. \A i \in Used(m) : i \in 1..(k + 1) <=> i \in 1..k \/ i = k + 1
    BY <1>1, <2>1 DEF Used
  <2>4. CASE e = Empty
    <3>1. k + 1 \notin Used(m)  BY <2>4 DEF Used
    <3>2. Used(m) \cap (1..(k + 1)) = Used(m) \cap (1..k)  BY <2>3, <3>1
    <3>3. g[k + 1] = g[k]  BY <2>2, <2>4 DEF Restored
    <3> QED  BY <1>4, <2>1, <3>2, <3>3
  <2>5. CASE e # Empty
    <3>1. e \in KeyVals /\ k + 1 \in Used(m)  BY <2>1, <2>5 DEF IsTable, Used
    <3>2. HasRoom(g[k])
      <4>1. Upto(k) \subseteq Entries(m)  BY DEF Entries
      <4>2. Cardinality(Upto(k)) <= Cardinality(Used(m)) /\ Cardinality(Used(m)) \in Nat
        BY <4>1, UsedAreEntries, FS_Subset
      <4>3. IsTable(g[k]) /\ Distinct(g[k]) /\ Cap(g[k]) = c /\ Entries(g[k]) = Upto(k)
        BY <1>4 DEF Good
      <4> HIDE DEF Upto
      <4>4. Cardinality(Used(g[k])) = Cardinality(Upto(k)) /\ Cardinality(Used(g[k])) \in Nat
        BY <4>3, UsedAreEntries
      <4> QED  BY <4>2, <4>3, <4>4, FewEntriesLeaveRoom
    <3>3. /\ Good(g[k + 1]) /\ Cap(g[k + 1]) = c
          /\ Entries(g[k + 1]) = {x \in Upto(k) : x[1] # e[1]} \cup {e}
      <4>1. Good(g[k]) /\ Cap(g[k]) = c /\ Entries(g[k]) = Upto(k)  BY <1>4
      <4>2. g[k + 1] = Store(g[k], e)  BY <2>2, <2>5 DEF Restored
      <4> HIDE DEF Upto, e
      <4> QED  BY <3>1, <3>2, <4>1, <4>2, StoreKeepsGood
    <3>4. \A i \in Used(m) \cap (1..k) : m[i][1] # e[1]
      BY <1>1, <3>1 DEF Distinct, Used
    <3>5. {x \in Upto(k) : x[1] # e[1]} \cup {e} = Upto(k + 1)
      BY <2>3, <3>1, <3>4
    <3> QED  BY <2>1, <3>3, <3>5
  <2> QED  BY <2>4, <2>5
<1>5. 0..n \subseteq Kept
  <2> HIDE DEF Kept, n
  <2> QED  BY <1>1, <1>3, <1>4, IntervalInduction
<1>6. Upto(n) = Entries(m)
  BY <1>1 DEF Entries, Used
<1> QED
  BY <1>1, <1>2, <1>5, <1>6

-----------------------------------------------------------------------------
(* The operations *)

(* The load factor *)
Light(m) == Cardinality(Used(m)) <= (Cap(m) * 7) \div 10

(* A light table has room.                                                     *)
LEMMA LightHasRoom ==
  ASSUME NEW m, IsTable(m), Distinct(m), Light(m)
  PROVE  HasRoom(m) /\ Cardinality(Used(m)) < Cap(m)
<1>1. Cap(m) \in Nat \ {0} /\ Cardinality(Used(m)) \in Nat
  BY UsedAreEntries DEF IsTable
<1>2. (Cap(m) * 7) \div 10 < Cap(m)
  BY <1>1
<1>3. Cardinality(Used(m)) < Cap(m)
  BY <1>1, <1>2 DEF Light
<1> QED
  BY <1>3, FewEntriesLeaveRoom

(* map_ensure makes room for one more, and keeps the entries.                  *)
LEMMA GrownKeepsEntries ==
  ASSUME NEW m, Good(m), Light(m)
  PROVE  /\ Good(Grown(m)) /\ Entries(Grown(m)) = Entries(m)
         /\ Cardinality(Used(Grown(m))) + 1 <= (Cap(Grown(m)) * 7) \div 10
<1>1. IsTable(m) /\ Distinct(m)
  BY DEF Good
<1>2. Cap(m) \in Nat \ {0} /\ Cardinality(Used(m)) \in Nat
  BY <1>1, UsedAreEntries DEF IsTable
<1>3. CASE Cardinality(Used(m)) + 1 > (Cap(m) * 7) \div 10
  <2> DEFINE c == 2 * Cap(m)
             r == Rebuilt(m, c)
  <2>1. c \in Nat \ {0} /\ Cardinality(Used(m)) < c
    BY <1>1, <1>2, LightHasRoom
  <2>2. Grown(m) = r
    BY <1>3 DEF Grown
  <2>3. Good(r) /\ Cap(r) = c /\ Entries(r) = Entries(m)
    <3> HIDE DEF c
    <3> QED  BY <1>1, <2>1, RebuiltKeepsEntries
  <2>4. Cardinality(Used(r)) = Cardinality(Used(m))
    <3>1. IsTable(r) /\ Distinct(r)  BY <2>3 DEF Good
    <3> HIDE DEF r
    <3> QED  BY <1>1, <2>3, <3>1, UsedAreEntries
  <2>5. Cardinality(Used(m)) + 1 <= (c * 7) \div 10
    BY <1>2 DEF Light
  <2> QED  BY <2>2, <2>3, <2>4, <2>5
<1>4. CASE ~ (Cardinality(Used(m)) + 1 > (Cap(m) * 7) \div 10)
  BY <1>2, <1>4 DEF Grown
<1> QED
  BY <1>3, <1>4

(* map_set_value replaces the entry of the key, or adds one.                   *)
LEMMA SetInSets ==
  ASSUME NEW m, Good(m), Light(m), NEW k \in Keys, NEW v \in Vals
  PROVE  /\ Good(SetIn(m, k, v)) /\ Light(SetIn(m, k, v))
         /\ Cap(SetIn(m, k, v)) = Cap(Grown(m))
         /\ Entries(SetIn(m, k, v)) = {x \in Entries(m) : x[1] # k} \cup {Pair(k, v)}
<1> DEFINE g == Grown(m)
           n == Store(g, Pair(k, v))
<1>1. /\ Good(g) /\ Entries(g) = Entries(m)
      /\ Cardinality(Used(g)) + 1 <= (Cap(g) * 7) \div 10
  BY GrownKeepsEntries
<1> HIDE DEF g
<1>2. IsTable(g) /\ Distinct(g) /\ Cardinality(Used(g)) \in Nat /\ Cap(g) \in Nat
  BY <1>1, UsedAreEntries DEF Good, IsTable
<1>3. HasRoom(g)
  BY <1>1, <1>2, LightHasRoom DEF Light
<1>4. SetIn(m, k, v) = n
  BY <1>2, <1>3, ProbeEnds DEF SetIn, g
<1>5. Pair(k, v) \in KeyVals /\ Pair(k, v)[1] = k
  BY EntryFacts
<1>6. /\ Good(n) /\ Cap(n) = Cap(g)
      /\ Entries(n) = {x \in Entries(g) : x[1] # k} \cup {Pair(k, v)}
  BY <1>1, <1>3, <1>5, StoreKeepsGood
<1> HIDE DEF n
<1>7. Cardinality(Used(n)) <= Cardinality(Used(g)) + 1
  <2> DEFINE others == {x \in Entries(g) : x[1] # k}
  <2>1. IsFiniteSet(Entries(g)) /\ Cardinality(Entries(g)) = Cardinality(Used(g))
    BY <1>2, UsedAreEntries
  <2>2. IsFiniteSet(others) /\ Cardinality(others) <= Cardinality(Entries(g))
    BY <2>1, FS_Subset
  <2>3. Cardinality(others) \in Nat /\ Cardinality(Entries(g)) \in Nat
    BY <2>1, <2>2, FS_CardinalityType
  <2>4. Cardinality(Entries(n)) <= Cardinality(others) + 1
    <3> HIDE DEF others
    <3>1. Cardinality(others \cup {Pair(k, v)}) =
            IF Pair(k, v) \in others THEN Cardinality(others) ELSE Cardinality(others) + 1
      BY <2>2, FS_AddElement
    <3> QED  BY <1>6, <2>3, <3>1 DEF others
  <2>5. Cardinality(Entries(n)) = Cardinality(Used(n)) /\ Cardinality(Used(n)) \in Nat
    BY <1>6, UsedAreEntries DEF Good
  <2> HIDE DEF others
  <2> QED  BY <2>1, <2>2, <2>3, <2>4, <2>5
<1>8. Light(n)
  <2>1. Cardinality(Used(n)) \in Nat  BY <1>6, UsedAreEntries DEF Good
  <2>2. Cardinality(Used(n)) <= (Cap(g) * 7) \div 10
    BY <1>1, <1>2, <1>7, <2>1
  <2> QED  BY <1>6, <2>2 DEF Light
<1> QED
  BY <1>1, <1>4, <1>6, <1>8 DEF g

(* map_del_value drops the entry of its slot, and keeps the others.            *)
LEMMA DeleteAtDeletes ==
  ASSUME NEW m, Good(m), Light(m), NEW i \in Used(m)
  PROVE  /\ Good(DeleteAt(m, i)) /\ Light(DeleteAt(m, i)) /\ Cap(DeleteAt(m, i)) = Cap(m)
         /\ Entries(DeleteAt(m, i)) = {x \in Entries(m) : x[1] # m[i][1]}
<1> DEFINE h == [m EXCEPT ![i] = Empty]
           r == Rebuilt(h, Cap(m))
<1>1. IsTable(m) /\ Distinct(m) /\ Cap(m) \in Nat \ {0}
  BY DEF Good, IsTable
<1>2. i \in 1..Cap(m) /\ h \in [1..Cap(m) -> KeyVals \cup {Empty}]
  BY <1>1 DEF IsTable, Used
<1>3. Cap(h) = Cap(m)
  BY <1>1, <1>2 DEF Cap
<1>4. Used(h) = Used(m) \ {i} /\ \A j \in Used(h) : h[j] = m[j]
  BY <1>1, <1>2, <1>3 DEF IsTable, Used
<1>5. IsTable(h) /\ Distinct(h)
  BY <1>1, <1>2, <1>3, <1>4 DEF IsTable, Distinct
<1>6. Entries(h) = {x \in Entries(m) : x[1] # m[i][1]}
  <2>1. ASSUME NEW x \in Entries(h) PROVE x \in Entries(m) /\ x[1] # m[i][1]
    <3>1. PICK j \in Used(h) : x = h[j]  BY <2>1 DEF Entries
    <3>2. j \in Used(m) /\ j # i /\ x = m[j]  BY <1>4, <3>1
    <3> QED  BY <1>1, <3>2 DEF Entries, Distinct
  <2>2. ASSUME NEW x \in Entries(m), x[1] # m[i][1] PROVE x \in Entries(h)
    <3>1. PICK j \in Used(m) : x = m[j]  BY <2>2 DEF Entries
    <3>2. j \in Used(h) /\ x = h[j]  BY <1>4, <2>2, <3>1
    <3> QED  BY <3>2 DEF Entries
  <2> HIDE DEF h
  <2> QED  BY <2>1, <2>2
<1> HIDE DEF h
<1>7. /\ Cardinality(Used(h)) <= Cardinality(Used(m)) /\ Cardinality(Used(m)) \in Nat
      /\ Cardinality(Used(h)) \in Nat /\ Cardinality(Used(m)) < Cap(m)
  BY <1>1, <1>4, <1>5, UsedAreEntries, FS_Subset, LightHasRoom
<1>8. Good(r) /\ Cap(r) = Cap(m) /\ Entries(r) = Entries(h)
  BY <1>1, <1>5, <1>7, RebuiltKeepsEntries
<1>9. DeleteAt(m, i) = r
  BY DEF DeleteAt, h
<1> HIDE DEF r
<1>10. Cardinality(Used(r)) = Cardinality(Used(h))
  BY <1>5, <1>8, UsedAreEntries DEF Good
<1>11. Light(r)
  BY <1>1, <1>7, <1>8, <1>10 DEF Light
<1> QED
  BY <1>6, <1>8, <1>9, <1>11

-----------------------------------------------------------------------------
(* The invariant *)

MapInv ==
  /\ Good(map) /\ Light(map) /\ Cap(map) <= MaxCap
  /\ DOMAIN holds \subseteq Keys /\ \A k \in DOMAIN holds : holds[k] \in Vals
  /\ Entries(map) = {Pair(k, holds[k]) : k \in DOMAIN holds}
  /\ at \in 0..MaxCap

(* An empty map, and no key that was set.                                      *)
LEMMA MapInitInv == MapInit => MapInv
<1> SUFFICES ASSUME MapInit PROVE MapInv
  OBVIOUS
<1> USE MapAssumption
<1>1. map = EmptyTable(FirstCap)
  BY DEF MapInit, EmptyTable
<1>2. Good(map) /\ Cap(map) = FirstCap /\ Used(map) = {}
  BY <1>1, EmptyTableIsGood
<1>3. Light(map)
  BY <1>2, FS_EmptySet DEF Light
<1>4. Entries(map) = {} /\ DOMAIN holds = {}
  BY <1>2 DEF Entries, MapInit
<1> QED
  BY <1>2, <1>3, <1>4, SMTT(30) DEF MapInit, MapInv

(* Every operation keeps it.                                                   *)
LEMMA MapNextInv == MapInv /\ [MapNext]_mapVars => MapInv'
<1> SUFFICES ASSUME MapInv, [MapNext]_mapVars PROVE MapInv'
  OBVIOUS
<1> USE MapAssumption
<1>1. CASE MapSet
  <2>1. PICK k \in Keys, v \in Vals :
          /\ Cap(Grown(map)) <= MaxCap
          /\ map' = SetIn(map, k, v)
          /\ holds' = [x \in DOMAIN holds \cup {k} |-> IF x = k THEN v ELSE holds[x]]
          /\ at' = at
    BY <1>1 DEF MapSet
  <2>2. /\ Good(map') /\ Light(map') /\ Cap(map') <= MaxCap
        /\ Entries(map') = {x \in Entries(map) : x[1] # k} \cup {Pair(k, v)}
    BY <2>1, SetInSets DEF MapInv
  <2>3. DOMAIN holds' \subseteq Keys /\ \A x \in DOMAIN holds' : holds'[x] \in Vals
    BY <2>1 DEF MapInv
  <2>4. Entries(map') = {Pair(x, holds'[x]) : x \in DOMAIN holds'}
    <3>1. {x \in Entries(map) : x[1] # k} = {Pair(x, holds[x]) : x \in DOMAIN holds \ {k}}
      BY EntryFacts DEF MapInv
    <3> QED  BY <2>1, <2>2, <3>1
  <2>5. Light(map)' /\ Good(map)' /\ (Cap(map) <= MaxCap)' /\ Entries(map)' = Entries(map')
    BY <2>2 DEF Good, IsTable, Distinct, Placed, Light, Cap, Used, Entries, Slot
  <2> QED  BY <2>1, <2>3, <2>4, <2>5 DEF MapInv
<1>2. CASE MapDelete
  <2>1. PICK k \in Keys : \E i \in Find(map, k) :
          /\ map' = DeleteAt(map, i)
          /\ holds' = [x \in DOMAIN holds \ {k} |-> holds[x]]
          /\ at' = at
    BY <1>2 DEF MapDelete
  <2>2. PICK i \in Find(map, k) : map' = DeleteAt(map, i)
    BY <2>1
  <2>3. i \in Used(map) /\ map[i][1] = k
    BY <2>2, LightHasRoom, FindFinds DEF MapInv, Good
  <2>4. /\ Good(map') /\ Light(map') /\ Cap(map') <= MaxCap
        /\ Entries(map') = {x \in Entries(map) : x[1] # k}
    BY <2>2, <2>3, DeleteAtDeletes DEF MapInv
  <2>5. Entries(map') = {Pair(x, holds'[x]) : x \in DOMAIN holds'}
    BY <2>1, <2>4, EntryFacts DEF MapInv
  <2> QED  BY <2>1, <2>4, <2>5 DEF MapInv
<1>3. CASE LoopOverMap
  BY <1>3 DEF LoopOverMap, MapInv
<1>4. CASE LoopVisits
  <2> DEFINE ahead == {i \in Used(map) : i >= at}
  <2>1. Cap(map) \in Nat \ {0} /\ Cap(map) <= MaxCap
    BY DEF MapInv, Good, IsTable
  <2>2. ahead # {} => Min(ahead) \in Nat
    <3>1. ahead \subseteq Nat  BY <2>1 DEF Used
    <3> HIDE DEF ahead
    <3> QED  BY <3>1, MinOfNats
  <2>3. at' = IF ahead = {} THEN 0 ELSE (Min(ahead) + 1) % (Cap(map) + 1)
    BY <1>4 DEF LoopVisits
  <2> HIDE DEF ahead
  <2>4. at' \in 0..MaxCap
    BY <2>1, <2>2, <2>3
  <2> QED  BY <1>4, <2>4 DEF LoopVisits, MapInv
<1>5. CASE UNCHANGED mapVars
  BY <1>5 DEF mapVars, MapInv
<1> QED
  BY <1>1, <1>2, <1>3, <1>4, <1>5 DEF MapNext

(* What the invariant says of a lookup.                                        *)
LEMMA MapInvFinds ==
  MapInv => /\ \A k \in Keys : Find(map, k) = {i \in Used(map) : map[i][1] = k}
            /\ HasRoom(map)
  BY FindFinds, LightHasRoom DEF MapInv, Good

(* The map has a slot free for every probe, and its slots hold pairs of keys   *)
(* and values (map_ensure, map_find).                                          *)
THEOREM MapTyped == MapSpec => []MapTypeOK
<1>1. MapInv => MapTypeOK
  <2> SUFFICES ASSUME MapInv PROVE MapTypeOK
    OBVIOUS
  <2>1. Cap(map) \in Nat \ {0} /\ Cap(map) <= MaxCap /\ MaxCap \in Nat
    BY MapAssumption DEF MapInv, Good, IsTable
  <2>2. \A i \in Used(map) : map[i][1] \in Keys /\ map[i][2] \in Vals
    BY EntryFacts DEF MapInv, Good, IsTable, Used
  <2>3. Used(map) # 1..Cap(map)
    BY MapInvFinds DEF HasRoom, Used
  <2> QED  BY <2>1, <2>2, <2>3 DEF MapTypeOK, MapInv
<1> QED
  BY MapInitInv, MapNextInv, <1>1, PTL DEF MapSpec

(* Whatever was set, replaced, deleted and moved by growth and by deletions,   *)
(* a lookup finds exactly the keys that were set and not deleted since, each   *)
(* with its last value (map_find, map_set_value, map_del_value, map_rehash).   *)
THEOREM MapFindsWhatWasSet == MapSpec => []MapIsAFunction
<1>1. MapInv => MapIsAFunction
  <2> SUFFICES ASSUME MapInv PROVE MapIsAFunction
    OBVIOUS
  <2> DEFINE D == DOMAIN holds
  <2>1. Entries(map) = {Pair(k, holds[k]) : k \in D} /\ D \subseteq Keys
    BY DEF MapInv
  <2>2. ASSUME NEW k \in Keys PROVE Find(map, k) # {} <=> k \in D
    <3>1. Find(map, k) = {i \in Used(map) : map[i][1] = k}  BY MapInvFinds
    <3>2. ASSUME NEW i \in Find(map, k) PROVE k \in D
      <4>1. map[i] \in Entries(map) /\ map[i][1] = k  BY <3>1, <3>2 DEF Entries
      <4> QED  BY <2>1, <4>1, EntryFacts
    <3>3. ASSUME k \in D PROVE Find(map, k) # {}
      <4>1. Pair(k, holds[k]) \in Entries(map)  BY <2>1, <3>3
      <4>2. PICK i \in Used(map) : map[i] = Pair(k, holds[k])  BY <4>1 DEF Entries
      <4> QED  BY <3>1, <4>2, EntryFacts
    <3> QED  BY <3>2, <3>3
  <2>3. ASSUME NEW k \in D, NEW i \in Find(map, k) PROVE map[i] = Pair(k, holds[k])
    <3>1. map[i] \in Entries(map) /\ map[i][1] = k
      BY <2>1, MapInvFinds DEF Entries
    <3> QED  BY <2>1, <3>1, EntryFacts
  <2>4. Cardinality(Used(map)) = Cardinality(D)
    <3> DEFINE f == [k \in D |-> Pair(k, holds[k])]
    <3>1. f \in [D -> Entries(map)] /\ \A e \in Entries(map) : \E k \in D : f[k] = e
      BY <2>1
    <3>2. \A k, l \in D : f[k] = f[l] => k = l
      <4> SUFFICES ASSUME NEW k \in D, NEW l \in D, Pair(k, holds[k]) = Pair(l, holds[l])
                   PROVE  k = l
        OBVIOUS
      <4> QED  BY EntryFacts
    <3> HIDE DEF f
    <3>3. f \in Injection(D, Entries(map)) /\ f \in Surjection(D, Entries(map))
      BY <3>1, <3>2 DEF Injection, IsInjective, Surjection
    <3>4. IsFiniteSet(Entries(map)) /\ Cardinality(Entries(map)) = Cardinality(Used(map))
      BY UsedAreEntries DEF MapInv, Good
    <3> QED  BY <3>3, <3>4, FS_Injection
  <2> QED  BY <2>2, <2>3, <2>4 DEF MapIsAFunction
<1> QED
  BY MapInitInv, MapNextInv, <1>1, PTL DEF MapSpec

-----------------------------------------------------------------------------
(* Reference counts and the collector of cycles *)

(* What an object can be. *)
ObjKinds == {"free", "list", "map", "func"}
(* An item of a list (NoObj is its key) or an entry of a map. *)
Item == [key : Objs \cup {NoObj}, val : Objs]
(* The heaps, of any objects with any items. *)
Heaps == [kind : [Objs -> ObjKinds], ref : [Objs -> Nat], out : [Objs -> Seq(Item)]]
(* The items whose key, and whose value, is o. *)
KeyIs(o) == {e \in Item : e.key = o}
ValIs(o) == {e \in Item : e.val = o}

(* What is in a heap. *)
LEMMA HeapIs ==
  ASSUME NEW h \in Heaps, NEW o \in Objs
  PROVE  /\ h.kind[o] \in ObjKinds /\ h.ref[o] \in Nat /\ h.out[o] \in Seq(Item)
         /\ Len(h.out[o]) \in Nat /\ DOMAIN h.out[o] = 1 .. Len(h.out[o])
         /\ \A i \in 1 .. Len(h.out[o]) :
              /\ h.out[o][i] \in Item /\ h.out[o][i].val \in Objs
              /\ h.out[o][i].key \in Objs \cup {NoObj}
<1>1. h.kind[o] \in ObjKinds /\ h.ref[o] \in Nat /\ h.out[o] \in Seq(Item)
  BY DEF Heaps
<1> DEFINE s == h.out[o]
<1>2. s \in Seq(Item)
  BY <1>1
<1> HIDE DEF s
<1>3. Len(s) \in Nat /\ DOMAIN s = 1 .. Len(s) /\ \A i \in 1 .. Len(s) : s[i] \in Item
  BY <1>2
<1>4. \A e \in Item : e.val \in Objs /\ e.key \in Objs \cup {NoObj}
  BY DEF Item
<1>5. \A i \in 1 .. Len(s) : s[i] \in Item /\ s[i].val \in Objs /\ s[i].key \in Objs \cup {NoObj}
  BY <1>3, <1>4
<1> QED
  BY <1>1, <1>3, <1>5 DEF s

(* A sequence from its beginnings.                                             *)
LEMMA Beginnings ==
  ASSUME NEW A, NEW s \in Seq(A)
  PROVE  /\ SubSeq(s, 1, 0) = << >> /\ SubSeq(s, 1, Len(s)) = s /\ Len(s) \in Nat
         /\ \A k \in 1 .. Len(s) : /\ SubSeq(s, 1, k - 1) \in Seq(A) /\ s[k] \in A
                                   /\ SubSeq(s, 1, k) = Append(SubSeq(s, 1, k - 1), s[k])
<1>1. Len(s) \in Nat /\ DOMAIN s = 1 .. Len(s) /\ \A i \in 1 .. Len(s) : s[i] \in A
  OBVIOUS
<1>2. SubSeq(s, 1, 0) = << >> /\ SubSeq(s, 1, Len(s)) = s
  BY <1>1
<1>3. ASSUME NEW k \in 1 .. Len(s)
      PROVE  /\ SubSeq(s, 1, k - 1) \in Seq(A) /\ s[k] \in A
             /\ SubSeq(s, 1, k) = Append(SubSeq(s, 1, k - 1), s[k])
  BY <1>1
<1> QED
  BY <1>1, <1>2, <1>3

(* FlattenSeq joins its sequences one after the other. *)
LEMMA FlatInSteps ==
  ASSUME NEW A, NEW ss \in Seq(Seq(A))
  PROVE  \E g \in [0 .. Len(ss) -> Seq(A)] :
            /\ g[0] = << >>
            /\ \A k \in 1 .. Len(ss) : g[k] = g[k - 1] \o ss[k]
            /\ FlattenSeq(ss) = g[Len(ss)]
<1> DEFINE n == Len(ss)  B == Seq(A)
           Eq(f) == f = [i \in 1 .. n |-> IF i = 1 THEN ss[i] ELSE f[i - 1] \o ss[i]]
<1>1. n \in Nat /\ DOMAIN ss = 1 .. n /\ \A i \in 1 .. n : ss[i] \in B
  OBVIOUS
<1>2. CASE n = 0
  <2>1. FlattenSeq(ss) = << >>  BY <1>1, <1>2 DEF FlattenSeq
  <2> DEFINE g == [k \in 0 .. n |-> << >>]
  <2>2. g \in [0 .. n -> B] /\ g[0] = << >> /\ g[n] = << >>  BY <1>2
  <2>3. \A k \in 1 .. n : FALSE  BY <1>2
  <2> HIDE DEF g, B
  <2> QED  BY <2>1, <2>2, <2>3
<1>3. CASE n > 0
  <2> DEFINE step == [x \in B \X (2 .. n) |-> x[1] \o ss[x[2]]]
             first == ss[1]
  <2>1. step \in [B \X (2 .. n) -> B]
    <3> SUFFICES ASSUME NEW x \in B \X (2 .. n) PROVE x[1] \o ss[x[2]] \in B
      OBVIOUS
    <3>1. x[1] \in B /\ ss[x[2]] \in B  BY <1>1
    <3> QED  BY <3>1
  <2>2. first \in B  BY <1>1, <1>3
  <2>3. PICK f \in [1 .. n -> B] :
          f[1] = first /\ \A k \in 2 .. n : f[k] = step[<< f[k - 1], k >>]
    <3> HIDE DEF step, B, first
    <3>1. 1 \in Int /\ n \in Int /\ 1 <= n /\ 1 + 1 = 2  BY <1>1, <1>3
    <3>2. Recursions(1, n, B, first, step) # {}  BY <2>1, <2>2, <3>1, RecursionExists
    <3> QED  BY <3>1, <3>2 DEF Recursions
  <2>4. \A k \in 2 .. n : f[k] = f[k - 1] \o ss[k]
    <3> SUFFICES ASSUME NEW k \in 2 .. n PROVE f[k] = f[k - 1] \o ss[k]
      OBVIOUS
    <3>1. k - 1 \in 1 .. n  BY <1>1
    <3>2. f[k - 1] \in B
      <4> HIDE DEF B
      <4> QED  BY <2>3, <3>1
    <3> HIDE DEF B
    <3> QED  BY <2>3, <3>2
  <2>5. Eq(f)
    <3> HIDE DEF B, step
    <3>1. ASSUME NEW i \in 1 .. n PROVE f[i] = IF i = 1 THEN ss[i] ELSE f[i - 1] \o ss[i]
      <4>1. CASE i = 1  BY <2>3, <4>1
      <4>2. CASE i # 1
        <5>1. i \in 2 .. n  BY <1>1, <4>2
        <5> QED  BY <2>4, <4>2, <5>1
      <4> QED  BY <4>1, <4>2
    <3> QED  BY <2>3, <3>1
  <2> DEFINE it == CHOOSE f1 : Eq(f1)
  <2>6. Eq(it)
    <3> HIDE DEF Eq
    <3> QED  BY <2>5
  <2>7. FlattenSeq(ss) = it[n]
    BY <1>3 DEF FlattenSeq
  <2> HIDE DEF it, step
  <2> DEFINE g == [k \in 0 .. n |-> IF k = 0 THEN << >> ELSE it[k]]
  <2>8. \A i \in 1 .. n : it[i] = IF i = 1 THEN ss[i] ELSE it[i - 1] \o ss[i]
    BY <2>6
  <2> HIDE DEF Eq
  <2> DEFINE T == {k \in 0 .. n : k = 0 \/ it[k] \in B}
  <2>9. 0 \in T  BY <1>1
  <2>10. ASSUME NEW k \in 0 .. n - 1, k \in T PROVE k + 1 \in T
    <3>1. k + 1 \in 1 .. n /\ (k + 1) - 1 = k /\ ss[k + 1] \in B  BY <1>1
    <3>2. it[k + 1] = IF k + 1 = 1 THEN ss[k + 1] ELSE it[k] \o ss[k + 1]  BY <2>8, <3>1
    <3>3. CASE k = 0  BY <3>1, <3>2, <3>3
    <3>4. CASE k # 0
      <4>1. it[k] \in B  BY <2>10, <3>4
      <4>2. it[k] \o ss[k + 1] \in B  BY <3>1, <4>1
      <4> HIDE DEF B
      <4> QED  BY <3>1, <3>2, <3>4, <4>2
    <3> QED  BY <3>3, <3>4
  <2>11. 0 .. n \subseteq T
    <3> HIDE DEF T
    <3> QED  BY <1>1, <2>9, <2>10, IntervalInduction
  <2>12. g \in [0 .. n -> B]
    <3>1. << >> \in B  OBVIOUS
    <3> HIDE DEF B
    <3> QED  BY <2>11, <3>1
  <2>13. g[0] = << >> /\ g[n] = it[n]  BY <1>1, <1>3
  <2>14. ASSUME NEW k \in 1 .. n PROVE g[k] = g[k - 1] \o ss[k]
    <3>1. k \in 0 .. n /\ k - 1 \in 0 .. n /\ ss[k] \in B  BY <1>1
    <3>2. g[k] = it[k]  BY <3>1
    <3>3. CASE k = 1
      <4>1. g[k - 1] = << >> /\ it[k] = ss[k]  BY <2>8, <3>1, <3>3
      <4>2. << >> \o ss[k] = ss[k]  BY <3>1
      <4> QED  BY <3>2, <4>1, <4>2
    <3>4. CASE k # 1
      <4>1. k - 1 # 0  BY <1>1, <3>4
      <4>2. g[k - 1] = it[k - 1]  BY <3>1, <4>1
      <4>3. it[k] = it[k - 1] \o ss[k]  BY <2>8, <3>4
      <4> HIDE DEF g
      <4> QED  BY <3>2, <4>2, <4>3
    <3> QED  BY <3>3, <3>4
  <2>15. \A k \in 1 .. n : g[k] = g[k - 1] \o ss[k]  BY <2>14
  <2> HIDE DEF g
  <2> QED  BY <2>7, <2>12, <2>13, <2>15
<1>4. n = 0 \/ n > 0
  BY <1>1
<1> QED
  BY <1>2, <1>3, <1>4

(* How often x is among the references of an item, and of a list of items *)
RefersTo(e, x) == (IF e.key = x THEN 1 ELSE 0) + (IF e.val = x THEN 1 ELSE 0)
(* How often the items of s refer to x. *)
UsesIn(s, x) == Tally(s, KeyIs(x)) + Tally(s, ValIs(x))

(* Counting in a sequence of one element. *)
LEMMA TallyOfOne ==
  ASSUME NEW A, NEW x \in A, NEW S
  PROVE  << x >> \in Seq(A) /\ Len(<< x >>) = 1 /\ Tally(<< x >>, S) = IF x \in S THEN 1 ELSE 0
<1>1. << >> \in Seq(A) /\ Append(<< >>, x) = << x >> /\ << x >> \in Seq(A) /\ Len(<< x >>) = 1
  OBVIOUS
<1>2. Tally(Append(<< >>, x), S) = Tally(<< >>, S) + (IF x \in S THEN 1 ELSE 0)
  BY <1>1, TallyOfAppend
<1>3. Tally(<< >>, S) = 0
  BY TallyOfEmpty
<1> QED
  BY <1>1, <1>2, <1>3

(* The references of an item are those it counts for, except in but. *)
LEMMA RefsAre ==
  ASSUME NEW e \in Item, NEW but
  PROVE  /\ RefsOf(e, but) \in Seq(Objs) /\ Len(RefsOf(e, but)) \in 0 .. 2
         /\ \A x \in Objs : Tally(RefsOf(e, but), {x}) = IF x \in but THEN 0 ELSE RefersTo(e, x)
<1> DEFINE k == IF e.key \in but \cup {NoObj} THEN << >> ELSE << e.key >>
           v == IF e.val \in but THEN << >> ELSE << e.val >>
<1>1. e.key \in Objs \cup {NoObj} /\ e.val \in Objs
  BY DEF Item
<1>2. << >> \in Seq(Objs) /\ Len(<< >>) = 0 /\ \A S : Tally(<< >>, S) = 0
  BY TallyOfEmpty
<1>3. /\ k \in Seq(Objs) /\ Len(k) \in 0 .. 1
      /\ \A x \in Objs : Tally(k, {x}) = IF x \notin but /\ e.key = x THEN 1 ELSE 0
  <2>1. CASE e.key \in but \cup {NoObj}
    <3>1. k = << >>  BY <2>1
    <3>2. \A x \in Objs : ~(x \notin but /\ e.key = x)  BY <2>1, HeapAssumption
    <3> HIDE DEF k
    <3> QED  BY <1>2, <3>1, <3>2
  <2>2. CASE e.key \notin but \cup {NoObj}
    <3>1. k = << e.key >> /\ e.key \in Objs /\ e.key \notin but  BY <1>1, <2>2
    <3>2. << e.key >> \in Seq(Objs) /\ Len(<< e.key >>) = 1  BY <3>1, TallyOfOne
    <3>3. \A x \in Objs : Tally(<< e.key >>, {x}) = IF e.key \in {x} THEN 1 ELSE 0  BY <3>1, TallyOfOne
    <3>4. \A x \in Objs : (e.key \in {x}) = (x \notin but /\ e.key = x)  BY <3>1
    <3> HIDE DEF k
    <3> QED  BY <3>1, <3>2, <3>3, <3>4
  <2> QED  BY <2>1, <2>2
<1>4. /\ v \in Seq(Objs) /\ Len(v) \in 0 .. 1
      /\ \A x \in Objs : Tally(v, {x}) = IF x \notin but /\ e.val = x THEN 1 ELSE 0
  <2>1. CASE e.val \in but
    <3>1. v = << >>  BY <2>1
    <3>2. \A x \in Objs : ~(x \notin but /\ e.val = x)  BY <2>1
    <3> HIDE DEF v
    <3> QED  BY <1>2, <3>1, <3>2
  <2>2. CASE e.val \notin but
    <3>1. v = << e.val >> /\ e.val \in Objs /\ e.val \notin but  BY <1>1, <2>2
    <3>2. << e.val >> \in Seq(Objs) /\ Len(<< e.val >>) = 1  BY <3>1, TallyOfOne
    <3>3. \A x \in Objs : Tally(<< e.val >>, {x}) = IF e.val \in {x} THEN 1 ELSE 0  BY <3>1, TallyOfOne
    <3>4. \A x \in Objs : (e.val \in {x}) = (x \notin but /\ e.val = x)  BY <3>1
    <3> HIDE DEF v
    <3> QED  BY <3>1, <3>2, <3>3, <3>4
  <2> QED  BY <2>1, <2>2
<1>5. RefsOf(e, but) = k \o v
  BY DEF RefsOf
<1> HIDE DEF k, v
<1>6. k \o v \in Seq(Objs) /\ Len(k \o v) = Len(k) + Len(v)
  BY <1>3, <1>4
<1>7. \A x \in Objs : Tally(k \o v, {x}) = Tally(k, {x}) + Tally(v, {x})
  BY <1>3, <1>4, TallyOfConcat
<1>8. ASSUME NEW x \in Objs
      PROVE  Tally(k \o v, {x}) = IF x \in but THEN 0 ELSE RefersTo(e, x)
  <2>1. Tally(k, {x}) = IF x \notin but /\ e.key = x THEN 1 ELSE 0  BY <1>3
  <2>2. Tally(v, {x}) = IF x \notin but /\ e.val = x THEN 1 ELSE 0  BY <1>4
  <2>3. Tally(k \o v, {x}) = Tally(k, {x}) + Tally(v, {x})  BY <1>7
  <2> QED  BY <2>1, <2>2, <2>3 DEF RefersTo
<1> QED
  BY <1>3, <1>4, <1>5, <1>6, <1>8

(* One more item adds what it refers to. *)
LEMMA UsesOfAppend ==
  ASSUME NEW s \in Seq(Item), NEW e \in Item, NEW x
  PROVE  /\ UsesIn(Append(s, e), x) = UsesIn(s, x) + RefersTo(e, x)
         /\ UsesIn(s, x) \in Nat /\ RefersTo(e, x) \in Nat
         /\ UsesIn(<< >>, x) = 0
<1>1. /\ Tally(Append(s, e), KeyIs(x)) = Tally(s, KeyIs(x)) + (IF e \in KeyIs(x) THEN 1 ELSE 0)
      /\ Tally(Append(s, e), ValIs(x)) = Tally(s, ValIs(x)) + (IF e \in ValIs(x) THEN 1 ELSE 0)
  BY TallyOfAppend
<1>2. (e \in KeyIs(x)) = (e.key = x) /\ (e \in ValIs(x)) = (e.val = x)
  BY DEF KeyIs, ValIs
<1>3. Tally(s, KeyIs(x)) \in 0 .. Len(s) /\ Tally(s, ValIs(x)) \in 0 .. Len(s) /\ Len(s) \in Nat
  <2>1. \A S : Tally(s, S) \in 0 .. Len(s)  BY TallyIsNat
  <2>2. Len(s) \in Nat  OBVIOUS
  <2> QED  BY <2>1, <2>2
<1>4. Tally(<< >>, KeyIs(x)) = 0 /\ Tally(<< >>, ValIs(x)) = 0
  BY TallyOfEmpty
<1> QED
  BY <1>1, <1>2, <1>3, <1>4 DEF UsesIn, RefersTo

(* The references of a sequence of items are those its items count for. *)
LEMMA FlatRefs ==
  ASSUME NEW s \in Seq(Item), NEW but,
         NEW ss \in Seq(Seq(Objs)), Len(ss) = Len(s),
         \A i \in 1 .. Len(s) : ss[i] = RefsOf(s[i], but)
  PROVE  /\ FlattenSeq(ss) \in Seq(Objs) /\ Len(FlattenSeq(ss)) \in 0 .. 2 * Len(s)
         /\ \A x \in Objs : Tally(FlattenSeq(ss), {x}) = IF x \in but THEN 0 ELSE UsesIn(s, x)
<1> DEFINE n == Len(s)
           Right(t, k) == /\ t \in Seq(Objs) /\ Len(t) \in 0 .. 2 * k
                          /\ \A x \in Objs : Tally(t, {x}) = IF x \in but THEN 0
                                                             ELSE UsesIn(SubSeq(s, 1, k), x)
<1>1. n \in Nat /\ DOMAIN s = 1 .. n /\ \A i \in 1 .. n : s[i] \in Item
  OBVIOUS
<1>3. Len(ss) = n /\ \A i \in 1 .. n : ss[i] = RefsOf(s[i], but)
  OBVIOUS
<1>4. PICK g \in [0 .. Len(ss) -> Seq(Objs)] :
        /\ g[0] = << >>
        /\ \A k \in 1 .. Len(ss) : g[k] = g[k - 1] \o ss[k]
        /\ FlattenSeq(ss) = g[Len(ss)]
  BY <1>3, FlatInSteps
<1>5. Right(g[0], 0)
  <2>1. SubSeq(s, 1, 0) = << >>  BY <1>1
  <2>2. \A x : UsesIn(<< >>, x) = 0  BY TallyOfEmpty DEF UsesIn
  <2>3. \A x : Tally(<< >>, {x}) = 0  BY TallyOfEmpty
  <2>4. << >> \in Seq(Objs) /\ Len(<< >>) = 0  OBVIOUS
  <2>5. \A x : UsesIn(SubSeq(s, 1, 0), x) = 0  BY <2>1, <2>2
  <2>6. g[0] = << >>  BY <1>4
  <2> DEFINE g0 == g[0]
  <2>7. g0 \in Seq(Objs) /\ Len(g0) \in 0 .. 2 * 0  BY <2>4, <2>6
  <2>8. \A x \in Objs : Tally(g0, {x}) = IF x \in but THEN 0 ELSE UsesIn(SubSeq(s, 1, 0), x)
    BY <2>3, <2>5, <2>6
  <2> HIDE DEF g0
  <2>9. Right(g0, 0)  BY <2>7, <2>8
  <2> QED  BY <2>9 DEF g0
<1>6. ASSUME NEW k \in 0 .. n - 1, Right(g[k], k) PROVE Right(g[k + 1], k + 1)
  <2> DEFINE a == g[k]  b == ss[k + 1]  e == s[k + 1]  u == SubSeq(s, 1, k)  v == SubSeq(s, 1, k + 1)
  <2>1. k + 1 \in 1 .. n /\ (k + 1) - 1 = k  BY <1>1
  <2>2. g[k + 1] = a \o b  BY <1>3, <1>4, <2>1
  <2>3. b = RefsOf(e, but) /\ e \in Item  BY <1>1, <1>3, <2>1
  <2>4. /\ b \in Seq(Objs) /\ Len(b) \in 0 .. 2
        /\ \A x \in Objs : Tally(b, {x}) = IF x \in but THEN 0 ELSE RefersTo(e, x)
    <3> HIDE DEF b, e
    <3> QED  BY <2>3, RefsAre
  <2>5. a \in Seq(Objs) /\ Len(a) \in 0 .. 2 * k  BY <1>6
  <2>6. \A x \in Objs : Tally(a, {x}) = IF x \in but THEN 0 ELSE UsesIn(u, x)  BY <1>6
  <2>7. u \in Seq(Item) /\ v = Append(u, e)
    <3>1. /\ SubSeq(s, 1, (k + 1) - 1) \in Seq(Item)
          /\ SubSeq(s, 1, k + 1) = Append(SubSeq(s, 1, (k + 1) - 1), s[k + 1])
      BY <2>1, Beginnings
    <3> QED  BY <2>1, <3>1
  <2> HIDE DEF a, b, e, u, v
  <2>8. a \o b \in Seq(Objs) /\ Len(a \o b) = Len(a) + Len(b)  BY <2>4, <2>5
  <2>9. Len(a) + Len(b) \in 0 .. 2 * (k + 1)
    <3>1. \A p, q, m \in Int : p \in 0 .. 2 * m /\ q \in 0 .. 2 => p + q \in 0 .. 2 * (m + 1)  OBVIOUS
    <3>2. Len(a) \in Int /\ Len(b) \in Int /\ k \in Int  BY <1>1, <2>4, <2>5
    <3> QED  BY <2>4, <2>5, <3>1, <3>2
  <2>10. ASSUME NEW x \in Objs
         PROVE  Tally(a \o b, {x}) = IF x \in but THEN 0 ELSE UsesIn(v, x)
    <3>1. Tally(a \o b, {x}) = Tally(a, {x}) + Tally(b, {x})  BY <2>4, <2>5, TallyOfConcat
    <3>2. UsesIn(Append(u, e), x) = UsesIn(u, x) + RefersTo(e, x)  BY <2>3, <2>7, UsesOfAppend
    <3>3. Tally(a, {x}) = IF x \in but THEN 0 ELSE UsesIn(u, x)  BY <2>6
    <3>4. Tally(b, {x}) = IF x \in but THEN 0 ELSE RefersTo(e, x)  BY <2>4
    <3> QED  BY <2>7, <3>1, <3>2, <3>3, <3>4
  <2>11. \A x \in Objs : Tally(a \o b, {x}) = IF x \in but THEN 0 ELSE UsesIn(SubSeq(s, 1, k + 1), x)
    BY <2>10 DEF v
  <2>12. Len(a \o b) \in 0 .. 2 * (k + 1)  BY <2>8, <2>9
  <2> QED  BY <2>2, <2>8, <2>11, <2>12
<1> DEFINE T == {k \in 0 .. n : Right(g[k], k)}
<1> HIDE DEF Right
<1>7. 0 \in T
  BY <1>1, <1>5
<1>8. \A k \in 0 .. n - 1 : k \in T => k + 1 \in T
  <2> SUFFICES ASSUME NEW k \in 0 .. n - 1, k \in T PROVE k + 1 \in T
    OBVIOUS
  <2>1. Right(g[k], k)  OBVIOUS
  <2>2. Right(g[k + 1], k + 1)  BY <2>1, <1>6
  <2>3. k + 1 \in 0 .. n  BY <1>1
  <2> QED  BY <2>2, <2>3
<1>9. 0 .. n \subseteq T
  <2> HIDE DEF T
  <2> QED  BY <1>1, <1>7, <1>8, IntervalInduction
<1>10. Right(g[n], n)
  BY <1>1, <1>9
<1>11. SubSeq(s, 1, n) = s
  BY <1>1
<1>12. FlattenSeq(ss) = g[n]
  BY <1>3, <1>4
<1>13. Right(FlattenSeq(ss), n)
  BY <1>10, <1>12
<1>14. /\ FlattenSeq(ss) \in Seq(Objs) /\ Len(FlattenSeq(ss)) \in 0 .. 2 * n
       /\ \A x \in Objs : Tally(FlattenSeq(ss), {x}) = IF x \in but THEN 0 ELSE UsesIn(s, x)
  BY <1>11, <1>13 DEF Right
<1> QED
  BY <1>14

(* ItemsOf lists every reference of an object, as often as it occurs. *)
LEMMA ItemsAre ==
  ASSUME NEW h \in Heaps, NEW o \in Objs, NEW but
  PROVE  /\ ItemsOf(h, o, but) \in Seq(Objs)
         /\ Len(ItemsOf(h, o, but)) \in 0 .. 2 * Len(h.out[o]) /\ Len(h.out[o]) \in Nat
         /\ \A x \in Objs : /\ Tally(ItemsOf(h, o, but), {x}) = IF x \in but THEN 0 ELSE UsesIn(h.out[o], x)
                            /\ UsesIn(h.out[o], x) \in Nat
<1> DEFINE s == h.out[o]
<1>1. s \in Seq(Item) /\ Len(s) \in Nat
  BY HeapIs
<1> DEFINE ss == [i \in DOMAIN s |-> RefsOf(s[i], but)]
<1>2. ItemsOf(h, o, but) = FlattenSeq(ss)
  BY DEF ItemsOf
<1> HIDE DEF s
<1>5. DOMAIN s = 1 .. Len(s) /\ \A i \in 1 .. Len(s) : s[i] \in Item
  BY <1>1
<1>6. \A i \in 1 .. Len(s) : RefsOf(s[i], but) \in Seq(Objs)
  BY <1>5, RefsAre
<1>7. ss \in Seq(Seq(Objs)) /\ Len(ss) = Len(s) /\ \A i \in 1 .. Len(s) : ss[i] = RefsOf(s[i], but)
  BY <1>1, <1>5, <1>6
<1> HIDE DEF ss
<1>3. \A x : UsesIn(s, x) \in Nat
  <2> SUFFICES ASSUME NEW x PROVE UsesIn(s, x) \in Nat
    OBVIOUS
  <2>1. Tally(s, KeyIs(x)) \in 0 .. Len(s) /\ Tally(s, ValIs(x)) \in 0 .. Len(s)  BY <1>1, TallyIsNat
  <2> QED  BY <1>1, <2>1 DEF UsesIn
<1>4. /\ ItemsOf(h, o, but) \in Seq(Objs) /\ Len(ItemsOf(h, o, but)) \in 0 .. 2 * Len(s)
      /\ \A x \in Objs : Tally(ItemsOf(h, o, but), {x}) = IF x \in but THEN 0 ELSE UsesIn(s, x)
  <2> DEFINE t == FlattenSeq(ss)
  <2>1. /\ t \in Seq(Objs) /\ Len(t) \in 0 .. 2 * Len(s)
        /\ \A x \in Objs : Tally(t, {x}) = IF x \in but THEN 0 ELSE UsesIn(s, x)
    <3>1. s \in Seq(Item)  BY <1>1
    <3>2. ss \in Seq(Seq(Objs))  BY <1>7
    <3>3. Len(ss) = Len(s)  BY <1>7
    <3>4. \A i \in 1 .. Len(s) : ss[i] = RefsOf(s[i], but)  BY <1>7
    <3>5. t \in Seq(Objs)  BY <3>1, <3>2, <3>3, <3>4, FlatRefs
    <3>6. Len(t) \in 0 .. 2 * Len(s)  BY <3>1, <3>2, <3>3, <3>4, FlatRefs
    <3>7. \A x \in Objs : Tally(t, {x}) = IF x \in but THEN 0 ELSE UsesIn(s, x)
      <4> SUFFICES ASSUME NEW x \in Objs
                   PROVE  Tally(t, {x}) = IF x \in but THEN 0 ELSE UsesIn(s, x)
        OBVIOUS
      <4>1. CASE x \in but  BY <3>1, <3>2, <3>3, <3>4, <4>1, FlatRefs
      <4>2. CASE x \notin but  BY <3>1, <3>2, <3>3, <3>4, <4>2, FlatRefs
      <4> QED  BY <4>1, <4>2
    <3> QED  BY <3>5, <3>6, <3>7
  <2> HIDE DEF t
  <2>2. ItemsOf(h, o, but) = t  BY <1>2 DEF t
  <2> QED  BY <2>1, <2>2
<1> QED
  BY <1>1, <1>3, <1>4 DEF s

(* A sequence has a member as often as it is counted, which is not never.      *)
LEMMA TallyPositive ==
  ASSUME NEW A, NEW s \in Seq(A), NEW S
  PROVE  /\ Tally(s, S) \in Nat
         /\ Tally(s, S) > 0 <=> \E i \in DOMAIN s : s[i] \in S
<1> DEFINE X == {i \in DOMAIN s : s[i] \in S}
<1>1. IsFiniteSet(X) /\ Tally(s, S) \in 0 .. Len(s) /\ Len(s) \in Nat
  BY TallyIsNat
<1>2. Tally(s, S) = Cardinality(X)
  BY DEF Tally
<1>3. X = {} <=> ~\E i \in DOMAIN s : s[i] \in S
  OBVIOUS
<1> HIDE DEF X
<1>4. Cardinality(X) = 0 <=> X = {}
  BY <1>1, FS_EmptySet
<1> QED
  BY <1>1, <1>2, <1>3, <1>4

(* What an object refers to is what it has references to. *)
LEMMA ItemsHave ==
  ASSUME NEW h \in Heaps, NEW o \in Objs, NEW x \in Objs
  PROVE  x \in ToSet(ItemsOf(h, o, {})) <=> UsesIn(h.out[o], x) > 0
<1> DEFINE t == ItemsOf(h, o, {})
<1>1. t \in Seq(Objs) /\ Tally(t, {x}) = UsesIn(h.out[o], x)
  BY ItemsAre
<1> HIDE DEF t
<1>2. Tally(t, {x}) > 0 <=> \E i \in DOMAIN t : t[i] \in {x}
  BY <1>1, TallyPositive
<1>3. x \in ToSet(t) <=> \E i \in DOMAIN t : t[i] = x
  BY DEF ToSet
<1>4. x \in ToSet(t) <=> Tally(t, {x}) > 0
  BY <1>2, <1>3
<1> QED
  BY <1>1, <1>4 DEF t

(* How many items of the objects of from are in T *)
Uses(h, from, T) == Cardinality({p \in PlacesOf(h, from) : h.out[p[1]][p[2]] \in T})

(* The places of items are finitely many. *)
LEMMA PlacesAre ==
  ASSUME NEW h \in Heaps, NEW from \in SUBSET Objs
  PROVE  /\ \A p : p \in PlacesOf(h, from) <=>
               \E x \in from : \E i \in 1 .. Len(h.out[x]) : p = << x, i >>
         /\ IsFiniteSet(PlacesOf(h, from))
<1> DEFINE place == [x \in from |-> {x} \X (DOMAIN h.out[x])]
           parts == {place[x] : x \in from}
<1>1. \A x \in from : DOMAIN h.out[x] = 1 .. Len(h.out[x]) /\ Len(h.out[x]) \in Nat
  BY HeapIs
<1>2. PlacesOf(h, from) = UNION parts
  <2>1. \A x \in from : place[x] = {x} \X (DOMAIN h.out[x])  OBVIOUS
  <2>2. PlacesOf(h, from) = UNION {{x} \X (DOMAIN h.out[x]) : x \in from}  BY DEF PlacesOf
  <2> HIDE DEF place
  <2> QED  BY <2>1, <2>2
<1>3. \A p : p \in PlacesOf(h, from) <=>
               \E x \in from : \E i \in 1 .. Len(h.out[x]) : p = << x, i >>
  BY <1>1, <1>2
<1>4. IsFiniteSet(from)
  BY HeapAssumption, FS_Subset
<1>5. place \in Surjection(from, parts)
  BY DEF Surjection
<1>6. IsFiniteSet(parts)
  <2> HIDE DEF place, parts
  <2> QED  BY <1>4, <1>5, FS_Surjection
<1>7. ASSUME NEW t \in parts PROVE IsFiniteSet(t)
  <2>1. PICK x \in from : t = {x} \X (DOMAIN h.out[x])  OBVIOUS
  <2> DEFINE d == DOMAIN h.out[x]
  <2>2. d = 1 .. Len(h.out[x]) /\ Len(h.out[x]) \in Int /\ 1 \in Int  BY <1>1
  <2>3. IsFiniteSet(d)  BY <2>2, FS_Interval
  <2> HIDE DEF d
  <2>4. IsFiniteSet({x} \X d)  BY <2>3, FS_Singleton, FS_Product
  <2> QED  BY <2>1, <2>4 DEF d
<1>8. IsFiniteSet(UNION parts)
  <2> HIDE DEF parts
  <2> QED  BY <1>6, <1>7, FS_UNION
<1> QED
  BY <1>2, <1>3, <1>8

(* The items counted are finitely many. *)
LEMMA UsesNat ==
  ASSUME NEW h \in Heaps, NEW from \in SUBSET Objs, NEW T
  PROVE  /\ Uses(h, from, T) \in Nat
         /\ IsFiniteSet({p \in PlacesOf(h, from) : h.out[p[1]][p[2]] \in T})
<1> DEFINE P == PlacesOf(h, from)
           Q == {p \in P : h.out[p[1]][p[2]] \in T}
<1>1. IsFiniteSet(P)
  BY PlacesAre
<1>2. Q \in SUBSET P
  OBVIOUS
<1>3. IsFiniteSet(Q)
  <2> HIDE DEF P, Q
  <2> QED  BY <1>1, <1>2, FS_Subset
<1>4. Cardinality(Q) \in Nat
  BY <1>3, FS_CardinalityType
<1> QED
  BY <1>3, <1>4 DEF Uses

(* Counting the items of disjoint sets of objects adds up. *)
LEMMA UsesSplit ==
  ASSUME NEW h \in Heaps, NEW A \in SUBSET Objs, NEW B \in SUBSET Objs, A \cap B = {}, NEW T
  PROVE  Uses(h, A \cup B, T) = Uses(h, A, T) + Uses(h, B, T)
<1> DEFINE in(from) == {p \in PlacesOf(h, from) : h.out[p[1]][p[2]] \in T}
           X == in(A)  Y == in(B)  Z == in(A \cup B)
<1>1. \A p : p \in PlacesOf(h, A) <=> \E x \in A : \E i \in 1 .. Len(h.out[x]) : p = << x, i >>
  BY PlacesAre
<1>2. \A p : p \in PlacesOf(h, B) <=> \E x \in B : \E i \in 1 .. Len(h.out[x]) : p = << x, i >>
  BY PlacesAre
<1>3. PlacesOf(h, A \cup B) = PlacesOf(h, A) \cup PlacesOf(h, B)
  BY DEF PlacesOf
<1>4. PlacesOf(h, A) \cap PlacesOf(h, B) = {}
  BY <1>1, <1>2
<1>5. Z = X \cup Y /\ X \cap Y = {}
  BY <1>3, <1>4
<1>6. IsFiniteSet(X) /\ IsFiniteSet(Y)
  BY UsesNat
<1>7. Uses(h, A \cup B, T) = Cardinality(Z) /\ Uses(h, A, T) = Cardinality(X)
        /\ Uses(h, B, T) = Cardinality(Y)
  BY DEF Uses
<1> HIDE DEF X, Y, Z, in
<1>8. Cardinality(X \cup Y) = Cardinality(X) + Cardinality(Y) - Cardinality(X \cap Y)
  BY <1>6, FS_Union
<1>9. Cardinality(X) \in Nat /\ Cardinality(Y) \in Nat
  BY <1>6, FS_CardinalityType
<1>10. Cardinality(X \cap Y) = 0
  BY <1>5, FS_EmptySet
<1>11. Cardinality(Z) = Cardinality(X \cup Y)
  BY <1>5
<1> QED
  BY <1>7, <1>8, <1>9, <1>10, <1>11

(* Counting the items of one object. *)
LEMMA UsesOne ==
  ASSUME NEW h \in Heaps, NEW x \in Objs, NEW T
  PROVE  Uses(h, {x}, T) = Tally(h.out[x], T)
<1> DEFINE s == h.out[x]
           I == {i \in DOMAIN s : s[i] \in T}
           Q == {p \in PlacesOf(h, {x}) : h.out[p[1]][p[2]] \in T}
           place == [i \in I |-> << x, i >>]
<1>1. s \in Seq(Item) /\ DOMAIN s = 1 .. Len(s)
  BY HeapIs
<1>2. \A p : p \in PlacesOf(h, {x}) <=> \E i \in DOMAIN s : p = << x, i >>
  BY PlacesAre, <1>1
<1>3. \A p : p \in Q <=> \E i \in I : p = << x, i >>
  BY <1>2
<1>4. IsFiniteSet(I)
  <2> HIDE DEF s
  <2> QED  BY <1>1, TallyIsNat
<1> HIDE DEF Q
<1>5. place \in Bijection(I, Q)
  <2>1. \A i \in I : place[i] = << x, i >> /\ place[i] \in Q  BY <1>3
  <2>2. place \in [I -> Q]  BY <2>1
  <2>3. \A i, j \in I : place[i] = place[j] => i = j  BY <2>1
  <2>4. \A p \in Q : \E i \in I : place[i] = p  BY <1>3, <2>1
  <2> HIDE DEF place, I
  <2> QED  BY <2>2, <2>3, <2>4 DEF Bijection, Injection, Surjection, IsInjective
<1>6. Cardinality(Q) = Cardinality(I)
  <2> HIDE DEF place, I
  <2> QED  BY <1>4, <1>5, FS_Bijection DEF ExistsBijection
<1>7. Uses(h, {x}, T) = Cardinality(Q)
  BY DEF Uses, Q
<1>8. Tally(s, T) = Cardinality(I)
  BY DEF Tally
<1> QED
  BY <1>6, <1>7, <1>8

(* Only the items of the objects matter. *)
LEMMA UsesSame ==
  ASSUME NEW h, NEW g, NEW A, \A x \in A : h.out[x] = g.out[x]
  PROVE  /\ PlacesOf(h, A) = PlacesOf(g, A)
         /\ \A T : Uses(h, A, T) = Uses(g, A, T)
<1>1. PlacesOf(h, A) = PlacesOf(g, A)
  BY DEF PlacesOf
<1>2. \A p \in PlacesOf(h, A) : p[1] \in A
  BY DEF PlacesOf
<1>3. ASSUME NEW T
      PROVE  {p \in PlacesOf(h, A) : h.out[p[1]][p[2]] \in T}
               = {p \in PlacesOf(g, A) : g.out[p[1]][p[2]] \in T}
  BY <1>1, <1>2
<1> QED
  BY <1>1, <1>3 DEF Uses

(* The references of a set of objects. *)
LEMMA ReferencesAre ==
  ASSUME NEW h \in Heaps, NEW A \in SUBSET Objs, NEW o \in Objs
  PROVE  /\ References(h, A, o) = Uses(h, A, KeyIs(o)) + Uses(h, A, ValIs(o))
         /\ References(h, A, o) \in Nat
<1>1. \A p \in PlacesOf(h, A) : h.out[p[1]][p[2]] \in Item
  <2>1. \A p \in PlacesOf(h, A) : \E x \in A : \E i \in 1 .. Len(h.out[x]) : p = << x, i >>
    BY PlacesAre
  <2>2. \A x \in A : \A i \in 1 .. Len(h.out[x]) : h.out[x][i] \in Item  BY HeapIs
  <2> QED  BY <2>1, <2>2
<1>2. {p \in PlacesOf(h, A) : h.out[p[1]][p[2]].key = o}
        = {p \in PlacesOf(h, A) : h.out[p[1]][p[2]] \in KeyIs(o)}
  BY <1>1 DEF KeyIs
<1>3. {p \in PlacesOf(h, A) : h.out[p[1]][p[2]].val = o}
        = {p \in PlacesOf(h, A) : h.out[p[1]][p[2]] \in ValIs(o)}
  BY <1>1 DEF ValIs
<1>4. KeyUses(h, A, o) = Uses(h, A, KeyIs(o)) /\ ValUses(h, A, o) = Uses(h, A, ValIs(o))
  BY <1>2, <1>3 DEF KeyUses, ValUses, Uses
<1>5. Uses(h, A, KeyIs(o)) \in Nat /\ Uses(h, A, ValIs(o)) \in Nat
  BY UsesNat
<1> QED
  BY <1>4, <1>5 DEF References

(* References from disjoint sets of objects add up. *)
LEMMA ReferencesSplit ==
  ASSUME NEW h \in Heaps, NEW A \in SUBSET Objs, NEW B \in SUBSET Objs, A \cap B = {},
         NEW o \in Objs
  PROVE  /\ References(h, A \cup B, o) = References(h, A, o) + References(h, B, o)
         /\ References(h, A, o) \in Nat /\ References(h, B, o) \in Nat
<1>1. A \cup B \in SUBSET Objs
  OBVIOUS
<1>2. /\ References(h, A \cup B, o) = Uses(h, A \cup B, KeyIs(o)) + Uses(h, A \cup B, ValIs(o))
      /\ References(h, A, o) = Uses(h, A, KeyIs(o)) + Uses(h, A, ValIs(o))
      /\ References(h, B, o) = Uses(h, B, KeyIs(o)) + Uses(h, B, ValIs(o))
      /\ References(h, A, o) \in Nat /\ References(h, B, o) \in Nat
  BY <1>1, ReferencesAre
<1>3. /\ Uses(h, A \cup B, KeyIs(o)) = Uses(h, A, KeyIs(o)) + Uses(h, B, KeyIs(o))
      /\ Uses(h, A \cup B, ValIs(o)) = Uses(h, A, ValIs(o)) + Uses(h, B, ValIs(o))
  BY UsesSplit
<1>4. /\ Uses(h, A, KeyIs(o)) \in Nat /\ Uses(h, B, KeyIs(o)) \in Nat
      /\ Uses(h, A, ValIs(o)) \in Nat /\ Uses(h, B, ValIs(o)) \in Nat
  BY UsesNat
<1> QED
  BY <1>2, <1>3, <1>4

(* References from one object. *)
LEMMA ReferencesOfOne ==
  ASSUME NEW h \in Heaps, NEW x \in Objs, NEW o \in Objs
  PROVE  References(h, {x}, o) = UsesIn(h.out[x], o)
<1>1. {x} \in SUBSET Objs
  OBVIOUS
<1>2. References(h, {x}, o) = Uses(h, {x}, KeyIs(o)) + Uses(h, {x}, ValIs(o))
  BY <1>1, ReferencesAre
<1>3. \A T : Uses(h, {x}, T) = Tally(h.out[x], T)
  BY UsesOne
<1> QED
  BY <1>2, <1>3 DEF UsesIn

(* Only the items of the objects that refer matter. *)
LEMMA ReferencesSame ==
  ASSUME NEW h \in Heaps, NEW g \in Heaps, NEW A \in SUBSET Objs,
         \A x \in A : h.out[x] = g.out[x], NEW o \in Objs
  PROVE  References(h, A, o) = References(g, A, o)
<1>1. \A T : Uses(h, A, T) = Uses(g, A, T)
  BY UsesSame
<1> QED
  BY <1>1, ReferencesAre

(* The rest of the objects and one of them.                                    *)
LEMMA ReferencesByOne ==
  ASSUME NEW h \in Heaps, NEW x \in Objs, NEW o \in Objs
  PROVE  /\ References(h, Objs, o) = References(h, Objs \ {x}, o) + UsesIn(h.out[x], o)
         /\ References(h, Objs \ {x}, o) \in Nat /\ UsesIn(h.out[x], o) \in Nat
         /\ References(h, Objs, o) \in Nat
<1> DEFINE A == Objs \ {x}  B == {x}
<1>1. A \in SUBSET Objs /\ B \in SUBSET Objs /\ A \cap B = {} /\ A \cup B = Objs
  OBVIOUS
<1> HIDE DEF A, B
<1>2. /\ References(h, A \cup B, o) = References(h, A, o) + References(h, B, o)
      /\ References(h, A, o) \in Nat /\ References(h, B, o) \in Nat
  BY <1>1, ReferencesSplit
<1>3. References(h, B, o) = UsesIn(h.out[x], o)
  BY ReferencesOfOne DEF B
<1>4. References(h, A \cup B, o) = References(h, Objs, o)
  BY <1>1
<1>5. \A a, b \in Nat : a + b \in Nat
  OBVIOUS
<1> QED
  BY <1>2, <1>3, <1>4, <1>5 DEF A

(* Something is counted only if some object has it. *)
LEMMA UsesPositive ==
  ASSUME NEW h \in Heaps, NEW A \in SUBSET Objs, NEW T, Uses(h, A, T) > 0
  PROVE  \E x \in A : Tally(h.out[x], T) > 0
<1> DEFINE Q == {p \in PlacesOf(h, A) : h.out[p[1]][p[2]] \in T}
<1>1. IsFiniteSet(Q) /\ Cardinality(Q) > 0
  BY UsesNat DEF Uses
<1>2. Q # {}
  <2> HIDE DEF Q
  <2> QED  BY <1>1, FS_EmptySet
<1>3. PICK p \in PlacesOf(h, A) : h.out[p[1]][p[2]] \in T
  BY <1>2
<1>4. PICK x \in A : \E i \in 1 .. Len(h.out[x]) : p = << x, i >>
  BY PlacesAre
<1>5. PICK i \in 1 .. Len(h.out[x]) : p = << x, i >>
  BY <1>4
<1> DEFINE s == h.out[x]
<1>6. s \in Seq(Item) /\ DOMAIN s = 1 .. Len(s)
  BY HeapIs
<1>7. i \in DOMAIN s /\ s[i] \in T
  BY <1>3, <1>5, <1>6
<1> HIDE DEF s
<1>8. Tally(s, T) > 0
  BY <1>6, <1>7, TallyPositive
<1> QED
  BY <1>8 DEF s

(* There are references to o when some object has one. *)
LEMMA ReferencesPositive ==
  ASSUME NEW h \in Heaps, NEW A \in SUBSET Objs, NEW o \in Objs
  PROVE  References(h, A, o) > 0 <=> \E x \in A : UsesIn(h.out[x], o) > 0
<1>1. ASSUME References(h, A, o) > 0 PROVE \E x \in A : UsesIn(h.out[x], o) > 0
  <2>1. References(h, A, o) = Uses(h, A, KeyIs(o)) + Uses(h, A, ValIs(o))
    BY ReferencesAre
  <2>2. Uses(h, A, KeyIs(o)) \in Nat /\ Uses(h, A, ValIs(o)) \in Nat
    BY UsesNat
  <2>3. Uses(h, A, KeyIs(o)) > 0 \/ Uses(h, A, ValIs(o)) > 0
    BY <1>1, <2>1, <2>2
  <2>4. PICK x \in A : Tally(h.out[x], KeyIs(o)) > 0 \/ Tally(h.out[x], ValIs(o)) > 0
    BY <2>3, UsesPositive
  <2> DEFINE s == h.out[x]
  <2>5. s \in Seq(Item)
    BY HeapIs
  <2>6. Tally(s, KeyIs(o)) \in Nat /\ Tally(s, ValIs(o)) \in Nat
    <3> HIDE DEF s
    <3> QED  BY <2>5, TallyPositive
  <2>7. UsesIn(s, o) = Tally(s, KeyIs(o)) + Tally(s, ValIs(o))
    BY DEF UsesIn
  <2>8. UsesIn(s, o) > 0
    BY <2>4, <2>6, <2>7
  <2> QED  BY <2>8
<1>2. ASSUME NEW x \in A, UsesIn(h.out[x], o) > 0 PROVE References(h, A, o) > 0
  <2> DEFINE B == A \ {x}  C == {x}
  <2>1. B \in SUBSET Objs /\ C \in SUBSET Objs /\ B \cap C = {} /\ A = B \cup C /\ x \in Objs
    OBVIOUS
  <2> HIDE DEF B, C
  <2>2. /\ References(h, B \cup C, o) = References(h, B, o) + References(h, C, o)
        /\ References(h, B, o) \in Nat /\ References(h, C, o) \in Nat
    BY <2>1, ReferencesSplit
  <2>3. References(h, C, o) = UsesIn(h.out[x], o)
    BY <2>1, ReferencesOfOne DEF C
  <2>4. References(h, A, o) = References(h, B \cup C, o)
    BY <2>1
  <2> QED  BY <1>2, <2>2, <2>3, <2>4
<1> QED
  BY <1>1, <1>2

(* One object's items change. *)
LEMMA OneChanges ==
  ASSUME NEW h \in Heaps, NEW g \in Heaps, NEW x \in Objs,
         \A y \in Objs \ {x} : g.out[y] = h.out[y], NEW o \in Objs
  PROVE  /\ References(g, Objs, o) + UsesIn(h.out[x], o) = References(h, Objs, o) + UsesIn(g.out[x], o)
         /\ References(g, Objs, o) \in Nat /\ References(h, Objs, o) \in Nat
         /\ UsesIn(h.out[x], o) \in Nat /\ UsesIn(g.out[x], o) \in Nat
         /\ UsesIn(h.out[x], o) <= References(h, Objs, o)
<1>1. /\ References(h, Objs, o) = References(h, Objs \ {x}, o) + UsesIn(h.out[x], o)
      /\ References(h, Objs \ {x}, o) \in Nat /\ UsesIn(h.out[x], o) \in Nat
      /\ References(h, Objs, o) \in Nat
  BY ReferencesByOne
<1>2. /\ References(g, Objs, o) = References(g, Objs \ {x}, o) + UsesIn(g.out[x], o)
      /\ References(g, Objs \ {x}, o) \in Nat /\ UsesIn(g.out[x], o) \in Nat
      /\ References(g, Objs, o) \in Nat
  BY ReferencesByOne
<1>3. References(h, Objs \ {x}, o) = References(g, Objs \ {x}, o)
  <2>1. Objs \ {x} \in SUBSET Objs  OBVIOUS
  <2>2. \A y \in Objs \ {x} : h.out[y] = g.out[y]  OBVIOUS
  <2> DEFINE A == Objs \ {x}
  <2> HIDE DEF A
  <2>3. References(h, A, o) = References(g, A, o)  BY <2>1, <2>2, ReferencesSame DEF A
  <2> QED  BY <2>3 DEF A
<1> QED
  BY <1>1, <1>2, <1>3

(* The number of items of all objects. *)
Size(h) == Cardinality(PlacesOf(h, Objs))

(* When the items of one object change, the number of all changes by theirs. *)
LEMMA SizeChanges ==
  ASSUME NEW h \in Heaps, NEW g \in Heaps, NEW x \in Objs,
         \A y \in Objs \ {x} : g.out[y] = h.out[y]
  PROVE  /\ Size(g) + Len(h.out[x]) = Size(h) + Len(g.out[x])
         /\ Size(g) \in Nat /\ Size(h) \in Nat
         /\ Len(h.out[x]) \in Nat /\ Len(g.out[x]) \in Nat
<1>1. ASSUME NEW f \in Heaps
      PROVE  /\ Size(f) = Uses(f, Objs \ {x}, Item) + Len(f.out[x])
             /\ Uses(f, Objs \ {x}, Item) \in Nat /\ Len(f.out[x]) \in Nat
  <2> DEFINE A == Objs \ {x}  B == {x}
  <2>1. A \in SUBSET Objs /\ B \in SUBSET Objs /\ A \cap B = {} /\ A \cup B = Objs /\ Objs \in SUBSET Objs
    OBVIOUS
  <2>2. \A p \in PlacesOf(f, Objs) : f.out[p[1]][p[2]] \in Item
    <3>1. \A p \in PlacesOf(f, Objs) : \E y \in Objs : \E i \in 1 .. Len(f.out[y]) : p = << y, i >>
      BY <2>1, PlacesAre
    <3>2. \A y \in Objs : \A i \in 1 .. Len(f.out[y]) : f.out[y][i] \in Item  BY HeapIs
    <3> QED  BY <3>1, <3>2
  <2>3. {p \in PlacesOf(f, Objs) : f.out[p[1]][p[2]] \in Item} = PlacesOf(f, Objs)
    BY <2>2
  <2>4. Size(f) = Uses(f, Objs, Item)
    BY <2>3 DEF Size, Uses
  <2> HIDE DEF A, B
  <2>5. Uses(f, A \cup B, Item) = Uses(f, A, Item) + Uses(f, B, Item)
    BY <2>1, UsesSplit
  <2>6. Uses(f, B, Item) = Tally(f.out[x], Item)
    BY UsesOne DEF B
  <2> DEFINE s == f.out[x]
  <2>7. s \in Seq(Item) /\ Len(s) \in Nat /\ DOMAIN s = 1 .. Len(s) /\ \A i \in 1 .. Len(s) : s[i] \in Item
    BY HeapIs
  <2> HIDE DEF s
  <2>8. {i \in DOMAIN s : s[i] \in Item} = 1 .. Len(s)
    BY <2>7
  <2>9. Cardinality(1 .. Len(s)) = Len(s)
    <3>1. 1 \in Int /\ Len(s) \in Int  BY <2>7
    <3>2. Cardinality(1 .. Len(s)) = IF 1 > Len(s) THEN 0 ELSE Len(s) - 1 + 1  BY <3>1, FS_Interval
    <3> QED  BY <2>7, <3>2
  <2>10. Tally(s, Item) = Len(s)
    BY <2>8, <2>9 DEF Tally
  <2>11. Uses(f, A, Item) \in Nat
    BY <2>1, UsesNat
  <2>12. Uses(f, A \cup B, Item) = Uses(f, Objs, Item)
    BY <2>1
  <2> QED  BY <2>4, <2>5, <2>6, <2>7, <2>10, <2>11, <2>12 DEF A, s
<1>2. Uses(h, Objs \ {x}, Item) = Uses(g, Objs \ {x}, Item)
  <2> DEFINE A == Objs \ {x}
  <2>1. \A y \in A : h.out[y] = g.out[y]  OBVIOUS
  <2> HIDE DEF A
  <2>2. \A T : Uses(h, A, T) = Uses(g, A, T)  BY <2>1, UsesSame
  <2> QED  BY <2>2 DEF A
<1>3. /\ Size(h) = Uses(h, Objs \ {x}, Item) + Len(h.out[x])
      /\ Uses(h, Objs \ {x}, Item) \in Nat /\ Len(h.out[x]) \in Nat
  BY <1>1
<1>4. /\ Size(g) = Uses(g, Objs \ {x}, Item) + Len(g.out[x])
      /\ Uses(g, Objs \ {x}, Item) \in Nat /\ Len(g.out[x]) \in Nat
  BY <1>1
<1> DEFINE u == Uses(h, Objs \ {x}, Item)  v == Uses(g, Objs \ {x}, Item)
           a == Len(h.out[x])  b == Len(g.out[x])
<1>5. u = v /\ u \in Nat /\ a \in Nat /\ b \in Nat /\ Size(h) = u + a /\ Size(g) = v + b
  BY <1>2, <1>3, <1>4
<1> HIDE DEF u, v, a, b
<1>6. Size(g) + a = Size(h) + b /\ Size(g) \in Nat /\ Size(h) \in Nat /\ a \in Nat /\ b \in Nat
  BY <1>5
<1> QED
  BY <1>6 DEF a, b

(* What is being released: the counts are of the references that are held, of  *)
(* those of other objects, and of those that are still to be released.         *)
Exact(h, w) ==
  /\ \A o \in Objs : h.ref[o] = w[o] + References(h, Objs, o)
  /\ \A o \in Objs : h.ref[o] > 0 <=> h.kind[o] # "free"
  /\ \A o \in Objs : h.kind[o] = "free" => h.out[o] = << >>

(* What ReleaseNext works on: the counts are exact if what is still to be      *)
(* released is counted too, and what is not free is as it was in first.        *)
Releasing(w, first) ==
  {r \in [h : Heaps, todo : Seq(Objs), stray : {FALSE}] :
     /\ \A o \in Objs : r.h.ref[o] = w[o] + References(r.h, Objs, o) + Tally(r.todo, {o})
     /\ \A o \in Objs : r.h.ref[o] > 0 <=> r.h.kind[o] # "free"
     /\ \A o \in Objs : r.h.kind[o] = "free" => r.h.out[o] = << >>
     /\ \A o \in Objs : r.h.kind[o] # "free" =>
          r.h.kind[o] = first.kind[o] /\ r.h.out[o] = first.out[o]}

(* What is released next is counted once in what is to be released. *)
LEMMA HeadIsCounted ==
  ASSUME NEW t \in Seq(Objs), t # << >>
  PROVE  /\ Head(t) \in Objs /\ Tail(t) \in Seq(Objs) /\ Len(t) = Len(Tail(t)) + 1 /\ Len(Tail(t)) \in Nat
         /\ \A o \in Objs : /\ Tally(t, {o}) = Tally(Tail(t), {o}) + (IF o = Head(t) THEN 1 ELSE 0)
                            /\ Tally(Tail(t), {o}) \in Nat
<1> DEFINE a == Head(t)  u == Tail(t)
<1>1. a \in Objs /\ u \in Seq(Objs) /\ t = << a >> \o u /\ Len(t) = Len(u) + 1 /\ Len(u) \in Nat
  OBVIOUS
<1> DEFINE one == << a >>
<1> HIDE DEF a, u
<1>2. one \in Seq(Objs) /\ \A S : Tally(one, S) = IF a \in S THEN 1 ELSE 0
  BY <1>1, TallyOfOne
<1>4. t = one \o u
  BY <1>1
<1> HIDE DEF one
<1>3. ASSUME NEW o \in Objs
      PROVE  /\ Tally(t, {o}) = Tally(u, {o}) + (IF o = a THEN 1 ELSE 0)
             /\ Tally(u, {o}) \in Nat
  <2>1. Tally(one \o u, {o}) = Tally(one, {o}) + Tally(u, {o})
    BY <1>1, <1>2, TallyOfConcat
  <2>2. Tally(one, {o}) = IF a \in {o} THEN 1 ELSE 0
    BY <1>2
  <2>3. Tally(u, {o}) \in Nat
    BY <1>1, TallyPositive
  <2>4. Tally(t, {o}) = Tally(one \o u, {o})
    BY <1>4
  <2> QED  BY <2>1, <2>2, <2>3, <2>4
<1> QED
  BY <1>1, <1>3 DEF a, u

(* Lowering the count of one object that is to be released. *)
LEMMA CountChanges ==
  ASSUME NEW h \in Heaps, NEW o \in Objs, NEW x \in Nat, NEW g, g = [h EXCEPT !.ref[o] = x]
  PROVE  /\ g \in Heaps /\ g.kind = h.kind /\ g.out = h.out
         /\ \A p \in Objs : g.ref[p] = IF p = o THEN x ELSE h.ref[p]
<1>1. /\ h.kind \in [Objs -> ObjKinds] /\ h.ref \in [Objs -> Nat] /\ h.out \in [Objs -> Seq(Item)]
      /\ h = [kind |-> h.kind, ref |-> h.ref, out |-> h.out]
  BY DEF Heaps
<1> DEFINE f == [h.ref EXCEPT ![o] = x]
<1>2. f \in [Objs -> Nat] /\ \A p \in Objs : f[p] = IF p = o THEN x ELSE h.ref[p]
  BY <1>1
<1>3. g = [h EXCEPT !.ref = f]
  OBVIOUS
<1> HIDE DEF f
<1>4. g.kind = h.kind /\ g.out = h.out /\ g.ref = f /\ g \in Heaps
  BY <1>2, <1>3 DEF Heaps
<1> QED
  BY <1>2, <1>4

(* ReleaseNext keeps the counts exact, never meets something free, and leaves  *)
(* less to release or fewer items (cs_value_release).                          *)
LEMMA ReleaseStep ==
  ASSUME NEW w \in [Objs -> Nat], NEW first, NEW r \in Releasing(w, first), r.todo # << >>
  PROVE  /\ ReleaseNext(r) \in Releasing(w, first)
         /\ Len(ReleaseNext(r).todo) \in Nat /\ Size(ReleaseNext(r).h) \in Nat
         /\ Len(r.todo) \in Nat /\ Size(r.h) \in Nat
         /\ Len(ReleaseNext(r).todo) + 2 * Size(ReleaseNext(r).h) < Len(r.todo) + 2 * Size(r.h)
<1> DEFINE h == r.h  t == r.todo  o == Head(t)  u == Tail(t)  n == ReleaseNext(r)
<1>1. h \in Heaps /\ t \in Seq(Objs) /\ r.stray = FALSE /\ t # << >>
      /\ r = [h |-> h, todo |-> t, stray |-> FALSE]
  BY DEF Releasing
<1>2. \A p \in Objs : h.ref[p] = w[p] + References(h, Objs, p) + Tally(t, {p})
  BY DEF Releasing
<1>3. \A p \in Objs : h.ref[p] > 0 <=> h.kind[p] # "free"
  BY DEF Releasing
<1>4. \A p \in Objs : h.kind[p] = "free" => h.out[p] = << >>
  BY DEF Releasing
<1>5. \A p \in Objs : h.kind[p] # "free" => h.kind[p] = first.kind[p] /\ h.out[p] = first.out[p]
  BY DEF Releasing
<1>6. /\ o \in Objs /\ u \in Seq(Objs) /\ Len(t) = Len(u) + 1 /\ Len(u) \in Nat
      /\ \A p \in Objs : /\ Tally(t, {p}) = Tally(u, {p}) + (IF p = o THEN 1 ELSE 0)
                         /\ Tally(u, {p}) \in Nat
  <2> HIDE DEF h, t
  <2> QED  BY <1>1, HeadIsCounted
<1>7. n = IF h.kind[o] = "free" THEN [r EXCEPT !.todo = u, !.stray = TRUE]
          ELSE IF h.ref[o] > 1 THEN [r EXCEPT !.todo = u, !.h.ref[o] = @ - 1]
          ELSE [r EXCEPT !.todo = ItemsOf(h, o, {}) \o u,
                         !.h.kind[o] = "free", !.h.ref[o] = 0, !.h.out[o] = << >>]
  BY DEF ReleaseNext
<1>8. /\ h.kind \in [Objs -> ObjKinds] /\ h.ref \in [Objs -> Nat] /\ h.out \in [Objs -> Seq(Item)]
      /\ h = [kind |-> h.kind, ref |-> h.ref, out |-> h.out]
  <2> HIDE DEF h
  <2> QED  BY <1>1 DEF Heaps
<1> HIDE DEF h, t, o, u, n
<1>9. \A p \in Objs : References(h, Objs, p) \in Nat /\ w[p] \in Nat
  BY <1>1, ReferencesByOne
<1>10. h.kind[o] # "free" /\ h.ref[o] >= 1 /\ h.ref[o] \in Nat
  <2>1. h.ref[o] = w[o] + References(h, Objs, o) + Tally(t, {o})  BY <1>2, <1>6
  <2>2. Tally(t, {o}) = Tally(u, {o}) + 1 /\ Tally(u, {o}) \in Nat  BY <1>6
  <2>3. References(h, Objs, o) \in Nat /\ w[o] \in Nat  BY <1>6, <1>9
  <2>4. h.ref[o] \in Nat  BY <1>6, <1>8
  <2>5. h.ref[o] >= 1  BY <2>1, <2>2, <2>3
  <2> QED  BY <2>4, <2>5, <1>3, <1>6
<1>11. Size(h) \in Nat /\ \A p \in Objs : Len(h.out[p]) \in Nat
  BY <1>1, <1>6, SizeChanges
<1>12. ASSUME NEW g \in Heaps, NEW v \in Seq(Objs),
              n = [h |-> g, todo |-> v, stray |-> FALSE],
              \A p \in Objs : g.ref[p] = w[p] + References(g, Objs, p) + Tally(v, {p}),
              \A p \in Objs : g.ref[p] > 0 <=> g.kind[p] # "free",
              \A p \in Objs : g.kind[p] = "free" => g.out[p] = << >>,
              \A p \in Objs : g.kind[p] # "free" => g.kind[p] = h.kind[p] /\ g.out[p] = h.out[p],
              Len(v) + 2 * Size(g) < Len(t) + 2 * Size(h), Len(v) \in Nat, Size(g) \in Nat
       PROVE  /\ n \in Releasing(w, first) /\ Len(n.todo) \in Nat /\ Size(n.h) \in Nat
              /\ Len(n.todo) + 2 * Size(n.h) < Len(t) + 2 * Size(h)
  <2>1. n \in [h : Heaps, todo : Seq(Objs), stray : {FALSE}] /\ n.h = g /\ n.todo = v
    BY <1>12
  <2>2. \A p \in Objs : g.kind[p] # "free" => g.kind[p] = first.kind[p] /\ g.out[p] = first.out[p]
    BY <1>12, <1>5
  <2>3. n \in Releasing(w, first)
    BY <2>1, <2>2, <1>12 DEF Releasing
  <2> QED  BY <2>1, <2>3, <1>12
<1>13. CASE h.ref[o] > 1
  <2> DEFINE g == [h EXCEPT !.ref[o] = @ - 1]
  <2>1. n = [r EXCEPT !.todo = u, !.h.ref[o] = @ - 1]
    BY <1>7, <1>10, <1>13
  <2>2. n = [h |-> g, todo |-> u, stray |-> FALSE]
    BY <2>1, <1>1
  <2>3. g \in Heaps /\ g.kind = h.kind /\ g.out = h.out
        /\ \A p \in Objs : g.ref[p] = IF p = o THEN h.ref[o] - 1 ELSE h.ref[p]
    <3>1. h.ref[o] - 1 \in Nat  BY <1>10, <1>13
    <3> DEFINE x == h.ref[o] - 1
    <3>2. g = [h EXCEPT !.ref[o] = x]  OBVIOUS
    <3> HIDE DEF x, g
    <3>3. x \in Nat  BY <3>1 DEF x
    <3>4. /\ g \in Heaps /\ g.kind = h.kind /\ g.out = h.out
          /\ \A p \in Objs : g.ref[p] = IF p = o THEN x ELSE h.ref[p]
      BY <3>2, <3>3, <1>1, <1>6, CountChanges
    <3> QED  BY <3>4 DEF x
  <2> HIDE DEF g
  <2>4. \A p \in Objs : References(g, Objs, p) = References(h, Objs, p)
    <3>1. \A x \in Objs : g.out[x] = h.out[x]  BY <2>3
    <3>2. Objs \in SUBSET Objs  OBVIOUS
    <3> QED  BY <3>1, <3>2, <1>1, <2>3, ReferencesSame
  <2>5. ASSUME NEW p \in Objs
        PROVE  /\ g.ref[p] = w[p] + References(g, Objs, p) + Tally(u, {p})
               /\ g.ref[p] > 0 <=> g.kind[p] # "free"
    <3>1. h.ref[p] = w[p] + References(h, Objs, p) + Tally(t, {p})  BY <1>2
    <3>2. /\ Tally(t, {p}) = Tally(u, {p}) + (IF p = o THEN 1 ELSE 0)
          /\ Tally(u, {p}) \in Nat  BY <1>6
    <3>3. References(h, Objs, p) \in Nat /\ w[p] \in Nat  BY <1>9
    <3>4. g.ref[p] = IF p = o THEN h.ref[o] - 1 ELSE h.ref[p]  BY <2>3
    <3>5. References(g, Objs, p) = References(h, Objs, p)  BY <2>4
    <3>6. CASE p = o
      <4>1. g.ref[p] > 0 /\ g.kind[p] # "free"  BY <1>10, <1>13, <2>3, <3>4, <3>6
      <4> QED  BY <3>1, <3>2, <3>3, <3>4, <3>5, <3>6, <4>1
    <3>7. CASE p # o
      <4>1. g.ref[p] = h.ref[p] /\ g.kind[p] = h.kind[p]  BY <2>3, <3>4, <3>7
      <4>2. h.ref[p] > 0 <=> h.kind[p] # "free"  BY <1>3
      <4> QED  BY <3>1, <3>2, <3>3, <3>5, <3>7, <4>1, <4>2
    <3> QED  BY <3>6, <3>7
  <2>6. PlacesOf(g, Objs) = PlacesOf(h, Objs)
    <3>1. \A x \in Objs : g.out[x] = h.out[x]  BY <2>3
    <3> QED  BY <3>1, UsesSame
  <2>7. Len(u) + 2 * Size(g) < Len(t) + 2 * Size(h) /\ Size(g) \in Nat
    <3>1. Size(g) = Size(h)  BY <2>6 DEF Size
    <3> QED  BY <3>1, <1>6, <1>11
  <2>8. \A p \in Objs : /\ g.kind[p] = "free" => g.out[p] = << >>
                        /\ g.kind[p] # "free" => g.kind[p] = h.kind[p] /\ g.out[p] = h.out[p]
    BY <2>3, <1>4
  <2>9. /\ \A p \in Objs : g.ref[p] = w[p] + References(g, Objs, p) + Tally(u, {p})
        /\ \A p \in Objs : g.ref[p] > 0 <=> g.kind[p] # "free"
    BY <2>5
  <2>10. /\ n \in Releasing(w, first) /\ Len(n.todo) \in Nat /\ Size(n.h) \in Nat
         /\ Len(n.todo) + 2 * Size(n.h) < Len(t) + 2 * Size(h)
    BY <2>2, <2>3, <2>7, <2>8, <2>9, <1>6, <1>12
  <2> QED  BY <2>10, <1>6, <1>11 DEF n, t, h
<1>14. CASE ~(h.ref[o] > 1)
  <2> DEFINE g == [h EXCEPT !.kind[o] = "free", !.ref[o] = 0, !.out[o] = << >>]
             its == ItemsOf(h, o, {})
             v == its \o u
  <2>1. n = [r EXCEPT !.todo = v, !.h.kind[o] = "free", !.h.ref[o] = 0, !.h.out[o] = << >>]
    BY <1>7, <1>10, <1>14
  <2>2. n = [h |-> g, todo |-> v, stray |-> FALSE]
    <3> HIDE DEF v
    <3> QED  BY <2>1, <1>1
  <2>3. /\ g \in Heaps
        /\ \A p \in Objs : /\ g.ref[p] = IF p = o THEN 0 ELSE h.ref[p]
                           /\ g.kind[p] = IF p = o THEN "free" ELSE h.kind[p]
                           /\ g.out[p] = IF p = o THEN << >> ELSE h.out[p]
    <3> DEFINE f == [h.ref EXCEPT ![o] = 0]  k == [h.kind EXCEPT ![o] = "free"]
               s == [h.out EXCEPT ![o] = << >>]
               g1 == [h EXCEPT !.kind[o] = "free"]
               g2 == [g1 EXCEPT !.ref[o] = 0]
    <3>1. f \in [Objs -> Nat] /\ \A p \in Objs : f[p] = IF p = o THEN 0 ELSE h.ref[p]
      BY <1>6, <1>8
    <3>2. k \in [Objs -> ObjKinds] /\ \A p \in Objs : k[p] = IF p = o THEN "free" ELSE h.kind[p]
      BY <1>6, <1>8 DEF ObjKinds
    <3>3. s \in [Objs -> Seq(Item)] /\ \A p \in Objs : s[p] = IF p = o THEN << >> ELSE h.out[p]
      BY <1>6, <1>8
    <3>4. g = [g2 EXCEPT !.out[o] = << >>]  OBVIOUS
    <3> HIDE DEF g
    <3>5. g1 = [h EXCEPT !.kind = k] /\ g1.ref = h.ref /\ g1.out = h.out  BY <1>8
    <3> HIDE DEF g1
    <3>6. g2 = [g1 EXCEPT !.ref = f] /\ g2.out = h.out  BY <1>8, <3>5
    <3> HIDE DEF g2
    <3>7. g = [g2 EXCEPT !.out = s]  BY <3>4, <3>6
    <3> HIDE DEF f, k, s
    <3>8. g.kind = k /\ g.out = s /\ g.ref = f /\ g \in Heaps
      BY <1>1, <3>1, <3>2, <3>3, <3>5, <3>6, <3>7 DEF Heaps
    <3> QED  BY <3>1, <3>2, <3>3, <3>8
  <2>4. /\ its \in Seq(Objs) /\ Len(its) \in 0 .. 2 * Len(h.out[o])
        /\ \A p \in Objs : Tally(its, {p}) = UsesIn(h.out[o], p)
    <3>1. h \in Heaps /\ o \in Objs  BY <1>1, <1>6
    <3>2. its \in Seq(Objs) /\ Len(its) \in 0 .. 2 * Len(h.out[o])  BY <3>1, ItemsAre
    <3>3. ASSUME NEW p \in Objs PROVE Tally(its, {p}) = UsesIn(h.out[o], p)
      BY <3>1, ItemsAre
    <3> QED  BY <3>2, <3>3
  <2> HIDE DEF g, its
  <2>5. v \in Seq(Objs) /\ Len(v) = Len(its) + Len(u) /\ Len(v) \in Nat
        /\ \A p \in Objs : Tally(v, {p}) = Tally(its, {p}) + Tally(u, {p})
    BY <2>4, <1>6, TallyOfConcat
  <2> HIDE DEF v
  <2>6. \A y \in Objs \ {o} : g.out[y] = h.out[y]
    BY <2>3
  <2>7. g.out[o] = << >> /\ UsesIn(g.out[o], o) = 0 /\ Len(g.out[o]) = 0
        /\ \A p \in Objs : UsesIn(g.out[o], p) = 0
    <3>1. g.out[o] = << >>  BY <2>3, <1>6
    <3>2. \A p : UsesIn(<< >>, p) = 0  BY TallyOfEmpty DEF UsesIn
    <3>3. Len(<< >>) = 0  OBVIOUS
    <3> QED  BY <3>1, <3>2, <3>3
  <2>8. ASSUME NEW p \in Objs
        PROVE  /\ References(h, Objs, p) = References(g, Objs, p) + UsesIn(h.out[o], p)
               /\ References(g, Objs, p) \in Nat /\ UsesIn(h.out[o], p) \in Nat
    <3>1. /\ References(g, Objs, p) + UsesIn(h.out[o], p) = References(h, Objs, p) + UsesIn(g.out[o], p)
          /\ References(g, Objs, p) \in Nat /\ References(h, Objs, p) \in Nat
          /\ UsesIn(h.out[o], p) \in Nat
      BY <1>1, <1>6, <2>3, <2>6, OneChanges
    <3>2. UsesIn(g.out[o], p) = 0  BY <2>7
    <3> QED  BY <3>1, <3>2
  <2>9. w[o] = 0 /\ References(h, Objs, o) = 0 /\ Tally(u, {o}) = 0
    <3>1. h.ref[o] = w[o] + References(h, Objs, o) + Tally(t, {o})  BY <1>2, <1>6
    <3>2. Tally(t, {o}) = Tally(u, {o}) + 1 /\ Tally(u, {o}) \in Nat  BY <1>6
    <3>3. References(h, Objs, o) \in Nat /\ w[o] \in Nat  BY <1>6, <1>9
    <3>4. h.ref[o] = 1  BY <1>10, <1>14
    <3> QED  BY <3>1, <3>2, <3>3, <3>4
  <2>10. ASSUME NEW p \in Objs
        PROVE  /\ g.ref[p] = w[p] + References(g, Objs, p) + Tally(v, {p})
               /\ g.ref[p] > 0 <=> g.kind[p] # "free"
    <3>1. h.ref[p] = w[p] + References(h, Objs, p) + Tally(t, {p})  BY <1>2
    <3>2. /\ Tally(t, {p}) = Tally(u, {p}) + (IF p = o THEN 1 ELSE 0)
          /\ Tally(u, {p}) \in Nat  BY <1>6
    <3>3. References(h, Objs, p) \in Nat /\ w[p] \in Nat  BY <1>9
    <3>4. Tally(v, {p}) = UsesIn(h.out[o], p) + Tally(u, {p})  BY <2>4, <2>5
    <3>5. /\ References(h, Objs, p) = References(g, Objs, p) + UsesIn(h.out[o], p)
          /\ References(g, Objs, p) \in Nat /\ UsesIn(h.out[o], p) \in Nat  BY <2>8
    <3>6. CASE p = o
      <4>1. g.ref[p] = 0 /\ g.kind[p] = "free"  BY <2>3, <3>6
      <4>2. w[p] = 0 /\ References(h, Objs, p) = 0 /\ Tally(u, {p}) = 0  BY <2>9, <3>6
      <4> QED  BY <3>4, <3>5, <4>1, <4>2
    <3>7. CASE p # o
      <4>1. g.ref[p] = h.ref[p] /\ g.kind[p] = h.kind[p]  BY <2>3, <3>7
      <4>2. h.ref[p] > 0 <=> h.kind[p] # "free"  BY <1>3
      <4> QED  BY <3>1, <3>2, <3>3, <3>4, <3>5, <3>7, <4>1, <4>2
    <3> QED  BY <3>6, <3>7
  <2>11. Len(v) + 2 * Size(g) < Len(t) + 2 * Size(h) /\ Size(g) \in Nat
    <3>1. /\ Size(g) + Len(h.out[o]) = Size(h) + Len(g.out[o])
          /\ Size(g) \in Nat /\ Len(h.out[o]) \in Nat
      BY <1>1, <1>6, <2>3, <2>6, SizeChanges
    <3>2. Len(g.out[o]) = 0  BY <2>7
    <3> DEFINE a == Len(h.out[o])  b == Len(its)  c == Len(u)
    <3>3. a \in Nat /\ b \in 0 .. 2 * a /\ c \in Nat /\ Size(g) + a = Size(h) /\ Size(g) \in Nat
      BY <1>6, <1>11, <2>4, <3>1, <3>2
    <3>4. Len(v) = b + c /\ Len(t) = c + 1  BY <1>6, <2>5
    <3> HIDE DEF a, b, c
    <3> QED  BY <1>11, <3>3, <3>4
  <2>12. \A p \in Objs : /\ g.kind[p] = "free" => g.out[p] = << >>
                         /\ g.kind[p] # "free" => g.kind[p] = h.kind[p] /\ g.out[p] = h.out[p]
    BY <2>3, <1>4
  <2>13. /\ \A p \in Objs : g.ref[p] = w[p] + References(g, Objs, p) + Tally(v, {p})
         /\ \A p \in Objs : g.ref[p] > 0 <=> g.kind[p] # "free"
    BY <2>10
  <2>14. /\ n \in Releasing(w, first) /\ Len(n.todo) \in Nat /\ Size(n.h) \in Nat
         /\ Len(n.todo) + 2 * Size(n.h) < Len(t) + 2 * Size(h)
    BY <2>2, <2>3, <2>5, <2>11, <2>12, <2>13, <1>12
  <2> QED  BY <2>14, <1>6, <1>11 DEF n, t, h
<1> QED
  BY <1>13, <1>14

(* ReleaseAll ends with nothing left to release. *)
LEMMA AllReleased ==
  ASSUME NEW h \in Heaps, NEW s \in Seq(Objs), NEW w \in [Objs -> Nat], NEW first,
         [h |-> h, todo |-> s, stray |-> FALSE] \in Releasing(w, first)
  PROVE  ReleaseAll(h, s) \in Releasing(w, first) /\ ReleaseAll(h, s).todo = << >>
<1> DEFINE most == Len(s) + 2 * Size(h)
           A == Releasing(w, first)
           base == [h |-> h, todo |-> s, stray |-> FALSE]
           Onward(r) == IF r.todo = << >> THEN r ELSE ReleaseNext(r)
           Eq(f) == f = [n \in 0 .. most |-> IF n = 0 THEN base ELSE Onward(f[n - 1])]
           it == CHOOSE f : Eq(f)
           M(r) == Len(r.todo) + 2 * Size(r.h)
<1>1. most \in Nat /\ Len(s) \in Nat /\ Size(h) \in Nat
  <2>1. IsFiniteSet(PlacesOf(h, Objs))  BY PlacesAre
  <2>2. Size(h) \in Nat  BY <2>1, FS_CardinalityType DEF Size
  <2>3. Len(s) \in Nat  OBVIOUS
  <2> QED  BY <2>2, <2>3
<1>2. ReleaseAll(h, s) = it[most]
  BY DEF ReleaseAll, Size
<1>3. ASSUME NEW r \in A
      PROVE  /\ Onward(r) \in A /\ M(r) \in Nat /\ M(Onward(r)) \in Nat
             /\ IF r.todo = << >> THEN M(Onward(r)) = M(r) ELSE M(Onward(r)) < M(r)
             /\ M(r) = 0 => r.todo = << >>
             /\ r.todo = << >> => Onward(r).todo = << >>
  <2>1. r.h \in Heaps /\ r.todo \in Seq(Objs)  BY DEF Releasing
  <2>2. Size(r.h) \in Nat /\ Len(r.todo) \in Nat /\ (Len(r.todo) = 0 => r.todo = << >>)
    <3>1. Objs \in SUBSET Objs  OBVIOUS
    <3>2. IsFiniteSet(PlacesOf(r.h, Objs))  BY <2>1, <3>1, PlacesAre
    <3>3. Size(r.h) \in Nat  BY <3>2, FS_CardinalityType DEF Size
    <3> QED  BY <2>1, <3>3
  <2>3. CASE r.todo = << >>
    <3> HIDE DEF A
    <3> QED  BY <2>2, <2>3
  <2>4. CASE r.todo # << >>
    <3> DEFINE n == ReleaseNext(r)
    <3>1. /\ n \in A /\ Len(n.todo) \in Nat /\ Size(n.h) \in Nat
          /\ Len(n.todo) + 2 * Size(n.h) < Len(r.todo) + 2 * Size(r.h)
      BY <2>4, ReleaseStep
    <3>2. Onward(r) = n  BY <2>4
    <3> HIDE DEF n, A, Onward
    <3> QED  BY <2>2, <2>4, <3>1, <3>2
  <2> QED  BY <2>3, <2>4
<1>4. base \in A /\ M(base) = most
  OBVIOUS
<1> HIDE DEF most, A, base, M
<1>5. \E f : Eq(f)
  <2> DEFINE step == [x \in A \X (0 + 1 .. most) |-> Onward(x[1])]
  <2> HIDE DEF Onward
  <2>1. step \in [A \X (0 + 1 .. most) -> A]  BY <1>3
  <2>2. PICK f \in [0 .. most -> A] :
          f[0] = base /\ \A k \in 0 + 1 .. most : f[k] = step[<< f[k - 1], k >>]
    <3> HIDE DEF step
    <3>1. 0 \in Int /\ most \in Int /\ 0 <= most  BY <1>1
    <3>2. Recursions(0, most, A, base, step) # {}  BY <1>4, <2>1, <3>1, RecursionExists
    <3> QED  BY <3>2 DEF Recursions
  <2>3. ASSUME NEW n \in 0 .. most PROVE f[n] = IF n = 0 THEN base ELSE Onward(f[n - 1])
    <3>1. CASE n = 0  BY <2>2, <3>1
    <3>2. CASE n # 0
      <4>1. n \in 0 + 1 .. most /\ n - 1 \in 0 .. most  BY <1>1, <3>2
      <4>2. f[n - 1] \in A  BY <2>2, <4>1
      <4>3. f[n] = step[<< f[n - 1], n >>]  BY <2>2, <4>1
      <4>4. step[<< f[n - 1], n >>] = Onward(f[n - 1])  BY <4>1, <4>2
      <4> HIDE DEF step
      <4> QED  BY <3>2, <4>3, <4>4
    <3> QED  BY <3>1, <3>2
  <2>4. Eq(f)
    <3> HIDE DEF step
    <3> QED  BY <2>2, <2>3
  <2> QED  BY <2>4
<1>6. Eq(it)
  <2> HIDE DEF Eq
  <2> QED  BY <1>5
<1> HIDE DEF it
<1>7. it[0] = base /\ \A n \in 1 .. most : it[n] = Onward(it[n - 1])
  <2> HIDE DEF Onward
  <2>1. \A n \in 0 .. most : it[n] = IF n = 0 THEN base ELSE Onward(it[n - 1])  BY <1>6
  <2>2. 0 \in 0 .. most /\ \A n \in 1 .. most : n \in 0 .. most /\ n # 0  BY <1>1
  <2> QED  BY <2>1, <2>2
<1> HIDE DEF Eq, Onward
<1> DEFINE T == {n \in 0 .. most : it[n] \in A /\ (it[n].todo = << >> \/ M(it[n]) + n <= most)}
<1>8. 0 \in T
  BY <1>1, <1>4, <1>7
<1>9. ASSUME NEW n \in 0 .. most - 1, n \in T PROVE n + 1 \in T
  <2> DEFINE r == it[n]  q == it[n + 1]
  <2>1. n + 1 \in 1 .. most /\ n + 1 \in 0 .. most /\ (n + 1) - 1 = n /\ n \in Nat  BY <1>1
  <2>2. r \in A /\ (r.todo = << >> \/ M(r) + n <= most)  BY <1>9
  <2>3. q = Onward(r)  BY <1>7, <2>1
  <2> HIDE DEF r, q, T
  <2>4. /\ Onward(r) \in A /\ M(r) \in Nat /\ M(Onward(r)) \in Nat
        /\ IF r.todo = << >> THEN M(Onward(r)) = M(r) ELSE M(Onward(r)) < M(r)
        /\ r.todo = << >> => Onward(r).todo = << >>
    BY <1>3, <2>2
  <2>5. q \in A /\ (q.todo = << >> \/ M(q) + (n + 1) <= most)
    BY <1>1, <2>1, <2>2, <2>3, <2>4
  <2> QED  BY <2>1, <2>5 DEF q, T
<1>10. 0 .. most \subseteq T
  <2> HIDE DEF T
  <2> QED  BY <1>1, <1>8, <1>9, IntervalInduction
<1> DEFINE last == it[most]
<1>11. last \in A /\ (last.todo = << >> \/ M(last) + most <= most)
  BY <1>1, <1>10
<1> HIDE DEF last
<1>12. M(last) \in Nat /\ (M(last) = 0 => last.todo = << >>)
  BY <1>3, <1>11
<1>13. last.todo = << >>
  BY <1>1, <1>11, <1>12
<1> QED
  BY <1>2, <1>11, <1>13 DEF last, A

(* When everything is released the counts are exact again, and what is left is *)
(* as it was.                                                                  *)
LEMMA ReleasedIs ==
  ASSUME NEW h \in Heaps, NEW s \in Seq(Objs), NEW w \in [Objs -> Nat],
         \A o \in Objs : h.ref[o] = w[o] + References(h, Objs, o) + Tally(s, {o}),
         \A o \in Objs : h.ref[o] > 0 <=> h.kind[o] # "free",
         \A o \in Objs : h.kind[o] = "free" => h.out[o] = << >>
  PROVE  LET r == ReleaseAll(h, s)
         IN /\ r.h \in Heaps /\ Exact(r.h, w) /\ r.stray = FALSE
            /\ \A o \in Objs : r.h.kind[o] # "free" =>
                 r.h.kind[o] = h.kind[o] /\ r.h.out[o] = h.out[o]
<1> DEFINE r == ReleaseAll(h, s)
           b == [h |-> h, todo |-> s, stray |-> FALSE]
<1>1. b \in [h : Heaps, todo : Seq(Objs), stray : {FALSE}] /\ b.h = h /\ b.todo = s
  OBVIOUS
<1> HIDE DEF b
<1>2. b \in Releasing(w, h)
  BY <1>1 DEF Releasing
<1>3. r \in Releasing(w, h) /\ r.todo = << >>
  BY <1>2, AllReleased DEF b
<1> HIDE DEF r
<1>4. /\ r.h \in Heaps /\ r.stray = FALSE
      /\ \A o \in Objs : r.h.ref[o] = w[o] + References(r.h, Objs, o) + Tally(r.todo, {o})
      /\ \A o \in Objs : r.h.ref[o] > 0 <=> r.h.kind[o] # "free"
      /\ \A o \in Objs : r.h.kind[o] = "free" => r.h.out[o] = << >>
      /\ \A o \in Objs : r.h.kind[o] # "free" => r.h.kind[o] = h.kind[o] /\ r.h.out[o] = h.out[o]
  BY <1>3 DEF Releasing
<1>5. ASSUME NEW o \in Objs PROVE r.h.ref[o] = w[o] + References(r.h, Objs, o)
  <2>1. Tally(r.todo, {o}) = 0  BY <1>3, TallyOfEmpty
  <2>2. References(r.h, Objs, o) \in Nat /\ w[o] \in Nat  BY <1>4, ReferencesByOne
  <2>3. r.h.ref[o] = w[o] + References(r.h, Objs, o) + Tally(r.todo, {o})  BY <1>4
  <2> QED  BY <2>1, <2>2, <2>3
<1> QED
  BY <1>4, <1>5 DEF Exact, r

(* An order of a finite set has each of its members at one place. *)
LEMMA OrderIs ==
  ASSUME NEW G \in SUBSET Objs, NEW order \in SetToSeqs(G)
  PROVE  /\ order \in Seq(Objs) /\ DOMAIN order = 1 .. Len(order) /\ Len(order) \in Nat
         /\ \A i \in 1 .. Len(order) : order[i] \in G
         /\ \A i, j \in 1 .. Len(order) : i # j => order[i] # order[j]
         /\ G = {order[i] : i \in 1 .. Len(order)}
<1> DEFINE D == 1 .. Cardinality(G)
<1>1. IsFiniteSet(G) /\ Cardinality(G) \in Nat
  BY HeapAssumption, FS_Subset, FS_CardinalityType
<1>2. order \in [D -> G] /\ \A i, j \in D : i # j => order[i] # order[j]
  BY DEF SetToSeqs
<1>3. order \in Seq(Objs) /\ Len(order) = Cardinality(G) /\ DOMAIN order = D
  BY <1>1, <1>2
<1>4. IsFiniteSet(D) /\ Cardinality(D) = Cardinality(G)
  <2>1. 1 \in Int /\ Cardinality(G) \in Int  BY <1>1
  <2>2. IsFiniteSet(D) /\ Cardinality(D) = IF 1 > Cardinality(G) THEN 0 ELSE Cardinality(G) - 1 + 1
    BY <2>1, FS_Interval
  <2> QED  BY <1>1, <2>2
<1> HIDE DEF D
<1>5. order \in Injection(D, G)
  BY <1>2 DEF Injection, IsInjective
<1>6. order \in Surjection(D, G)
  BY <1>1, <1>4, <1>5, FS_Injection
<1>7. \A x \in G : \E i \in D : order[i] = x
  BY <1>6 DEF Surjection
<1>8. D = 1 .. Len(order)
  BY <1>3 DEF D
<1>9. G = {order[i] : i \in D}
  BY <1>2, <1>7
<1> QED
  BY <1>1, <1>2, <1>3, <1>8, <1>9

(* ss lists what the objects of order refer to outside of G, one by one *)
ItemsInOrder(ss, h, order, G) ==
  /\ ss \in Seq(Seq(Objs)) /\ Len(ss) = Len(order)
  /\ \A i \in 1 .. Len(order) : ss[i] = ItemsOf(h, order[i], G)

(* What a collection of G releases. *)
LEMMA CollectedItems ==
  ASSUME NEW h \in Heaps, NEW G \in SUBSET Objs, NEW order \in SetToSeqs(G),
         NEW ss, ItemsInOrder(ss, h, order, G)
  PROVE  /\ FlattenSeq(ss) \in Seq(Objs)
         /\ \A o \in G : Tally(FlattenSeq(ss), {o}) = 0
         /\ \A o \in Objs \ G : Tally(FlattenSeq(ss), {o}) = References(h, G, o)
<1> DEFINE n == Len(order)
           P(k) == {order[i] : i \in 1 .. k}
<1>1. /\ DOMAIN order = 1 .. n /\ n \in Nat /\ \A i \in 1 .. n : order[i] \in G
      /\ \A i, j \in 1 .. n : i # j => order[i] # order[j]
      /\ G = P(n)
  BY OrderIs
<1>2. \A i \in 1 .. n : order[i] \in Objs /\ ItemsOf(h, order[i], G) \in Seq(Objs)
  BY <1>1, ItemsAre
<1>3. ss \in Seq(Seq(Objs)) /\ Len(ss) = n /\ \A i \in 1 .. n : ss[i] = ItemsOf(h, order[i], G)
  BY DEF ItemsInOrder
<1>4. PICK g \in [0 .. Len(ss) -> Seq(Objs)] :
        /\ g[0] = << >>
        /\ \A k \in 1 .. Len(ss) : g[k] = g[k - 1] \o ss[k]
        /\ FlattenSeq(ss) = g[Len(ss)]
  BY <1>3, FlatInSteps
<1>5. \A k \in 0 .. n : P(k) \in SUBSET Objs
  BY <1>1
<1> DEFINE Right(k) == /\ \A o \in G : Tally(g[k], {o}) = 0
                       /\ \A o \in Objs \ G : Tally(g[k], {o}) = References(h, P(k), o)
           T == {k \in 0 .. n : Right(k)}
<1>6. 0 \in T
  <2>1. P(0) = {}  OBVIOUS
  <2>2. \A o \in Objs : References(h, {}, o) = 0
    <3> SUFFICES ASSUME NEW o \in Objs PROVE References(h, {}, o) = 0
      OBVIOUS
    <3>1. {} \in SUBSET Objs /\ ~\E x \in {} : UsesIn(h.out[x], o) > 0  OBVIOUS
    <3>2. References(h, {}, o) \in Nat  BY <3>1, ReferencesAre
    <3>3. ~(References(h, {}, o) > 0)  BY <3>1, ReferencesPositive
    <3> QED  BY <3>2, <3>3
  <2>3. \A o : Tally(g[0], {o}) = 0  BY <1>4, TallyOfEmpty
  <2> HIDE DEF P
  <2>4. \A o \in Objs \ G : References(h, P(0), o) = 0  BY <2>1, <2>2
  <2>5. Right(0)  BY <2>3, <2>4
  <2> HIDE DEF Right
  <2> QED  BY <1>1, <2>5
<1>7. ASSUME NEW k \in 0 .. n - 1, k \in T PROVE k + 1 \in T
  <2> DEFINE x == order[k + 1]  a == g[k]  b == ss[k + 1]  A == P(k)  C == P(k + 1)
  <2>1. k + 1 \in 1 .. n /\ k + 1 \in 0 .. n /\ k \in 0 .. n /\ (k + 1) - 1 = k  BY <1>1
  <2>2. g[k + 1] = a \o b /\ a \in Seq(Objs) /\ b = ItemsOf(h, x, G) /\ b \in Seq(Objs) /\ x \in Objs
    BY <1>2, <1>3, <1>4, <2>1
  <2>3. A \in SUBSET Objs /\ {x} \in SUBSET Objs /\ A \cap {x} = {} /\ C = A \cup {x}
    <3>1. 1 .. k + 1 = (1 .. k) \cup {k + 1}  BY <1>1
    <3>2. C = A \cup {x}  BY <3>1
    <3>3. \A i \in 1 .. k : i \in 1 .. n /\ i # k + 1  BY <1>1
    <3>4. x \notin A  BY <1>1, <2>1, <3>3
    <3> QED  BY <1>5, <2>1, <2>2, <3>2, <3>4
  <2>4. Right(k)
    <3> HIDE DEF n, Right
    <3> QED  BY <1>7
  <2>5. /\ \A o \in G : Tally(a, {o}) = 0
        /\ \A o \in Objs \ G : Tally(a, {o}) = References(h, A, o)
    BY <2>4
  <2> HIDE DEF x, a, b, A, C, P, Right, T
  <2>6. \A o \in Objs : Tally(a \o b, {o}) = Tally(a, {o}) + Tally(b, {o})  BY <2>2, TallyOfConcat
  <2>7. ASSUME NEW o \in G PROVE Tally(a \o b, {o}) = 0
    <3>1. o \in Objs  OBVIOUS
    <3>2. Tally(b, {o}) = 0  BY <2>2, <3>1, ItemsAre
    <3>3. Tally(a, {o}) = 0  BY <2>5
    <3> QED  BY <2>6, <3>1, <3>2, <3>3
  <2>8. ASSUME NEW o \in Objs \ G PROVE Tally(a \o b, {o}) = References(h, C, o)
    <3>1. Tally(b, {o}) = UsesIn(h.out[x], o)  BY <2>2, ItemsAre
    <3>2. Tally(a, {o}) = References(h, A, o)  BY <2>5
    <3>3. References(h, {x}, o) = UsesIn(h.out[x], o)  BY <2>2, ReferencesOfOne
    <3> DEFINE X == {x}
    <3>4. X \in SUBSET Objs /\ A \cap X = {} /\ C = A \cup X  BY <2>3
    <3> HIDE DEF X
    <3>5. References(h, A \cup X, o) = References(h, A, o) + References(h, X, o)
      BY <2>3, <3>4, ReferencesSplit
    <3>6. References(h, C, o) = References(h, A \cup X, o)  BY <3>4
    <3> QED  BY <2>6, <3>1, <3>2, <3>3, <3>5, <3>6 DEF X
  <2>9. Right(k + 1)  BY <2>2, <2>7, <2>8 DEF Right, C
  <2> QED  BY <2>1, <2>9 DEF T
<1>8. 0 .. n \subseteq T
  <2> HIDE DEF T
  <2> QED  BY <1>1, <1>6, <1>7, IntervalInduction
<1>9. Right(n)
  <2>1. n \in T
    <3>1. n \in 0 .. n  BY <1>1
    <3> HIDE DEF T, n
    <3> QED  BY <1>8, <3>1
  <2> HIDE DEF Right
  <2> QED  BY <2>1
<1>10. FlattenSeq(ss) = g[n] /\ g[n] \in Seq(Objs)
  BY <1>1, <1>3, <1>4
<1>11. P(n) = G
  BY <1>1
<1> DEFINE s == FlattenSeq(ss)
<1> HIDE DEF P
<1>12. \A o \in Objs \ G : Tally(g[n], {o}) = References(h, G, o)
  BY <1>9, <1>11
<1>13. \A o \in G : Tally(g[n], {o}) = 0
  BY <1>9
<1>14. /\ s \in Seq(Objs)
       /\ \A o \in G : Tally(s, {o}) = 0
       /\ \A o \in Objs \ G : Tally(s, {o}) = References(h, G, o)
  BY <1>10, <1>12, <1>13
<1> QED
  BY <1>14

(* RefersInto speaks of what ItemsOf lists. *)
LEMMA RefersIntoIs ==
  ASSUME NEW h \in Heaps, NEW x \in Objs, NEW c \in SUBSET Objs
  PROVE  RefersInto(h, x, c) <=> ToSet(ItemsOf(h, x, {})) \subseteq c
<1> DEFINE l == h.out[x]  t == ItemsOf(h, x, {})
<1>1. l \in Seq(Item) /\ DOMAIN l = 1 .. Len(l)
      /\ \A i \in DOMAIN l : l[i].val \in Objs /\ l[i].key \in Objs \cup {NoObj} /\ l[i] \in Item
  BY HeapIs
<1>2. ToSet(t) \subseteq Objs
  <2>1. t \in Seq(Objs)  BY ItemsAre
  <2> HIDE DEF t
  <2>2. \A i \in DOMAIN t : t[i] \in Objs  BY <2>1
  <2> QED  BY <2>2 DEF ToSet
<1>3. ASSUME NEW y \in Objs
      PROVE  y \in ToSet(t) <=> \E i \in DOMAIN l : l[i].key = y \/ l[i].val = y
  <2>1. y \in ToSet(t) <=> UsesIn(l, y) > 0  BY ItemsHave
  <2> HIDE DEF l, t
  <2>2. /\ Tally(l, KeyIs(y)) \in Nat
        /\ Tally(l, KeyIs(y)) > 0 <=> \E i \in DOMAIN l : l[i] \in KeyIs(y)
    BY <1>1, TallyPositive
  <2>3. /\ Tally(l, ValIs(y)) \in Nat
        /\ Tally(l, ValIs(y)) > 0 <=> \E i \in DOMAIN l : l[i] \in ValIs(y)
    BY <1>1, TallyPositive
  <2>4. \A i \in DOMAIN l : /\ l[i] \in KeyIs(y) <=> l[i].key = y
                            /\ l[i] \in ValIs(y) <=> l[i].val = y
    BY <1>1 DEF KeyIs, ValIs
  <2>5. UsesIn(l, y) > 0 <=> Tally(l, KeyIs(y)) > 0 \/ Tally(l, ValIs(y)) > 0
    BY <2>2, <2>3 DEF UsesIn
  <2>6. Tally(l, KeyIs(y)) > 0 <=> \E i \in DOMAIN l : l[i].key = y
    <3>1. (\E i \in DOMAIN l : l[i] \in KeyIs(y)) <=> \E i \in DOMAIN l : l[i].key = y
      BY <2>4
    <3> QED  BY <2>2, <3>1
  <2>7. Tally(l, ValIs(y)) > 0 <=> \E i \in DOMAIN l : l[i].val = y
    <3>1. (\E i \in DOMAIN l : l[i] \in ValIs(y)) <=> \E i \in DOMAIN l : l[i].val = y
      BY <2>4
    <3> QED  BY <2>3, <3>1
  <2>8. (\E i \in DOMAIN l : l[i].key = y \/ l[i].val = y)
          <=> (\E i \in DOMAIN l : l[i].key = y) \/ (\E i \in DOMAIN l : l[i].val = y)
    OBVIOUS
  <2>9. UsesIn(l, y) > 0 <=> \E i \in DOMAIN l : l[i].key = y \/ l[i].val = y
    <3> HIDE DEF UsesIn
    <3> QED  BY <2>5, <2>6, <2>7, <2>8
  <2> QED  BY <2>1, <2>9
<1>4. RefersInto(h, x, c) <=> \A i \in DOMAIN l : {l[i].key, l[i].val} \subseteq c \cup {NoObj}
  BY DEF RefersInto
<1> HIDE DEF l, t
<1>5. ASSUME ToSet(t) \subseteq c, NEW i \in DOMAIN l PROVE {l[i].key, l[i].val} \subseteq c \cup {NoObj}
  <2>1. l[i].val \in c  BY <1>1, <1>3, <1>5
  <2>2. l[i].key \in c \cup {NoObj}  BY <1>1, <1>3, <1>5
  <2> QED  BY <2>1, <2>2
<1>6. ASSUME \A i \in DOMAIN l : {l[i].key, l[i].val} \subseteq c \cup {NoObj}, NEW y \in ToSet(t)
      PROVE  y \in c
  <2>1. y \in Objs /\ y # NoObj  BY <1>2, HeapAssumption
  <2>2. PICK i \in DOMAIN l : l[i].key = y \/ l[i].val = y  BY <1>3, <2>1
  <2> QED  BY <1>6, <2>1, <2>2
<1> QED
  BY <1>4, <1>5, <1>6 DEF t

(* The least set that holds s and what the objects of through in it refer to.  *)
LEMMA ReachIs ==
  ASSUME NEW h \in Heaps, NEW through \in SUBSET Objs, NEW s \in SUBSET Objs
  PROVE  /\ Reach(h, through, s) \in SUBSET Objs
         /\ s \subseteq Reach(h, through, s)
         /\ \A x \in Reach(h, through, s) \cap through :
              ToSet(ItemsOf(h, x, {})) \cap Objs \subseteq Reach(h, through, s)
         /\ \A c \in SUBSET Objs :
              /\ s \subseteq c
              /\ \A x \in c \cap through : ToSet(ItemsOf(h, x, {})) \subseteq c
              => Reach(h, through, s) \subseteq c
<1> DEFINE closed == {c \in SUBSET Objs : s \subseteq c /\ \A x \in c \cap through : RefersInto(h, x, c)}
           R == Reach(h, through, s)
           refs(x) == ToSet(ItemsOf(h, x, {}))
<1>1. R = {o \in Objs : \A c \in closed : o \in c}
  BY DEF Reach
<1>2. \A x \in through, c \in SUBSET Objs : RefersInto(h, x, c) <=> refs(x) \subseteq c
  BY RefersIntoIs
<1> HIDE DEF R, refs
<1>3. R \in SUBSET Objs /\ s \subseteq R
  BY <1>1
<1>4. ASSUME NEW x \in R \cap through, NEW y \in refs(x) \cap Objs PROVE y \in R
  <2>1. ASSUME NEW c \in closed PROVE y \in c
    <3>1. x \in c /\ c \in SUBSET Objs /\ \A z \in c \cap through : RefersInto(h, z, c)  BY <1>1
    <3>2. refs(x) \subseteq c  BY <1>2, <3>1
    <3> QED  BY <3>2
  <2> HIDE DEF closed
  <2> QED  BY <1>1, <2>1
<1>5. ASSUME NEW c \in SUBSET Objs, s \subseteq c, \A x \in c \cap through : refs(x) \subseteq c
      PROVE  R \subseteq c
  <2>1. \A x \in c \cap through : RefersInto(h, x, c)  BY <1>2, <1>5
  <2>2. c \in closed  BY <1>5, <2>1
  <2> HIDE DEF closed
  <2> QED  BY <1>1, <2>2
<1> HIDE DEF closed
<1> QED
  BY <1>3, <1>4, <1>5 DEF R, refs

(* No count of garbage comes from outside of it. *)
LEMMA GarbageIs ==
  ASSUME NEW h \in Heaps, NEW w \in [Objs -> Nat], Exact(h, w)
  PROVE  /\ Garbage(h) \in SUBSET Objs
         /\ \A o \in Garbage(h) : w[o] = 0 /\ References(h, Objs \ Garbage(h), o) = 0
<1> DEFINE K == Tracked(h)
           anchored == {o \in K : h.ref[o] > References(h, K, o)}
           R == Reach(h, K, anchored)
           G == Garbage(h)
<1>1. K \in SUBSET Objs /\ anchored \in SUBSET Objs
  BY DEF Tracked
<1>2. G = K \ R
  BY DEF Garbage
<1>3. /\ anchored \subseteq R
      /\ \A x \in R \cap K : ToSet(ItemsOf(h, x, {})) \cap Objs \subseteq R
  <2> HIDE DEF K, anchored
  <2> QED  BY <1>1, ReachIs
<1>4. \A o \in K : o \notin anchored => ~(h.ref[o] > References(h, K, o))
  OBVIOUS
<1> HIDE DEF K, anchored, R, G
<1>5. G \in SUBSET Objs
  BY <1>1, <1>2
<1>6. ASSUME NEW o \in G PROVE w[o] = 0 /\ References(h, Objs \ G, o) = 0
  <2> DEFINE U == Objs \ K  V == Objs \ G
  <2>1. o \in Objs /\ o \in K /\ o \notin R  BY <1>1, <1>2
  <2>2. ~(h.ref[o] > References(h, K, o))  BY <1>3, <1>4, <2>1
  <2>3. h.ref[o] = w[o] + References(h, Objs, o) /\ h.ref[o] \in Nat /\ w[o] \in Nat
    BY <2>1, HeapIs DEF Exact
  <2>4. U \in SUBSET Objs /\ V \in SUBSET Objs /\ U \cap K = {} /\ U \cup K = Objs  BY <1>1
  <2> HIDE DEF U, V
  <2>5. /\ References(h, U \cup K, o) = References(h, U, o) + References(h, K, o)
        /\ References(h, U, o) \in Nat /\ References(h, K, o) \in Nat
    BY <1>1, <2>1, <2>4, ReferencesSplit
  <2>6. References(h, U \cup K, o) = References(h, Objs, o)  BY <2>4
  <2>7. w[o] = 0 /\ References(h, U, o) = 0  BY <2>2, <2>3, <2>5, <2>6
  <2>8. ASSUME NEW x \in V, UsesIn(h.out[x], o) > 0 PROVE FALSE
    <3>1. x \in Objs /\ (x \notin K \/ x \in R)  BY <1>2, <2>4 DEF V
    <3>2. CASE x \notin K
      <4>1. x \in U  BY <3>1, <3>2 DEF U
      <4>2. References(h, U, o) > 0  BY <2>1, <2>4, <2>8, <4>1, ReferencesPositive
      <4> QED  BY <2>7, <4>2
    <3>3. CASE x \in K /\ x \in R
      <4>1. o \in ToSet(ItemsOf(h, x, {}))  BY <2>1, <2>8, <3>1, ItemsHave
      <4>2. o \in R  BY <1>3, <2>1, <3>3, <4>1
      <4> QED  BY <2>1, <4>2
    <3> QED  BY <3>1, <3>2, <3>3
  <2>9. References(h, V, o) \in Nat  BY <2>1, <2>4, ReferencesAre
  <2>10. ~(References(h, V, o) > 0)  BY <2>1, <2>4, <2>8, ReferencesPositive
  <2> QED  BY <2>7, <2>9, <2>10 DEF V
<1> QED
  BY <1>5, <1>6 DEF G

(* The heap after the garbage G of h is gone *)
Without(h, G) ==
  [h EXCEPT
     !.kind = [o \in Objs |-> IF o \in G THEN "free" ELSE h.kind[o]],
     !.ref = [o \in Objs |-> IF o \in G THEN 0 ELSE h.ref[o]],
     !.out = [o \in Objs |-> IF o \in G THEN << >> ELSE h.out[o]]]

(* What the heap is without the garbage. *)
LEMMA WithoutIs ==
  ASSUME NEW h \in Heaps, NEW G \in SUBSET Objs, NEW g, g = Without(h, G)
  PROVE  /\ g \in Heaps
         /\ \A o \in Objs \ G : g.kind[o] = h.kind[o] /\ g.ref[o] = h.ref[o] /\ g.out[o] = h.out[o]
         /\ \A o \in G : g.kind[o] = "free" /\ g.ref[o] = 0 /\ g.out[o] = << >>
<1> DEFINE k == [o \in Objs |-> IF o \in G THEN "free" ELSE h.kind[o]]
           f == [o \in Objs |-> IF o \in G THEN 0 ELSE h.ref[o]]
           s == [o \in Objs |-> IF o \in G THEN << >> ELSE h.out[o]]
<1>1. /\ h.kind \in [Objs -> ObjKinds] /\ h.ref \in [Objs -> Nat] /\ h.out \in [Objs -> Seq(Item)]
      /\ h = [kind |-> h.kind, ref |-> h.ref, out |-> h.out]
  BY DEF Heaps
<1>2. k \in [Objs -> ObjKinds]
  BY <1>1 DEF ObjKinds
<1>3. f \in [Objs -> Nat]
  BY <1>1
<1>4. s \in [Objs -> Seq(Item)]
  BY <1>1
<1>5. /\ \A o \in Objs \ G : k[o] = h.kind[o] /\ f[o] = h.ref[o] /\ s[o] = h.out[o]
      /\ \A o \in G : k[o] = "free" /\ f[o] = 0 /\ s[o] = << >>
  OBVIOUS
<1>6. g = [h EXCEPT !.kind = k, !.ref = f, !.out = s]
  BY DEF Without
<1> HIDE DEF k, f, s
<1>7. g.kind = k /\ g.ref = f /\ g.out = s /\ g \in Heaps
  BY <1>1, <1>2, <1>3, <1>4, <1>6 DEF Heaps
<1> QED
  BY <1>5, <1>7

(* After a collection the counts are exact, and what is left is as it was.     *)
Collected(r, h, w) ==
  /\ r.h \in Heaps /\ Exact(r.h, w) /\ r.stray = FALSE
  /\ \A o \in Objs : r.h.kind[o] # "free" =>
       o \notin Garbage(h) /\ r.h.kind[o] = h.kind[o] /\ r.h.out[o] = h.out[o]

(* A collection in any order leaves exact counts and what it does not free as  *)
(* it was.                                                                     *)
LEMMA CollectedIs ==
  ASSUME NEW h \in Heaps, NEW w \in [Objs -> Nat], Exact(h, w),
         NEW order \in SetToSeqs(Garbage(h)), NEW ss, ItemsInOrder(ss, h, order, Garbage(h))
  PROVE  Collected(ReleaseAll(Without(h, Garbage(h)), FlattenSeq(ss)), h, w)
<1> DEFINE G == Garbage(h)  g == Without(h, G)  B == Objs \ G
           s == FlattenSeq(ss)  r == ReleaseAll(g, s)
<1>1. G \in SUBSET Objs /\ \A o \in G : w[o] = 0 /\ References(h, B, o) = 0
  BY GarbageIs
<1>2. /\ s \in Seq(Objs)
      /\ \A o \in G : Tally(s, {o}) = 0
      /\ \A o \in Objs \ G : Tally(s, {o}) = References(h, G, o)
  <2> DEFINE f == FlattenSeq(ss)
  <2> HIDE DEF f
  <2>1. order \in SetToSeqs(G) /\ ItemsInOrder(ss, h, order, G)  OBVIOUS
  <2> HIDE DEF G
  <2>2. /\ f \in Seq(Objs)
        /\ \A o \in G : Tally(f, {o}) = 0
        /\ \A o \in Objs \ G : Tally(f, {o}) = References(h, G, o)
    BY <1>1, <2>1, CollectedItems DEF f
  <2> QED  BY <2>2 DEF f
<1> HIDE DEF s
<1>3. /\ \A o \in Objs : h.ref[o] = w[o] + References(h, Objs, o)
      /\ \A o \in Objs : h.ref[o] > 0 <=> h.kind[o] # "free"
      /\ \A o \in Objs : h.kind[o] = "free" => h.out[o] = << >>
  BY DEF Exact
<1> HIDE DEF G, g
<1>4. /\ g \in Heaps
      /\ \A o \in B : g.kind[o] = h.kind[o] /\ g.ref[o] = h.ref[o] /\ g.out[o] = h.out[o]
      /\ \A o \in G : g.kind[o] = "free" /\ g.ref[o] = 0 /\ g.out[o] = << >>
  <2>1. g = Without(h, G)  BY DEF g
  <2> QED  BY <1>1, <2>1, WithoutIs
<1>5. B \in SUBSET Objs /\ B \cap G = {} /\ B \cup G = Objs
  BY <1>1
<1>6. ASSUME NEW o \in Objs
      PROVE  /\ References(h, Objs, o) = References(h, B, o) + References(h, G, o)
             /\ References(g, Objs, o) = References(h, B, o)
             /\ References(h, B, o) \in Nat /\ References(h, G, o) \in Nat
  <2> HIDE DEF B
  <2>1. /\ References(h, B \cup G, o) = References(h, B, o) + References(h, G, o)
        /\ References(h, B, o) \in Nat /\ References(h, G, o) \in Nat
    BY <1>1, <1>5, ReferencesSplit
  <2>2. /\ References(g, B \cup G, o) = References(g, B, o) + References(g, G, o)
        /\ References(g, B, o) \in Nat /\ References(g, G, o) \in Nat
    BY <1>1, <1>4, <1>5, ReferencesSplit
  <2>3. References(g, B, o) = References(h, B, o)  BY <1>4, <1>5, ReferencesSame
  <2>4. ~\E x \in G : UsesIn(g.out[x], o) > 0
    <3>1. UsesIn(<< >>, o) = 0  BY TallyOfEmpty DEF UsesIn
    <3>2. \A x \in G : UsesIn(g.out[x], o) = 0  BY <1>4, <3>1
    <3> QED  BY <3>2
  <2>5. References(g, G, o) = 0
    <3>1. ~(References(g, G, o) > 0)  BY <1>1, <1>4, <2>4, ReferencesPositive
    <3> QED  BY <2>2, <3>1
  <2>6. References(h, B \cup G, o) = References(h, Objs, o)
        /\ References(g, B \cup G, o) = References(g, Objs, o)  BY <1>5
  <2> QED  BY <2>1, <2>2, <2>3, <2>5, <2>6
<1>7. ASSUME NEW o \in Objs
      PROVE  /\ g.ref[o] = w[o] + References(g, Objs, o) + Tally(s, {o})
             /\ g.ref[o] > 0 <=> g.kind[o] # "free"
             /\ g.kind[o] = "free" => g.out[o] = << >>
  <2>1. w[o] \in Nat  OBVIOUS
  <2>2. CASE o \in G
    <3>1. g.kind[o] = "free" /\ g.ref[o] = 0 /\ g.out[o] = << >>  BY <1>4, <2>2
    <3>2. w[o] = 0 /\ References(h, B, o) = 0 /\ Tally(s, {o}) = 0  BY <1>1, <1>2, <2>2
    <3>3. References(g, Objs, o) = References(h, B, o)  BY <1>6
    <3> HIDE DEF B
    <3> QED  BY <3>1, <3>2, <3>3
  <2>3. CASE o \notin G
    <3>1. o \in B  BY <2>3
    <3>2. g.kind[o] = h.kind[o] /\ g.ref[o] = h.ref[o] /\ g.out[o] = h.out[o]  BY <1>4, <3>1
    <3>3. Tally(s, {o}) = References(h, G, o)  BY <1>2, <2>3
    <3>4. h.ref[o] = w[o] + References(h, Objs, o)  BY <1>3
    <3>5. h.ref[o] > 0 <=> h.kind[o] # "free"  BY <1>3
    <3>6. h.kind[o] = "free" => h.out[o] = << >>  BY <1>3
    <3>7. /\ References(h, Objs, o) = References(h, B, o) + References(h, G, o)
          /\ References(g, Objs, o) = References(h, B, o)
          /\ References(h, B, o) \in Nat /\ References(h, G, o) \in Nat
      BY <1>6
    <3> HIDE DEF B
    <3>8. g.ref[o] = w[o] + References(g, Objs, o) + Tally(s, {o})
      BY <2>1, <3>2, <3>3, <3>4, <3>7
    <3> QED  BY <3>2, <3>5, <3>6, <3>8
  <2> QED  BY <2>2, <2>3
<1>8. /\ r.h \in Heaps /\ Exact(r.h, w) /\ r.stray = FALSE
      /\ \A o \in Objs : r.h.kind[o] # "free" => r.h.kind[o] = g.kind[o] /\ r.h.out[o] = g.out[o]
  <2>1. /\ \A o \in Objs : g.ref[o] = w[o] + References(g, Objs, o) + Tally(s, {o})
        /\ \A o \in Objs : g.ref[o] > 0 <=> g.kind[o] # "free"
        /\ \A o \in Objs : g.kind[o] = "free" => g.out[o] = << >>
    BY <1>7
  <2> QED  BY <1>2, <1>4, <2>1, ReleasedIs
<1> HIDE DEF r
<1>9. ASSUME NEW o \in Objs, r.h.kind[o] # "free"
      PROVE  o \notin G /\ r.h.kind[o] = h.kind[o] /\ r.h.out[o] = h.out[o]
  <2>1. r.h.kind[o] = g.kind[o] /\ r.h.out[o] = g.out[o]  BY <1>8, <1>9
  <2>2. o \notin G  BY <1>4, <1>9, <2>1
  <2> QED  BY <1>4, <2>1, <2>2
<1>10. Collected(r, h, w)
  BY <1>8, <1>9 DEF Collected, G
<1> QED
  BY <1>10 DEF r, g, G, s

(* The inductive invariant of the heap: as long as nothing is undefined, the   *)
(* counts are exact and what is free has no items.                             *)
HeapInv ==
  /\ heap \in Heaps /\ held \in [Objs -> 0 .. MaxHeld]
  /\ stray \in BOOLEAN /\ broken \in BOOLEAN
  /\ ~broken => ~stray /\ Exact(heap, held)

(* Exact counts: what is held or referred to is not free. *)
LEMMA ExactIs ==
  ASSUME NEW h \in Heaps, NEW w \in [Objs -> Nat], Exact(h, w)
  PROVE  /\ \A o \in Objs : /\ h.ref[o] = w[o] + References(h, Objs, o)
                            /\ h.ref[o] > 0 <=> h.kind[o] # "free"
                            /\ h.kind[o] = "free" => h.out[o] = << >>
                            /\ References(h, Objs, o) \in Nat /\ w[o] \in Nat /\ h.ref[o] \in Nat
         /\ \A o \in Objs : w[o] > 0 => h.kind[o] # "free"
         /\ \A x, o \in Objs : UsesIn(h.out[x], o) > 0 => h.kind[o] # "free"
<1>1. ASSUME NEW o \in Objs
      PROVE  /\ h.ref[o] = w[o] + References(h, Objs, o)
             /\ h.ref[o] > 0 <=> h.kind[o] # "free"
             /\ h.kind[o] = "free" => h.out[o] = << >>
             /\ References(h, Objs, o) \in Nat /\ w[o] \in Nat /\ h.ref[o] \in Nat
  BY ReferencesByOne, HeapIs DEF Exact
<1>2. ASSUME NEW x \in Objs, NEW o \in Objs, UsesIn(h.out[x], o) > 0 PROVE h.kind[o] # "free"
  <2>1. Objs \in SUBSET Objs  OBVIOUS
  <2>2. References(h, Objs, o) > 0  BY <1>2, <2>1, ReferencesPositive
  <2> QED  BY <1>1, <2>2
<1>3. \A o \in Objs : w[o] > 0 => h.kind[o] # "free"
  BY <1>1
<1> QED
  BY <1>1, <1>2, <1>3

(* What is held is counted in natural numbers. *)
LEMMA HeldIs ==
  ASSUME NEW f \in [Objs -> 0 .. MaxHeld]
  PROVE  f \in [Objs -> Nat]
BY HeapAssumption

(* A heap in which the items of one object change. *)
LEMMA ItemsChange ==
  ASSUME NEW h \in Heaps, NEW o \in Objs, NEW x \in Seq(Item), NEW g, g = [h EXCEPT !.out[o] = x]
  PROVE  /\ g \in Heaps /\ g.kind = h.kind /\ g.ref = h.ref
         /\ \A p \in Objs : g.out[p] = IF p = o THEN x ELSE h.out[p]
         /\ g.out[o] = x /\ \A p \in Objs \ {o} : g.out[p] = h.out[p]
<1>1. /\ h.kind \in [Objs -> ObjKinds] /\ h.ref \in [Objs -> Nat] /\ h.out \in [Objs -> Seq(Item)]
      /\ h = [kind |-> h.kind, ref |-> h.ref, out |-> h.out]
  BY DEF Heaps
<1> DEFINE f == [h.out EXCEPT ![o] = x]
<1>2. f \in [Objs -> Seq(Item)] /\ \A p \in Objs : f[p] = IF p = o THEN x ELSE h.out[p]
  BY <1>1
<1>3. g = [h EXCEPT !.out = f]
  OBVIOUS
<1> HIDE DEF f
<1>4. g.kind = h.kind /\ g.ref = h.ref /\ g.out = f /\ g \in Heaps
  BY <1>2, <1>3 DEF Heaps
<1> QED
  BY <1>2, <1>4

(* A heap in which one object is retained (cs_value_copy). *)
LEMMA RetainIs ==
  ASSUME NEW h \in Heaps, NEW o \in Objs \cup {NoObj}
  PROVE  /\ Retain(h, o) \in Heaps /\ Retain(h, o).kind = h.kind /\ Retain(h, o).out = h.out
         /\ \A p \in Objs : Retain(h, o).ref[p] = h.ref[p] + (IF p = o THEN 1 ELSE 0)
<1>1. \A p \in Objs : h.ref[p] \in Nat
  BY HeapIs
<1>2. CASE o = NoObj
  <2>1. Retain(h, o) = h  BY <1>2 DEF Retain
  <2>2. \A p \in Objs : p # o  BY <1>2, HeapAssumption
  <2> QED  BY <1>1, <2>1, <2>2
<1>3. CASE o # NoObj
  <2> DEFINE x == h.ref[o] + 1  g == Retain(h, o)
  <2>1. o \in Objs  BY <1>3
  <2>2. g = [h EXCEPT !.ref[o] = x]  BY <1>3 DEF Retain
  <2>3. x \in Nat  BY <1>1, <2>1
  <2> HIDE DEF x, g
  <2>4. /\ g \in Heaps /\ g.kind = h.kind /\ g.out = h.out
        /\ \A p \in Objs : g.ref[p] = IF p = o THEN x ELSE h.ref[p]
    BY <2>1, <2>2, <2>3, CountChanges
  <2>5. ASSUME NEW p \in Objs PROVE g.ref[p] = h.ref[p] + (IF p = o THEN 1 ELSE 0)
    BY <1>1, <2>4 DEF x
  <2> QED  BY <2>4, <2>5 DEF g
<1> QED
  BY <1>2, <1>3

(* The heap starts empty. *)
LEMMA HeapStarts == HeapInit => HeapInv
<1> SUFFICES ASSUME HeapInit PROVE HeapInv
  OBVIOUS
<1>1. heap = [kind |-> [o \in Objs |-> "free"], ref |-> [o \in Objs |-> 0],
              out |-> [o \in Objs |-> << >>]]
  BY DEF HeapInit
<1>2. [o \in Objs |-> "free"] \in [Objs -> ObjKinds] /\ [o \in Objs |-> 0] \in [Objs -> Nat]
        /\ [o \in Objs |-> << >>] \in [Objs -> Seq(Item)]
  BY DEF ObjKinds
<1>3. heap \in Heaps
  BY <1>1, <1>2 DEF Heaps
<1>4. held \in [Objs -> 0 .. MaxHeld] /\ \A o \in Objs : held[o] = 0
  BY HeapAssumption DEF HeapInit
<1>5. \A o \in Objs : heap.kind[o] = "free" /\ heap.ref[o] = 0 /\ heap.out[o] = << >>
  BY <1>1
<1>6. ASSUME NEW o \in Objs PROVE References(heap, Objs, o) = 0
  <2>1. Objs \in SUBSET Objs  OBVIOUS
  <2>2. UsesIn(<< >>, o) = 0  BY TallyOfEmpty DEF UsesIn
  <2>3. ~\E x \in Objs : UsesIn(heap.out[x], o) > 0  BY <1>5, <2>2
  <2>4. ~(References(heap, Objs, o) > 0) /\ References(heap, Objs, o) \in Nat
    BY <1>3, <2>1, <2>3, ReferencesPositive, ReferencesAre
  <2> QED  BY <2>4
<1>7. Exact(heap, held)
  <2>1. \A o \in Objs : /\ heap.ref[o] = held[o] + References(heap, Objs, o)
                        /\ ~(heap.ref[o] > 0) /\ heap.kind[o] = "free" /\ heap.out[o] = << >>
    BY <1>4, <1>5, <1>6
  <2> QED  BY <2>1 DEF Exact
<1> QED
  BY <1>3, <1>4, <1>7 DEF HeapInv, HeapInit

(* A run of the collector.                                                     *)
LEMMA CollectStep ==
  ASSUME NEW h \in Heaps, NEW w \in [Objs -> Nat], Exact(h, w), stray \in BOOLEAN, CollectFrom(h)
  PROVE  \/ /\ heap' \in Heaps /\ Exact(heap', w) /\ stray' = stray /\ broken' = broken
            /\ \A o \in Objs : heap'.kind[o] # "free" =>
                 o \notin Garbage(h) /\ heap'.kind[o] = h.kind[o] /\ heap'.out[o] = h.out[o]
         \/ broken' = TRUE /\ heap' = heap /\ stray' = stray
<1> DEFINE G == Garbage(h)
           List(order) == [i \in DOMAIN order |-> ItemsOf(h, order[i], G)]
           After(order) == ReleaseAll(Without(h, G), FlattenSeq(List(order)))
<1>1. \/ (\E order \in SetToSeqs(G) : Becomes(After(order))) /\ UNCHANGED broken
      \/ broken' = TRUE /\ UNCHANGED << heap, stray >>
  BY DEF CollectFrom, Without
<1>2. CASE broken' = TRUE /\ UNCHANGED << heap, stray >>
  BY <1>2
<1>3. CASE (\E order \in SetToSeqs(G) : Becomes(After(order))) /\ UNCHANGED broken
  <2> HIDE DEF After
  <2>1. PICK order \in SetToSeqs(G) : Becomes(After(order))
    BY <1>3
  <2> DEFINE ss == List(order)  r == After(order)
  <2>2. G \in SUBSET Objs
    BY GarbageIs
  <2>3. /\ order \in Seq(Objs) /\ DOMAIN order = 1 .. Len(order) /\ Len(order) \in Nat
        /\ \A i \in 1 .. Len(order) : order[i] \in G
    <3> HIDE DEF G
    <3> QED  BY <2>1, <2>2, OrderIs
  <2>4. \A i \in 1 .. Len(order) : ItemsOf(h, order[i], G) \in Seq(Objs)
    <3> HIDE DEF G
    <3> QED  BY <2>2, <2>3, ItemsAre
  <2>5. ss \in Seq(Seq(Objs)) /\ Len(ss) = Len(order)
        /\ \A i \in 1 .. Len(order) : ss[i] = ItemsOf(h, order[i], G)
    <3> HIDE DEF G
    <3> QED  BY <2>3, <2>4
  <2>6. ItemsInOrder(ss, h, order, G)
    <3> HIDE DEF G, ss
    <3> QED  BY <2>5 DEF ItemsInOrder
  <2>7. r = ReleaseAll(Without(h, Garbage(h)), FlattenSeq(ss))
    BY DEF After
  <2> HIDE DEF ss, List, r
  <2>8. /\ r.h \in Heaps /\ Exact(r.h, w) /\ r.stray = FALSE
        /\ \A o \in Objs : r.h.kind[o] # "free" =>
             o \notin Garbage(h) /\ r.h.kind[o] = h.kind[o] /\ r.h.out[o] = h.out[o]
    <3>1. order \in SetToSeqs(Garbage(h)) /\ ItemsInOrder(ss, h, order, Garbage(h))
      BY <2>1, <2>6
    <3> HIDE DEF G
    <3>2. Collected(ReleaseAll(Without(h, Garbage(h)), FlattenSeq(ss)), h, w)
      BY <3>1, CollectedIs
    <3>3. Collected(r, h, w)  BY <2>7, <3>2
    <3> QED  BY <3>3 DEF Collected
  <2>9. Becomes(r)
    BY <2>1 DEF r
  <2>10. heap' = r.h /\ stray' = (stray \/ r.stray)
    BY <2>9 DEF Becomes
  <2>11. stray' = stray
    BY <2>8, <2>10
  <2> QED  BY <1>3, <2>8, <2>10, <2>11
<1> QED
  BY <1>1, <1>2, <1>3

(* References of joined sequences of items add up. *)
LEMMA UsesOfConcat ==
  ASSUME NEW s \in Seq(Item), NEW t \in Seq(Item), NEW x
  PROVE  /\ UsesIn(s \o t, x) = UsesIn(s, x) + UsesIn(t, x)
         /\ UsesIn(s, x) \in Nat /\ UsesIn(t, x) \in Nat
<1>1. /\ Tally(s \o t, KeyIs(x)) = Tally(s, KeyIs(x)) + Tally(t, KeyIs(x))
      /\ Tally(s \o t, ValIs(x)) = Tally(s, ValIs(x)) + Tally(t, ValIs(x))
  BY TallyOfConcat
<1>2. \A S : Tally(s, S) \in Nat /\ Tally(t, S) \in Nat
  BY TallyPositive
<1> QED
  BY <1>1, <1>2 DEF UsesIn

(* A new object, with or without a collection, keeps the counts exact          *)
(* (list_new, map_new).                                                        *)
LEMMA NewObjectStep ==
  ASSUME HeapInv, NEW o \in Objs, NEW kind \in {"list", "map", "func"}, NewObject(o, kind)
  PROVE  HeapInv'
<1> DEFINE made == [heap EXCEPT !.kind[o] = kind, !.ref[o] = 1]
<1>1. /\ heap \in Heaps /\ held \in [Objs -> 0 .. MaxHeld] /\ stray \in BOOLEAN /\ broken \in BOOLEAN
      /\ ~broken /\ ~stray /\ Exact(heap, held) /\ heap.kind[o] = "free"
  BY DEF HeapInv, NewObject
<1>2. held' = [held EXCEPT ![o] = 1]
  BY DEF NewObject
<1>3. \/ heap' = made /\ UNCHANGED << stray, broken >>
      \/ CollectFrom(made)
  BY DEF NewObject
<1>4. held' \in [Objs -> 0 .. MaxHeld] /\ \A p \in Objs : held'[p] = IF p = o THEN 1 ELSE held[p]
  BY <1>1, <1>2, HeapAssumption
<1>5. held \in [Objs -> Nat] /\ held' \in [Objs -> Nat]
  BY <1>1, <1>4, HeldIs
<1>6. /\ made \in Heaps /\ made.out = heap.out
      /\ \A p \in Objs : /\ made.kind[p] = IF p = o THEN kind ELSE heap.kind[p]
                         /\ made.ref[p] = IF p = o THEN 1 ELSE heap.ref[p]
  <2>1. /\ heap.kind \in [Objs -> ObjKinds] /\ heap.ref \in [Objs -> Nat] /\ heap.out \in [Objs -> Seq(Item)]
        /\ heap = [kind |-> heap.kind, ref |-> heap.ref, out |-> heap.out]
    BY <1>1 DEF Heaps
  <2> DEFINE k == [heap.kind EXCEPT ![o] = kind]  f == [heap.ref EXCEPT ![o] = 1]
  <2>2. k \in [Objs -> ObjKinds] /\ \A p \in Objs : k[p] = IF p = o THEN kind ELSE heap.kind[p]
    BY <2>1 DEF ObjKinds
  <2>3. f \in [Objs -> Nat] /\ \A p \in Objs : f[p] = IF p = o THEN 1 ELSE heap.ref[p]
    BY <2>1
  <2> DEFINE g == [heap EXCEPT !.kind[o] = kind]
  <2>4. made = [g EXCEPT !.ref[o] = 1]  OBVIOUS
  <2>5. g = [heap EXCEPT !.kind = k] /\ g.ref = heap.ref  BY <2>1
  <2> HIDE DEF g, made
  <2>6. made = [g EXCEPT !.ref = f]  BY <2>4, <2>5
  <2> HIDE DEF k, f
  <2>7. made.kind = k /\ made.ref = f /\ made.out = heap.out /\ made \in Heaps
    BY <1>1, <2>1, <2>2, <2>3, <2>5, <2>6 DEF Heaps
  <2> QED  BY <2>2, <2>3, <2>7
<1> HIDE DEF made
<1>7. ASSUME NEW p \in Objs
      PROVE  /\ made.ref[p] = held'[p] + References(made, Objs, p)
             /\ made.ref[p] > 0 <=> made.kind[p] # "free"
             /\ made.kind[p] = "free" => made.out[p] = << >>
  <2>1. /\ heap.ref[p] = held[p] + References(heap, Objs, p)
        /\ heap.ref[p] > 0 <=> heap.kind[p] # "free"
        /\ heap.kind[p] = "free" => heap.out[p] = << >>
        /\ References(heap, Objs, p) \in Nat /\ held[p] \in Nat /\ heap.ref[p] \in Nat
    BY <1>1, <1>5, ExactIs
  <2>2. References(made, Objs, p) = References(heap, Objs, p)
    <3>1. Objs \in SUBSET Objs /\ \A x \in Objs : made.out[x] = heap.out[x]  BY <1>6
    <3> QED  BY <1>1, <1>6, <3>1, ReferencesSame
  <2>3. CASE p = o
    <3>1. References(heap, Objs, p) = 0  BY <1>1, <2>1, <2>3
    <3>2. made.ref[p] = 1 /\ held'[p] = 1 /\ made.kind[p] # "free"  BY <1>4, <1>6, <2>3
    <3> QED  BY <2>2, <3>1, <3>2
  <2>4. CASE p # o
    <3>1. made.ref[p] = heap.ref[p] /\ held'[p] = held[p] /\ made.kind[p] = heap.kind[p]
          /\ made.out[p] = heap.out[p]
      BY <1>4, <1>6, <2>4
    <3> QED  BY <2>1, <2>2, <3>1
  <2> QED  BY <2>3, <2>4
<1>8. Exact(made, held')
  BY <1>7 DEF Exact
<1>9. CASE heap' = made /\ UNCHANGED << stray, broken >>
  BY <1>1, <1>4, <1>6, <1>8, <1>9 DEF HeapInv
<1>10. CASE CollectFrom(made)
  <2> DEFINE w == held'
  <2>1. w \in [Objs -> Nat] /\ Exact(made, w)  BY <1>5, <1>8
  <2> HIDE DEF w
  <2>2. \/ heap' \in Heaps /\ Exact(heap', w) /\ stray' = stray /\ broken' = broken
        \/ broken' = TRUE /\ heap' = heap /\ stray' = stray
    BY <1>1, <1>6, <1>10, <2>1, CollectStep
  <2>3. CASE heap' \in Heaps /\ Exact(heap', w) /\ stray' = stray /\ broken' = broken
    <3>1. stray' \in BOOLEAN /\ broken' \in BOOLEAN /\ ~stray' /\ Exact(heap', held')
      BY <1>1, <2>3 DEF w
    <3> QED  BY <1>4, <2>3, <3>1 DEF HeapInv
  <2>4. CASE broken' = TRUE /\ heap' = heap /\ stray' = stray
    <3>1. stray' \in BOOLEAN /\ broken' \in BOOLEAN /\ broken'
      BY <1>1, <2>4
    <3> QED  BY <1>1, <1>4, <2>4, <3>1 DEF HeapInv
  <2> QED  BY <2>2, <2>3, <2>4
<1> QED
  BY <1>3, <1>9, <1>10

(* Reading a value keeps the counts exact (cs_value_copy). *)
LEMMA GetStep ==
  ASSUME HeapInv, NEW o \in Objs, Get(o)
  PROVE  HeapInv'
<1>1. /\ heap \in Heaps /\ held \in [Objs -> 0 .. MaxHeld] /\ stray \in BOOLEAN /\ broken \in BOOLEAN
      /\ ~broken /\ ~stray /\ Exact(heap, held)
  BY DEF HeapInv, Get
<1>2. /\ held[o] < MaxHeld /\ heap' = Retain(heap, o) /\ held' = [held EXCEPT ![o] = @ + 1]
      /\ UNCHANGED << stray, broken >>
      /\ o \in Held \/ \E x \in Held : o \in ToSet(ItemsOf(heap, x, {}))
  BY DEF Get
<1>3. held \in [Objs -> Nat]
  BY <1>1, HeldIs
<1>4. held' \in [Objs -> 0 .. MaxHeld] /\ \A p \in Objs : held'[p] = held[p] + (IF p = o THEN 1 ELSE 0)
  <2>1. held[o] + 1 \in 0 .. MaxHeld  BY <1>1, <1>2, HeapAssumption
  <2>2. \A p \in Objs : held[p] \in Nat  BY <1>3
  <2> QED  BY <1>1, <1>2, <2>1, <2>2
<1>5. heap.kind[o] # "free"
  <2>1. CASE o \in Held
    <3>1. held[o] > 0  BY <2>1 DEF Held
    <3> QED  BY <1>1, <1>3, <3>1, ExactIs
  <2>2. CASE \E x \in Held : o \in ToSet(ItemsOf(heap, x, {}))
    <3>1. PICK x \in Objs : o \in ToSet(ItemsOf(heap, x, {}))  BY <2>2 DEF Held
    <3>2. UsesIn(heap.out[x], o) > 0  BY <1>1, <3>1, ItemsHave
    <3> QED  BY <1>1, <1>3, <3>2, ExactIs
  <2> QED  BY <1>2, <2>1, <2>2
<1> DEFINE g == Retain(heap, o)
<1>6. /\ g \in Heaps /\ g.kind = heap.kind /\ g.out = heap.out
      /\ \A p \in Objs : g.ref[p] = heap.ref[p] + (IF p = o THEN 1 ELSE 0)
  BY <1>1, RetainIs
<1>7. heap' = g
  BY <1>2
<1> HIDE DEF g
<1>8. ASSUME NEW p \in Objs
      PROVE  /\ g.ref[p] = held'[p] + References(g, Objs, p)
             /\ g.ref[p] > 0 <=> g.kind[p] # "free"
             /\ g.kind[p] = "free" => g.out[p] = << >>
  <2>1. /\ heap.ref[p] = held[p] + References(heap, Objs, p)
        /\ heap.ref[p] > 0 <=> heap.kind[p] # "free"
        /\ heap.kind[p] = "free" => heap.out[p] = << >>
        /\ References(heap, Objs, p) \in Nat /\ held[p] \in Nat /\ heap.ref[p] \in Nat
    BY <1>1, <1>3, ExactIs
  <2>2. References(g, Objs, p) = References(heap, Objs, p)
    <3>1. Objs \in SUBSET Objs /\ \A x \in Objs : g.out[x] = heap.out[x]  BY <1>6
    <3> QED  BY <1>1, <1>6, <3>1, ReferencesSame
  <2>3. g.ref[p] = heap.ref[p] + (IF p = o THEN 1 ELSE 0)
        /\ held'[p] = held[p] + (IF p = o THEN 1 ELSE 0)
        /\ g.kind[p] = heap.kind[p] /\ g.out[p] = heap.out[p]
    BY <1>4, <1>6
  <2>4. CASE p = o  BY <1>5, <2>1, <2>2, <2>3, <2>4
  <2>5. CASE p # o  BY <2>1, <2>2, <2>3, <2>5
  <2> QED  BY <2>4, <2>5
<1>9. Exact(g, held')
  BY <1>8 DEF Exact
<1> QED
  BY <1>1, <1>2, <1>4, <1>6, <1>7, <1>9 DEF HeapInv

(* Dropping a variable keeps the counts exact (cs_value_release). *)
LEMMA DropHeldStep ==
  ASSUME HeapInv, NEW o \in Objs, DropHeld(o)
  PROVE  HeapInv'
<1>1. /\ heap \in Heaps /\ held \in [Objs -> 0 .. MaxHeld] /\ stray \in BOOLEAN /\ broken \in BOOLEAN
      /\ ~broken /\ ~stray /\ Exact(heap, held)
  BY DEF HeapInv, DropHeld
<1> DEFINE s == << o >>  r == ReleaseAll(heap, s)
<1>2. /\ held[o] > 0 /\ held' = [held EXCEPT ![o] = @ - 1] /\ UNCHANGED broken
      /\ heap' = r.h /\ stray' = (stray \/ r.stray)
  BY DEF DropHeld, Held, Becomes
<1>3. held \in [Objs -> Nat]
  BY <1>1, HeldIs
<1>4. /\ held' \in [Objs -> 0 .. MaxHeld]
      /\ \A p \in Objs : held[p] = held'[p] + (IF p = o THEN 1 ELSE 0) /\ held'[p] \in Nat
  <2>1. held[o] - 1 \in 0 .. MaxHeld  BY <1>1, <1>2, HeapAssumption
  <2>2. \A p \in Objs : held[p] \in Nat  BY <1>3
  <2> QED  BY <1>1, <1>2, <2>1, <2>2
<1>5. s \in Seq(Objs) /\ \A S : Tally(s, S) = IF o \in S THEN 1 ELSE 0
  BY TallyOfOne
<1> DEFINE w == held'
<1>6. w \in [Objs -> Nat]
  BY <1>4, HeldIs
<1> HIDE DEF s, r
<1>7. ASSUME NEW p \in Objs
      PROVE  /\ heap.ref[p] = w[p] + References(heap, Objs, p) + Tally(s, {p})
             /\ heap.ref[p] > 0 <=> heap.kind[p] # "free"
             /\ heap.kind[p] = "free" => heap.out[p] = << >>
  <2>1. /\ heap.ref[p] = held[p] + References(heap, Objs, p)
        /\ heap.ref[p] > 0 <=> heap.kind[p] # "free"
        /\ heap.kind[p] = "free" => heap.out[p] = << >>
        /\ References(heap, Objs, p) \in Nat
    BY <1>1, <1>3, ExactIs
  <2>2. Tally(s, {p}) = IF o \in {p} THEN 1 ELSE 0  BY <1>5
  <2>3. held[p] = w[p] + (IF p = o THEN 1 ELSE 0) /\ w[p] \in Nat  BY <1>4
  <2> HIDE DEF w
  <2> QED  BY <2>1, <2>2, <2>3
<1> HIDE DEF w
<1>8. /\ \A p \in Objs : heap.ref[p] = w[p] + References(heap, Objs, p) + Tally(s, {p})
      /\ \A p \in Objs : heap.ref[p] > 0 <=> heap.kind[p] # "free"
      /\ \A p \in Objs : heap.kind[p] = "free" => heap.out[p] = << >>
  BY <1>7
<1>9. r.h \in Heaps /\ Exact(r.h, w) /\ r.stray = FALSE
  BY <1>1, <1>5, <1>6, <1>8, ReleasedIs DEF r
<1> QED
  BY <1>1, <1>2, <1>4, <1>9 DEF HeapInv, w

(* Storing a value keeps the counts exact. *)
LEMMA PutStep ==
  ASSUME HeapInv, NEW o \in Objs, NEW e \in Item, Put(o, e)
  PROVE  HeapInv'
<1>1. /\ heap \in Heaps /\ held \in [Objs -> 0 .. MaxHeld] /\ stray \in BOOLEAN /\ broken \in BOOLEAN
      /\ ~broken /\ ~stray /\ Exact(heap, held)
  BY DEF HeapInv, Put
<1> DEFINE g0 == [heap EXCEPT !.out[o] = Append(@, e)]
           g1 == Retain(g0, e.key)
           g2 == Retain(g1, e.val)
<1>2. /\ held[o] > 0 /\ held[e.val] > 0 /\ (e.key # NoObj => held[e.key] > 0)
      /\ heap' = g2 /\ UNCHANGED << held, stray, broken >>
  BY DEF Put, Held
<1>3. held \in [Objs -> Nat] /\ e.val \in Objs /\ e.key \in Objs \cup {NoObj}
  BY <1>1, HeldIs DEF Item
<1> DEFINE x == Append(heap.out[o], e)
<1>4. heap.out[o] \in Seq(Item) /\ x \in Seq(Item) /\ g0 = [heap EXCEPT !.out[o] = x]
  BY <1>1, HeapIs
<1> HIDE DEF x, g0
<1>5. /\ g0 \in Heaps /\ g0.kind = heap.kind /\ g0.ref = heap.ref
      /\ \A p \in Objs : g0.out[p] = IF p = o THEN x ELSE heap.out[p]
  BY <1>1, <1>4, ItemsChange
<1>6. /\ g1 \in Heaps /\ g1.kind = g0.kind /\ g1.out = g0.out
      /\ \A p \in Objs : g1.ref[p] = g0.ref[p] + (IF p = e.key THEN 1 ELSE 0)
  BY <1>3, <1>5, RetainIs
<1> HIDE DEF g1
<1>7. /\ g2 \in Heaps /\ g2.kind = g1.kind /\ g2.out = g1.out
      /\ \A p \in Objs : g2.ref[p] = g1.ref[p] + (IF p = e.val THEN 1 ELSE 0)
  BY <1>3, <1>6, RetainIs
<1> HIDE DEF g2
<1>8. \A y \in Objs \ {o} : g2.out[y] = heap.out[y]
  BY <1>5, <1>6, <1>7
<1>9. g2.out[o] = x
  BY <1>5, <1>6, <1>7
<1>10. ASSUME NEW p \in Objs
       PROVE  /\ g2.ref[p] = held[p] + References(g2, Objs, p)
              /\ g2.ref[p] > 0 <=> g2.kind[p] # "free"
              /\ g2.kind[p] = "free" => g2.out[p] = << >>
  <2>1. /\ heap.ref[p] = held[p] + References(heap, Objs, p)
        /\ heap.ref[p] > 0 <=> heap.kind[p] # "free"
        /\ heap.kind[p] = "free" => heap.out[p] = << >>
        /\ References(heap, Objs, p) \in Nat /\ held[p] \in Nat /\ heap.ref[p] \in Nat
    BY <1>1, <1>3, ExactIs
  <2>2. /\ UsesIn(x, p) = UsesIn(heap.out[o], p) + RefersTo(e, p)
        /\ UsesIn(heap.out[o], p) \in Nat /\ RefersTo(e, p) \in Nat
    BY <1>4, UsesOfAppend DEF x
  <2>3. /\ References(g2, Objs, p) + UsesIn(heap.out[o], p) = References(heap, Objs, p) + UsesIn(g2.out[o], p)
        /\ References(g2, Objs, p) \in Nat
    BY <1>1, <1>7, <1>8, OneChanges
  <2>4. References(g2, Objs, p) = References(heap, Objs, p) + RefersTo(e, p)
    BY <1>9, <2>1, <2>2, <2>3
  <2>5. /\ g1.ref[p] = heap.ref[p] + (IF p = e.key THEN 1 ELSE 0)
        /\ g2.ref[p] = g1.ref[p] + (IF p = e.val THEN 1 ELSE 0)
    BY <1>5, <1>6, <1>7
  <2>6. g2.ref[p] = heap.ref[p] + RefersTo(e, p)
    BY <2>1, <2>5 DEF RefersTo
  <2>7. RefersTo(e, p) > 0 => heap.kind[p] # "free"
    <3>1. RefersTo(e, p) > 0 => p = e.key \/ p = e.val  BY DEF RefersTo
    <3>2. p = e.key => held[p] > 0  BY <1>2, HeapAssumption
    <3>3. p = e.val => held[p] > 0  BY <1>2
    <3>4. held[p] > 0 => heap.kind[p] # "free"  BY <1>1, <1>3, ExactIs
    <3> QED  BY <3>1, <3>2, <3>3, <3>4
  <2>8. g2.kind[p] = heap.kind[p]
    BY <1>5, <1>6, <1>7
  <2>9. g2.kind[p] = "free" => g2.out[p] = << >>
    <3>1. heap.kind[o] # "free"  BY <1>1, <1>2, <1>3, ExactIs
    <3>2. CASE p = o  BY <2>8, <3>1, <3>2
    <3>3. CASE p # o
      <4>1. g2.out[p] = heap.out[p]  BY <1>8, <3>3
      <4> QED  BY <2>1, <2>8, <4>1
    <3> QED  BY <3>2, <3>3
  <2>10. g2.ref[p] = held[p] + References(g2, Objs, p)
    BY <2>1, <2>2, <2>4, <2>6
  <2>11. g2.ref[p] > 0 <=> g2.kind[p] # "free"
    BY <2>1, <2>2, <2>6, <2>7, <2>8
  <2> QED  BY <2>9, <2>10, <2>11
<1>11. Exact(g2, held)
  BY <1>10 DEF Exact
<1> QED
  BY <1>1, <1>2, <1>7, <1>11 DEF HeapInv

(* A sequence of items without one of them. *)
LEMMA RemovedIs ==
  ASSUME NEW s \in Seq(Item), NEW i \in 1 .. Len(s)
  PROVE  /\ RemoveAt(s, i) \in Seq(Item) /\ s[i] \in Item
         /\ \A p : UsesIn(s, p) = UsesIn(RemoveAt(s, i), p) + RefersTo(s[i], p)
<1> DEFINE a == SubSeq(s, 1, i - 1)  b == SubSeq(s, i + 1, Len(s))  e == s[i]  c == Append(a, e)
<1>1. a \in Seq(Item) /\ b \in Seq(Item) /\ e \in Item /\ Len(s) \in Nat
  OBVIOUS
<1>2. RemoveAt(s, i) = a \o b
  BY DEF RemoveAt
<1>3. s = c \o b
  <2>1. i \in 0 .. Len(s)  BY <1>1
  <2>2. s = SubSeq(s, 1, i) \o SubSeq(s, i + 1, Len(s))  BY <2>1, SplitAt
  <2>3. SubSeq(s, 1, i) = Append(SubSeq(s, 1, i - 1), s[i])  BY Beginnings
  <2> QED  BY <2>2, <2>3
<1> HIDE DEF a, b, e, c
<1>4. c \in Seq(Item)
  BY <1>1 DEF c
<1>5. ASSUME NEW p PROVE UsesIn(s, p) = UsesIn(a \o b, p) + RefersTo(e, p)
  <2>1. UsesIn(c, p) = UsesIn(a, p) + RefersTo(e, p) /\ RefersTo(e, p) \in Nat
    BY <1>1, UsesOfAppend DEF c
  <2>2. UsesIn(c \o b, p) = UsesIn(c, p) + UsesIn(b, p) /\ UsesIn(c, p) \in Nat /\ UsesIn(b, p) \in Nat
    BY <1>1, <1>4, UsesOfConcat
  <2>3. UsesIn(a \o b, p) = UsesIn(a, p) + UsesIn(b, p) /\ UsesIn(a, p) \in Nat
    BY <1>1, UsesOfConcat
  <2>4. UsesIn(s, p) = UsesIn(c \o b, p)
    BY <1>3
  <2> QED  BY <2>1, <2>2, <2>3, <2>4
<1>6. a \o b \in Seq(Item)
  BY <1>1
<1> QED
  BY <1>1, <1>2, <1>5, <1>6 DEF e

(* Removing an item keeps the counts exact. *)
LEMMA TakeOutStep ==
  ASSUME HeapInv, NEW o \in Objs, TakeOut(o)
  PROVE  HeapInv'
<1>1. /\ heap \in Heaps /\ held \in [Objs -> 0 .. MaxHeld] /\ stray \in BOOLEAN /\ broken \in BOOLEAN
      /\ ~broken /\ ~stray /\ Exact(heap, held)
  BY DEF HeapInv, TakeOut
<1>2. PICK i \in DOMAIN heap.out[o] :
        /\ o \in Held
        /\ Becomes(ReleaseAll([heap EXCEPT !.out[o] = RemoveAt(@, i)], RefsOf(heap.out[o][i], {})))
        /\ UNCHANGED << held, broken >>
  BY DEF TakeOut
<1> DEFINE l == heap.out[o]  e == l[i]  x == RemoveAt(l, i)
           g == [heap EXCEPT !.out[o] = x]  s == RefsOf(e, {})  r == ReleaseAll(g, s)
<1>3. /\ held[o] > 0 /\ held' = held /\ broken' = broken
      /\ heap' = r.h /\ stray' = (stray \/ r.stray)
  BY <1>2 DEF Held, Becomes
<1>4. held \in [Objs -> Nat]
  BY <1>1, HeldIs
<1>5. l \in Seq(Item) /\ i \in 1 .. Len(l)
  <2>1. l \in Seq(Item) /\ DOMAIN l = 1 .. Len(l)  BY <1>1, HeapIs
  <2>2. i \in DOMAIN l  BY <1>2
  <2> HIDE DEF l
  <2> QED  BY <2>1, <2>2
<1>6. x \in Seq(Item) /\ e \in Item /\ \A p : UsesIn(l, p) = UsesIn(x, p) + RefersTo(e, p)
  <2> HIDE DEF l
  <2> QED  BY <1>5, RemovedIs
<1> HIDE DEF x, e
<1>7. /\ g \in Heaps /\ g.kind = heap.kind /\ g.ref = heap.ref
      /\ g.out[o] = x /\ \A p \in Objs \ {o} : g.out[p] = heap.out[p]
  <2>1. g = [heap EXCEPT !.out[o] = x]  BY DEF g
  <2>2. heap \in Heaps /\ x \in Seq(Item)  BY <1>1, <1>6
  <2> HIDE DEF l, g, s, r
  <2>3. g \in Heaps  BY <2>1, <2>2, ItemsChange
  <2>4. g.kind = heap.kind  BY <2>1, <2>2, ItemsChange
  <2>5. g.ref = heap.ref  BY <2>1, <2>2, ItemsChange
  <2>6. g.out[o] = x
    <3>1. heap = [kind |-> heap.kind, ref |-> heap.ref, out |-> heap.out] /\ DOMAIN heap.out = Objs
      BY <2>2 DEF Heaps
    <3> DEFINE f == heap.out
    <3>2. g.out = [heap.out EXCEPT ![o] = x]  BY <2>1, <3>1
    <3> QED  BY <3>1, <3>2
  <2>7. ASSUME NEW p \in Objs \ {o} PROVE g.out[p] = heap.out[p]  BY <2>1, <2>2, ItemsChange
  <2> QED  BY <2>3, <2>4, <2>5, <2>6, <2>7
<1>8. s \in Seq(Objs) /\ \A p \in Objs : Tally(s, {p}) = RefersTo(e, p)
  <2>1. s \in Seq(Objs)  BY <1>6, RefsAre
  <2>2. ASSUME NEW p \in Objs PROVE Tally(s, {p}) = RefersTo(e, p)  BY <1>6, RefsAre
  <2> QED  BY <2>1, <2>2
<1> HIDE DEF g, s, r
<1>9. \A y \in Objs \ {o} : g.out[y] = heap.out[y]
  BY <1>7
<1>10. g.out[o] = x
  BY <1>7
<1>11. ASSUME NEW p \in Objs
       PROVE  /\ g.ref[p] = held[p] + References(g, Objs, p) + Tally(s, {p})
              /\ g.ref[p] > 0 <=> g.kind[p] # "free"
              /\ g.kind[p] = "free" => g.out[p] = << >>
  <2>1. /\ heap.ref[p] = held[p] + References(heap, Objs, p)
        /\ heap.ref[p] > 0 <=> heap.kind[p] # "free"
        /\ heap.kind[p] = "free" => heap.out[p] = << >>
        /\ References(heap, Objs, p) \in Nat /\ held[p] \in Nat /\ heap.ref[p] \in Nat
    BY <1>1, <1>4, ExactIs
  <2>2. UsesIn(l, p) = UsesIn(x, p) + RefersTo(e, p) /\ Tally(s, {p}) = RefersTo(e, p)
    BY <1>6, <1>8
  <2>3. /\ References(g, Objs, p) + UsesIn(heap.out[o], p) = References(heap, Objs, p) + UsesIn(g.out[o], p)
        /\ References(g, Objs, p) \in Nat
        /\ UsesIn(heap.out[o], p) \in Nat /\ UsesIn(g.out[o], p) \in Nat
    BY <1>1, <1>7, <1>9, OneChanges
  <2> DEFINE a == UsesIn(heap.out[o], p)  b == UsesIn(x, p)  c == RefersTo(e, p)
  <2>4. a = b + c /\ a \in Nat /\ b \in Nat
        /\ References(g, Objs, p) + a = References(heap, Objs, p) + b
    BY <1>10, <2>2, <2>3
  <2>5. c \in Nat  BY DEF RefersTo
  <2> HIDE DEF a, b, c
  <2>6. References(heap, Objs, p) = References(g, Objs, p) + c  BY <2>1, <2>3, <2>4, <2>5
  <2>7. g.ref[p] = heap.ref[p] /\ g.kind[p] = heap.kind[p]  BY <1>7
  <2>8. Tally(s, {p}) = c  BY <2>2 DEF c
  <2>9. g.ref[p] = held[p] + References(g, Objs, p) + Tally(s, {p})
    BY <2>1, <2>3, <2>5, <2>6, <2>7, <2>8
  <2>10. g.kind[p] = "free" => g.out[p] = << >>
    <3>1. heap.kind[o] # "free"  BY <1>1, <1>3, <1>4, ExactIs
    <3>2. CASE p = o  BY <2>7, <3>1, <3>2
    <3>3. CASE p # o
      <4>1. g.out[p] = heap.out[p]  BY <1>9, <3>3
      <4> QED  BY <2>1, <2>7, <4>1
    <3> QED  BY <3>2, <3>3
  <2> QED  BY <2>1, <2>7, <2>9, <2>10
<1>12. /\ \A p \in Objs : g.ref[p] = held[p] + References(g, Objs, p) + Tally(s, {p})
       /\ \A p \in Objs : g.ref[p] > 0 <=> g.kind[p] # "free"
       /\ \A p \in Objs : g.kind[p] = "free" => g.out[p] = << >>
  BY <1>11
<1>13. r.h \in Heaps /\ Exact(r.h, held) /\ r.stray = FALSE
  BY <1>4, <1>7, <1>8, <1>12, ReleasedIs DEF r
<1>14. stray' = FALSE /\ broken' = FALSE
  BY <1>1, <1>3, <1>13
<1> QED
  BY <1>1, <1>3, <1>13, <1>14 DEF HeapInv

(* A collection keeps the counts exact (cs_vm_collect_cycles). *)
LEMMA CollectKeeps ==
  ASSUME HeapInv, Collect
  PROVE  HeapInv'
<1>1. /\ heap \in Heaps /\ held \in [Objs -> 0 .. MaxHeld] /\ stray \in BOOLEAN /\ broken \in BOOLEAN
      /\ ~broken /\ ~stray /\ Exact(heap, held) /\ CollectFrom(heap) /\ held' = held
  BY DEF HeapInv, Collect
<1>2. held \in [Objs -> Nat]
  BY <1>1, HeldIs
<1>3. \/ heap' \in Heaps /\ Exact(heap', held) /\ stray' = stray /\ broken' = broken
      \/ broken' = TRUE /\ heap' = heap /\ stray' = stray
  BY <1>1, <1>2, CollectStep
<1>4. CASE heap' \in Heaps /\ Exact(heap', held) /\ stray' = stray /\ broken' = broken
  <2>1. stray' \in BOOLEAN /\ broken' \in BOOLEAN /\ ~stray'  BY <1>1, <1>4
  <2> QED  BY <1>1, <1>4, <2>1 DEF HeapInv
<1>5. CASE broken' = TRUE /\ heap' = heap /\ stray' = stray
  <2>1. stray' \in BOOLEAN /\ broken' \in BOOLEAN /\ broken'  BY <1>1, <1>5
  <2> QED  BY <1>1, <1>5, <2>1 DEF HeapInv
<1> QED
  BY <1>3, <1>4, <1>5

(* Every step of the heap keeps the counts exact. *)
LEMMA HeapStep == HeapInv /\ [HeapNext]_heapVars => HeapInv'
<1> SUFFICES ASSUME HeapInv, [HeapNext]_heapVars PROVE HeapInv'
  OBVIOUS
<1>1. CASE UNCHANGED heapVars
  BY <1>1 DEF heapVars, HeapInv
<1>2. CASE Collect
  BY <1>2, CollectKeeps
<1>3. ASSUME NEW o \in Objs, NEW kind \in {"list", "map", "func"}, NewObject(o, kind) PROVE HeapInv'
  BY <1>3, NewObjectStep
<1>4. ASSUME NEW o \in Objs, Get(o) PROVE HeapInv'
  BY <1>4, GetStep
<1>5. ASSUME NEW o \in Objs, DropHeld(o) PROVE HeapInv'
  BY <1>5, DropHeldStep
<1>6. ASSUME NEW o \in Objs, TakeOut(o) PROVE HeapInv'
  BY <1>6, TakeOutStep
<1>7. ASSUME NEW o \in Objs, NEW k \in Objs \cup {NoObj}, NEW v \in Objs, Put(o, [key |-> k, val |-> v])
      PROVE HeapInv'
  <2>1. [key |-> k, val |-> v] \in Item  BY DEF Item
  <2> QED  BY <1>7, <2>1, PutStep
<1>8. CASE HeapIsBroken
  BY <1>1, <1>8 DEF HeapIsBroken
<1> QED
  BY <1>1, <1>2, <1>3, <1>4, <1>5, <1>6, <1>7, <1>8 DEF HeapNext

(* The counts of the heap are exact in every execution: the invariant from     *)
(* which what follows is proved (cs_value_copy, cs_value_release,              *)
(* cs_vm_collect_cycles).                                                      *)
THEOREM HeapInvariant == HeapSpec => []HeapInv
<1>1. HeapInit => HeapInv
  BY HeapStarts
<1>2. HeapInv /\ [HeapNext]_heapVars => HeapInv'
  BY HeapStep
<1> QED
  BY <1>1, <1>2, PTL DEF HeapSpec

(* What the invariant says of the types. *)
LEMMA HeapInvIsTyped == HeapInv => HeapTypeOK
<1> SUFFICES ASSUME HeapInv PROVE HeapTypeOK
  OBVIOUS
<1>1. heap \in Heaps /\ held \in [Objs -> 0 .. MaxHeld] /\ stray \in BOOLEAN /\ broken \in BOOLEAN
  BY DEF HeapInv
<1>2. ASSUME NEW o \in Objs
      PROVE  /\ heap.kind[o] \in {"free", "list", "map", "func"}
             /\ heap.ref[o] \in Nat /\ held[o] \in 0 .. MaxHeld
             /\ \A i \in DOMAIN heap.out[o] : heap.out[o][i].val \in Objs
  <2>1. /\ heap.kind[o] \in ObjKinds /\ heap.ref[o] \in Nat
        /\ DOMAIN heap.out[o] = 1 .. Len(heap.out[o])
        /\ \A i \in 1 .. Len(heap.out[o]) : heap.out[o][i].val \in Objs
    BY <1>1, HeapIs
  <2> QED  BY <1>1, <2>1 DEF ObjKinds
<1> QED
  BY <1>1, <1>2 DEF HeapTypeOK

(* Only what is live refers to anything.                                       *)
LEMMA LiveReferences ==
  ASSUME NEW h \in Heaps, NEW w \in [Objs -> Nat], Exact(h, w), NEW o \in Objs
  PROVE  References(h, Live(h), o) = References(h, Objs, o)
<1> DEFINE A == Live(h)  B == Objs \ Live(h)
<1>1. A \in SUBSET Objs /\ B \in SUBSET Objs /\ A \cap B = {} /\ A \cup B = Objs
  BY DEF Live
<1>2. \A x \in B : h.out[x] = << >>
  BY DEF Live, Exact
<1> HIDE DEF A, B
<1>3. /\ References(h, A \cup B, o) = References(h, A, o) + References(h, B, o)
      /\ References(h, A, o) \in Nat /\ References(h, B, o) \in Nat
  BY <1>1, ReferencesSplit
<1>4. References(h, B, o) = 0
  <2>1. UsesIn(<< >>, o) = 0  BY TallyOfEmpty DEF UsesIn
  <2>2. ~\E x \in B : UsesIn(h.out[x], o) > 0  BY <1>2, <2>1
  <2>3. ~(References(h, B, o) > 0)  BY <1>1, <2>2, ReferencesPositive
  <2> QED  BY <1>3, <2>3
<1>5. References(h, A \cup B, o) = References(h, Objs, o)
  BY <1>1
<1> QED
  BY <1>3, <1>4, <1>5 DEF A

(* What the invariant says of the counts. *)
LEMMA InvIsExact == HeapInv => CountsAreExact
<1> SUFFICES ASSUME HeapInv, ~broken
             PROVE  /\ ~stray
                    /\ \A o \in Objs : heap.ref[o] = held[o] + References(heap, Live(heap), o)
                    /\ \A o \in Objs : heap.ref[o] > 0 <=> o \in Live(heap)
  BY DEF CountsAreExact
<1>1. heap \in Heaps /\ held \in [Objs -> 0 .. MaxHeld] /\ ~stray /\ Exact(heap, held)
  BY DEF HeapInv
<1>2. held \in [Objs -> Nat]
  BY <1>1, HeldIs
<1>3. ASSUME NEW o \in Objs
      PROVE  /\ heap.ref[o] = held[o] + References(heap, Live(heap), o)
             /\ heap.ref[o] > 0 <=> o \in Live(heap)
  <2>1. heap.ref[o] = held[o] + References(heap, Objs, o) /\ (heap.ref[o] > 0 <=> heap.kind[o] # "free")
    BY <1>1 DEF Exact
  <2>2. References(heap, Live(heap), o) = References(heap, Objs, o)
    BY <1>1, <1>2, LiveReferences
  <2> QED  BY <2>1, <2>2 DEF Live
<1> QED
  BY <1>1, <1>3

(* The heap only reaches states of its type (HeapTypeOK), for any objects and  *)
(* any bounds (struct cs_list_obj, cs_map_obj, cs_func of cs_vm.c).            *)
THEOREM HeapTyped == HeapSpec => []HeapTypeOK
  BY HeapInvariant, HeapInvIsTyped, PTL

(* The count of every object is the number of references to it, nothing that   *)
(* is referred to is freed and nothing is released after it was freed, for any *)
(* objects, any items and any order of freeing, unless a map in a cycle is     *)
(* keyed by an object of the cycle (cs_value_release, cs_vm_collect_cycles).   *)
THEOREM CountsExact == HeapSpec => []CountsAreExact
  BY HeapInvariant, InvIsExact, PTL

(* Only what is live refers to anything, and only to what is live. *)
LEMMA RefersAlive ==
  ASSUME NEW h \in Heaps, NEW w \in [Objs -> Nat], Exact(h, w), NEW x \in Objs, NEW y \in Objs,
         UsesIn(h.out[x], y) > 0
  PROVE  x \in Live(h) /\ y \in Live(h)
<1>1. h.kind[y] # "free"
  BY ExactIs
<1>2. h.kind[x] # "free"
  <2>1. UsesIn(<< >>, y) = 0  BY TallyOfEmpty DEF UsesIn
  <2>2. h.kind[x] = "free" => h.out[x] = << >>  BY ExactIs
  <2> QED  BY <2>1, <2>2
<1> QED
  BY <1>1, <1>2 DEF Live

(* What an object refers to are objects. *)
LEMMA ItemsAreObjs ==
  ASSUME NEW h \in Heaps, NEW x \in Objs
  PROVE  ToSet(ItemsOf(h, x, {})) \subseteq Objs
<1> DEFINE s == ItemsOf(h, x, {})
<1>1. s \in Seq(Objs)
  BY ItemsAre
<1> HIDE DEF s
<1>2. \A i \in DOMAIN s : s[i] \in Objs
  BY <1>1
<1>3. ToSet(s) \subseteq Objs
  BY <1>2 DEF ToSet
<1> QED
  BY <1>3 DEF s

(* What the collector does not free is reached from what is held or from a    *)
(* function.                                                                  *)
LEMMA KeptIsReached ==
  ASSUME NEW h \in Heaps, NEW w \in [Objs -> Nat], Exact(h, w), NEW o \in Tracked(h), o \notin Garbage(h)
  PROVE  o \in Reach(h, Objs, {x \in Objs : w[x] > 0} \cup (Live(h) \ Tracked(h)))
<1> DEFINE K == Tracked(h)
           anchored == {x \in K : h.ref[x] > References(h, K, x)}
           roots == {x \in Objs : w[x] > 0} \cup (Live(h) \ K)
           c == Reach(h, Objs, roots)
<1>1. K \in SUBSET Objs /\ Objs \ K \in SUBSET Objs /\ anchored \in SUBSET Objs /\ roots \in SUBSET Objs
  BY DEF Tracked, Live
<1>2. o \in Reach(h, K, anchored)
  BY DEF Garbage
<1> HIDE DEF K, anchored, roots, c
<1>3. /\ c \in SUBSET Objs /\ roots \subseteq c
      /\ \A x \in c \cap Objs : ToSet(ItemsOf(h, x, {})) \cap Objs \subseteq c
  BY <1>1, ReachIs DEF c
<1>4. ASSUME NEW x \in anchored PROVE x \in c
  <2>1. x \in K /\ x \in Objs /\ h.ref[x] > References(h, K, x)  BY <1>1 DEF anchored
  <2>2. /\ h.ref[x] = w[x] + References(h, Objs, x) /\ w[x] \in Nat
    BY <2>1, ExactIs
  <2>3. /\ References(h, K \cup (Objs \ K), x) = References(h, K, x) + References(h, Objs \ K, x)
        /\ References(h, K, x) \in Nat /\ References(h, Objs \ K, x) \in Nat
    <3> DEFINE L == Objs \ K
    <3>1. L \in SUBSET Objs /\ K \cap L = {}  BY <1>1
    <3> HIDE DEF L
    <3>2. /\ References(h, K \cup L, x) = References(h, K, x) + References(h, L, x)
          /\ References(h, K, x) \in Nat /\ References(h, L, x) \in Nat
      BY <1>1, <2>1, <3>1, ReferencesSplit
    <3> QED  BY <3>2 DEF L
  <2>4. K \cup (Objs \ K) = Objs  BY <1>1
  <2>5. w[x] > 0 \/ References(h, Objs \ K, x) > 0  BY <2>1, <2>2, <2>3, <2>4
  <2>6. CASE w[x] > 0
    <3>1. x \in roots  BY <2>1, <2>6 DEF roots
    <3> QED  BY <1>3, <3>1
  <2>7. CASE References(h, Objs \ K, x) > 0
    <3> DEFINE L == Objs \ K
    <3>1. L \in SUBSET Objs /\ References(h, L, x) > 0  BY <1>1, <2>7
    <3> HIDE DEF L
    <3>2. PICK f \in L : UsesIn(h.out[f], x) > 0  BY <2>1, <3>1, ReferencesPositive
    <3>3. f \in Objs /\ f \notin K  BY <3>2 DEF L
    <3>4. f \in Live(h)  BY <2>1, <3>2, <3>3, RefersAlive
    <3>5. f \in c  BY <1>3, <3>3, <3>4 DEF roots
    <3>6. x \in ToSet(ItemsOf(h, f, {}))  BY <2>1, <3>2, <3>3, ItemsHave
    <3> QED  BY <1>3, <2>1, <3>3, <3>5, <3>6
  <2> QED  BY <2>5, <2>6, <2>7
<1>5. ASSUME NEW x \in c \cap K PROVE ToSet(ItemsOf(h, x, {})) \subseteq c
  <2>1. x \in Objs /\ x \in c \cap Objs  BY <1>1, <1>5
  <2>2. ToSet(ItemsOf(h, x, {})) \subseteq Objs  BY <2>1, ItemsAreObjs
  <2> QED  BY <1>3, <2>1, <2>2
<1>6. anchored \subseteq c /\ \A x \in c \cap K : ToSet(ItemsOf(h, x, {})) \subseteq c
  BY <1>4, <1>5
<1>7. Reach(h, K, anchored) \subseteq c
  BY <1>1, <1>3, <1>6, ReachIs
<1> QED
  BY <1>2, <1>7 DEF c, roots, K

(* After a collection everything that can be reached from what is held is     *)
(* live still.                                                                *)
LEMMA ReachedIsLive ==
  ASSUME NEW h \in Heaps, NEW g \in Heaps, NEW w \in [Objs -> Nat], Exact(g, w),
         \A o \in Objs : g.kind[o] # "free" => g.out[o] = h.out[o]
  PROVE  Reach(h, Objs, {x \in Objs : w[x] > 0}) \subseteq Live(g)
<1> DEFINE c == Live(g)  s == {x \in Objs : w[x] > 0}
<1>1. c \in SUBSET Objs /\ s \in SUBSET Objs
  BY DEF Live
<1>2. s \subseteq c
  BY ExactIs DEF Live
<1>3. ASSUME NEW x \in c \cap Objs PROVE ToSet(ItemsOf(h, x, {})) \subseteq c
  <2>1. x \in Objs /\ g.out[x] = h.out[x]  BY <1>3 DEF Live
  <2>2. ToSet(ItemsOf(h, x, {})) \subseteq Objs  BY <2>1, ItemsAreObjs
  <2>3. ASSUME NEW y \in ToSet(ItemsOf(h, x, {})) PROVE y \in c
    <3>1. y \in Objs  BY <2>2
    <3>2. UsesIn(h.out[x], y) > 0  BY <2>1, <2>3, <3>1, ItemsHave
    <3>3. UsesIn(g.out[x], y) > 0  BY <2>1, <3>2
    <3> QED  BY <2>1, <3>1, <3>3, RefersAlive
  <2> QED  BY <2>3
<1> HIDE DEF c, s
<1>4. Reach(h, Objs, s) \subseteq c
  BY <1>1, <1>2, <1>3, ReachIs
<1> QED
  BY <1>4 DEF c, s

(* One collection frees what it should and nothing else. *)
LEMMA CollectIsExact ==
  ASSUME HeapInv, Collect, ~broken', heap' # heap
  PROVE  /\ Tracked(heap)' \subseteq Reach(heap, Objs, Held \cup (Live(heap) \ Tracked(heap)))
         /\ Reach(heap, Objs, Held) \subseteq Live(heap)'
<1>1. /\ heap \in Heaps /\ held \in [Objs -> 0 .. MaxHeld] /\ stray \in BOOLEAN
      /\ Exact(heap, held) /\ CollectFrom(heap)
  BY DEF HeapInv, Collect
<1>2. held \in [Objs -> Nat]
  BY <1>1, HeldIs
<1>3. /\ heap' \in Heaps /\ Exact(heap', held)
      /\ \A o \in Objs : heap'.kind[o] # "free" =>
           o \notin Garbage(heap) /\ heap'.kind[o] = heap.kind[o] /\ heap'.out[o] = heap.out[o]
  BY <1>1, <1>2, CollectStep
<1>4. Held = {x \in Objs : held[x] > 0}
  BY DEF Held
<1>5. ASSUME NEW o \in Tracked(heap)'
      PROVE  o \in Reach(heap, Objs, Held \cup (Live(heap) \ Tracked(heap)))
  <2>1. o \in Objs /\ heap'.kind[o] \in {"list", "map"}  BY DEF Tracked
  <2>2. o \in Tracked(heap) /\ o \notin Garbage(heap)  BY <1>3, <2>1 DEF Tracked
  <2> QED  BY <1>1, <1>2, <1>4, <2>2, KeptIsReached
<1>6. Reach(heap, Objs, Held) \subseteq Live(heap')
  <2>1. \A o \in Objs : heap'.kind[o] # "free" => heap'.out[o] = heap.out[o]  BY <1>3
  <2> DEFINE g == heap'
  <2>2. g \in Heaps /\ Exact(g, held) /\ \A o \in Objs : g.kind[o] # "free" => g.out[o] = heap.out[o]
    BY <1>3, <2>1
  <2> HIDE DEF g
  <2>3. Reach(heap, Objs, {x \in Objs : held[x] > 0}) \subseteq Live(g)
    BY <1>1, <1>2, <2>2, ReachedIsLive
  <2> QED  BY <1>4, <2>3 DEF g
<1>7. Live(heap') = Live(heap)'
  BY DEF Live
<1> QED
  BY <1>5, <1>6, <1>7

(* Whenever the collector runs, every list and map is freed that nothing       *)
(* outside the lists and maps keeps alive, and none that the evaluator can     *)
(* reach, for any graph of objects (cs_vm_collect_cycles).                     *)
THEOREM CollectorExact == HeapSpec => CollectorIsExact
<1>1. HeapInv /\ [HeapNext]_heapVars =>
        [heap' # heap /\ Collect /\ ~broken' =>
           LET functions == Live(heap) \ Tracked(heap)
           IN /\ Tracked(heap)' \subseteq Reach(heap, Objs, Held \cup functions)
              /\ Reach(heap, Objs, Held) \subseteq Live(heap)']_heapVars
  BY CollectIsExact
<1> QED
  BY <1>1, HeapInvariant, PTL DEF HeapSpec, CollectorIsExact
=============================================================================
