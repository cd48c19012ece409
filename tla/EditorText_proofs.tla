-------------------------- MODULE EditorText_proofs --------------------------
(***************************************************************************)
(* Theorems about the editor's text: its lines stay lines of characters,   *)
(* whatever keys and plugins do; what is cut can be pasted back; and as    *)
(* long as cursor and selection are inside, the editor does to its lines   *)
(* what FlatText does to one sequence of characters.                       *)
(*                                                                         *)
(* The first two rest on what splitting a text into its parts and joining  *)
(* lines into a text have to do with each other: the parts of joined lines *)
(* are these lines.  The third on places: how many characters are before a *)
(* place in the joined text tells the place, and its line and column are   *)
(* found again by counting line ends.                                      *)
(***************************************************************************)
EXTENDS EditorText, DataLemmas, SequenceTheorems, TLAPS

Text == Seq(Chars \cup {NL})
Row == Seq(Chars)
Rows == Seq(Row) \ {<< >>}

-----------------------------------------------------------------------------
(* Sequences *)

(* Appending commutes with concatenating. *)
LEMMA ConcatAppend ==
  ASSUME NEW S, NEW s \in Seq(S), NEW t \in Seq(S), NEW c \in S
  PROVE  s \o Append(t, c) = Append(s \o t, c)
<1>1. <<c>> \in Seq(S)
  OBVIOUS
<1>2. s \o t \in Seq(S)
  BY ConcatProperties
<1>3. Append(s \o t, c) = (s \o t) \o <<c>> /\ Append(t, c) = t \o <<c>>
  BY <1>2, AppendIsConcat
<1> QED
  BY <1>1, <1>3, ConcatAssociative

(* A prefix grows by one member. *)
LEMMA PrefixGrows ==
  ASSUME NEW S, NEW l \in Seq(S), NEW k \in 0..Len(l) - 1
  PROVE  SubSeq(l, 1, k + 1) = Append(SubSeq(l, 1, k), l[k + 1])
<1>1. Len(l) \in Nat /\ 1 \in 1..Len(l) /\ k + 1 \in 1..Len(l) /\ (k + 1) - 1 = k
  BY LenProperties
<1>2. SubSeq(l, 1, k + 1) = SubSeq(l, 1, (k + 1) - 1) \o <<l[k + 1]>>
  BY <1>1, SubSeqRecursiveSecond
<1>3. SubSeq(l, 1, k) \in Seq(S)
  <2>1. \A i \in 1..k : l[i] \in S  BY <1>1, ElementOfSeq
  <2> QED  BY <2>1, SubSeqProperties
<1>4. l[k + 1] \in S
  BY <1>1, ElementOfSeq
<1> QED
  BY <1>1, <1>2, <1>3, <1>4, AppendIsConcat

(* Parts of a sequence, and what is in them. *)
LEMMA SubSeqTyped ==
  ASSUME NEW S, NEW s \in Seq(S), NEW i \in 1..Len(s) + 1, NEW j \in i - 1..Len(s)
  PROVE  /\ SubSeq(s, i, j) \in Seq(S)
         /\ Len(SubSeq(s, i, j)) = j - i + 1
         /\ \A k \in 1..j - i + 1 : SubSeq(s, i, j)[k] = s[i + k - 1]
<1>1. Len(s) \in Nat /\ i \in Int /\ j \in Int /\ \A k \in i..j : s[k] \in S
  BY LenProperties, ElementOfSeq
<1> HIDE DEF SubSeq
<1>2. /\ SubSeq(s, i, j) \in Seq(S)
      /\ Len(SubSeq(s, i, j)) = IF i <= j THEN j - i + 1 ELSE 0
      /\ \A k \in 1..j - i + 1 : SubSeq(s, i, j)[k] = s[i + k - 1]
  BY <1>1, SubSeqProperties
<1> QED
  BY <1>1, <1>2

(* A sequence put together can be taken apart again. *)
LEMMA ConcatSplits ==
  ASSUME NEW S, NEW u \in Seq(S), NEW v \in Seq(S)
  PROVE  /\ SubSeq(u \o v, 1, Len(u)) = u
         /\ SubSeq(u \o v, Len(u) + 1, Len(u \o v)) = v
<1> DEFINE w == u \o v  m == Len(u)  n == Len(v)
<1>1. /\ w \in Seq(S) /\ m \in Nat /\ n \in Nat /\ Len(w) = m + n
      /\ \A i \in 1..m + n : w[i] = IF i <= m THEN u[i] ELSE v[i - m]
  BY ConcatProperties, LenProperties
<1>2. SubSeq(w, 1, m) = u
  <2>1. /\ SubSeq(w, 1, m) \in Seq(S) /\ Len(SubSeq(w, 1, m)) = m
        /\ \A k \in 1..m : SubSeq(w, 1, m)[k] = w[k]
    <3> HIDE DEF w, m, n
    <3>1. 1 \in 1..Len(w) + 1 /\ m \in 1 - 1..Len(w)  BY <1>1
    <3>2. /\ SubSeq(w, 1, m) \in Seq(S) /\ Len(SubSeq(w, 1, m)) = m - 1 + 1
          /\ \A k \in 1..m - 1 + 1 : SubSeq(w, 1, m)[k] = w[1 + k - 1]
      BY <1>1, <3>1, SubSeqTyped
    <3> QED  BY <1>1, <3>2
  <2>2. \A k \in 1..m : w[k] = u[k]
    <3> HIDE DEF w, m, n
    <3> QED  BY <1>1
  <2> DEFINE x == SubSeq(w, 1, m)
  <2>3. Len(x) = Len(u) /\ x \in Seq(S) /\ \A k \in 1..Len(x) : x[k] = u[k]
    <3> HIDE DEF w
    <3> QED  BY <2>1, <2>2
  <2> HIDE DEF x
  <2>4. x = u  BY <2>3, SeqEqual
  <2> QED  BY <2>4 DEF x
<1>3. SubSeq(w, m + 1, Len(w)) = v
  <2>1. /\ SubSeq(w, m + 1, Len(w)) \in Seq(S) /\ Len(SubSeq(w, m + 1, Len(w))) = n
        /\ \A k \in 1..n : SubSeq(w, m + 1, Len(w))[k] = w[m + k]
    <3> HIDE DEF w, m, n
    <3>1. m + 1 \in 1..Len(w) + 1 /\ Len(w) \in (m + 1) - 1..Len(w)  BY <1>1
    <3> DEFINE a == m + 1  b == Len(w)
    <3>2. /\ SubSeq(w, a, b) \in Seq(S) /\ Len(SubSeq(w, a, b)) = b - a + 1
          /\ \A k \in 1..b - a + 1 : SubSeq(w, a, b)[k] = w[a + k - 1]
      <4> HIDE DEF a, b
      <4>1. a \in 1..Len(w) + 1 /\ b \in a - 1..Len(w)  BY <3>1 DEF a, b
      <4> QED  BY <1>1, <4>1, SubSeqTyped
    <3>3. b - a + 1 = n /\ \A k \in 1..n : a + k - 1 = m + k  BY <1>1
    <3> HIDE DEF a, b
    <3>4. /\ SubSeq(w, a, b) \in Seq(S) /\ Len(SubSeq(w, a, b)) = n
          /\ \A k \in 1..n : SubSeq(w, a, b)[k] = w[m + k]
      BY <3>2, <3>3
    <3> QED  BY <3>4 DEF a, b
  <2>2. \A k \in 1..n : w[m + k] = v[k]
    <3> HIDE DEF w, m, n
    <3>1. \A k \in 1..n : m + k \in 1..m + n /\ ~(m + k <= m) /\ (m + k) - m = k  BY <1>1
    <3> QED  BY <1>1, <3>1
  <2> DEFINE x == SubSeq(w, m + 1, Len(w))
  <2>3. Len(x) = Len(v) /\ x \in Seq(S) /\ \A k \in 1..Len(x) : x[k] = v[k]
    <3> HIDE DEF w, m
    <3> QED  BY <2>1, <2>2
  <2> HIDE DEF x
  <2>4. x = v  BY <2>3, SeqEqual
  <2> QED  BY <2>4 DEF x
<1> QED
  BY <1>2, <1>3

(* One member between two sequences. *)
Around(u, x, v) == (u \o <<x>>) \o v

LEMMA AroundOne ==
  ASSUME NEW S, NEW u \in Seq(S), NEW x \in S, NEW v \in Seq(S)
  PROVE  /\ Around(u, x, v) \in Seq(S)
         /\ Len(Around(u, x, v)) = Len(u) + 1 + Len(v)
         /\ Around(u, x, v)[Len(u) + 1] = x
         /\ SubSeq(Around(u, x, v), 1, Len(u)) = u
         /\ SubSeq(Around(u, x, v), Len(u) + 2, Len(Around(u, x, v))) = v
<1> DEFINE m == Len(u)  o == <<x>>  w == Around(u, x, v)
<1>1. o \in Seq(S) /\ Len(o) = 1 /\ o[1] = x /\ m \in Nat /\ Len(v) \in Nat
  BY LenProperties
<1> HIDE DEF o
<1>2. /\ u \o o \in Seq(S) /\ Len(u \o o) = m + 1
      /\ (u \o o)[m + 1] = x
  <2>1. /\ u \o o \in Seq(S) /\ Len(u \o o) = Len(u) + Len(o)
        /\ \A i \in 1..Len(u) + Len(o) : (u \o o)[i] = IF i <= Len(u) THEN u[i] ELSE o[i - Len(u)]
    BY <1>1, ConcatProperties
  <2>2. m + 1 \in 1..Len(u) + Len(o) /\ ~(m + 1 <= Len(u)) /\ (m + 1) - Len(u) = 1
    BY <1>1
  <2>3. (u \o o)[m + 1] = o[1]
    <3> DEFINE k == m + 1
    <3>1. k \in 1..Len(u) + Len(o) /\ ~(k <= Len(u)) /\ k - Len(u) = 1  BY <2>2
    <3> HIDE DEF k
    <3>2. (u \o o)[k] = o[1]  BY <2>1, <3>1
    <3> QED  BY <3>2 DEF k
  <2> QED  BY <1>1, <2>1, <2>3
<1>3. w = (u \o o) \o v
  BY DEF o, Around
<1> HIDE DEF w
<1>4. /\ w \in Seq(S) /\ Len(w) = Len(u \o o) + Len(v)
      /\ \A i \in 1..Len(u \o o) + Len(v) :
           w[i] = IF i <= Len(u \o o) THEN (u \o o)[i] ELSE v[i - Len(u \o o)]
  BY <1>2, <1>3, ConcatProperties
<1>5. w[m + 1] = x
  <2> DEFINE k == m + 1
  <2>1. k \in 1..Len(u \o o) + Len(v) /\ k <= Len(u \o o)  BY <1>1, <1>2
  <2>2. (u \o o)[k] = x  BY <1>2
  <2> HIDE DEF k
  <2>3. w[k] = x  BY <1>4, <2>1, <2>2
  <2> QED  BY <2>3 DEF k
<1>6. SubSeq(w, (m + 1) + 1, Len(w)) = v
  <2>1. SubSeq((u \o o) \o v, Len(u \o o) + 1, Len((u \o o) \o v)) = v
    BY <1>2, ConcatSplits
  <2>2. Len(u \o o) + 1 = (m + 1) + 1  BY <1>2
  <2> QED  BY <1>3, <2>1, <2>2
<1>7. SubSeq(w, 1, m) = u
  <2>1. o \o v \in Seq(S)  BY <1>1, ConcatProperties
  <2>2. (u \o o) \o v = u \o (o \o v)  BY <1>1, ConcatAssociative, SMTT(30)
  <2>3. SubSeq(u \o (o \o v), 1, Len(u)) = u  BY <2>1, ConcatSplits
  <2> QED  BY <1>3, <2>2, <2>3
<1>8. (m + 1) + 1 = m + 2
  BY <1>1
<1> QED
  BY <1>1, <1>2, <1>4, <1>5, <1>6, <1>7, <1>8 DEF w

-----------------------------------------------------------------------------
(* Splitting a text *)

(* What one more character does to the parts of a text. *)
Split(ps, c) ==
  IF c = NL THEN Append(ps, <<>>) ELSE [ps EXCEPT ![Len(ps)] = Append(@, c)]

LEMMA SplitTyped ==
  ASSUME NEW ps \in Rows, NEW c \in Chars \cup {NL}
  PROVE  Split(ps, c) \in Rows
<1>1. ps \in Seq(Row) /\ Len(ps) \in 1..Len(ps)
  BY EmptySeq DEF Rows
<1>2. CASE c = NL
  <2>1. <<>> \in Row  BY DEF Row
  <2>2. Append(ps, <<>>) \in Seq(Row) /\ Append(ps, <<>>) # <<>>
    BY <1>1, <2>1, AppendProperties
  <2> QED  BY <1>2, <2>2 DEF Split, Rows
<1>3. CASE c # NL
  <2>1. c \in Chars /\ ps[Len(ps)] \in Row  BY <1>1, <1>3, ElementOfSeq
  <2>2. Append(ps[Len(ps)], c) \in Row  BY <2>1, AppendProperties DEF Row
  <2>3. [ps EXCEPT ![Len(ps)] = Append(ps[Len(ps)], c)] \in Seq(Row)
        /\ Len([ps EXCEPT ![Len(ps)] = Append(ps[Len(ps)], c)]) = Len(ps)
    BY <1>1, <2>2, ExceptSeq
  <2>4. Split(ps, c) = [ps EXCEPT ![Len(ps)] = Append(ps[Len(ps)], c)]
    BY <1>3 DEF Split
  <2> HIDE DEF Row
  <2>5. Split(ps, c) \in Seq(Row) /\ Len(Split(ps, c)) = Len(ps)
    BY <2>3, <2>4
  <2>6. Split(ps, c) # <<>>  BY <1>1, <2>5, EmptySeq
  <2> QED  BY <2>5, <2>6 DEF Rows
<1> QED
  BY <1>2, <1>3

(* The parts come about by taking one character after the other. *)
LEMMA PartsInSteps ==
  ASSUME NEW s \in Text
  PROVE  \E f \in [0..Len(s) -> Rows] :
           /\ f[0] = << <<>> >>
           /\ \A i \in 1..Len(s) : f[i] = Split(f[i - 1], s[i])
           /\ Parts(s) = f[Len(s)]
<1> DEFINE n == Len(s)
           step == [x \in Rows \X (0 + 1 .. n) |-> Split(x[1], s[x[2]])]
           base == << <<>> >>
           Eq(f) == f = [i \in 0..n |->
                           IF i = 0 THEN << <<>> >>
                           ELSE IF s[i] = NL THEN Append(f[i - 1], <<>>)
                           ELSE [f[i - 1] EXCEPT ![Len(f[i - 1])] = Append(@, s[i])]]
<1>1. n \in Nat /\ \A i \in 1..n : s[i] \in Chars \cup {NL}
  BY LenProperties, ElementOfSeq DEF Text
<1>2. base \in Rows
  BY DEF Rows, Row
<1>3. step \in [Rows \X (0 + 1 .. n) -> Rows]
  <2> SUFFICES ASSUME NEW x \in Rows \X (0 + 1 .. n) PROVE Split(x[1], s[x[2]]) \in Rows
    OBVIOUS
  <2>1. x[1] \in Rows /\ s[x[2]] \in Chars \cup {NL}  BY <1>1
  <2> QED  BY <2>1, SplitTyped
<1>4. PICK f \in [0..n -> Rows] :
        f[0] = base /\ \A k \in 0 + 1 .. n : f[k] = step[<< f[k - 1], k >>]
  <2>1. 0 \in Int /\ n \in Int /\ 0 <= n  BY <1>1
  <2> HIDE DEF step, base, n
  <2>2. Recursions(0, n, Rows, base, step) # {}
    BY <1>2, <1>3, <2>1, RecursionExists
  <2> QED  BY <2>2 DEF Recursions
<1>5. \A k \in 1..n : f[k] = Split(f[k - 1], s[k])
  <2> SUFFICES ASSUME NEW k \in 1..n PROVE f[k] = Split(f[k - 1], s[k])
    OBVIOUS
  <2>1. k \in 0 + 1 .. n /\ k - 1 \in 0..n  BY <1>1
  <2>2. f[k - 1] \in Rows  BY <1>4, <2>1
  <2> HIDE DEF n
  <2> QED  BY <1>4, <2>1, <2>2
<1>6. Eq(f)
  <2>1. f = [i \in 0..n |-> f[i]]  BY <1>4
  <2>2. ASSUME NEW i \in 0..n
        PROVE  f[i] = IF i = 0 THEN << <<>> >>
                      ELSE IF s[i] = NL THEN Append(f[i - 1], <<>>)
                      ELSE [f[i - 1] EXCEPT ![Len(f[i - 1])] = Append(@, s[i])]
    <3>1. i # 0 => i \in 1..n  BY <1>1
    <3> HIDE DEF n
    <3> QED  BY <1>4, <1>5, <3>1 DEF Split
  <2> HIDE DEF n
  <2> QED  BY <2>1, <2>2
<1> DEFINE upTo == CHOOSE f2 : Eq(f2)
<1>7. Eq(upTo)
  <2> HIDE DEF Eq
  <2> QED  BY <1>6
<1>8. Parts(s) = upTo[n]
  BY DEF Parts
<1> HIDE DEF upTo
<1> DEFINE Same == {k \in 0..n : upTo[k] = f[k]}
<1>9. \A i \in 1..n : upTo[i] = Split(upTo[i - 1], s[i])
  <2> SUFFICES ASSUME NEW i \in 1..n PROVE upTo[i] = Split(upTo[i - 1], s[i])
    OBVIOUS
  <2>1. i \in 0..n /\ i # 0  BY <1>1
  <2> HIDE DEF n
  <2> QED  BY <1>7, <2>1 DEF Split
<1>10. 0 \in Same
  BY <1>1, <1>6, <1>7
<1>11. ASSUME NEW k \in 0..n - 1, k \in Same PROVE k + 1 \in Same
  <2>1. k + 1 \in 0..n /\ k + 1 # 0 /\ (k + 1) - 1 = k  BY <1>1
  <2>2. upTo[k] = f[k]  BY <1>11
  <2> HIDE DEF n
  <2>3. k + 1 \in 1..n  BY <1>1 DEF n
  <2>4. upTo[k + 1] = Split(upTo[k], s[k + 1]) /\ f[k + 1] = Split(f[k], s[k + 1])
    BY <1>5, <1>9, <2>1, <2>3
  <2> QED  BY <2>1, <2>2, <2>4
<1>12. 0..n \subseteq Same
  <2> HIDE DEF Same
  <2> QED  BY <1>1, <1>10, <1>11, IntervalInduction
<1>13. upTo[n] = f[n]
  BY <1>1, <1>12
<1> QED
  <2> HIDE DEF Eq, step
  <2> QED  BY <1>4, <1>5, <1>8, <1>13

LEMMA PartsTyped ==
  ASSUME NEW s \in Text
  PROVE  Parts(s) \in Rows
<1>1. Len(s) \in 0..Len(s)
  BY LenProperties DEF Text
<1> QED
  BY <1>1, PartsInSteps

LEMMA PartsOfEmpty == Parts(<<>>) = << <<>> >>
<1>1. <<>> \in Text /\ Len(<<>>) = 0
  BY DEF Text
<1> QED
  BY <1>1, PartsInSteps

LEMMA PartsOfAppend ==
  ASSUME NEW s \in Text, NEW c \in Chars \cup {NL}
  PROVE  Parts(Append(s, c)) = Split(Parts(s), c)
<1> DEFINE t == Append(s, c)  n == Len(s)
<1>1. /\ n \in Nat /\ t \in Text /\ Len(t) = n + 1
      /\ \A i \in 1..n : t[i] = s[i]
      /\ t[n + 1] = c
  BY LenProperties, AppendProperties DEF Text
<1>2. PICK f \in [0..Len(s) -> Rows] :
        /\ f[0] = << <<>> >>
        /\ \A i \in 1..Len(s) : f[i] = Split(f[i - 1], s[i])
        /\ Parts(s) = f[Len(s)]
  BY PartsInSteps
<1> HIDE DEF t
<1>3. PICK g \in [0..Len(t) -> Rows] :
        /\ g[0] = << <<>> >>
        /\ \A i \in 1..Len(t) : g[i] = Split(g[i - 1], t[i])
        /\ Parts(t) = g[Len(t)]
  BY <1>1, PartsInSteps
<1> DEFINE Same == {k \in 0..n : g[k] = f[k]}
<1>4. 0 \in Same
  BY <1>1, <1>2, <1>3, SMTT(30)
<1>5. ASSUME NEW k \in 0..n - 1, k \in Same PROVE k + 1 \in Same
  <2>1. k + 1 \in 1..n /\ k + 1 \in 1..Len(t) /\ k + 1 \in 0..n /\ (k + 1) - 1 = k  BY <1>1
  <2>2. g[k + 1] = Split(g[k], s[k + 1]) /\ f[k + 1] = Split(f[k], s[k + 1])
    BY <1>1, <1>2, <1>3, <2>1
  <2> QED  BY <1>5, <2>1, <2>2
<1>6. 0..n \subseteq Same
  <2> HIDE DEF Same
  <2> QED  BY <1>1, <1>4, <1>5, IntervalInduction
<1>7. g[n] = Parts(s)
  BY <1>1, <1>2, <1>6
<1>8. n + 1 \in 1..Len(t) /\ (n + 1) - 1 = n
  BY <1>1
<1>9. Parts(t) = Split(Parts(s), c)
  BY <1>1, <1>3, <1>7, <1>8
<1> QED
  BY <1>9 DEF t

(* Characters behind a text lengthen its last part. *)
Lengthened(ps, l) == [ps EXCEPT ![Len(ps)] = ps[Len(ps)] \o l]

LEMMA PartsOfLonger ==
  ASSUME NEW s \in Text, NEW l \in Row
  PROVE  Parts(s \o l) = Lengthened(Parts(s), l)
<1> DEFINE ps == Parts(s)
           n == Len(l)  m == Len(ps)  last == ps[m]
           With(k) == [ps EXCEPT ![m] = last \o SubSeq(l, 1, k)]
           Good == {k \in 0..n : Parts(s \o SubSeq(l, 1, k)) = With(k)}
<1>1. n \in Nat /\ l \in Seq(Chars) /\ l \in Text
  BY LenProperties, SeqMonotonic DEF Row, Text
<1>2. ps \in Seq(Row) /\ ps # <<>> /\ m \in Nat \ {0} /\ m \in 1..m
  BY PartsTyped, EmptySeq DEF Rows
<1>3. last \in Row
  BY <1>2, ElementOfSeq
<1>4. \A k \in 0..n : /\ SubSeq(l, 1, k) \in Row /\ Len(SubSeq(l, 1, k)) = k
                      /\ SubSeq(l, 1, k) \in Text
                      /\ last \o SubSeq(l, 1, k) \in Row
  <2> SUFFICES ASSUME NEW k \in 0..n
               PROVE  /\ SubSeq(l, 1, k) \in Row /\ Len(SubSeq(l, 1, k)) = k
                      /\ SubSeq(l, 1, k) \in Text
                      /\ last \o SubSeq(l, 1, k) \in Row
    OBVIOUS
  <2>1. \A i \in 1..k : l[i] \in Chars  BY <1>1, ElementOfSeq
  <2>2. SubSeq(l, 1, k) \in Seq(Chars) /\ Len(SubSeq(l, 1, k)) = IF 1 <= k THEN k - 1 + 1 ELSE 0
    BY <1>1, <2>1, SubSeqProperties
  <2>3. SubSeq(l, 1, k) \in Text  BY <2>2, SeqMonotonic DEF Text
  <2>4. last \o SubSeq(l, 1, k) \in Seq(Chars)
    BY <1>3, <2>2, ConcatProperties DEF Row
  <2> QED  BY <1>1, <2>2, <2>3, <2>4 DEF Row
<1>5. \A k \in 0..n : /\ With(k) \in Seq(Row) /\ Len(With(k)) = m
                      /\ With(k)[m] = last \o SubSeq(l, 1, k)
  <2> SUFFICES ASSUME NEW k \in 0..n
               PROVE  /\ With(k) \in Seq(Row) /\ Len(With(k)) = m
                      /\ With(k)[m] = last \o SubSeq(l, 1, k)
    OBVIOUS
  <2> DEFINE e == last \o SubSeq(l, 1, k)
  <2>1. e \in Row  BY <1>4
  <2> HIDE DEF e, m
  <2>2. /\ [ps EXCEPT ![m] = e] \in Seq(Row) /\ Len([ps EXCEPT ![m] = e]) = Len(ps)
        /\ [ps EXCEPT ![m] = e][m] = e
    BY <1>2, <2>1, ExceptSeq DEF m
  <2> QED  BY <2>2 DEF e, m
<1>6. 0 \in Good
  <2>1. SubSeq(l, 1, 0) = <<>>  BY SubSeqEmpty
  <2>2. s \o <<>> = s /\ last \o <<>> = last  BY <1>3, ConcatEmptySeq DEF Text, Row
  <2>3. With(0) = ps
    <3>1. [ps EXCEPT ![m] = last] = ps  BY <1>2
    <3> QED  BY <2>1, <2>2, <3>1
  <2>4. 0 \in 0..n  BY <1>1
  <2> HIDE DEF With, n
  <2>5. Parts(s \o SubSeq(l, 1, 0)) = With(0)  BY <2>1, <2>2, <2>3
  <2> QED  BY <2>4, <2>5
<1>7. ASSUME NEW k \in 0..n - 1, k \in Good PROVE k + 1 \in Good
  <2> DEFINE p == SubSeq(l, 1, k)  c == l[k + 1]
  <2>1. k \in 0..n /\ k + 1 \in 1..n /\ k + 1 \in 0..n /\ 1 \in 1..n /\ (k + 1) - 1 = k
    BY <1>1
  <2>2. c \in Chars /\ c # NL
    BY <1>1, <2>1, ElementOfSeq, LineEndIsNoChar
  <2>3. p \in Row /\ p \in Text  BY <1>4, <2>1
  <2>4. SubSeq(l, 1, k + 1) = Append(p, c)
    BY <1>1, PrefixGrows
  <2>5. s \o Append(p, c) = Append(s \o p, c) /\ s \o p \in Text
    <3> HIDE DEF p, c
    <3> QED  BY <2>2, <2>3, ConcatAppend, ConcatProperties DEF Text
  <2>6. last \o Append(p, c) = Append(last \o p, c)
    <3> HIDE DEF p, c, last
    <3> QED  BY <1>3, <2>2, <2>3, ConcatAppend DEF Row
  <2>7. Parts(s \o SubSeq(l, 1, k + 1)) = Split(With(k), c)
    <3>1. Parts(s \o p) = With(k)  BY <1>7
    <3> HIDE DEF p, c, With
    <3> QED  BY <2>2, <2>4, <2>5, <3>1, PartsOfAppend DEF Text
  <2>8. Split(With(k), c) = With(k + 1)
    <3>1. Split(With(k), c) = [With(k) EXCEPT ![m] = Append(last \o p, c)]
      <4>1. With(k) \in Seq(Row) /\ Len(With(k)) = m /\ With(k)[m] = last \o p
        BY <1>5, <2>1
      <4> HIDE DEF With, p, m, last
      <4> QED  BY <2>2, <4>1 DEF Split
    <3>2. [With(k) EXCEPT ![m] = Append(last \o p, c)] = [ps EXCEPT ![m] = Append(last \o p, c)]
      <4> HIDE DEF p, last, m
      <4>1. DOMAIN ps = 1..m  BY <1>2 DEF m
      <4> QED  BY <1>2, <4>1 DEF p
    <3> HIDE DEF last, m, p, c
    <3> QED  BY <2>4, <2>6, <3>1, <3>2
  <2> HIDE DEF With, p, c
  <2> QED  BY <2>1, <2>7, <2>8
<1>8. 0..n \subseteq Good
  <2> HIDE DEF Good
  <2> QED  BY <1>1, <1>6, <1>7, IntervalInduction
<1>9. n \in Good
  <2>1. n \in 0..n  BY <1>1
  <2> HIDE DEF Good
  <2> QED  BY <1>8, <2>1
<1>10. SubSeq(l, 1, n) = l
  BY <1>1, SubSeqFull
<1> QED
  BY <1>9, <1>10 DEF Lengthened

-----------------------------------------------------------------------------
(* Joining lines *)

(* The text comes about by taking one line after the other. *)
LEMMA FlatInSteps ==
  ASSUME NEW ls \in Rows
  PROVE  \E f \in [1..Len(ls) -> Text] :
           /\ f[1] = ls[1]
           /\ \A i \in 2..Len(ls) : f[i] = (f[i - 1] \o <<NL>>) \o ls[i]
           /\ Flat(ls) = f[Len(ls)]
<1> DEFINE n == Len(ls)
           base == ls[1]
           step == [x \in Text \X (1 + 1 .. n) |-> (x[1] \o <<NL>>) \o ls[x[2]]]
           Eq(f) == f = [i \in DOMAIN ls |->
                           IF i = 1 THEN ls[1] ELSE (f[i - 1] \o <<NL>>) \o ls[i]]
<1>1. /\ n \in Nat /\ 1 \in Int /\ n \in Int /\ 1 <= n
      /\ DOMAIN ls = 1..n
      /\ \A i \in 1..n : ls[i] \in Text
  <2>1. ls \in Seq(Row) /\ n \in Nat \ {0} /\ DOMAIN ls = 1..n
    BY EmptySeq, LenProperties DEF Rows
  <2>2. \A i \in 1..n : ls[i] \in Row  BY <2>1, ElementOfSeq
  <2>3. Row \subseteq Text  BY SeqMonotonic DEF Row, Text
  <2> QED  BY <2>1, <2>2, <2>3
<1>2. base \in Text
  BY <1>1
<1>3. \A x \in Text : \A i \in 1..n : (x \o <<NL>>) \o ls[i] \in Text
  <2> SUFFICES ASSUME NEW x \in Text, NEW i \in 1..n PROVE (x \o <<NL>>) \o ls[i] \in Text
    OBVIOUS
  <2>1. <<NL>> \in Text  BY DEF Text
  <2>2. x \o <<NL>> \in Text  BY <2>1, ConcatProperties DEF Text
  <2> QED  BY <1>1, <2>2, ConcatProperties DEF Text
<1>4. step \in [Text \X (1 + 1 .. n) -> Text]
  <2> SUFFICES ASSUME NEW x \in Text \X (1 + 1 .. n)
               PROVE  (x[1] \o <<NL>>) \o ls[x[2]] \in Text
    OBVIOUS
  <2>1. x[1] \in Text /\ x[2] \in 1..n  BY <1>1
  <2> QED  BY <1>3, <2>1
<1>5. PICK f \in [1..n -> Text] :
        f[1] = base /\ \A k \in 1 + 1 .. n : f[k] = step[<< f[k - 1], k >>]
  <2> HIDE DEF step, base, n
  <2>1. Recursions(1, n, Text, base, step) # {}
    BY <1>1, <1>2, <1>4, RecursionExists
  <2> QED  BY <2>1 DEF Recursions
<1>6. \A k \in 2..n : f[k] = (f[k - 1] \o <<NL>>) \o ls[k]
  <2> SUFFICES ASSUME NEW k \in 2..n PROVE f[k] = (f[k - 1] \o <<NL>>) \o ls[k]
    OBVIOUS
  <2>1. k \in 1 + 1 .. n /\ k - 1 \in 1..n  BY <1>1
  <2>2. f[k - 1] \in Text  BY <1>5, <2>1
  <2> HIDE DEF n
  <2> QED  BY <1>5, <2>1, <2>2
<1>7. Eq(f)
  <2>1. f = [i \in 1..n |-> f[i]]  BY <1>5
  <2>2. ASSUME NEW i \in 1..n
        PROVE  f[i] = IF i = 1 THEN ls[1] ELSE (f[i - 1] \o <<NL>>) \o ls[i]
    <3>1. i # 1 => i \in 2..n  BY <1>1
    <3> HIDE DEF n
    <3> QED  BY <1>5, <1>6, <3>1
  <2> HIDE DEF n
  <2> QED  BY <1>1, <2>1, <2>2
<1> DEFINE upTo == CHOOSE f2 : Eq(f2)
<1>8. Eq(upTo)
  <2> HIDE DEF Eq
  <2> QED  BY <1>7
<1>9. Flat(ls) = upTo[n]
  BY DEF Flat
<1> HIDE DEF upTo
<1>10. /\ upTo[1] = ls[1]
       /\ \A i \in 2..n : upTo[i] = (upTo[i - 1] \o <<NL>>) \o ls[i]
  <2>1. 1 \in 1..n /\ \A i \in 2..n : i \in 1..n /\ i # 1  BY <1>1
  <2> HIDE DEF n
  <2> QED  BY <1>1, <1>8, <2>1
<1> DEFINE m == n - 1
           Same == {k \in 0..m : upTo[k + 1] = f[k + 1]}
<1>11. 0 \in Same
  BY <1>1, <1>5, <1>10
<1>12. ASSUME NEW k \in 0..m - 1, k \in Same PROVE k + 1 \in Same
  <2>1. (k + 1) + 1 \in 2..n /\ ((k + 1) + 1) - 1 = k + 1 /\ k + 1 \in 0..m  BY <1>1
  <2>2. upTo[k + 1] = f[k + 1]  BY <1>12
  <2> HIDE DEF n
  <2> QED  BY <1>6, <1>10, <2>1, <2>2, ZenonT(40)
<1>13. m \in Nat /\ 0..m \subseteq Same
  <2>1. m \in Nat  BY <1>1
  <2> HIDE DEF Same, m
  <2> QED  BY <1>11, <1>12, <2>1, IntervalInduction
<1>14. upTo[n] = f[n]
  <2>1. m \in 0..m /\ m + 1 = n  BY <1>1
  <2> HIDE DEF n, m
  <2> QED  BY <1>13, <2>1
<1> QED
  <2> HIDE DEF Eq, step
  <2> QED  BY <1>5, <1>6, <1>9, <1>14

LEMMA FlatTyped ==
  ASSUME NEW ls \in Rows
  PROVE  Flat(ls) \in Text
<1>1. Len(ls) \in 1..Len(ls)
  BY EmptySeq DEF Rows
<1>2. PICK f \in [1..Len(ls) -> Text] : Flat(ls) = f[Len(ls)]
  BY FlatInSteps
<1> QED
  BY <1>1, <1>2

(* The parts of joined lines are these lines. *)
LEMMA PartsOfFlat ==
  ASSUME NEW ls \in Rows
  PROVE  Parts(Flat(ls)) = ls
<1> DEFINE n == Len(ls)
<1>1. /\ ls \in Seq(Row) /\ n \in Nat /\ 1 <= n
      /\ \A i \in 1..n : ls[i] \in Row
  BY EmptySeq, LenProperties, ElementOfSeq DEF Rows
<1>2. PICK f \in [1..n -> Text] :
        /\ f[1] = ls[1]
        /\ \A i \in 2..n : f[i] = (f[i - 1] \o <<NL>>) \o ls[i]
        /\ Flat(ls) = f[n]
  BY FlatInSteps
<1> DEFINE m == n - 1
           Good == {k \in 0..m : Parts(f[k + 1]) = SubSeq(ls, 1, k + 1)}
<1>3. 0 \in Good
  <2> DEFINE l == ls[1]  one == << <<>> >>
  <2>1. l \in Row /\ 1 \in 1..n  BY <1>1
  <2>2. <<>> \o l = l  BY <2>1, ConcatEmptySeq DEF Row
  <2>3. <<>> \in Text  BY DEF Text
  <2>4. Parts(l) = Lengthened(one, l)
    <3> HIDE DEF l, one
    <3>1. one = Parts(<<>>)  BY PartsOfEmpty DEF one
    <3>2. Parts(<<>> \o l) = Lengthened(Parts(<<>>), l)
      BY <2>1, <2>3, PartsOfLonger
    <3> QED  BY <2>2, <3>1, <3>2
  <2>5. Lengthened(one, l) = <<l>>
    <3>1. Len(one) = 1 /\ one[1] = <<>> /\ [one EXCEPT ![1] = l] = <<l>>  OBVIOUS
    <3> HIDE DEF l, one
    <3> QED  BY <2>2, <3>1 DEF Lengthened
  <2>6. SubSeq(ls, 1, 0) = <<>>  BY SubSeqEmpty
  <2>7. SubSeq(ls, 1, 0 + 1) = Append(SubSeq(ls, 1, 0), ls[0 + 1])
    <3>1. 0 \in 0..Len(ls) - 1  BY <1>1
    <3> HIDE DEF n
    <3> QED  BY <1>1, <3>1, PrefixGrows
  <2>8. SubSeq(ls, 1, 1) = <<l>>
    <3>1. \A k : k = 0 + 1 => SubSeq(ls, 1, k) = Append(<<>>, ls[k])  BY <2>6, <2>7, Zenon
    <3>2. SubSeq(ls, 1, 1) = Append(<<>>, l)  BY <3>1
    <3> HIDE DEF l
    <3> QED  BY <3>2
  <2>9. Parts(f[1]) = SubSeq(ls, 1, 1) /\ 0 \in 0..m
    BY <1>1, <1>2, <2>4, <2>5, <2>8
  <2> HIDE DEF n
  <2> QED  BY <2>9
<1>4. ASSUME NEW k \in 0..m - 1, k \in Good PROVE k + 1 \in Good
  <2> DEFINE l == ls[(k + 1) + 1]  p == SubSeq(ls, 1, k + 1)  g == f[k + 1]
  <2>1. /\ (k + 1) + 1 \in 2..n /\ (k + 1) + 1 \in 1..n /\ ((k + 1) + 1) - 1 = k + 1
        /\ k + 1 \in 0..m /\ k + 1 \in 1..n
    BY <1>1
  <2>2. l \in Row /\ g \in Text /\ Parts(g) = p  BY <1>1, <1>2, <1>4, <2>1
  <2>3. f[(k + 1) + 1] = (g \o <<NL>>) \o l
    <3> HIDE DEF n
    <3> QED  BY <1>2, <2>1
  <2>4. g \o <<NL>> = Append(g, NL) /\ Append(g, NL) \in Text
    BY <2>2, AppendIsConcat, AppendProperties DEF Text
  <2>5. p \in Seq(Row) /\ p # <<>>
    BY <2>2, PartsTyped DEF Rows
  <2>6. Parts(Append(g, NL)) = Append(p, <<>>)
    <3> HIDE DEF g, p
    <3> QED  BY <2>2, PartsOfAppend DEF Split
  <2> DEFINE q == Append(p, <<>>)
  <2>7. q \in Seq(Row) /\ Len(q) = Len(p) + 1 /\ q[Len(q)] = <<>> /\ Len(p) \in Nat
    <3>1. <<>> \in Row  BY DEF Row
    <3> HIDE DEF p
    <3> QED  BY <2>5, <3>1, AppendProperties, LenProperties
  <2>8. Parts((g \o <<NL>>) \o l) = Lengthened(q, l)
    <3> HIDE DEF g, p, q, l
    <3>1. q = Parts(Append(g, NL))  BY <2>6 DEF q
    <3>2. Parts(Append(g, NL) \o l) = Lengthened(Parts(Append(g, NL)), l)
      BY <2>2, <2>4, PartsOfLonger
    <3> QED  BY <2>4, <3>1, <3>2
  <2>9. q[Len(q)] \o l = l  BY <2>2, <2>7, ConcatEmptySeq DEF Row
  <2>10. Lengthened(q, l) = Append(p, l)
    <3>1. Lengthened(q, l) = [q EXCEPT ![Len(q)] = l]
      <4> HIDE DEF q, l
      <4> QED  BY <2>9 DEF Lengthened
    <3> DEFINE N == Len(p)
    <3>2. Len(q) = N + 1 /\ N \in Nat /\ N = Len(p)  BY <2>7
    <3> HIDE DEF p, l, N
    <3>3. /\ [q EXCEPT ![N + 1] = l] \in Seq(Row) /\ Len([q EXCEPT ![N + 1] = l]) = N + 1
          /\ \A j \in 1..N + 1 : [q EXCEPT ![N + 1] = l][j] = IF j = N + 1 THEN l ELSE q[j]
      <4> HIDE DEF q
      <4>1. N + 1 \in 1..Len(q)  BY <3>2
      <4> QED  BY <2>2, <2>7, <3>2, <4>1, ExceptSeq
    <3>4. /\ Append(p, l) \in Seq(Row) /\ Len(Append(p, l)) = N + 1
          /\ \A j \in 1..N : Append(p, l)[j] = p[j]
          /\ Append(p, l)[N + 1] = l
      BY <2>2, <2>5, <3>2, AppendProperties
    <3>5. \A j \in 1..N : q[j] = p[j]
      BY <2>5, <3>2 DEF q
    <3> HIDE DEF q
    <3>6. \A j \in 1..N + 1 : [q EXCEPT ![N + 1] = l][j] = Append(p, l)[j]
      <4>1. \A j \in 1..N + 1 : j = N + 1 \/ j \in 1..N  BY <3>2
      <4> QED  BY <3>3, <3>4, <3>5, <4>1
    <3> QED  BY <3>1, <3>2, <3>3, <3>4, <3>6, SeqEqual
  <2>11. SubSeq(ls, 1, (k + 1) + 1) = Append(p, l)
    BY <1>1, <2>1, PrefixGrows
  <2>12. Parts(f[(k + 1) + 1]) = SubSeq(ls, 1, (k + 1) + 1)
    <3> HIDE DEF p, l, q, g
    <3> QED  BY <2>3, <2>8, <2>10, <2>11
  <2> HIDE DEF n
  <2> QED  BY <2>1, <2>12
<1>5. m \in Nat /\ 0..m \subseteq Good
  <2>1. m \in Nat  BY <1>1
  <2> HIDE DEF Good, m
  <2> QED  BY <1>3, <1>4, <2>1, IntervalInduction
<1>6. m \in 0..m /\ m + 1 = n
  BY <1>1
<1>7. Parts(f[n]) = SubSeq(ls, 1, n)
  <2> HIDE DEF n, m
  <2> QED  BY <1>5, <1>6
<1>8. SubSeq(ls, 1, n) = ls
  BY <1>1, SubSeqFull
<1> QED
  BY <1>2, <1>7, <1>8

-----------------------------------------------------------------------------
(* Cutting and pasting *)

LEMMA PlacesTyped ==
  ASSUME NEW ls \in Rows, NEW p \in PlacesOf(ls)
  PROVE  /\ p[1] \in 1..Len(ls) /\ p[2] \in 0..Len(ls[p[1]])
         /\ p = <<p[1], p[2]>>
<1>1. DOMAIN ls = 1..Len(ls)
  BY LenProperties DEF Rows
<1> QED
  BY <1>1 DEF PlacesOf

LEMMA RowsTyped ==
  ASSUME NEW ls \in Rows
  PROVE  /\ ls \in Seq(Row) /\ Len(ls) \in Nat /\ 1 <= Len(ls)
         /\ \A i \in 1..Len(ls) : ls[i] \in Row /\ Len(ls[i]) \in Nat
<1>1. ls \in Seq(Row) /\ Len(ls) \in Nat \ {0}
  BY EmptySeq DEF Rows
<1>2. \A i \in 1..Len(ls) : ls[i] \in Row
  BY <1>1, ElementOfSeq
<1>3. \A i \in 1..Len(ls) : Len(ls[i]) \in Nat
  BY <1>2, LenProperties DEF Row
<1> QED
  BY <1>1, <1>2, <1>3

(* Between two places of the text nothing is clamped. *)
LEMMA BetweenPlaces ==
  ASSUME NEW ls \in Rows, NEW p \in PlacesOf(ls), NEW q \in PlacesOf(ls), Before(p, q)
  PROVE  /\ InLastLine(ls, q) = q
         /\ p[1] \in 1..Len(ls) /\ q[1] \in p[1]..Len(ls)
         /\ p[2] \in 0..Len(ls[p[1]]) /\ q[2] \in 0..Len(ls[q[1]])
         /\ (p[1] = q[1] => p[2] <= q[2])
         /\ \A l \in p[1]..q[1] :
              Clamped(ls, l, p, q) = <<IF l = p[1] THEN p[2] ELSE 0,
                                       IF l = q[1] THEN q[2] ELSE Len(ls[l])>>
<1>1. /\ p[1] \in 1..Len(ls) /\ p[2] \in 0..Len(ls[p[1]]) /\ p = <<p[1], p[2]>>
      /\ q[1] \in 1..Len(ls) /\ q[2] \in 0..Len(ls[q[1]]) /\ q = <<q[1], q[2]>>
  BY PlacesTyped
<1>2. Len(ls) \in Nat /\ \A i \in 1..Len(ls) : Len(ls[i]) \in Nat
  BY RowsTyped
<1>3. q[1] \in p[1]..Len(ls) /\ (p[1] = q[1] => p[2] <= q[2])
  BY <1>1, <1>2 DEF Before
<1>4. InLastLine(ls, q) = q
  BY <1>1, <1>2 DEF InLastLine, Smaller
<1>5. ASSUME NEW l \in p[1]..q[1]
      PROVE  Clamped(ls, l, p, q) = <<IF l = p[1] THEN p[2] ELSE 0,
                                      IF l = q[1] THEN q[2] ELSE Len(ls[l])>>
  <2>1. l \in 1..Len(ls) /\ Len(ls[l]) \in Nat  BY <1>1, <1>2, <1>3
  <2> QED  BY <1>1, <1>2, <1>3, <2>1 DEF Clamped, Smaller
<1> QED
  BY <1>1, <1>3, <1>4, <1>5

(* What is copied from between two places of the text. *)
LEMMA CopiedParts ==
  ASSUME NEW ls \in Rows, NEW p \in PlacesOf(ls), NEW q \in PlacesOf(ls), Before(p, q)
  PROVE  \E X \in Rows :
           /\ Parts(Copied(ls, p, q)) = X
           /\ Copied(ls, p, q) \in Text
           /\ Len(X) = q[1] - p[1] + 1
           /\ \A i \in 1..Len(X) :
                X[i] = SubSeq(ls[p[1] + i - 1],
                              (IF i = 1 THEN p[2] ELSE 0) + 1,
                              IF i = Len(X) THEN q[2] ELSE Len(ls[p[1] + i - 1]))
<1> DEFINE a == p[1]  c == q[1]  n == c - a + 1
           From(i) == (IF i = 1 THEN p[2] ELSE 0) + 1
           To(i) == IF i = n THEN q[2] ELSE Len(ls[a + i - 1])
           X == [i \in 1..n |-> SubSeq(ls[a + i - 1], From(i), To(i))]
<1>1. /\ InLastLine(ls, q) = q
      /\ a \in 1..Len(ls) /\ c \in a..Len(ls)
      /\ p[2] \in 0..Len(ls[a]) /\ q[2] \in 0..Len(ls[c])
      /\ (a = c => p[2] <= q[2])
      /\ \A l \in a..c :
           Clamped(ls, l, p, q) = <<IF l = a THEN p[2] ELSE 0, IF l = c THEN q[2] ELSE Len(ls[l])>>
  BY BetweenPlaces
<1>2. /\ ls \in Seq(Row) /\ Len(ls) \in Nat /\ n \in Nat /\ 1 <= n
      /\ \A i \in 1..Len(ls) : ls[i] \in Row /\ Len(ls[i]) \in Nat
  BY <1>1, RowsTyped, SMTT(30)
<1>3. \A i \in 1..n : /\ a + i - 1 \in a..c /\ a + i - 1 \in 1..Len(ls)
                      /\ (a + i - 1 = a <=> i = 1) /\ (a + i - 1 = c <=> i = n)
  <2>1. a \in Int /\ c \in Int /\ 1 <= a /\ a <= c /\ c <= Len(ls) /\ Len(ls) \in Int
    BY <1>1, <1>2
  <2> HIDE DEF a, c
  <2> QED  BY <2>1
<1> HIDE DEF n
<1>4. ASSUME NEW i \in 1..n
      PROVE  SubSeq(ls[a + i - 1], From(i), To(i)) \in Row
  <2> DEFINE l == ls[a + i - 1]
  <2>1. l \in Row /\ Len(l) \in Nat  BY <1>2, <1>3
  <2>2. From(i) \in 1..Len(l) + 1 /\ To(i) \in From(i) - 1..Len(l)
    <3>1. CASE i = 1 /\ i = n
      <4>1. a = c /\ l = ls[a]  BY <1>3, <3>1
      <4> QED  BY <1>1, <2>1, <3>1, <4>1
    <3>2. CASE i = 1 /\ i # n
      <4>1. l = ls[a]  BY <1>1, <3>2
      <4> QED  BY <1>1, <2>1, <3>2, <4>1
    <3>3. CASE i # 1 /\ i = n
      <4>1. l = ls[c]  BY <1>3, <3>3
      <4> QED  BY <1>1, <2>1, <3>3, <4>1
    <3>4. CASE i # 1 /\ i # n
      BY <2>1, <3>4
    <3> QED  BY <3>1, <3>2, <3>3, <3>4
  <2> DEFINE f == From(i)  t == To(i)
  <2>3. l \in Seq(Chars) /\ f \in 1..Len(l) + 1 /\ t \in f - 1..Len(l)
    BY <2>1, <2>2 DEF Row
  <2> HIDE DEF l, f, t
  <2>4. SubSeq(l, f, t) \in Row  BY <2>3, SubSeqTyped DEF Row
  <2> QED  BY <2>4 DEF l, f, t
<1>5. X \in Rows /\ Len(X) = n
  <2> HIDE DEF From, To
  <2>1. X \in [1..n -> Row]  BY <1>4
  <2>2. X \in Seq(Row) /\ Len(X) = n
    <3> HIDE DEF X
    <3> QED  BY <1>2, <2>1
  <2>3. X # <<>>
    <3> HIDE DEF X
    <3> QED  BY <1>2, <2>2, EmptySeq
  <2> QED  BY <2>2, <2>3 DEF Rows
<1>6. Copied(ls, p, q) = Flat(X)
  <2> DEFINE Y == [i \in 1..(c - a + 1) |->
                     LET l == a + i - 1
                     IN  SubSeq(ls[l], Clamped(ls, l, p, q)[1] + 1, Clamped(ls, l, p, q)[2])]
  <2>1. Copied(ls, p, q) = Flat(Y)
    BY <1>1 DEF Copied
  <2>2. ASSUME NEW i \in 1..n
        PROVE  SubSeq(ls[a + i - 1], Clamped(ls, a + i - 1, p, q)[1] + 1, Clamped(ls, a + i - 1, p, q)[2])
                 = SubSeq(ls[a + i - 1], From(i), To(i))
    <3>1. Clamped(ls, a + i - 1, p, q)
            = <<IF i = 1 THEN p[2] ELSE 0, IF i = n THEN q[2] ELSE Len(ls[a + i - 1])>>
      BY <1>1, <1>3
    <3>2. /\ Clamped(ls, a + i - 1, p, q)[1] + 1 = From(i)
          /\ Clamped(ls, a + i - 1, p, q)[2] = To(i)
      BY <3>1
    <3> HIDE DEF From, To, a
    <3> QED  BY <3>2
  <2>3. Y = X
    <3> HIDE DEF From, To
    <3> QED  BY <2>2 DEF n
  <2> QED  BY <2>1, <2>3
<1>7. Parts(Copied(ls, p, q)) = X /\ Copied(ls, p, q) \in Text
  <2> HIDE DEF X
  <2> QED  BY <1>5, <1>6, PartsOfFlat, FlatTyped
<1>8. \A i \in 1..Len(X) :
        X[i] = SubSeq(ls[p[1] + i - 1],
                      (IF i = 1 THEN p[2] ELSE 0) + 1,
                      IF i = Len(X) THEN q[2] ELSE Len(ls[p[1] + i - 1]))
  BY <1>5
<1> HIDE DEF X
<1> QED
  BY <1>5, <1>7, <1>8 DEF n

(* A sequence cut twice. *)
LEMMA ThreeParts ==
  ASSUME NEW S, NEW l \in Seq(S), NEW f \in 0..Len(l), NEW t \in f..Len(l)
  PROVE  (SubSeq(l, 1, f) \o SubSeq(l, f + 1, t)) \o SubSeq(l, t + 1, Len(l)) = l
<1>1. Len(l) \in Nat /\ 1 \in 1..Len(l) + 1 /\ f \in 1 - 1..Len(l) /\ t \in 1 - 1..Len(l)
      /\ Len(l) \in t..Len(l) /\ f \in Int /\ t \in Int
  BY LenProperties
<1>2. SubSeq(l, 1, f) \o SubSeq(l, f + 1, t) = SubSeq(l, 1, t)
  BY <1>1, ConcatAdjacentSubSeq
<1>3. SubSeq(l, 1, t) \o SubSeq(l, t + 1, Len(l)) = SubSeq(l, 1, Len(l))
  BY <1>1, ConcatAdjacentSubSeq
<1> QED
  BY <1>2, <1>3, SubSeqFull

(* What is left around two places of the text when it is deleted between      *)
(* them: the lines before and behind, and one line joined of two.             *)
LineBefore(ls, p) == SubSeq(ls[p[1]], 1, p[2])
LineBehind(ls, q) == SubSeq(ls[q[1]], q[2] + 1, Len(ls[q[1]]))

LEMMA DeletedParts ==
  ASSUME NEW ls \in Rows, NEW p \in PlacesOf(ls), NEW q \in PlacesOf(ls), Before(p, q)
  PROVE  LET cut == Deleted(ls, p, q)
             pre == LineBefore(ls, p)
             post == LineBehind(ls, q)
         IN  /\ pre \in Row /\ Len(pre) = p[2] /\ post \in Row
             /\ cut \in Rows /\ p[1] \in 1..Len(cut)
             /\ cut[p[1]] = pre \o post
             /\ SubSeq(cut, 1, p[1] - 1) = SubSeq(ls, 1, p[1] - 1)
             /\ SubSeq(cut, p[1] + 1, Len(cut)) = SubSeq(ls, q[1] + 1, Len(ls))
<1> DEFINE a == p[1]  c == q[1]
           cut == Deleted(ls, p, q)  pre == LineBefore(ls, p)  post == LineBehind(ls, q)
           u == SubSeq(ls, 1, a - 1)  v == SubSeq(ls, c + 1, Len(ls))
<1>1. /\ InLastLine(ls, q) = q
      /\ a \in 1..Len(ls) /\ c \in a..Len(ls)
      /\ p[2] \in 0..Len(ls[a]) /\ q[2] \in 0..Len(ls[c])
      /\ Clamped(ls, a, p, q)[1] = p[2] /\ Clamped(ls, c, p, q)[2] = q[2]
  <2>1. /\ InLastLine(ls, q) = q
        /\ a \in 1..Len(ls) /\ c \in a..Len(ls)
        /\ p[2] \in 0..Len(ls[a]) /\ q[2] \in 0..Len(ls[c])
        /\ \A l \in a..c :
             Clamped(ls, l, p, q) = <<IF l = a THEN p[2] ELSE 0, IF l = c THEN q[2] ELSE Len(ls[l])>>
    BY BetweenPlaces
  <2>2. a \in a..c /\ c \in a..c  BY <2>1
  <2>3. /\ Clamped(ls, a, p, q) = <<p[2], IF a = c THEN q[2] ELSE Len(ls[a])>>
        /\ Clamped(ls, c, p, q) = <<IF c = a THEN p[2] ELSE 0, q[2]>>
    BY <2>1, <2>2
  <2> QED  BY <2>1, <2>3
<1>2. /\ ls \in Seq(Row) /\ Len(ls) \in Nat
      /\ ls[a] \in Row /\ Len(ls[a]) \in Nat /\ ls[c] \in Row /\ Len(ls[c]) \in Nat
      /\ a \in Int /\ c \in Int /\ c \in 1..Len(ls)
  BY <1>1, RowsTyped
<1>3. pre \in Row /\ Len(pre) = p[2]
  <2> DEFINE l == ls[a]  b == p[2]
  <2>1. l \in Seq(Chars) /\ 1 \in 1..Len(l) + 1 /\ b \in 1 - 1..Len(l) /\ b - 1 + 1 = b
    BY <1>1, <1>2 DEF Row
  <2>2. pre = SubSeq(l, 1, b)
    BY DEF LineBefore
  <2> HIDE DEF l, b
  <2>3. SubSeq(l, 1, b) \in Seq(Chars) /\ Len(SubSeq(l, 1, b)) = b - 1 + 1
    BY <2>1, SubSeqTyped
  <2> HIDE DEF pre
  <2>4. pre \in Seq(Chars) /\ Len(pre) = b  BY <2>1, <2>2, <2>3
  <2> QED  BY <2>4 DEF b, Row, pre
<1>4. post \in Row
  <2> DEFINE l == ls[c]  b == q[2] + 1
  <2>1. l \in Seq(Chars) /\ b \in 1..Len(l) + 1 /\ Len(l) \in b - 1..Len(l)
        /\ post = SubSeq(l, b, Len(l))
    BY <1>1, <1>2, SMTT(30) DEF Row, LineBehind
  <2> HIDE DEF l, b
  <2> QED  BY <2>1, SubSeqTyped DEF Row
<1>5. pre \o post \in Row
  BY <1>3, <1>4, ConcatProperties DEF Row
<1>6. u \in Seq(Row) /\ Len(u) = a - 1
  <2> DEFINE b == a - 1
  <2>1. 1 \in 1..Len(ls) + 1 /\ b \in 1 - 1..Len(ls) /\ b - 1 + 1 = a - 1
    BY <1>1, <1>2
  <2> HIDE DEF b
  <2>2. SubSeq(ls, 1, b) \in Seq(Row) /\ Len(SubSeq(ls, 1, b)) = a - 1
    BY <1>2, <2>1, SubSeqTyped
  <2> QED  BY <2>2 DEF b
<1>7. v \in Seq(Row)
  <2> DEFINE b == c + 1
  <2>1. b \in 1..Len(ls) + 1 /\ Len(ls) \in b - 1..Len(ls)
    BY <1>1, <1>2
  <2> HIDE DEF b
  <2>2. SubSeq(ls, b, Len(ls)) \in Seq(Row)
    BY <1>2, <2>1, SubSeqTyped
  <2> QED  BY <2>2 DEF b
<1>8. cut = Around(u, pre \o post, v)
  <2>1. ~(p[1] > Len(ls))  BY <1>1, <1>2
  <2>2. cut = (SubSeq(ls, 1, p[1] - 1)
                 \o <<SubSeq(ls[p[1]], 1, Clamped(ls, p[1], p, InLastLine(ls, q))[1])
                        \o SubSeq(ls[InLastLine(ls, q)[1]],
                                  Clamped(ls, InLastLine(ls, q)[1], p, InLastLine(ls, q))[2] + 1,
                                  Len(ls[InLastLine(ls, q)[1]]))>>)
                \o SubSeq(ls, InLastLine(ls, q)[1] + 1, Len(ls))
    BY <2>1, Zenon DEF Deleted
  <2>3. cut = (SubSeq(ls, 1, a - 1) \o <<SubSeq(ls[a], 1, p[2]) \o SubSeq(ls[c], q[2] + 1, Len(ls[c]))>>)
                \o SubSeq(ls, c + 1, Len(ls))
    BY <1>1, <2>2, Zenon
  <2> QED  BY <2>3, Zenon DEF Around, LineBefore, LineBehind
<1> HIDE DEF u, v, a, c, cut, pre, post
<1>9. /\ cut \in Seq(Row) /\ Len(cut) = Len(u) + 1 + Len(v)
      /\ cut[Len(u) + 1] = pre \o post
      /\ SubSeq(cut, 1, Len(u)) = u
      /\ SubSeq(cut, Len(u) + 2, Len(cut)) = v
  <2> DEFINE mid == pre \o post
  <2>1. mid \in Row /\ cut = Around(u, mid, v)  BY <1>5, <1>8
  <2> HIDE DEF mid
  <2>2. /\ Around(u, mid, v) \in Seq(Row) /\ Len(Around(u, mid, v)) = Len(u) + 1 + Len(v)
        /\ Around(u, mid, v)[Len(u) + 1] = mid
        /\ SubSeq(Around(u, mid, v), 1, Len(u)) = u
        /\ SubSeq(Around(u, mid, v), Len(u) + 2, Len(Around(u, mid, v))) = v
    <3>1. u \in Seq(Row) /\ v \in Seq(Row) /\ mid \in Row  BY <1>6, <1>7, <2>1
    <3>2. Around(u, mid, v) \in Seq(Row) /\ Len(Around(u, mid, v)) = Len(u) + 1 + Len(v)
      BY <3>1, AroundOne
    <3>3. Around(u, mid, v)[Len(u) + 1] = mid
      BY <3>1, AroundOne
    <3>4. SubSeq(Around(u, mid, v), 1, Len(u)) = u
      BY <3>1, AroundOne
    <3>5. SubSeq(Around(u, mid, v), Len(u) + 2, Len(Around(u, mid, v))) = v
      BY <3>1, AroundOne
    <3> QED  BY <3>2, <3>3, <3>4, <3>5
  <2>3. /\ cut \in Seq(Row) /\ Len(cut) = Len(u) + 1 + Len(v)
        /\ cut[Len(u) + 1] = mid
        /\ SubSeq(cut, 1, Len(u)) = u
        /\ SubSeq(cut, Len(u) + 2, Len(cut)) = v
    BY <2>1, <2>2
  <2> QED  BY <2>3 DEF mid
<1>10. Len(v) \in Nat /\ Len(u) + 1 = a /\ Len(u) + 2 = a + 1 /\ Len(cut) # 0
  BY <1>1, <1>2, <1>6, <1>7, <1>9, LenProperties
<1>11. cut \in Rows /\ a \in 1..Len(cut)
  <2>1. cut # <<>>  BY <1>10, EmptySeq
  <2> QED  BY <1>1, <1>2, <1>9, <1>10, <2>1 DEF Rows
<1> QED
  BY <1>3, <1>4, <1>6, <1>9, <1>10, <1>11 DEF u, v, a, c, cut, pre, post

(* What is cut between two places of the text can be pasted back.              *)
LEMMA CutThenPaste ==
  ASSUME NEW ls \in Rows, NEW p \in PlacesOf(ls), NEW q \in PlacesOf(ls), Before(p, q)
  PROVE  /\ Inserted(Deleted(ls, p, q), p, Copied(ls, p, q)) = ls
         /\ Behind(Deleted(ls, p, q), p, Copied(ls, p, q)) = q
<1> DEFINE a == p[1]  b == p[2]  c == q[1]  d == q[2]
           cut == Deleted(ls, p, q)  s == Copied(ls, p, q)
           pre == LineBefore(ls, p)  post == LineBehind(ls, q)
           mid == pre \o post
<1>1. /\ a \in 1..Len(ls) /\ c \in a..Len(ls)
      /\ b \in 0..Len(ls[a]) /\ d \in 0..Len(ls[c])
      /\ (a = c => b <= d)
  BY BetweenPlaces
<1>2. /\ ls \in Seq(Row) /\ Len(ls) \in Nat
      /\ \A i \in 1..Len(ls) : ls[i] \in Row /\ Len(ls[i]) \in Nat
  BY RowsTyped
<1>3. /\ pre \in Row /\ Len(pre) = b /\ post \in Row
      /\ cut[a] = mid
      /\ SubSeq(cut, 1, a - 1) = SubSeq(ls, 1, a - 1)
      /\ SubSeq(cut, a + 1, Len(cut)) = SubSeq(ls, c + 1, Len(ls))
  BY DeletedParts
<1>4. PICK X \in Rows :
        /\ Parts(s) = X
        /\ Len(X) = c - a + 1
        /\ \A i \in 1..Len(X) :
             X[i] = SubSeq(ls[a + i - 1],
                           (IF i = 1 THEN b ELSE 0) + 1,
                           IF i = Len(X) THEN d ELSE Len(ls[a + i - 1]))
  BY CopiedParts
<1>5. pre = SubSeq(ls[a], 1, b) /\ post = SubSeq(ls[c], d + 1, Len(ls[c]))
  BY DEF LineBefore, LineBehind
<1> HIDE DEF a, b, c, d, cut, s
<1> DEFINE n == Len(X)
           new == [k \in 1..n |->
                     ((IF k = 1 THEN pre ELSE <<>>) \o X[k]) \o (IF k = n THEN post ELSE <<>>)]
<1>6. /\ n \in Nat /\ 1 <= n /\ n = c - a + 1 /\ a \in Int /\ c \in Int
      /\ \A k \in 1..n : a + k - 1 \in 1..Len(ls)
      /\ \A k \in 1..n : (k = 1 <=> a + k - 1 = a) /\ (k = n <=> a + k - 1 = c)
  BY <1>1, <1>2, <1>4
<1>7. Len(mid) \in Nat /\ b <= Len(mid)
      /\ SubSeq(mid, 1, b) = pre /\ SubSeq(mid, b + 1, Len(mid)) = post
  <2> HIDE DEF pre, post
  <2>1. Len(mid) = Len(pre) + Len(post) /\ Len(post) \in Nat /\ Len(pre) \in Nat
    BY <1>3, ConcatProperties, LenProperties DEF Row
  <2>2. SubSeq(pre \o post, 1, Len(pre)) = pre
        /\ SubSeq(pre \o post, Len(pre) + 1, Len(pre \o post)) = post
    BY <1>3, ConcatSplits DEF Row
  <2>3. b = Len(pre)  BY <1>3
  <2> HIDE DEF mid
  <2>4. Len(mid) \in Nat /\ b <= Len(mid)  BY <2>1, <2>3 DEF mid
  <2>5. SubSeq(mid, 1, b) = pre /\ SubSeq(mid, b + 1, Len(mid)) = post
    BY <2>2, <2>3, Zenon DEF mid
  <2> QED  BY <2>4, <2>5
<1>8. Smaller(b, Len(mid)) = b
  <2> HIDE DEF mid
  <2>1. b \in Int  BY <1>1
  <2> QED  BY <1>7, <2>1 DEF Smaller
<1>9. Inserted(cut, p, s) = (SubSeq(cut, 1, a - 1) \o new) \o SubSeq(cut, a + 1, Len(cut))
  <2> HIDE DEF mid, pre, post
  <2> QED  BY <1>3, <1>4, <1>7, <1>8 DEF Inserted, a, b
<1>10. ASSUME NEW k \in 1..n
      PROVE  new[k] = ls[a + k - 1]
  <2> DEFINE l == ls[a + k - 1]
             f == IF k = 1 THEN b ELSE 0
             t == IF k = n THEN d ELSE Len(l)
  <2>1. l \in Seq(Chars) /\ Len(l) \in Nat  BY <1>2, <1>6 DEF Row
  <2>2. f \in 0..Len(l) /\ t \in f..Len(l)
    <3>1. (k = 1 => l = ls[a]) /\ (k = n => l = ls[c])  BY <1>6
    <3>2. k = 1 /\ k = n => a = c  BY <1>6
    <3> HIDE DEF l, n
    <3> QED  BY <1>1, <2>1, <3>1, <3>2
  <2>3. X[k] = SubSeq(l, f + 1, t)
    BY <1>4
  <2>4. (IF k = 1 THEN pre ELSE <<>>) = SubSeq(l, 1, f)
    <3>1. CASE k = 1
      <4>1. l = ls[a]  BY <1>6, <3>1
      <4> HIDE DEF l, pre
      <4> QED  BY <1>5, <3>1, <4>1
    <3>2. CASE k # 1
      <4>1. SubSeq(l, 1, 0) = <<>>  BY SubSeqEmpty
      <4> QED  BY <3>2, <4>1
    <3> QED  BY <3>1, <3>2
  <2>5. (IF k = n THEN post ELSE <<>>) = SubSeq(l, t + 1, Len(l))
    <3>1. CASE k = n
      <4>1. l = ls[c]  BY <1>6, <3>1
      <4> HIDE DEF l, post, n
      <4> QED  BY <1>5, <3>1, <4>1
    <3>2. CASE k # n
      <4>1. SubSeq(l, Len(l) + 1, Len(l)) = <<>>
        <5> HIDE DEF l
        <5> QED  BY <2>1, SubSeqEmpty
      <4> QED  BY <3>2, <4>1
    <3> QED  BY <3>1, <3>2
  <2>6. new[k] = (SubSeq(l, 1, f) \o SubSeq(l, f + 1, t)) \o SubSeq(l, t + 1, Len(l))
    <3>1. new[k] = ((IF k = 1 THEN pre ELSE <<>>) \o X[k]) \o (IF k = n THEN post ELSE <<>>)
      BY DEF new
    <3> HIDE DEF l, f, t, new, pre, post, n
    <3> QED  BY <2>3, <2>4, <2>5, <3>1
  <2> HIDE DEF l, f, t
  <2>7. (SubSeq(l, 1, f) \o SubSeq(l, f + 1, t)) \o SubSeq(l, t + 1, Len(l)) = l
    BY <2>1, <2>2, ThreeParts
  <2> QED  BY <2>6, <2>7 DEF l
<1>11. new = SubSeq(ls, (a - 1) + 1, c)
  <2> DEFINE m == SubSeq(ls, a, c)
  <2>1. a \in 1..Len(ls) + 1 /\ c \in a - 1..Len(ls) /\ (a - 1) + 1 = a /\ c - a + 1 = n
    BY <1>1, <1>2, <1>6
  <2>2. m \in Seq(Row) /\ Len(m) = c - a + 1 /\ \A k \in 1..c - a + 1 : m[k] = ls[a + k - 1]
    BY <1>2, <2>1, SubSeqTyped
  <2>3. new \in Seq(Row) /\ Len(new) = n
    <3>1. \A k \in 1..n : new[k] \in Row  BY <1>2, <1>6, <1>10
    <3>2. new = [k \in 1..n |-> new[k]]  OBVIOUS
    <3> HIDE DEF new, n
    <3>3. new \in [1..n -> Row]  BY <3>1, <3>2
    <3> QED  BY <1>6, <3>3
  <2> HIDE DEF m, n, new
  <2>4. \A k \in 1..n : new[k] = m[k]  BY <1>10, <2>1, <2>2
  <2>5. new = m  BY <2>1, <2>2, <2>3, <2>4, SeqEqual
  <2> QED  BY <2>1, <2>5 DEF m
<1>12. Inserted(cut, p, s) = ls
  <2> DEFINE f == a - 1
  <2>1. f \in 0..Len(ls) /\ c \in f..Len(ls)  BY <1>1, <1>2
  <2> HIDE DEF new
  <2>2. Inserted(cut, p, s) = (SubSeq(ls, 1, f) \o SubSeq(ls, f + 1, c)) \o SubSeq(ls, c + 1, Len(ls))
    BY <1>3, <1>9, <1>11
  <2> HIDE DEF f
  <2>3. (SubSeq(ls, 1, f) \o SubSeq(ls, f + 1, c)) \o SubSeq(ls, c + 1, Len(ls)) = ls
    BY <1>2, <2>1, ThreeParts
  <2> QED  BY <2>2, <2>3
<1>13. Behind(cut, p, s) = q
  <2>1. Behind(cut, p, s) = <<a + n - 1, (IF n = 1 THEN b ELSE 0) + Len(X[n])>>
    <3> HIDE DEF mid
    <3> QED  BY <1>3, <1>4, <1>8 DEF Behind, a, b
  <2>2. a + n - 1 = c /\ n \in 1..n  BY <1>6
  <2> DEFINE f == IF n = 1 THEN b ELSE 0
             l == ls[c]
  <2>3. X[n] = SubSeq(l, f + 1, d)
    BY <1>4, <2>2
  <2>4. l \in Seq(Chars) /\ Len(l) \in Nat /\ d \in Int /\ f \in Int
        /\ f + 1 \in 1..Len(l) + 1 /\ d \in (f + 1) - 1..Len(l)
    <3>1. c \in 1..Len(ls) /\ b \in Int /\ (n = 1 => a = c)  BY <1>1, <1>2, <1>6
    <3>2. l \in Seq(Chars) /\ Len(l) \in Nat  BY <1>2, <3>1 DEF Row
    <3> HIDE DEF n
    <3> QED  BY <1>1, <3>1, <3>2
  <2>5. f + Len(X[n]) = d
    <3> DEFINE g == f + 1
    <3>1. g \in 1..Len(l) + 1 /\ d \in g - 1..Len(l) /\ f + (d - g + 1) = d
      BY <2>4
    <3> HIDE DEF l, g, f
    <3>2. Len(SubSeq(l, g, d)) = d - g + 1  BY <2>4, <3>1, SubSeqTyped
    <3>3. X[n] = SubSeq(l, g, d)  BY <2>3 DEF g
    <3> QED  BY <3>1, <3>2, <3>3
  <2>6. q = <<c, d>>  BY PlacesTyped DEF c, d
  <2> HIDE DEF n
  <2> QED  BY <2>1, <2>2, <2>5, <2>6
<1> QED
  BY <1>12, <1>13 DEF cut, s

-----------------------------------------------------------------------------
(* What the operations of the keys return *)

LEMMA AnywhereTyped ==
  ASSUME NEW p \in Anywhere
  PROVE  p[1] \in Nat /\ 1 <= p[1] /\ p[2] \in Nat /\ p = <<p[1], p[2]>>
BY DEF Anywhere

LEMMA RemoveAtTyped ==
  ASSUME NEW S, NEW s \in Seq(S), NEW i \in 1..Len(s)
  PROVE  RemoveAt(s, i) \in Seq(S) /\ Len(RemoveAt(s, i)) = Len(s) - 1
<1> DEFINE h == i - 1  j == i + 1
<1>1. Len(s) \in Nat /\ i \in Nat
  BY LenProperties
<1>2. 1 \in 1..Len(s) + 1 /\ h \in 1 - 1..Len(s) /\ h - 1 + 1 = h
  BY <1>1
<1>3. j \in 1..Len(s) + 1 /\ Len(s) \in j - 1..Len(s)
  BY <1>1
<1> HIDE DEF h, j
<1>4. SubSeq(s, 1, h) \in Seq(S) /\ Len(SubSeq(s, 1, h)) = h
  BY <1>2, SubSeqTyped
<1>5. SubSeq(s, j, Len(s)) \in Seq(S) /\ Len(SubSeq(s, j, Len(s))) = Len(s) - j + 1
  BY <1>3, SubSeqTyped
<1> DEFINE u == SubSeq(s, 1, h)  v == SubSeq(s, j, Len(s))
<1>6. u \in Seq(S) /\ v \in Seq(S)
  BY <1>4, <1>5
<1>7. Len(u) = h /\ Len(v) = Len(s) - j + 1
  BY <1>4, <1>5
<1> HIDE DEF u, v
<1>8. u \o v \in Seq(S) /\ Len(u \o v) = Len(u) + Len(v)
  BY <1>6, ConcatProperties
<1>9. RemoveAt(s, i) = u \o v
  BY DEF RemoveAt, u, v, h, j
<1>10. Len(u) + Len(v) = Len(s) - 1
  BY <1>1, <1>7 DEF h, j
<1> QED
  BY <1>8, <1>9, <1>10

(* A part of a line lies in the line. *)
LEMMA ClampedTyped ==
  ASSUME NEW ls \in Rows, NEW l \in 1..Len(ls), NEW s, NEW e, s[2] \in Nat, e[2] \in Nat
  PROVE  /\ Clamped(ls, l, s, e)[1] \in 0..Len(ls[l])
         /\ Clamped(ls, l, s, e)[2] \in Clamped(ls, l, s, e)[1]..Len(ls[l])
<1>1. Len(ls[l]) \in Nat
  BY RowsTyped
<1> DEFINE n == Len(ls[l])
           from == IF l = s[1] THEN Smaller(s[2], n) ELSE 0
           to == IF l = e[1] THEN Smaller(e[2], n) ELSE n
<1>2. from \in 0..n /\ to \in 0..n
  BY <1>1 DEF Smaller
<1>3. Clamped(ls, l, s, e) = <<from, IF to < from THEN from ELSE to>>
  BY DEF Clamped
<1> HIDE DEF n, from, to
<1>4. n \in Nat
  BY <1>1 DEF n
<1>5. from \in 0..n /\ (IF to < from THEN from ELSE to) \in from..n
  BY <1>2, <1>4
<1>6. /\ Clamped(ls, l, s, e)[1] = from
      /\ Clamped(ls, l, s, e)[2] = IF to < from THEN from ELSE to
  BY <1>3
<1> QED
  BY <1>5, <1>6 DEF n

LEMMA PartsOfLines ==
  ASSUME NEW ls \in Rows, NEW l \in 1..Len(ls), NEW s, NEW e, s[2] \in Nat, e[2] \in Nat
  PROVE  /\ SubSeq(ls[l], 1, Clamped(ls, l, s, e)[1]) \in Row
         /\ SubSeq(ls[l], Clamped(ls, l, s, e)[1] + 1, Clamped(ls, l, s, e)[2]) \in Row
         /\ SubSeq(ls[l], Clamped(ls, l, s, e)[2] + 1, Len(ls[l])) \in Row
<1> DEFINE f == Clamped(ls, l, s, e)[1]  t == Clamped(ls, l, s, e)[2]  r == ls[l]
           f1 == f + 1  t1 == t + 1
<1>1. f \in 0..Len(r) /\ t \in f..Len(r)
  BY ClampedTyped
<1>2. r \in Seq(Chars) /\ Len(r) \in Nat
  BY RowsTyped DEF Row
<1> HIDE DEF f, t, r
<1>3. /\ 1 \in 1..Len(r) + 1 /\ f \in 1 - 1..Len(r)
      /\ f1 \in 1..Len(r) + 1 /\ t \in f1 - 1..Len(r)
      /\ t1 \in 1..Len(r) + 1 /\ Len(r) \in t1 - 1..Len(r)
  BY <1>1, <1>2
<1> HIDE DEF f1, t1
<1>4. SubSeq(r, 1, f) \in Seq(Chars)
  BY <1>2, <1>3, SubSeqTyped
<1>5. SubSeq(r, f1, t) \in Seq(Chars)
  BY <1>2, <1>3, SubSeqTyped
<1>6. SubSeq(r, t1, Len(r)) \in Seq(Chars)
  BY <1>2, <1>3, SubSeqTyped
<1> QED
  BY <1>4, <1>5, <1>6 DEF Row, f, t, f1, t1, r

LEMMA LastLineTyped ==
  ASSUME NEW ls \in Rows, NEW s \in Anywhere, NEW end \in Anywhere,
         s[1] <= Len(ls), s[1] <= end[1]
  PROVE  LET e == InLastLine(ls, end)
         IN  s[1] \in 1..Len(ls) /\ e[1] \in s[1]..Len(ls) /\ e[2] \in Nat /\ s[2] \in Nat
<1>1. Len(ls) \in Nat
  BY RowsTyped
<1> QED
  BY <1>1, AnywhereTyped DEF InLastLine, Smaller

LEMMA CopiedTyped ==
  ASSUME NEW ls \in Rows, NEW s \in Anywhere, NEW end \in Anywhere,
         s[1] <= Len(ls), s[1] <= end[1]
  PROVE  Copied(ls, s, end) \in Text
<1> DEFINE e == InLastLine(ls, end)  n == e[1] - s[1] + 1
           part(i) == SubSeq(ls[s[1] + i - 1], Clamped(ls, s[1] + i - 1, s, e)[1] + 1,
                             Clamped(ls, s[1] + i - 1, s, e)[2])
           X == [i \in 1..n |-> part(i)]
<1>1. s[1] \in 1..Len(ls) /\ e[1] \in s[1]..Len(ls) /\ e[2] \in Nat /\ s[2] \in Nat
  BY LastLineTyped
<1>2. Len(ls) \in Nat
  BY RowsTyped
<1> HIDE DEF e
<1>3. n \in Nat /\ 1 <= n /\ \A i \in 1..n : s[1] + i - 1 \in 1..Len(ls)
  <2> DEFINE a == s[1]  b == e[1]
  <2>1. a \in Int /\ b \in Int /\ 1 <= a /\ a <= b /\ b <= Len(ls)  BY <1>1, <1>2
  <2> HIDE DEF a, b
  <2>2. b - a + 1 \in Nat /\ 1 <= b - a + 1 /\ \A i \in 1..b - a + 1 : a + i - 1 \in 1..Len(ls)
    BY <1>2, <2>1
  <2> QED  BY <2>2 DEF a, b
<1> HIDE DEF n
<1>4. \A i \in 1..n : part(i) \in Row
  BY <1>1, <1>3, PartsOfLines
<1>5. X \in Rows
  <2> HIDE DEF part
  <2>1. X \in [1..n -> Row]  BY <1>4
  <2> HIDE DEF X
  <2>2. X \in Seq(Row) /\ Len(X) = n  BY <1>3, <2>1
  <2>3. X # <<>>  BY <1>3, <2>2, EmptySeq
  <2> QED  BY <2>2, <2>3 DEF Rows
<1>6. Copied(ls, s, end) = Flat(X)
  BY DEF Copied, e, n
<1> HIDE DEF X
<1> QED
  BY <1>5, <1>6, FlatTyped

(* Lines around another part of the text are lines again. *)
LEMMA LinesAround ==
  ASSUME NEW ls \in Rows, NEW i \in 0..Len(ls), NEW j \in 1..Len(ls) + 1,
         NEW new \in Seq(Row), new # <<>>
  PROVE  (SubSeq(ls, 1, i) \o new) \o SubSeq(ls, j, Len(ls)) \in Rows
<1> DEFINE u == SubSeq(ls, 1, i)  v == SubSeq(ls, j, Len(ls))
<1>1. ls \in Seq(Row) /\ Len(ls) \in Nat
  BY RowsTyped
<1>2. 1 \in 1..Len(ls) + 1 /\ i \in 1 - 1..Len(ls) /\ Len(ls) \in j - 1..Len(ls)
  BY <1>1
<1>3. u \in Seq(Row)
  BY <1>1, <1>2, SubSeqTyped
<1>4. v \in Seq(Row)
  BY <1>1, <1>2, SubSeqTyped
<1> HIDE DEF u, v
<1>5. u \o new \in Seq(Row) /\ u \o new # <<>>
  BY <1>3, ConcatProperties, ConcatEqualIffEmpty
<1> DEFINE w == u \o new
<1>6. w \in Seq(Row) /\ w # <<>>
  BY <1>5
<1> HIDE DEF w
<1>7. w \o v \in Seq(Row) /\ w \o v # <<>>
  BY <1>4, <1>6, ConcatProperties, ConcatEqualIffEmpty
<1> QED
  BY <1>7 DEF w, u, v, Rows

LEMMA DeletedTyped ==
  ASSUME NEW ls \in Rows, NEW s \in Anywhere, NEW end \in Anywhere, s[1] <= end[1]
  PROVE  Deleted(ls, s, end) \in Rows
<1>1. CASE s[1] > Len(ls)
  BY <1>1 DEF Deleted
<1>2. CASE ~(s[1] > Len(ls))
  <2> DEFINE e == InLastLine(ls, end)
             pre == SubSeq(ls[s[1]], 1, Clamped(ls, s[1], s, e)[1])
             rest == SubSeq(ls[e[1]], Clamped(ls, e[1], s, e)[2] + 1, Len(ls[e[1]]))
  <2>1. Len(ls) \in Nat /\ s[1] \in Nat /\ s[1] <= Len(ls)
    BY <1>2, RowsTyped, AnywhereTyped
  <2>2. s[1] \in 1..Len(ls) /\ e[1] \in s[1]..Len(ls) /\ e[2] \in Nat /\ s[2] \in Nat
    BY <2>1, LastLineTyped
  <2>3. Deleted(ls, s, end) = (SubSeq(ls, 1, s[1] - 1) \o <<pre \o rest>>) \o SubSeq(ls, e[1] + 1, Len(ls))
    BY <1>2, Zenon DEF Deleted
  <2> HIDE DEF e
  <2>4. e[1] \in 1..Len(ls)  BY <2>1, <2>2
  <2>5. pre \in Row  BY <2>2, PartsOfLines
  <2>6. rest \in Row  BY <2>2, <2>4, PartsOfLines
  <2> HIDE DEF pre, rest
  <2>7. pre \o rest \in Row  BY <2>5, <2>6, ConcatProperties DEF Row
  <2> DEFINE i == s[1] - 1  j == e[1] + 1  new == <<pre \o rest>>
  <2>8. i \in 0..Len(ls) /\ j \in 1..Len(ls) + 1  BY <2>1, <2>2, <2>4
  <2>9. new \in Seq(Row) /\ new # <<>>
    <3> DEFINE m == pre \o rest
    <3>1. m \in Row  BY <2>7
    <3> HIDE DEF m
    <3>2. <<m>> \in Seq(Row) /\ Len(<<m>>) = 1  BY <3>1
    <3>3. <<m>> # <<>>  BY <3>2, EmptySeq
    <3> QED  BY <3>2, <3>3 DEF m
  <2> HIDE DEF i, j, new
  <2>10. (SubSeq(ls, 1, i) \o new) \o SubSeq(ls, j, Len(ls)) \in Rows
    BY <2>8, <2>9, LinesAround
  <2> QED  BY <2>3, <2>10 DEF i, j, new
<1> QED
  BY <1>1, <1>2

LEMMA InsertedTyped ==
  ASSUME NEW ls \in Rows, NEW p \in Anywhere, p[1] <= Len(ls), NEW s \in Text
  PROVE  Inserted(ls, p, s) \in Rows /\ Behind(ls, p, s) \in Anywhere
<1> DEFINE line == ls[p[1]]
           col == Smaller(p[2], Len(line))
           ps == Parts(s)
           n == Len(ps)
           pre == SubSeq(line, 1, col)
           post == SubSeq(line, col + 1, Len(line))
           part(k) == ((IF k = 1 THEN pre ELSE <<>>) \o ps[k]) \o (IF k = n THEN post ELSE <<>>)
           new == [k \in 1..n |-> part(k)]
<1>1. p[1] \in 1..Len(ls) /\ p[2] \in Nat /\ p[1] \in Nat /\ Len(ls) \in Nat
  BY AnywhereTyped, RowsTyped
<1>2. line \in Seq(Chars) /\ Len(line) \in Nat
  BY <1>1, RowsTyped DEF Row
<1>3. ps \in Rows
  BY PartsTyped
<1> HIDE DEF ps
<1>4. n \in Nat /\ 1 <= n /\ \A k \in 1..n : ps[k] \in Row /\ Len(ps[k]) \in Nat
  BY <1>3, RowsTyped
<1>5. col \in 0..Len(line)
  <2> HIDE DEF line
  <2> QED  BY <1>1, <1>2 DEF Smaller
<1> HIDE DEF line, col, n
<1>6. pre \in Row /\ post \in Row /\ <<>> \in Row
  <2> DEFINE c1 == col + 1
  <2>1. /\ 1 \in 1..Len(line) + 1 /\ col \in 1 - 1..Len(line)
        /\ c1 \in 1..Len(line) + 1 /\ Len(line) \in c1 - 1..Len(line)
    BY <1>2, <1>5
  <2> HIDE DEF c1
  <2>2. SubSeq(line, 1, col) \in Seq(Chars)  BY <1>2, <2>1, SubSeqTyped
  <2>3. SubSeq(line, c1, Len(line)) \in Seq(Chars)  BY <1>2, <2>1, SubSeqTyped
  <2> QED  BY <2>2, <2>3 DEF Row, c1
<1> HIDE DEF pre, post
<1>7. ASSUME NEW k \in 1..n PROVE part(k) \in Row
  <2> DEFINE a == IF k = 1 THEN pre ELSE <<>>  b == ps[k]  c == IF k = n THEN post ELSE <<>>
  <2>1. a \in Row /\ b \in Row /\ c \in Row  BY <1>4, <1>6
  <2> HIDE DEF a, b, c
  <2>2. a \o b \in Row  BY <2>1, ConcatProperties DEF Row
  <2>3. (a \o b) \o c \in Row  BY <2>1, <2>2, ConcatProperties DEF Row
  <2> QED  BY <2>3 DEF a, b, c
<1>8. new \in Seq(Row) /\ new # <<>>
  <2> HIDE DEF part
  <2>1. new \in [1..n -> Row]  BY <1>7
  <2> HIDE DEF new
  <2>2. new \in Seq(Row) /\ Len(new) = n  BY <1>4, <2>1
  <2>3. new # <<>>  BY <1>4, <2>2, EmptySeq
  <2> QED  BY <2>2, <2>3
<1>9. Inserted(ls, p, s) = (SubSeq(ls, 1, p[1] - 1) \o new) \o SubSeq(ls, p[1] + 1, Len(ls))
  BY DEF Inserted, line, col, ps, n, pre, post
<1>10. Inserted(ls, p, s) \in Rows
  <2> DEFINE i == p[1] - 1  j == p[1] + 1
  <2>1. i \in 0..Len(ls) /\ j \in 1..Len(ls) + 1  BY <1>1
  <2> HIDE DEF i, j, new
  <2>2. (SubSeq(ls, 1, i) \o new) \o SubSeq(ls, j, Len(ls)) \in Rows
    BY <1>8, <2>1, LinesAround
  <2> QED  BY <1>9, <2>2 DEF i, j
<1>11. Behind(ls, p, s) = <<p[1] + n - 1, (IF n = 1 THEN col ELSE 0) + Len(ps[n])>>
  BY DEF Behind, line, col, ps, n
<1>12. col \in Nat /\ Len(ps[n]) \in Nat
  BY <1>2, <1>4, <1>5
<1>13. Behind(ls, p, s) \in Anywhere
  <2> DEFINE a == p[1]  b == Len(ps[n])
  <2>1. a \in Nat /\ 1 <= a /\ b \in Nat  BY <1>1, <1>12
  <2> HIDE DEF a, b
  <2>2. a + n - 1 \in Nat \ {0} /\ (IF n = 1 THEN col ELSE 0) + b \in Nat
    BY <1>4, <1>12, <2>1
  <2>3. <<a + n - 1, (IF n = 1 THEN col ELSE 0) + b>> \in Anywhere
    BY <2>2 DEF Anywhere
  <2> QED  BY <1>11, <2>3 DEF a, b
<1> QED
  BY <1>10, <1>13

LEMMA UppercasedTyped ==
  ASSUME NEW ls \in Rows, NEW s, NEW end
  PROVE  Uppercased(ls, s, end) \in Rows
<1> DEFINE e == InLastLine(ls, end)
           In(l, c) == l \in s[1]..e[1] /\ Clamped(ls, l, s, e)[1] < c /\ c <= Clamped(ls, l, s, e)[2]
           up(l) == [c \in DOMAIN ls[l] |-> IF In(l, c) THEN Upper[ls[l][c]] ELSE ls[l][c]]
           U == [l \in DOMAIN ls |-> up(l)]
<1>1. /\ ls \in Seq(Row) /\ Len(ls) \in Nat /\ 1 <= Len(ls) /\ DOMAIN ls = 1..Len(ls)
      /\ \A i \in 1..Len(ls) : ls[i] \in Row /\ Len(ls[i]) \in Nat /\ DOMAIN ls[i] = 1..Len(ls[i])
  BY RowsTyped, LenProperties DEF Row
<1>2. Uppercased(ls, s, end) = U
  BY DEF Uppercased
<1> HIDE DEF In
<1>3. ASSUME NEW l \in 1..Len(ls) PROVE up(l) \in Row
  <2> DEFINE r == ls[l]
  <2>1. r \in Seq(Chars) /\ Len(r) \in Nat /\ DOMAIN r = 1..Len(r)  BY <1>1 DEF Row
  <2> HIDE DEF r
  <2>2. \A c \in 1..Len(r) : r[c] \in Chars  BY <2>1, ElementOfSeq
  <2>3. \A c \in 1..Len(r) : (IF In(l, c) THEN Upper[r[c]] ELSE r[c]) \in Chars
    BY <2>2, UpperIsTotal
  <2>4. [c \in DOMAIN r |-> IF In(l, c) THEN Upper[r[c]] ELSE r[c]] \in [1..Len(r) -> Chars]
    BY <2>1, <2>3
  <2>5. [c \in DOMAIN r |-> IF In(l, c) THEN Upper[r[c]] ELSE r[c]] \in Seq(Chars)
    <3> DEFINE x == [c \in DOMAIN r |-> IF In(l, c) THEN Upper[r[c]] ELSE r[c]]
    <3>1. x \in [1..Len(r) -> Chars]  BY <2>4
    <3> HIDE DEF x
    <3>2. x \in Seq(Chars)  BY <2>1, <3>1
    <3> QED  BY <3>2 DEF x
  <2> QED  BY <2>5 DEF r, Row
<1>4. U \in Rows
  <2> HIDE DEF up
  <2>1. U \in [1..Len(ls) -> Row]  BY <1>1, <1>3
  <2> HIDE DEF U
  <2>2. U \in Seq(Row) /\ Len(U) = Len(ls)  BY <1>1, <2>1
  <2>3. U # <<>>  BY <1>1, <2>2, EmptySeq
  <2> QED  BY <2>2, <2>3 DEF Rows
<1> QED
  BY <1>2, <1>4

(* Words start in the line. *)
LEMMA WordsTyped ==
  ASSUME NEW line \in Row, NEW col \in Nat
  PROVE  /\ WordLeft(line, col) \in Nat /\ WordRight(line, col) \in Nat
         /\ WordLeft(line, col) \in 0..Len(line) /\ WordRight(line, col) \in 0..Len(line)
<1> DEFINE n == Len(line)
           L == {0} \cup {c \in WordStarts(line) : c < col}
           R == {n} \cup {w \in WordStarts(line) : Smaller(col, n) < w}
           L1 == {c + 1 : c \in L}
<1>1. n \in Nat
  BY LenProperties DEF Row
<1>2. WordStarts(line) \subseteq 0..n
  BY <1>1 DEF WordStarts
<1>3. L \subseteq 0..n /\ L # {} /\ R \subseteq Nat /\ R # {} /\ R \subseteq 0..n
  BY <1>1, <1>2
<1>4. WordLeft(line, col) = Largest(L) /\ WordRight(line, col) = Least(R)
  BY DEF WordLeft, WordRight
<1> HIDE DEF L, R, n
<1>5. \E x \in L : \A y \in L : y <= x
  <2>1. L1 \subseteq 1..n + 1 /\ L1 # {} /\ n + 1 \in Nat
    <3>1. \A c \in L : c \in 0..n  BY <1>3
    <3>2. \A c \in L : c + 1 \in 1..n + 1  BY <1>1, <3>1
    <3>3. PICK c \in L : TRUE  BY <1>3
    <3>4. c + 1 \in L1  BY <3>3
    <3> QED  BY <1>1, <3>2, <3>4
  <2> DEFINE m == n + 1
  <2>2. m \in Nat /\ L1 \subseteq 1..m /\ L1 # {}  BY <2>1
  <2> HIDE DEF L1, m
  <2>3. Max(L1) \in L1 /\ \A y \in L1 : y <= Max(L1)  BY <2>2, MaxOfInterval
  <2>4. PICK x \in L : Max(L1) = x + 1  BY <2>3 DEF L1
  <2>5. \A y \in L : y + 1 <= x + 1  BY <2>3, <2>4 DEF L1
  <2>6. \A y \in L : y \in Int  BY <1>1, <1>3
  <2>7. \A y \in L : y <= x  BY <2>5, <2>6
  <2> QED  BY <2>7
<1>6. Largest(L) \in L
  BY <1>5 DEF Largest
<1>7. Least(R) \in R
  <2>1. Min(R) \in R /\ \A y \in R : Min(R) <= y  BY <1>3, MinOfNats
  <2> QED  BY <2>1 DEF Least
<1>8. Largest(L) \in 0..n
  BY <1>3, <1>6
<1>9. Largest(L) \in Nat
  BY <1>1, <1>8
<1>10. Least(R) \in Nat /\ Least(R) \in 0..n
  BY <1>3, <1>7
<1> QED
  BY <1>4, <1>8, <1>9, <1>10 DEF n

-----------------------------------------------------------------------------
(* Types *)

LEMMA TypeIs ==
  TypeOK <=> /\ lines \in Rows /\ cursor \in Anywhere
             /\ sel = None \/ sel \in Anywhere \X Anywhere
             /\ dragging \in BOOLEAN /\ undefined \in BOOLEAN
             /\ clip \in Text
BY DEF TypeOK, Rows, Row, Text

LEMMA TypeStep ==
  ASSUME lines' \in Rows, cursor' \in Anywhere,
         sel' = None \/ sel' \in Anywhere \X Anywhere,
         dragging' \in BOOLEAN, undefined' \in BOOLEAN, clip' \in Text
  PROVE  TypeOK'
BY DEF TypeOK, Rows, Row, Text

LEMMA PlaceIsAnywhere ==
  ASSUME NEW ls \in Rows, NEW p \in PlacesOf(ls)
  PROVE  p \in Anywhere
<1>1. p[1] \in 1..Len(ls) /\ p[2] \in 0..Len(ls[p[1]]) /\ p = <<p[1], p[2]>>
  BY PlacesTyped
<1>2. Len(ls) \in Nat /\ Len(ls[p[1]]) \in Nat
  BY <1>1, RowsTyped
<1>3. p[1] \in Nat \ {0} /\ p[2] \in Nat
  BY <1>1, <1>2
<1> QED
  BY <1>1, <1>3 DEF Anywhere

LEMMA LeavesTyped ==
  ASSUME TypeOK, NEW ls \in Rows, NEW p \in Anywhere,
         NEW s, s = None \/ s \in Anywhere \X Anywhere, Leaves(ls, p, s)
  PROVE  TypeOK'
<1>1. /\ lines' = ls /\ cursor' = p /\ sel' = s
      /\ dragging' = dragging /\ clip' = clip /\ undefined' = undefined
  BY DEF Leaves
<1>2. dragging \in BOOLEAN /\ undefined \in BOOLEAN /\ clip \in Text
  BY TypeIs
<1> QED
  BY <1>1, <1>2, TypeStep

LEMMA UndefinedTyped ==
  ASSUME Undefined
  PROVE  TypeOK'
<1>1. << <<>> >> \in Rows
  BY DEF Rows, Row
<1>2. <<1, 0>> \in Anywhere
  BY DEF Anywhere
<1>3. <<>> \in Text
  BY DEF Text
<1> QED
  BY <1>1, <1>2, <1>3, TypeStep DEF Undefined

LEMMA MovesTyped ==
  ASSUME TypeOK, NEW p \in Anywhere, MovesTo(p)
  PROVE  TypeOK'
<1>1. lines \in Rows /\ cursor \in Anywhere /\ (sel = None \/ sel \in Anywhere \X Anywhere)
  BY TypeIs
<1>2. CASE Leaves(lines, p, None)
  BY <1>1, <1>2, LeavesTyped
<1>3. CASE Leaves(lines, p, <<IF sel = None THEN cursor ELSE sel[1], p>>)
  <2> DEFINE s == <<IF sel = None THEN cursor ELSE sel[1], p>>
  <2>1. s \in Anywhere \X Anywhere
    <3>1. (IF sel = None THEN cursor ELSE sel[1]) \in Anywhere  BY <1>1
    <3> QED  BY <3>1
  <2>2. Leaves(lines, p, s)  BY <1>3
  <2> HIDE DEF s
  <2> QED  BY <1>1, <2>1, <2>2, LeavesTyped
<1> QED
  BY <1>2, <1>3 DEF MovesTo

(* A place in a line that exists. *)
LEMMA InLine ==
  ASSUME NEW ls \in Rows, NEW l \in Nat, 1 <= l, l <= Len(ls), NEW c \in Nat
  PROVE  /\ l \in 1..Len(ls) /\ ls[l] \in Row /\ Len(ls[l]) \in Nat
         /\ <<l, c>> \in Anywhere
         /\ <<l, Smaller(c, Len(ls[l]))>> \in Anywhere
         /\ <<l, Len(ls[l])>> \in Anywhere
<1>1. l \in 1..Len(ls)
  BY RowsTyped
<1>2. ls[l] \in Row /\ Len(ls[l]) \in Nat
  BY <1>1, RowsTyped
<1>3. Smaller(c, Len(ls[l])) \in Nat
  BY <1>2 DEF Smaller
<1> QED
  BY <1>1, <1>2, <1>3 DEF Anywhere

LEMMA MovingTyped ==
  ASSUME TypeOK, Up \/ Down \/ Left \/ Right \/ WordKeys \/ SelectAll
  PROVE  TypeOK'
<1>1. /\ lines \in Rows /\ cursor \in Anywhere /\ (sel = None \/ sel \in Anywhere \X Anywhere)
      /\ Line \in Nat /\ 1 <= Line /\ Col \in Nat /\ cursor = <<Line, Col>>
      /\ Len(lines) \in Nat /\ 1 <= Len(lines)
  BY TypeIs, AnywhereTyped, RowsTyped DEF Line, Col
<1> HIDE DEF Line, Col
<1>2. CASE Up
  <2>1. CASE Line > 1 /\ Line - 1 <= Len(lines)
    <3>1. Line - 1 \in Nat /\ 1 <= Line - 1  BY <1>1, <2>1
    <3>2. <<Line - 1, Smaller(Col, Len(lines[Line - 1]))>> \in Anywhere
      BY <1>1, <2>1, <3>1, InLine
    <3>3. MovesTo(<<Line - 1, Smaller(Col, Len(lines[Line - 1]))>>)  BY <1>2, <2>1 DEF Up
    <3> QED  BY <3>2, <3>3, MovesTyped
  <2>2. CASE Line > 1 /\ ~(Line - 1 <= Len(lines))
    BY <1>2, <2>2, UndefinedTyped DEF Up
  <2>3. CASE ~(Line > 1)
    BY <1>1, <1>2, <2>3, MovesTyped DEF Up
  <2> QED  BY <2>1, <2>2, <2>3
<1>3. CASE Down
  <2>1. CASE Line < Len(lines)
    <3>1. Line + 1 \in Nat /\ 1 <= Line + 1 /\ Line + 1 <= Len(lines)  BY <1>1, <2>1
    <3>2. <<Line + 1, Smaller(Col, Len(lines[Line + 1]))>> \in Anywhere
      BY <1>1, <3>1, InLine
    <3>3. MovesTo(<<Line + 1, Smaller(Col, Len(lines[Line + 1]))>>)  BY <1>3, <2>1 DEF Down
    <3> QED  BY <3>2, <3>3, MovesTyped
  <2>2. CASE ~(Line < Len(lines))
    BY <1>1, <1>3, <2>2, MovesTyped DEF Down
  <2> QED  BY <2>1, <2>2
<1>4. CASE Left
  <2>1. CASE Col > 0
    <3>1. <<Line, Col - 1>> \in Anywhere  BY <1>1, <2>1 DEF Anywhere
    <3> QED  BY <1>4, <2>1, <3>1, MovesTyped DEF Left
  <2>2. CASE ~(Col > 0) /\ Line = 1
    BY <1>1, <1>4, <2>2, MovesTyped DEF Left
  <2>3. CASE ~(Col > 0) /\ Line # 1 /\ Line - 1 <= Len(lines)
    <3>1. Line - 1 \in Nat /\ 1 <= Line - 1  BY <1>1, <2>3
    <3>2. <<Line - 1, Len(lines[Line - 1])>> \in Anywhere
      BY <1>1, <2>3, <3>1, InLine
    <3>3. MovesTo(<<Line - 1, Len(lines[Line - 1])>>)  BY <1>4, <2>3 DEF Left
    <3> QED  BY <3>2, <3>3, MovesTyped
  <2>4. CASE ~(Col > 0) /\ Line # 1 /\ ~(Line - 1 <= Len(lines))
    BY <1>4, <2>4, UndefinedTyped DEF Left
  <2> QED  BY <2>1, <2>2, <2>3, <2>4
<1>5. CASE Right
  <2>1. CASE ~LineExists
    BY <1>5, <2>1, UndefinedTyped DEF Right
  <2>2. CASE LineExists
    <3>1. <<Line, Col + 1>> \in Anywhere /\ <<Line + 1, 0>> \in Anywhere
      BY <1>1 DEF Anywhere
    <3>2. MovesTo(<<Line, Col + 1>>) \/ MovesTo(<<Line + 1, 0>>) \/ MovesTo(cursor)
      BY <1>5, <2>2 DEF Right
    <3> QED  BY <1>1, <3>1, <3>2, MovesTyped
  <2> QED  BY <2>1, <2>2
<1>6. ASSUME NEW l \in Nat, 1 <= l, WordKey(l) PROVE TypeOK'
  <2>1. CASE l > Len(lines)
    BY <1>6, <2>1, UndefinedTyped DEF WordKey
  <2>2. CASE ~(l > Len(lines))
    <3>1. l \in Nat /\ l <= Len(lines)  BY <1>1, <2>2, <1>6
    <3>2. lines[l] \in Row  BY <1>1, <1>6, <3>1, InLine
    <3>3. WordLeft(lines[l], Col) \in Nat /\ WordRight(lines[l], Col) \in Nat
      BY <1>1, <3>2, WordsTyped
    <3>4. <<l, WordLeft(lines[l], Col)>> \in Anywhere /\ <<l, WordRight(lines[l], Col)>> \in Anywhere
      BY <1>6, <3>1, <3>3 DEF Anywhere
    <3>5. Leaves(lines, <<l, WordLeft(lines[l], Col)>>, None)
            \/ Leaves(lines, <<l, WordRight(lines[l], Col)>>, None)
      BY <1>6, <2>2 DEF WordKey
    <3> QED  BY <1>1, <3>4, <3>5, LeavesTyped
  <2> QED  BY <2>1, <2>2
<1>7. CASE WordKeys
  <2>1. CASE WordKey(Line)
    BY <1>1, <1>6, <2>1
  <2>2. CASE Line > 1 /\ WordKey(Line - 1)
    <3>1. Line - 1 \in Nat /\ 1 <= Line - 1  BY <1>1, <2>2
    <3> QED  BY <1>6, <2>2, <3>1
  <2>3. CASE Line < Len(lines) /\ WordKey(Line + 1)
    <3>1. Line + 1 \in Nat /\ 1 <= Line + 1  BY <1>1, <2>3
    <3> QED  BY <1>6, <2>3, <3>1
  <2> QED  BY <1>7, <2>1, <2>2, <2>3 DEF WordKeys
<1>8. CASE SelectAll
  <2> DEFINE end == <<Len(lines), Len(lines[Len(lines)])>>
  <2>1. Leaves(lines, end, << <<1, 0>>, end >>)  BY <1>8 DEF SelectAll
  <2>2. end \in Anywhere
    <3>1. Len(lines) \in Nat \ {0} /\ Len(lines[Len(lines)]) \in Nat  BY <1>1, RowsTyped
    <3> QED  BY <3>1 DEF Anywhere
  <2>3. <<1, 0>> \in Anywhere  BY DEF Anywhere
  <2> HIDE DEF end
  <2>4. << <<1, 0>>, end >> \in Anywhere \X Anywhere  BY <2>2, <2>3
  <2> QED  BY <1>1, <2>1, <2>2, <2>4, LeavesTyped
<1> QED
  BY <1>2, <1>3, <1>4, <1>5, <1>7, <1>8

LEMMA MouseTyped ==
  ASSUME TypeOK, NEW p \in PlacesOf(lines), NEW event, Mouse(p, event)
  PROVE  TypeOK'
<1>1. /\ lines \in Rows /\ (sel = None \/ sel \in Anywhere \X Anywhere)
      /\ dragging \in BOOLEAN /\ undefined \in BOOLEAN /\ clip \in Text
  BY TypeIs
<1>2. p \in Anywhere
  BY <1>1, PlaceIsAnywhere
<1>3. /\ sel' = <<p, p>> \/ (sel # None /\ sel' = <<sel[1], p>>) \/ sel' = sel
      /\ dragging' \in BOOLEAN
      /\ cursor' = p /\ lines' = lines /\ clip' = clip /\ undefined' = undefined
  BY <1>1 DEF Mouse
<1>4. sel' = None \/ sel' \in Anywhere \X Anywhere
  BY <1>1, <1>2, <1>3
<1> QED
  BY <1>1, <1>2, <1>3, <1>4, TypeStep

LEMMA SelectionTyped ==
  ASSUME TypeOK, sel # None
  PROVE  SelFrom \in Anywhere /\ SelTo \in Anywhere /\ SelFrom[1] <= SelTo[1]
<1>1. sel[1] \in Anywhere /\ sel[2] \in Anywhere
  BY TypeIs
<1>2. sel[1][1] \in Nat /\ sel[2][1] \in Nat
  BY <1>1, AnywhereTyped
<1> QED
  BY <1>1, <1>2 DEF SelFrom, SelTo, Before

LEMMA HereTyped ==
  ASSUME TypeOK
  PROVE  /\ lines \in Rows /\ Len(lines) \in Nat /\ 1 <= Len(lines)
         /\ Line \in Nat /\ 1 <= Line /\ Col \in Nat /\ cursor = <<Line, Col>> /\ cursor \in Anywhere
         /\ (LineExists => Line \in 1..Len(lines) /\ Here \in Row /\ Len(Here) \in Nat)
         /\ sel = None \/ sel \in Anywhere \X Anywhere
         /\ dragging \in BOOLEAN /\ undefined \in BOOLEAN /\ clip \in Text
<1>1. /\ lines \in Rows /\ cursor \in Anywhere /\ (sel = None \/ sel \in Anywhere \X Anywhere)
      /\ dragging \in BOOLEAN /\ undefined \in BOOLEAN /\ clip \in Text
  BY TypeIs
<1>2. Line \in Nat /\ 1 <= Line /\ Col \in Nat /\ cursor = <<Line, Col>>
  BY <1>1, AnywhereTyped DEF Line, Col
<1>3. Len(lines) \in Nat /\ 1 <= Len(lines)
  BY <1>1, RowsTyped
<1>4. LineExists => Line \in 1..Len(lines) /\ Here \in Row /\ Len(Here) \in Nat
  BY <1>1, <1>2, InLine DEF LineExists, Here
<1> QED
  BY <1>1, <1>2, <1>3, <1>4

LEMMA CopiesTyped ==
  ASSUME TypeOK, Copies
  PROVE  clip' \in Text
<1>1. lines \in Rows /\ clip \in Text
  BY TypeIs
<1>2. CASE Selected
  <2>1. SelFrom \in Anywhere /\ SelTo \in Anywhere /\ SelFrom[1] <= SelTo[1]
    BY <1>2, SelectionTyped DEF Selected
  <2>2. CASE SelFrom[1] <= Len(lines)
    <3>1. Copied(lines, SelFrom, SelTo) \in Text
      BY <1>1, <2>1, <2>2, CopiedTyped
    <3> QED  BY <1>2, <2>2, <3>1 DEF Copies
  <2>3. CASE ~(SelFrom[1] <= Len(lines))
    BY <1>1, <1>2, <2>3 DEF Copies
  <2> QED  BY <2>2, <2>3
<1>3. CASE ~Selected
  <2>1. LineExists => Append(Here, NL) \in Text
    <3>1. LineExists => Here \in Text  BY HereTyped, SeqMonotonic DEF Row, Text
    <3> QED  BY <3>1, AppendProperties DEF Text
  <2> QED  BY <1>1, <1>3, <2>1 DEF Copies
<1> QED
  BY <1>2, <1>3

LEMMA EditingTyped ==
  ASSUME TypeOK,
         \/ CopyKey \/ CutSelection \/ CutLine \/ PasteKey \/ UppercaseKey
         \/ Enter \/ Backspace
         \/ \E c \in Chars : Type(c)
  PROVE  TypeOK'
<1>1. /\ lines \in Rows /\ Len(lines) \in Nat /\ 1 <= Len(lines)
      /\ Line \in Nat /\ 1 <= Line /\ Col \in Nat /\ cursor = <<Line, Col>> /\ cursor \in Anywhere
      /\ (LineExists => Line \in 1..Len(lines) /\ Here \in Row /\ Len(Here) \in Nat)
      /\ (sel = None \/ sel \in Anywhere \X Anywhere)
      /\ dragging \in BOOLEAN /\ undefined \in BOOLEAN /\ clip \in Text
  BY HereTyped
<1>2. lines \in Seq(Row)
  BY <1>1, RowsTyped
<1> HIDE DEF Line, Col
<1>3. CASE CopyKey
  BY <1>1, <1>3, CopiesTyped, TypeStep DEF CopyKey
<1>4. CASE CutSelection
  <2>1. SelFrom \in Anywhere /\ SelTo \in Anywhere /\ SelFrom[1] <= SelTo[1]
    BY <1>4, SelectionTyped DEF CutSelection, Selected
  <2>2. Deleted(lines, SelFrom, SelTo) \in Rows
    BY <1>1, <2>1, DeletedTyped
  <2>3. clip' \in Text
    BY <1>4, CopiesTyped DEF CutSelection
  <2>4. /\ lines' = Deleted(lines, SelFrom, SelTo) /\ cursor' = SelFrom /\ sel' = None
        /\ dragging' = dragging /\ undefined' = undefined
    BY <1>4 DEF CutSelection
  <2> QED  BY <1>1, <2>1, <2>2, <2>3, <2>4, TypeStep
<1>5. CASE CutLine
  <2>1. clip' \in Text /\ sel' = sel /\ dragging' = dragging /\ undefined' = undefined
    BY <1>5, CopiesTyped DEF CutLine
  <2>2. lines' \in Rows /\ cursor' \in Anywhere
    <3>1. CASE ~LineExists
      BY <1>1, <1>5, <3>1 DEF CutLine
    <3>2. CASE LineExists /\ Len(lines) = 1
      <4>1. lines' = << <<>> >> /\ cursor' = <<1, 0>>  BY <1>5, <3>2 DEF CutLine
      <4> QED  BY <4>1 DEF Rows, Row, Anywhere
    <3>3. CASE LineExists /\ Len(lines) # 1
      <4>1. /\ lines' = RemoveAt(lines, Line)
            /\ cursor' = IF Line = Len(lines)
                           THEN <<Line - 1, Smaller(Col, Len(lines[Line - 1]))>> ELSE cursor
        BY <1>5, <3>3 DEF CutLine
      <4>2. lines' \in Seq(Row) /\ Len(lines') = Len(lines) - 1
        BY <1>1, <1>2, <3>3, <4>1, RemoveAtTyped
      <4>3. lines' \in Rows
        <5>1. Len(lines') # 0  BY <1>1, <3>3, <4>2
        <5>2. lines' # <<>>  BY <5>1, EmptySeq
        <5> QED  BY <4>2, <5>2 DEF Rows
      <4>4. Line = Len(lines) => <<Line - 1, Smaller(Col, Len(lines[Line - 1]))>> \in Anywhere
        <5> SUFFICES ASSUME Line = Len(lines)
                     PROVE  <<Line - 1, Smaller(Col, Len(lines[Line - 1]))>> \in Anywhere
          OBVIOUS
        <5> DEFINE l == Line - 1
        <5>1. l \in Nat /\ 1 <= l /\ l <= Len(lines)  BY <1>1, <3>3
        <5> HIDE DEF l
        <5>2. <<l, Smaller(Col, Len(lines[l]))>> \in Anywhere  BY <1>1, <5>1, InLine
        <5> QED  BY <5>2 DEF l
      <4>5. cursor' \in Anywhere  BY <1>1, <4>1, <4>4
      <4> QED  BY <4>3, <4>5
    <3> QED  BY <3>1, <3>2, <3>3
  <2> QED  BY <1>1, <2>1, <2>2, TypeStep
<1>6. CASE PasteKey
  <2> DEFINE rest == IF Selected THEN Deleted(lines, SelFrom, SelTo) ELSE lines
             at == IF sel = None THEN cursor ELSE SelFrom
  <2>1. rest \in Rows
    <3>1. Selected => Deleted(lines, SelFrom, SelTo) \in Rows
      BY <1>1, SelectionTyped, DeletedTyped DEF Selected
    <3> QED  BY <1>1, <3>1
  <2>2. at \in Anywhere
    BY <1>1, SelectionTyped
  <2>3. IF at[1] <= Len(rest)
          THEN Leaves(Inserted(rest, at, clip), Behind(rest, at, clip), None)
          ELSE Undefined
    BY <1>6 DEF PasteKey
  <2> HIDE DEF rest, at
  <2>4. CASE at[1] <= Len(rest)
    <3>1. Inserted(rest, at, clip) \in Rows /\ Behind(rest, at, clip) \in Anywhere
      BY <1>1, <2>1, <2>2, <2>4, InsertedTyped
    <3>2. Leaves(Inserted(rest, at, clip), Behind(rest, at, clip), None)  BY <2>3, <2>4
    <3> QED  BY <3>1, <3>2, LeavesTyped
  <2>5. CASE ~(at[1] <= Len(rest))
    BY <2>3, <2>5, UndefinedTyped
  <2> QED  BY <2>4, <2>5
<1>7. CASE UppercaseKey
  <2>1. CASE SelFrom[1] <= Len(lines)
    <3>1. Uppercased(lines, SelFrom, SelTo) \in Rows  BY <1>1, UppercasedTyped
    <3>2. Leaves(Uppercased(lines, SelFrom, SelTo), cursor, sel)  BY <1>7, <2>1 DEF UppercaseKey
    <3> QED  BY <1>1, <3>1, <3>2, LeavesTyped
  <2>2. CASE ~(SelFrom[1] <= Len(lines))
    <3>1. UNCHANGED vars  BY <1>7, <2>2 DEF UppercaseKey
    <3> QED  BY <1>1, <3>1, TypeStep DEF vars
  <2> QED  BY <2>1, <2>2
<1>8. CASE Enter
  <2>1. CASE LineExists /\ Col <= Len(Here)
    <3>1. <<NL>> \in Text  BY DEF Text
    <3>2. cursor[1] <= Len(lines)  BY <2>1 DEF LineExists, Line
    <3>3. Inserted(lines, cursor, <<NL>>) \in Rows  BY <1>1, <3>1, <3>2, InsertedTyped
    <3>4. <<Line + 1, 0>> \in Anywhere  BY <1>1 DEF Anywhere
    <3>5. Leaves(Inserted(lines, cursor, <<NL>>), <<Line + 1, 0>>, None)  BY <1>8, <2>1 DEF Enter
    <3> QED  BY <3>3, <3>4, <3>5, LeavesTyped
  <2>2. CASE ~(LineExists /\ Col <= Len(Here))
    BY <1>8, <2>2, UndefinedTyped DEF Enter
  <2> QED  BY <2>1, <2>2
<1>9. ASSUME NEW c \in Chars, Type(c) PROVE TypeOK'
  <2>1. <<Line, Col + 1>> \in Anywhere  BY <1>1 DEF Anywhere
  <2>2. CASE ~LineExists \/ Col > Len(Here) + 1
    BY <1>9, <2>2, UndefinedTyped DEF Type
  <2>3. CASE ~(~LineExists \/ Col > Len(Here) + 1) /\ Col = Len(Here) + 1
    <3>1. Leaves(lines, <<Line, Col + 1>>, None)
      BY <1>9, <2>3, Zenon DEF Type
    <3> QED  BY <1>1, <2>1, <3>1, LeavesTyped
  <2>4. CASE ~(~LineExists \/ Col > Len(Here) + 1) /\ ~(Col = Len(Here) + 1)
    <3>1. <<c>> \in Text  BY DEF Text
    <3>2. cursor[1] <= Len(lines)  BY <2>4 DEF LineExists, Line
    <3>3. Inserted(lines, cursor, <<c>>) \in Rows  BY <1>1, <3>1, <3>2, InsertedTyped
    <3>4. Leaves(Inserted(lines, cursor, <<c>>), <<Line, Col + 1>>, None)
      BY <1>9, <2>4, Zenon DEF Type
    <3> QED  BY <2>1, <3>3, <3>4, LeavesTyped
  <2> QED  BY <2>2, <2>3, <2>4
<1>10. CASE Backspace
  <2>1. CASE Col > 0
    <3>1. <<Line, Col - 1>> \in Anywhere  BY <1>1, <2>1 DEF Anywhere
    <3>2. IF ~LineExists \/ Col > Len(Here) + 1 THEN Undefined
          ELSE IF Col = Len(Here) + 1 THEN Leaves(lines, <<Line, Col - 1>>, sel)
          ELSE Leaves([lines EXCEPT ![Line] = RemoveAt(@, Col)], <<Line, Col - 1>>, sel)
      BY <1>1, <1>10, <2>1 DEF Backspace
    <3>3. CASE ~LineExists \/ Col > Len(Here) + 1
      BY <3>2, <3>3, UndefinedTyped
    <3>4. CASE ~(~LineExists \/ Col > Len(Here) + 1) /\ Col = Len(Here) + 1
      <4>1. Leaves(lines, <<Line, Col - 1>>, sel)  BY <3>2, <3>4
      <4> QED  BY <1>1, <3>1, <4>1, LeavesTyped
    <3>5. CASE ~(~LineExists \/ Col > Len(Here) + 1) /\ ~(Col = Len(Here) + 1)
      <4> DEFINE ls == [lines EXCEPT ![Line] = RemoveAt(@, Col)]
      <4>1. Leaves(ls, <<Line, Col - 1>>, sel)  BY <3>2, <3>5
      <4>2. Line \in 1..Len(lines) /\ Here \in Seq(Chars) /\ Col \in 1..Len(Here)
        BY <1>1, <2>1, <3>5 DEF Row
      <4>3. RemoveAt(Here, Col) \in Row  BY <4>2, RemoveAtTyped DEF Row
      <4>4. ls \in Seq(Row) /\ Len(ls) = Len(lines)
        <5> DEFINE e == RemoveAt(Here, Col)
        <5>1. e \in Row /\ ls = [lines EXCEPT ![Line] = e]  BY <4>3 DEF Here
        <5> HIDE DEF e, ls
        <5> QED  BY <1>2, <4>2, <5>1, ExceptSeq
      <4> HIDE DEF ls
      <4>5. ls # <<>>  BY <1>1, <4>4, EmptySeq
      <4>6. ls \in Rows  BY <4>4, <4>5 DEF Rows
      <4> QED  BY <1>1, <3>1, <4>1, <4>6, LeavesTyped
    <3> QED  BY <3>3, <3>4, <3>5
  <2>2. CASE Col = 0 /\ Line > 1
    <3>1. CASE ~LineExists
      BY <1>1, <1>10, <2>2, <3>1, UndefinedTyped DEF Backspace
    <3>2. CASE LineExists
      <4> DEFINE l == Line - 1  cut == RemoveAt(lines, Line)
                 ls == [cut EXCEPT ![l] = @ \o Here]
      <4>1. Leaves(ls, <<l, Len(lines[l])>>, sel)
        BY <1>1, <1>10, <2>2, <3>2 DEF Backspace
      <4>2. cut \in Seq(Row) /\ Len(cut) = Len(lines) - 1
        BY <1>1, <1>2, <3>2, RemoveAtTyped
      <4>3. l \in Nat /\ 1 <= l /\ l <= Len(lines) /\ l \in 1..Len(lines) - 1
        BY <1>1, <2>2, <3>2
      <4> HIDE DEF cut, l
      <4>4. <<l, Len(lines[l])>> \in Anywhere  BY <1>1, <4>3, InLine
      <4> DEFINE e == cut[l] \o Here
      <4>5. l \in 1..Len(cut)  BY <4>2, <4>3
      <4>6. e \in Row
        <5>1. cut[l] \in Row  BY <4>2, <4>5, ElementOfSeq
        <5> QED  BY <1>1, <3>2, <5>1, ConcatProperties DEF Row
      <4>7. ls = [cut EXCEPT ![l] = e]  OBVIOUS
      <4> HIDE DEF e, ls
      <4>8. ls \in Seq(Row) /\ Len(ls) = Len(cut)
        BY <4>2, <4>5, <4>6, <4>7, ExceptSeq
      <4>9. ls # <<>>  BY <4>2, <4>5, <4>8, EmptySeq
      <4>10. ls \in Rows  BY <4>8, <4>9 DEF Rows
      <4> QED  BY <1>1, <4>1, <4>4, <4>10, LeavesTyped
    <3> QED  BY <3>1, <3>2
  <2> QED  BY <1>10, <2>1, <2>2 DEF Backspace
<1> QED
  BY <1>3, <1>4, <1>5, <1>6, <1>7, <1>8, <1>9, <1>10

LEMMA PluginsTyped ==
  ASSUME TypeOK, Plugins
  PROVE  TypeOK'
<1>1. lines \in Rows /\ cursor \in Anywhere /\ (sel = None \/ sel \in Anywhere \X Anywhere)
  BY TypeIs
<1>2. ASSUME NEW p \in PlacesOf(lines), NEW q \in PlacesOf(lines), NEW s \in Snippets, PluginEdits(p, q, s)
      PROVE  TypeOK'
  <2> DEFINE rest == Deleted(lines, p, q)
  <2>1. Before(p, q)  BY <1>2 DEF PluginEdits
  <2>2. rest \in Rows /\ p[1] \in 1..Len(rest)
    BY <1>1, <2>1, DeletedParts
  <2>3. p \in Anywhere  BY <1>1, PlaceIsAnywhere
  <2>4. s \in Text  BY SnippetsAreTexts DEF Text
  <2>5. PICK c \in {cursor, Behind(rest, p, s)} : Leaves(Inserted(rest, p, s), c, sel)
    BY <1>2 DEF PluginEdits
  <2> HIDE DEF rest
  <2>6. p[1] <= Len(rest)  BY <2>2, RowsTyped
  <2>7. Inserted(rest, p, s) \in Rows /\ Behind(rest, p, s) \in Anywhere
    BY <2>2, <2>3, <2>4, <2>6, InsertedTyped
  <2>8. c \in Anywhere  BY <1>1, <2>5, <2>7
  <2> QED  BY <1>1, <2>5, <2>7, <2>8, LeavesTyped
<1>3. ASSUME NEW p \in PlacesOf(lines), PluginMoves(p)
      PROVE  TypeOK'
  BY <1>1, <1>3, PlaceIsAnywhere, LeavesTyped DEF PluginMoves
<1> QED
  BY <1>2, <1>3 DEF Plugins

(* The types hold in every reachable state of the editor's text: its lines    *)
(* are lines of characters, without a line end among them, and there is at    *)
(* least one; cursor and selection are places, inside the text or not; the    *)
(* clipboard holds a text.                                                     *)
THEOREM TextTyped == Spec => []TypeOK
<1>1. Init => TypeOK
  <2> SUFFICES ASSUME Init PROVE TypeOK
    OBVIOUS
  <2>1. PICK text \in BoundedSeq(Chars \cup {NL}, MaxText) :
          lines = Inserted(<< <<>> >>, <<1, 0>>, text)
    BY DEF Init
  <2>2. text \in Text
    <3>1. PICK m \in 0..MaxText : text \in [1..m -> Chars \cup {NL}]
      BY <2>1 DEF BoundedSeq, SeqOf
    <3>2. m \in Nat  BY <3>1, MaxTextInNat
    <3> QED  BY <3>1, <3>2 DEF Text
  <2> DEFINE one == << <<>> >>  p == <<1, 0>>
  <2>3. one \in Rows /\ p \in Anywhere /\ p[1] <= Len(one)
    BY DEF Rows, Row, Anywhere
  <2>4. lines = Inserted(one, p, text)  BY <2>1
  <2>5. cursor = p /\ sel = None /\ dragging = FALSE /\ clip = <<>> /\ undefined = FALSE
    BY DEF Init
  <2>6. <<>> \in Text  BY DEF Text
  <2> HIDE DEF one, p
  <2>7. lines \in Rows  BY <2>2, <2>3, <2>4, InsertedTyped
  <2> QED  BY <2>3, <2>5, <2>6, <2>7, TypeIs
<1>2. TypeOK /\ [Next]_vars => TypeOK'
  <2> SUFFICES ASSUME TypeOK, [Next]_vars PROVE TypeOK'
    OBVIOUS
  <2>1. CASE Keys
    BY <2>1, MovingTyped, EditingTyped DEF Keys
  <2>2. CASE Plugins
    BY <2>2, PluginsTyped
  <2>3. CASE \E p \in PlacesOf(lines) :
               \E event \in {"pressed", "moved", "released", "other"} : Mouse(p, event)
    BY <2>3, MouseTyped
  <2>4. CASE UNCHANGED vars
    <3>1. lines' = lines /\ cursor' = cursor /\ sel' = sel /\ dragging' = dragging
          /\ clip' = clip /\ undefined' = undefined
      BY <2>4 DEF vars
    <3> QED  BY <3>1, TypeIs, TypeStep
  <2> QED  BY <2>1, <2>2, <2>3, <2>4 DEF Next
<1> QED
  BY <1>1, <1>2, PTL DEF Spec

(* What is cut between any two places of the text, and of the text followed   *)
(* by itself, can be pasted where it was: delete_selection takes no more than *)
(* copy_selection_or_line puts into the clipboard, and insert_text_at_cursor  *)
(* joins and splits the lines back into what they were.                       *)
THEOREM CutAndPaste == Spec => []CutPasteRestores
<1>1. TypeOK => CutPasteRestores
  <2> SUFFICES ASSUME TypeOK PROVE CutPasteRestores
    OBVIOUS
  <2> DEFINE ls == lines \o lines
  <2>1. lines \in Seq(Row) /\ lines # <<>>  BY TypeIs DEF Rows
  <2>2. ls \in Rows
    BY <2>1, ConcatProperties, ConcatEqualIffEmpty DEF Rows
  <2> HIDE DEF ls
  <2>3. ASSUME NEW p \in PlacesOf(ls), NEW q \in PlacesOf(ls), Before(p, q)
        PROVE  /\ Inserted(Deleted(ls, p, q), p, Copied(ls, p, q)) = ls
               /\ Behind(Deleted(ls, p, q), p, Copied(ls, p, q)) = q
    BY <2>2, <2>3, CutThenPaste
  <2> QED  BY <2>3 DEF CutPasteRestores, ls
<1> QED
  BY <1>1, TextTyped, PTL

-----------------------------------------------------------------------------
(* Joined lines, taken apart at a place *)

(* What surrounds a member of a sequence.                                      *)
LEMMA AroundAny ==
  ASSUME NEW S, NEW s \in Seq(S), NEW i \in 1..Len(s)
  PROVE  /\ SubSeq(s, 1, i - 1) \in Seq(S) /\ Len(SubSeq(s, 1, i - 1)) = i - 1
         /\ SubSeq(s, i + 1, Len(s)) \in Seq(S) /\ Len(SubSeq(s, i + 1, Len(s))) = Len(s) - i
         /\ s[i] \in S
         /\ Around(SubSeq(s, 1, i - 1), s[i], SubSeq(s, i + 1, Len(s))) = s
<1> DEFINE n == Len(s)  h == i - 1  j == i + 1
<1>1. n \in Nat /\ i \in 1..n /\ i \in Nat /\ s[i] \in S
  BY LenProperties, ElementOfSeq
<1>2. /\ 1 \in 1..n + 1 /\ h \in 1 - 1..n /\ h - 1 + 1 = i - 1 /\ h + 1 = i
      /\ j \in 1..n + 1 /\ n \in j - 1..n /\ n - j + 1 = n - i
      /\ h \in 0..n - 1 /\ i \in 1 - 1..n /\ n \in i..n
  BY <1>1
<1> HIDE DEF n, h, j
<1>3. SubSeq(s, 1, h) \in Seq(S) /\ Len(SubSeq(s, 1, h)) = i - 1
  BY <1>2, SubSeqTyped DEF n
<1>4. SubSeq(s, j, n) \in Seq(S) /\ Len(SubSeq(s, j, n)) = n - i
  BY <1>2, SubSeqTyped DEF n
<1>5. SubSeq(s, 1, i) = SubSeq(s, 1, h) \o <<s[i]>>
  <2>1. SubSeq(s, 1, h + 1) = Append(SubSeq(s, 1, h), s[h + 1])
    BY <1>2, PrefixGrows DEF n
  <2>2. Append(SubSeq(s, 1, h), s[i]) = SubSeq(s, 1, h) \o <<s[i]>>
    BY <1>1, <1>3, AppendIsConcat
  <2> QED  BY <1>2, <2>1, <2>2
<1>6. SubSeq(s, 1, i) \o SubSeq(s, i + 1, n) = SubSeq(s, 1, n)
  BY <1>2, ConcatAdjacentSubSeq DEF n
<1>7. SubSeq(s, 1, n) = s
  BY SubSeqFull DEF n
<1> QED
  BY <1>1, <1>3, <1>4, <1>5, <1>6, <1>7 DEF Around, n, h, j

LEMMA AroundTyped ==
  ASSUME NEW S, NEW u \in Seq(S), NEW x \in S, NEW v \in Seq(S)
  PROVE  /\ <<x>> \o v \in Seq(S) /\ Append(u, x) \in Seq(S)
         /\ Len(<<x>> \o v) = Len(v) + 1 /\ Len(Append(u, x)) = Len(u) + 1
         /\ Append(u, x) # << >> /\ <<x>> \o v # << >> /\ Around(u, x, v) # << >>
<1>1. <<x>> \in Seq(S) /\ Len(<<x>>) = 1 /\ Len(u) \in Nat /\ Len(v) \in Nat
  BY LenProperties
<1>2. <<x>> \o v \in Seq(S) /\ Len(<<x>> \o v) = 1 + Len(v)
  BY <1>1, ConcatProperties
<1>3. Around(u, x, v) \in Seq(S) /\ Len(Around(u, x, v)) = Len(u) + 1 + Len(v)
  BY AroundOne
<1>4. Append(u, x) \in Seq(S) /\ Len(Append(u, x)) = Len(u) + 1 /\ Append(u, x) # << >>
  BY AppendProperties
<1>5. Len(<<x>> \o v) # 0 /\ Len(Around(u, x, v)) # 0
  BY <1>1, <1>2, <1>3
<1> QED
  BY <1>1, <1>2, <1>4, <1>5, EmptySeq

LEMMA FlatOfOne ==
  ASSUME NEW l \in Row
  PROVE  <<l>> \in Rows /\ Flat(<<l>>) = l
<1>1. <<l>> \in Rows /\ Len(<<l>>) = 1 /\ <<l>>[1] = l
  BY EmptySeq DEF Rows
<1> QED
  BY <1>1, FlatInSteps

(* One line more is the line end and the line.                                 *)
LEMMA FlatOfMore ==
  ASSUME NEW ls \in Rows, NEW l \in Row
  PROVE  Append(ls, l) \in Rows /\ Flat(Append(ls, l)) = (Flat(ls) \o <<NL>>) \o l
<1> DEFINE ms == Append(ls, l)  n == Len(ls)
<1>1. ls \in Seq(Row) /\ n \in Nat /\ 1 <= n
  BY RowsTyped
<1>2. ms \in Seq(Row) /\ ms # << >> /\ Len(ms) = n + 1
      /\ (\A i \in 1..n : ms[i] = ls[i]) /\ ms[n + 1] = l
  BY <1>1, AppendProperties
<1>3. ms \in Rows
  BY <1>2 DEF Rows
<1> HIDE DEF ms
<1>4. PICK f \in [1..n -> Text] :
        /\ f[1] = ls[1]
        /\ \A i \in 2..n : f[i] = (f[i - 1] \o <<NL>>) \o ls[i]
        /\ Flat(ls) = f[n]
  BY FlatInSteps
<1>5. PICK g \in [1..Len(ms) -> Text] :
        /\ g[1] = ms[1]
        /\ \A i \in 2..Len(ms) : g[i] = (g[i - 1] \o <<NL>>) \o ms[i]
        /\ Flat(ms) = g[Len(ms)]
  BY <1>3, FlatInSteps
<1> DEFINE m == n - 1
           Same == {k \in 0..m : g[k + 1] = f[k + 1]}
<1>6. 0 \in Same
  BY <1>1, <1>2, <1>4, <1>5
<1>7. ASSUME NEW k \in 0..m - 1, k \in Same PROVE k + 1 \in Same
  <2>1. (k + 1) + 1 \in 2..n /\ (k + 1) + 1 \in 2..n + 1 /\ ((k + 1) + 1) - 1 = k + 1 /\ k + 1 \in 0..m
        /\ (k + 1) + 1 \in 1..n
    BY <1>1
  <2>2. g[k + 1] = f[k + 1]  BY <1>7
  <2>3. f[(k + 1) + 1] = (f[k + 1] \o <<NL>>) \o ls[(k + 1) + 1]
    <3> DEFINE i == (k + 1) + 1
    <3>1. i \in 2..n /\ i - 1 = k + 1  BY <2>1
    <3> HIDE DEF i
    <3>2. f[i] = (f[i - 1] \o <<NL>>) \o ls[i]  BY <1>4, <3>1
    <3> QED  BY <3>1, <3>2 DEF i
  <2>4. g[(k + 1) + 1] = (g[k + 1] \o <<NL>>) \o ms[(k + 1) + 1]
    <3> DEFINE i == (k + 1) + 1
    <3>1. i \in 2..Len(ms) /\ i - 1 = k + 1  BY <1>2, <2>1
    <3> HIDE DEF i
    <3>2. g[i] = (g[i - 1] \o <<NL>>) \o ms[i]  BY <1>5, <3>1
    <3> QED  BY <3>1, <3>2 DEF i
  <2>5. ms[(k + 1) + 1] = ls[(k + 1) + 1]  BY <1>2, <2>1
  <2> QED  BY <2>1, <2>2, <2>3, <2>4, <2>5
<1>8. m \in Nat /\ 0..m \subseteq Same
  <2>1. m \in Nat  BY <1>1
  <2> HIDE DEF Same, m
  <2> QED  BY <1>6, <1>7, <2>1, IntervalInduction
<1>9. g[n] = f[n]
  <2>1. m \in 0..m /\ m + 1 = n  BY <1>1
  <2> HIDE DEF n, m
  <2> QED  BY <1>8, <2>1
<1>10. g[n + 1] = (g[n] \o <<NL>>) \o ms[n + 1]
  <2> DEFINE i == n + 1
  <2>1. i \in 2..Len(ms) /\ i - 1 = n  BY <1>1, <1>2
  <2> HIDE DEF i, n
  <2>2. g[i] = (g[i - 1] \o <<NL>>) \o ms[i]  BY <1>5, <2>1
  <2> QED  BY <2>1, <2>2 DEF i
<1> QED
  BY <1>2, <1>3, <1>4, <1>5, <1>9, <1>10 DEF ms

LEMMA RowIsText ==
  ASSUME NEW l \in Row
  PROVE  l \in Text
  BY SeqMonotonic DEF Row, Text

LEMMA TextConcat ==
  ASSUME NEW s \in Text, NEW t \in Text
  PROVE  s \o t \in Text /\ Len(s) \in Nat /\ Len(t) \in Nat /\ Len(s \o t) = Len(s) + Len(t)
  BY ConcatProperties, LenProperties DEF Text

LEMMA TextConcatThree ==
  ASSUME NEW s \in Text, NEW t \in Text, NEW u \in Text
  PROVE  (s \o t) \o u = s \o (t \o u)
  BY ConcatAssociative DEF Text

(* A longer last line is a longer text.                                        *)
LEMMA FlatOfLonger ==
  ASSUME NEW u \in Seq(Row), NEW x \in Row, NEW y \in Row
  PROVE  /\ Append(u, x) \in Rows /\ Append(u, x \o y) \in Rows /\ x \o y \in Row
         /\ Flat(Append(u, x \o y)) = Flat(Append(u, x)) \o y
<1>1. x \o y \in Row
  BY ConcatProperties DEF Row
<1>2. Append(u, x) \in Rows /\ Append(u, x \o y) \in Rows
  BY <1>1, AppendProperties DEF Rows
<1>3. CASE u = << >>
  <2>1. Append(u, x) = <<x>> /\ Append(u, x \o y) = <<x \o y>>
    BY <1>1, <1>3
  <2> QED  BY <1>1, <1>2, <2>1, FlatOfOne
<1>4. CASE u # << >>
  <2>1. u \in Rows  BY <1>4 DEF Rows
  <2> DEFINE t == Flat(u) \o <<NL>>
  <2>2. t \in Text /\ x \in Text /\ y \in Text
    <3>1. Flat(u) \in Text  BY <2>1, FlatTyped
    <3>2. <<NL>> \in Text  BY DEF Text
    <3> QED  BY <3>1, <3>2, TextConcat, RowIsText
  <2>3. Flat(Append(u, x)) = t \o x /\ Flat(Append(u, x \o y)) = t \o (x \o y)
    BY <1>1, <2>1, FlatOfMore
  <2> HIDE DEF t
  <2>4. (t \o x) \o y = t \o (x \o y)  BY <2>2, TextConcatThree
  <2> QED  BY <1>1, <1>2, <2>3, <2>4
<1> QED
  BY <1>3, <1>4

(* Lines are joined as their texts are.                                        *)
LEMMA FlatOfJoin ==
  ASSUME NEW u \in Seq(Row), NEW x \in Row, NEW y \in Row, NEW v \in Seq(Row)
  PROVE  /\ Append(u, x) \in Rows /\ <<y>> \o v \in Rows /\ Around(u, x \o y, v) \in Rows
         /\ Flat(Around(u, x \o y, v)) = Flat(Append(u, x)) \o Flat(<<y>> \o v)
<1> DEFINE n == Len(v)
           V(k) == SubSeq(v, 1, k)
           Same == {k \in 0..n : Flat(Around(u, x \o y, V(k))) = Flat(Append(u, x)) \o Flat(<<y>> \o V(k))}
<1>1. x \o y \in Row /\ Append(u, x) \in Rows /\ Append(u, x \o y) \in Rows
      /\ Flat(Append(u, x \o y)) = Flat(Append(u, x)) \o y
  BY FlatOfLonger
<1>2. n \in Nat
  BY LenProperties
<1>3. \A k \in 0..n : V(k) \in Seq(Row)
  <2> SUFFICES ASSUME NEW k \in 0..n PROVE V(k) \in Seq(Row)  OBVIOUS
  <2>1. 1 \in 1..Len(v) + 1 /\ k \in 1 - 1..Len(v)  BY <1>2
  <2> QED  BY <2>1, SubSeqTyped
<1>4. \A w \in Seq(Row) : <<y>> \o w \in Rows /\ Around(u, x \o y, w) \in Rows
  <2> SUFFICES ASSUME NEW w \in Seq(Row)
               PROVE  <<y>> \o w \in Rows /\ Around(u, x \o y, w) \in Rows
    OBVIOUS
  <2>1. <<y>> \o w \in Seq(Row) /\ <<y>> \o w # << >>  BY AroundTyped
  <2>2. Around(u, x \o y, w) \in Seq(Row) /\ Around(u, x \o y, w) # << >>
    BY <1>1, AroundTyped, AroundOne
  <2> QED  BY <2>1, <2>2 DEF Rows
<1>5. 0 \in Same
  <2>1. V(0) = << >>  BY SubSeqEmpty
  <2>2. Around(u, x \o y, << >>) = Append(u, x \o y)
    <3>1. u \o <<x \o y>> = Append(u, x \o y)  BY <1>1, AppendIsConcat
    <3>2. Append(u, x \o y) \in Seq(Row)  BY <1>1 DEF Rows
    <3>3. Append(u, x \o y) \o << >> = Append(u, x \o y)  BY <3>2, ConcatEmptySeq
    <3> QED  BY <3>1, <3>3 DEF Around
  <2>3. <<y>> \o << >> = <<y>> /\ Flat(<<y>>) = y
    BY FlatOfOne, ConcatEmptySeq
  <2>4. 0 \in 0..n  BY <1>2
  <2> HIDE DEF V
  <2> QED  BY <1>1, <2>1, <2>2, <2>3, <2>4
<1>6. ASSUME NEW k \in 0..n - 1, k \in Same PROVE k + 1 \in Same
  <2> DEFINE w == V(k)  l == v[k + 1]  s == Flat(Append(u, x))  t == Flat(<<y>> \o w)
  <2>1. k \in 0..n /\ k + 1 \in 0..n /\ k + 1 \in 1..n
    BY <1>2
  <2>2. w \in Seq(Row) /\ l \in Row
    BY <1>3, <2>1, ElementOfSeq
  <2>3. V(k + 1) = Append(w, l)
    BY <1>2, PrefixGrows
  <2>4. Flat(Around(u, x \o y, w)) = s \o t
    BY <1>6
  <2> HIDE DEF V
  <2>5. <<y>> \o w \in Rows /\ Around(u, x \o y, w) \in Rows
    BY <1>4, <2>2
  <2>6. s \in Text /\ t \in Text
    BY <1>1, <2>5, FlatTyped
  <2> HIDE DEF w, l, s
  <2>7. <<y>> \o Append(w, l) = Append(<<y>> \o w, l)
    BY <2>2, ConcatAppend
  <2>8. Around(u, x \o y, Append(w, l)) = Append(Around(u, x \o y, w), l)
    <3>1. u \o <<x \o y>> \in Seq(Row)  BY <1>1, AppendIsConcat DEF Rows
    <3> QED  BY <2>2, <3>1, ConcatAppend DEF Around
  <2>9. Flat(Append(<<y>> \o w, l)) = (t \o <<NL>>) \o l
    BY <2>2, <2>5, FlatOfMore
  <2>10. Flat(Append(Around(u, x \o y, w), l)) = ((s \o t) \o <<NL>>) \o l
    BY <2>2, <2>4, <2>5, FlatOfMore
  <2> HIDE DEF t
  <2>11. ((s \o t) \o <<NL>>) \o l = s \o ((t \o <<NL>>) \o l)
    <3>1. <<NL>> \in Text /\ l \in Text  BY <2>2, RowIsText DEF Text
    <3>2. (s \o t) \o <<NL>> = s \o (t \o <<NL>>)  BY <2>6, <3>1, TextConcatThree
    <3>3. t \o <<NL>> \in Text  BY <2>6, <3>1, TextConcat
    <3>4. (s \o (t \o <<NL>>)) \o l = s \o ((t \o <<NL>>) \o l)
      <4> DEFINE m == t \o <<NL>>
      <4>1. m \in Text  BY <3>3
      <4> HIDE DEF m
      <4>2. s \in Text /\ l \in Text  BY <2>6, <3>1
      <4>3. (s \o m) \o l = s \o (m \o l)  BY <4>1, <4>2, TextConcatThree
      <4> QED  BY <4>3 DEF m
    <3> QED  BY <3>2, <3>4, Zenon
  <2> QED  BY <2>1, <2>3, <2>7, <2>8, <2>9, <2>10, <2>11 DEF s
<1>7. 0..n \subseteq Same
  <2> HIDE DEF Same, n
  <2> QED  BY <1>2, <1>5, <1>6, IntervalInduction
<1>8. V(n) = v
  BY SubSeqFull
<1>9. n \in Same
  <2>1. n \in 0..n  BY <1>2
  <2> HIDE DEF Same
  <2> QED  BY <1>7, <2>1
<1> HIDE DEF V
<1> QED
  BY <1>1, <1>4, <1>8, <1>9

(* Joining the parts of a text gives the text.                                 *)
LEMMA FlatOfParts ==
  ASSUME NEW s \in Text
  PROVE  Flat(Parts(s)) = s
<1> DEFINE n == Len(s)
           P(k) == SubSeq(s, 1, k)
           Same == {k \in 0..n : Flat(Parts(P(k))) = P(k)}
<1>1. n \in Nat /\ s \in Seq(Chars \cup {NL})
  BY LenProperties DEF Text
<1>2. \A k \in 0..n : P(k) \in Text
  <2> SUFFICES ASSUME NEW k \in 0..n PROVE P(k) \in Text  OBVIOUS
  <2>1. 1 \in 1..Len(s) + 1 /\ k \in 1 - 1..Len(s)  BY <1>1
  <2> QED  BY <1>1, <2>1, SubSeqTyped DEF Text
<1>3. 0 \in Same
  <2>1. P(0) = << >>  BY SubSeqEmpty
  <2>2. << >> \in Row  BY DEF Row
  <2>3. Flat(<< <<>> >>) = << >>  BY <2>2, FlatOfOne
  <2>4. 0 \in 0..n  BY <1>1
  <2> QED  BY <2>1, <2>3, <2>4, PartsOfEmpty
<1>4. ASSUME NEW k \in 0..n - 1, k \in Same PROVE k + 1 \in Same
  <2> DEFINE t == P(k)  c == s[k + 1]  ps == Parts(t)
  <2>1. k \in 0..n /\ k + 1 \in 0..n /\ k + 1 \in 1..n
    BY <1>1
  <2>2. t \in Text /\ c \in Chars \cup {NL}
    BY <1>1, <1>2, <2>1, ElementOfSeq
  <2>3. P(k + 1) = Append(t, c)
    BY <1>1, PrefixGrows
  <2>4. Flat(ps) = t
    BY <1>4
  <2> HIDE DEF P, t, c
  <2>5. Parts(Append(t, c)) = Split(ps, c) /\ ps \in Rows
    BY <2>2, PartsOfAppend, PartsTyped
  <2> HIDE DEF ps
  <2>6. CASE c = NL
    <3>1. << >> \in Row /\ Split(ps, c) = Append(ps, << >>)  BY <2>6 DEF Split, Row
    <3>2. Flat(Append(ps, << >>)) = (t \o <<NL>>) \o << >>  BY <2>4, <2>5, <3>1, FlatOfMore
    <3>3. t \o <<NL>> = Append(t, c)  BY <2>2, <2>6, AppendIsConcat DEF Text
    <3>4. Append(t, c) \in Seq(Chars \cup {NL})  BY <2>2, AppendProperties DEF Text
    <3>5. Append(t, c) \o << >> = Append(t, c)  BY <3>4, ConcatEmptySeq
    <3> QED  BY <2>1, <2>3, <2>5, <3>1, <3>2, <3>3, <3>5
  <2>7. CASE c # NL
    <3> DEFINE m == Len(ps)  h == SubSeq(ps, 1, m - 1)  l == ps[m]
    <3>1. c \in Chars /\ <<c>> \in Row  BY <2>2, <2>7 DEF Row
    <3>2. ps \in Seq(Row) /\ m \in Nat /\ 1 <= m  BY <2>5, RowsTyped
    <3>3. m \in 1..Len(ps) /\ m - 1 \in 0..Len(ps) - 1 /\ m - 1 + 1 = m  BY <3>2
    <3>4. h \in Seq(Row) /\ l \in Row /\ Len(h) = m - 1  BY <3>2, <3>3, AroundAny
    <3>5. ps = Append(h, l)
      <4> DEFINE j == m - 1
      <4>1. j \in 0..Len(ps) - 1 /\ j + 1 = m  BY <3>3
      <4> HIDE DEF j
      <4>2. SubSeq(ps, 1, j + 1) = Append(SubSeq(ps, 1, j), ps[j + 1])  BY <3>2, <4>1, PrefixGrows
      <4>3. SubSeq(ps, 1, Len(ps)) = ps  BY <3>2, SubSeqFull
      <4> QED  BY <4>1, <4>2, <4>3 DEF j
    <3>6. Split(ps, c) = Append(h, l \o <<c>>)
      <4>1. Append(l, c) = l \o <<c>> /\ Append(l, c) \in Row
        BY <3>1, <3>4, AppendIsConcat, AppendProperties DEF Row
      <4>2. Split(ps, c) = [ps EXCEPT ![m] = Append(l, c)]
        <5>1. DOMAIN ps = 1..m  BY <3>2, LenProperties
        <5> QED  BY <2>7, <3>3, <5>1 DEF Split
      <4> DEFINE e == Append(l, c)  q == [ps EXCEPT ![m] = e]  r == Append(h, e)
      <4>3. e \in Row  BY <4>1
      <4> HIDE DEF e, h, l
      <4>4. q \in Seq(Row) /\ Len(q) = m /\ \A j \in 1..m : q[j] = IF j = m THEN e ELSE ps[j]
        BY <3>2, <3>3, <4>3, ExceptSeq
      <4>5. r \in Seq(Row) /\ Len(r) = m /\ (\A j \in 1..m - 1 : r[j] = h[j]) /\ r[m] = e
        <5>1. Len(h) + 1 = m  BY <3>2, <3>4
        <5> QED  BY <3>4, <4>3, <5>1, AppendProperties
      <4>6. \A j \in 1..m - 1 : ps[j] = h[j]
        <5>1. \A j \in 1..Len(h) : Append(h, l)[j] = h[j]  BY <3>4, AppendProperties
        <5> QED  BY <3>4, <3>5, <5>1
      <4>7. \A j \in 1..m : q[j] = r[j]
        <5> HIDE DEF q, r, m
        <5> QED  BY <3>2, <4>4, <4>5, <4>6
      <4>8. q = r
        <5> HIDE DEF q, r
        <5> QED  BY <4>4, <4>5, <4>7, SeqEqual
      <4> QED  BY <4>1, <4>2, <4>8 DEF e
    <3> HIDE DEF h, l, m
    <3>7. Flat(Append(h, l \o <<c>>)) = t \o <<c>>  BY <2>4, <3>1, <3>4, <3>5, FlatOfLonger
    <3>8. t \o <<c>> = Append(t, c)  BY <2>2, AppendIsConcat DEF Text
    <3> QED  BY <2>1, <2>3, <2>5, <3>6, <3>7, <3>8
  <2> QED  BY <2>6, <2>7
<1>5. 0..n \subseteq Same
  <2> HIDE DEF Same, n
  <2> QED  BY <1>1, <1>3, <1>4, IntervalInduction
<1>6. P(n) = s
  BY <1>1, SubSeqFull
<1>7. n \in Same
  <2>1. n \in 0..n  BY <1>1
  <2> HIDE DEF Same
  <2> QED  BY <1>5, <2>1
<1> HIDE DEF P
<1> QED
  BY <1>6, <1>7

(* The lines up to a place, and from it on.                                    *)
Upto(ls, p) == Append(SubSeq(ls, 1, p[1] - 1), LineBefore(ls, p))
Onward(ls, p) == <<LineBehind(ls, p)>> \o SubSeq(ls, p[1] + 1, Len(ls))

LEMMA PlaceSplits ==
  ASSUME NEW ls \in Rows, NEW p \in PlacesOf(ls)
  PROVE  /\ LineBefore(ls, p) \in Row /\ Len(LineBefore(ls, p)) = p[2]
         /\ LineBehind(ls, p) \in Row
         /\ LineBefore(ls, p) \o LineBehind(ls, p) = ls[p[1]]
         /\ SubSeq(ls, 1, p[1] - 1) \in Seq(Row) /\ SubSeq(ls, p[1] + 1, Len(ls)) \in Seq(Row)
         /\ Len(SubSeq(ls, 1, p[1] - 1)) = p[1] - 1
         /\ Upto(ls, p) \in Rows /\ Onward(ls, p) \in Rows
         /\ Len(Upto(ls, p)) = p[1] /\ Upto(ls, p)[p[1]] = LineBefore(ls, p)
         /\ Flat(ls) = Flat(Upto(ls, p)) \o Flat(Onward(ls, p))
         /\ Flat(ls) \in Text /\ Flat(Upto(ls, p)) \in Text /\ Flat(Onward(ls, p)) \in Text
<1> DEFINE l == ls[p[1]]  x == LineBefore(ls, p)  y == LineBehind(ls, p)
           u == SubSeq(ls, 1, p[1] - 1)  v == SubSeq(ls, p[1] + 1, Len(ls))
<1>1. p[1] \in 1..Len(ls) /\ p[2] \in 0..Len(l) /\ ls \in Seq(Row) /\ l \in Row /\ Len(l) \in Nat
  BY PlacesTyped, RowsTyped
<1>2. x \in Row /\ Len(x) = p[2] /\ y \in Row /\ x \o y = l
  <2> DEFINE b == p[2]  j == b + 1
  <2>1. /\ 1 \in 1..Len(l) + 1 /\ b \in 1 - 1..Len(l) /\ b - 1 + 1 = b
        /\ j \in 1..Len(l) + 1 /\ Len(l) \in j - 1..Len(l) /\ Len(l) \in b..Len(l)
    BY <1>1
  <2>2. x = SubSeq(l, 1, b) /\ y = SubSeq(l, j, Len(l))
    BY DEF LineBefore, LineBehind
  <2>3. l \in Seq(Chars)  BY <1>1 DEF Row
  <2> HIDE DEF x, y, l, b, j
  <2>4. SubSeq(l, 1, b) \in Seq(Chars) /\ Len(SubSeq(l, 1, b)) = b - 1 + 1
    BY <2>1, <2>3, SubSeqTyped
  <2>5. SubSeq(l, j, Len(l)) \in Seq(Chars)
    BY <2>1, <2>3, SubSeqTyped
  <2>6. SubSeq(l, 1, b) \o SubSeq(l, b + 1, Len(l)) = SubSeq(l, 1, Len(l))
    BY <2>1, <2>3, ConcatAdjacentSubSeq
  <2>7. SubSeq(l, 1, Len(l)) = l
    BY <2>3, SubSeqFull
  <2> QED  BY <2>1, <2>2, <2>4, <2>5, <2>6, <2>7 DEF b, j, Row
<1>3. u \in Seq(Row) /\ Len(u) = p[1] - 1 /\ v \in Seq(Row) /\ Around(u, l, v) = ls
  BY <1>1, AroundAny
<1>4. /\ Append(u, x) \in Rows /\ <<y>> \o v \in Rows
      /\ Flat(Around(u, x \o y, v)) = Flat(Append(u, x)) \o Flat(<<y>> \o v)
  <2> HIDE DEF u, v, x, y
  <2> QED  BY <1>2, <1>3, FlatOfJoin
<1>5. Len(Append(u, x)) = p[1] /\ Append(u, x)[p[1]] = x
  <2>1. Len(u) + 1 = p[1]  BY <1>1, <1>3
  <2> HIDE DEF u, x
  <2> QED  BY <1>2, <1>3, <2>1, AppendProperties
<1>6. Upto(ls, p) = Append(u, x) /\ Onward(ls, p) = <<y>> \o v
  BY DEF Upto, Onward
<1>7. Flat(ls) = Flat(Append(u, x)) \o Flat(<<y>> \o v)
  <2> HIDE DEF u, v, x, y, l
  <2> QED  BY <1>2, <1>3, <1>4
<1>8. Flat(ls) \in Text /\ Flat(Append(u, x)) \in Text /\ Flat(<<y>> \o v) \in Text
  <2> HIDE DEF u, v, x, y
  <2> QED  BY <1>4, FlatTyped
<1> HIDE DEF u, v, x, y, l
<1> QED
  BY <1>2, <1>3, <1>4, <1>5, <1>6, <1>7, <1>8 DEF u, v, x, y, l

(* A place where lines were joined.                                            *)
LEMMA JoinedAt ==
  ASSUME NEW u \in Seq(Row), NEW x \in Row, NEW y \in Row, NEW v \in Seq(Row)
  PROVE  LET ls == Around(u, x \o y, v)
             p == <<Len(u) + 1, Len(x)>>
         IN  /\ ls \in Rows /\ p \in PlacesOf(ls)
             /\ Upto(ls, p) = Append(u, x) /\ Onward(ls, p) = <<y>> \o v
<1> DEFINE z == x \o y  ls == Around(u, z, v)  a == Len(u) + 1  b == Len(x)  p == <<a, b>>
<1>1. z \in Row /\ Len(z) = Len(x) + Len(y) /\ Len(x) \in Nat /\ Len(y) \in Nat /\ Len(u) \in Nat
      /\ Len(v) \in Nat
  BY ConcatProperties, LenProperties DEF Row
<1>2. ls \in Rows
  BY FlatOfJoin
<1>3. SubSeq(z, 1, b) = x /\ SubSeq(z, b + 1, Len(z)) = y
  BY ConcatSplits DEF Row
<1> HIDE DEF z
<1>4. /\ Len(ls) = Len(u) + 1 + Len(v) /\ ls[Len(u) + 1] = z
      /\ SubSeq(ls, 1, Len(u)) = u /\ SubSeq(ls, Len(u) + 2, Len(ls)) = v
  <2>1. Len(Around(u, z, v)) = Len(u) + 1 + Len(v)  BY <1>1, AroundOne
  <2>2. Around(u, z, v)[Len(u) + 1] = z  BY <1>1, AroundOne
  <2>3. SubSeq(Around(u, z, v), 1, Len(u)) = u  BY <1>1, AroundOne
  <2>4. SubSeq(Around(u, z, v), Len(u) + 2, Len(Around(u, z, v))) = v  BY <1>1, AroundOne
  <2> QED  BY <2>1, <2>2, <2>3, <2>4
<1> HIDE DEF ls
<1>5. a \in 1..Len(ls) /\ ls[a] = z /\ b \in 0..Len(ls[a]) /\ a - 1 = Len(u) /\ a + 1 = Len(u) + 2
      /\ DOMAIN ls = 1..Len(ls)
  <2>1. DOMAIN ls = 1..Len(ls)  BY <1>2, LenProperties DEF Rows
  <2> QED  BY <1>1, <1>4, <2>1
<1>6. SubSeq(ls, 1, a - 1) = u /\ SubSeq(ls, a + 1, Len(ls)) = v
  BY <1>4, <1>5
<1> HIDE DEF a, b
<1>7. p \in PlacesOf(ls) /\ p[1] = a /\ p[2] = b
  BY <1>5 DEF PlacesOf
<1> HIDE DEF p
<1>8. LineBefore(ls, p) = x /\ LineBehind(ls, p) = y
  BY <1>3, <1>5, <1>7 DEF LineBefore, LineBehind
<1>9. Upto(ls, p) = Append(u, x) /\ Onward(ls, p) = <<y>> \o v
  BY <1>6, <1>7, <1>8 DEF Upto, Onward
<1> QED
  BY <1>2, <1>7, <1>9 DEF ls, z, p, a, b

(* The text that is left when the part between two places is deleted.          *)
LEMMA FlatOfDeleted ==
  ASSUME NEW ls \in Rows, NEW p \in PlacesOf(ls), NEW q \in PlacesOf(ls), Before(p, q)
  PROVE  LET cut == Deleted(ls, p, q)
         IN  /\ cut \in Rows /\ p \in PlacesOf(cut)
             /\ Upto(cut, p) = Upto(ls, p) /\ Onward(cut, p) = Onward(ls, q)
             /\ Flat(cut) = Flat(Upto(ls, p)) \o Flat(Onward(ls, q))
<1> DEFINE cut == Deleted(ls, p, q)  x == LineBefore(ls, p)  y == LineBehind(ls, q)
           u == SubSeq(ls, 1, p[1] - 1)  v == SubSeq(ls, q[1] + 1, Len(ls))
<1>1. /\ x \in Row /\ Len(x) = p[2] /\ u \in Seq(Row) /\ Len(u) = p[1] - 1
      /\ y \in Row /\ v \in Seq(Row) /\ p = <<p[1], p[2]>> /\ p[1] \in Nat
  <2>1. p = <<p[1], p[2]>> /\ p[1] \in 1..Len(ls)  BY PlacesTyped
  <2> QED  BY <2>1, PlaceSplits
<1>2. /\ cut \in Rows /\ p[1] \in 1..Len(cut) /\ cut[p[1]] = x \o y
      /\ SubSeq(cut, 1, p[1] - 1) = u /\ SubSeq(cut, p[1] + 1, Len(cut)) = v
  BY DeletedParts
<1>3. cut = Around(u, x \o y, v)
  <2> HIDE DEF cut, u, v, x, y
  <2>1. cut \in Seq(Row)  BY <1>2 DEF Rows
  <2>2. Around(SubSeq(cut, 1, p[1] - 1), cut[p[1]], SubSeq(cut, p[1] + 1, Len(cut))) = cut
    BY <1>2, <2>1, AroundAny
  <2> QED  BY <1>2, <2>2
<1>4. p = <<Len(u) + 1, Len(x)>>
  <2> HIDE DEF u, x
  <2> QED  BY <1>1
<1>5. Upto(ls, p) = Append(u, x) /\ Onward(ls, q) = <<y>> \o v
  BY DEF Upto, Onward
<1> HIDE DEF cut, u, v, x, y
<1>6. p \in PlacesOf(cut) /\ Upto(cut, p) = Append(u, x) /\ Onward(cut, p) = <<y>> \o v
  BY <1>1, <1>3, <1>4, JoinedAt
<1>7. Flat(cut) = Flat(Append(u, x)) \o Flat(<<y>> \o v)
  BY <1>1, <1>3, FlatOfJoin
<1> QED
  BY <1>2, <1>5, <1>6, <1>7 DEF cut

LEMMA LastApart ==
  ASSUME NEW S, NEW s \in Seq(S), NEW m \in 1..Len(s), m = Len(s)
  PROVE  /\ SubSeq(s, 1, m - 1) \in Seq(S) /\ Len(SubSeq(s, 1, m - 1)) = m - 1 /\ s[m] \in S
         /\ s = Append(SubSeq(s, 1, m - 1), s[m])
         /\ \A i \in 1..m - 1 : SubSeq(s, 1, m - 1)[i] = s[i]
<1> DEFINE j == m - 1  h == SubSeq(s, 1, j)
<1>1. m \in Nat /\ j \in 0..Len(s) - 1 /\ j + 1 = m
  BY LenProperties
<1>2. h \in Seq(S) /\ Len(h) = m - 1 /\ s[m] \in S
  BY AroundAny
<1> HIDE DEF j
<1>3. SubSeq(s, 1, j + 1) = Append(h, s[j + 1])
  BY <1>1, PrefixGrows
<1>4. s = Append(h, s[m])
  BY <1>1, <1>3, SubSeqFull
<1>5. \A i \in 1..m - 1 : h[i] = s[i]
  <2> HIDE DEF h
  <2>1. \A i \in 1..Len(h) : Append(h, s[m])[i] = h[i]  BY <1>2, AppendProperties
  <2> QED  BY <1>2, <1>4, <2>1, Zenon
<1> QED
  BY <1>2, <1>4, <1>5 DEF h, j

LEMMA FirstApart ==
  ASSUME NEW S, NEW s \in Seq(S), s # << >>
  PROVE  /\ SubSeq(s, 2, Len(s)) \in Seq(S) /\ Len(SubSeq(s, 2, Len(s))) = Len(s) - 1 /\ s[1] \in S
         /\ s = <<s[1]>> \o SubSeq(s, 2, Len(s))
         /\ \A i \in 1..Len(s) - 1 : SubSeq(s, 2, Len(s))[i] = s[i + 1]
<1> DEFINE n == Len(s)
<1>1. n \in Nat \ {0} /\ 1 \in 1..n /\ n \in 1..n /\ 2 \in 1..n + 1 /\ n \in 2 - 1..n /\ s[1] \in S
      /\ n - 2 + 1 = n - 1
  BY EmptySeq, ElementOfSeq
<1>2. SubSeq(s, 1, n) = <<s[1]>> \o SubSeq(s, 1 + 1, n) /\ 1 + 1 = 2
  BY <1>1, SubSeqRecursiveFirst
<1>3. /\ SubSeq(s, 2, n) \in Seq(S) /\ Len(SubSeq(s, 2, n)) = n - 2 + 1
      /\ \A k \in 1..n - 2 + 1 : SubSeq(s, 2, n)[k] = s[2 + k - 1]
  BY <1>1, SubSeqTyped
<1>4. \A i \in 1..n - 1 : SubSeq(s, 2, n)[i] = s[i + 1]
  <2> SUFFICES ASSUME NEW i \in 1..n - 1 PROVE SubSeq(s, 2, n)[i] = s[i + 1]
    OBVIOUS
  <2>1. i \in 1..n - 2 + 1 /\ 2 + i - 1 = i + 1  BY <1>1
  <2> QED  BY <1>3, <2>1
<1> QED
  BY <1>1, <1>2, <1>3, <1>4, SubSeqFull

(* The text that results from inserting at a place, and the place behind.      *)
LEMMA FlatOfInserted ==
  ASSUME NEW ls \in Rows, NEW p \in PlacesOf(ls), NEW s \in Text
  PROVE  LET new == Inserted(ls, p, s)
             q == Behind(ls, p, s)
         IN  /\ new \in Rows /\ q \in PlacesOf(new)
             /\ Flat(Upto(new, q)) = Flat(Upto(ls, p)) \o s
             /\ Onward(new, q) = Onward(ls, p)
             /\ Flat(new) = (Flat(Upto(ls, p)) \o s) \o Flat(Onward(ls, p))
<1> DEFINE x == LineBefore(ls, p)  y == LineBehind(ls, p)
           u == SubSeq(ls, 1, p[1] - 1)  v == SubSeq(ls, p[1] + 1, Len(ls))
           ps == Parts(s)  n == Len(ps)  w == SubSeq(ps, 2, n)
           first == x \o ps[1]  M == Around(u, first, w)  m == Len(M)
           h == SubSeq(M, 1, m - 1)  z == M[m]
           New == [k \in 1..n |-> ((IF k = 1 THEN x ELSE <<>>) \o ps[k])
                                    \o (IF k = n THEN y ELSE <<>>)]
           ins == Inserted(ls, p, s)  q == Behind(ls, p, s)
<1>1. /\ x \in Row /\ Len(x) = p[2] /\ y \in Row
      /\ u \in Seq(Row) /\ Len(u) = p[1] - 1 /\ v \in Seq(Row)
      /\ p[1] \in 1..Len(ls) /\ p[2] \in 0..Len(ls[p[1]]) /\ Len(ls[p[1]]) \in Nat /\ Len(ls) \in Nat
  <2>1. p[1] \in 1..Len(ls) /\ p[2] \in 0..Len(ls[p[1]])  BY PlacesTyped
  <2>2. Len(ls[p[1]]) \in Nat /\ Len(ls) \in Nat  BY <2>1, RowsTyped
  <2> QED  BY <2>1, <2>2, PlaceSplits
<1>2. /\ ps \in Seq(Row) /\ ps # << >> /\ n \in Nat /\ 1 <= n /\ ps[1] \in Row
      /\ \A k \in 1..n : ps[k] \in Row
      /\ Flat(ps) = s
  <2>1. ps \in Rows  BY PartsTyped
  <2>2. ps \in Seq(Row) /\ n \in Nat /\ 1 <= n /\ \A k \in 1..n : ps[k] \in Row
    <3> HIDE DEF ps
    <3> QED  BY <2>1, RowsTyped
  <2>3. 1 \in 1..n  BY <2>2
  <2> QED  BY <2>1, <2>2, <2>3, FlatOfParts DEF Rows
<1>3. Smaller(p[2], Len(ls[p[1]])) = p[2]
  BY <1>1 DEF Smaller
<1>4. ins = (u \o New) \o v
  BY <1>3 DEF Inserted, LineBefore, LineBehind
<1>5. q = <<p[1] + n - 1, (IF n = 1 THEN p[2] ELSE 0) + Len(ps[n])>>
  BY <1>3 DEF Behind
<1> HIDE DEF x, y, u, v, ps, ins, q
<1>a. p[1] \in Nat /\ p[1] >= 1 /\ p[2] \in Nat
  BY <1>1
<1>b. x \in Row /\ y \in Row /\ u \in Seq(Row) /\ v \in Seq(Row) /\ ps[1] \in Row
  BY <1>1, <1>2
<1>c. Len(x) = p[2] /\ Len(u) = p[1] - 1
  BY <1>1
<1>6. /\ w \in Seq(Row) /\ Len(w) = n - 1 /\ ps = <<ps[1]>> \o w
      /\ \A i \in 1..n - 1 : w[i] = ps[i + 1]
  BY <1>2, FirstApart
<1> HIDE DEF w, n
<1>7. M \in Rows /\ Flat(M) = Flat(Append(u, x)) \o s
  <2>1. /\ M \in Rows
        /\ Flat(Around(u, x \o ps[1], w)) = Flat(Append(u, x)) \o Flat(<<ps[1]>> \o w)
    BY <1>b, <1>6, FlatOfJoin
  <2> QED  BY <1>2, <1>6, <2>1
<1>8. first \in Row /\ Len(first) = p[2] + Len(ps[1])
  <2> DEFINE r == ps[1]
  <2>1. x \in Seq(Chars) /\ r \in Seq(Chars)  BY <1>b DEF Row
  <2> HIDE DEF r
  <2>2. x \o r \in Seq(Chars) /\ Len(x \o r) = Len(x) + Len(r)  BY <2>1, ConcatProperties
  <2> QED  BY <1>c, <2>2 DEF r, Row
<1> HIDE DEF first
<1>9. /\ M \in Seq(Row) /\ m = Len(u) + 1 + Len(w) /\ m = Len(u) + n /\ m = p[1] + n - 1
      /\ m \in 1..Len(M) /\ m \in Nat /\ Len(u) \in Nat
  <2>1. M \in Seq(Row) /\ m = Len(u) + 1 + Len(w)
    <3>1. u \in Seq(Row) /\ first \in Row /\ w \in Seq(Row)  BY <1>b, <1>6, <1>8
    <3>2. /\ Around(u, first, w) \in Seq(Row)
          /\ Len(Around(u, first, w)) = Len(u) + 1 + Len(w)
      BY <3>1, AroundOne
    <3> QED  BY <3>2
  <2> HIDE DEF m, M
  <2>2. m = p[1] + n - 1 /\ m = Len(u) + n /\ m \in 1..m /\ m \in Nat /\ Len(u) \in Nat
    <3> DEFINE a == p[1]  k == Len(u)  l == Len(w)
    <3>1. a \in Nat /\ a >= 1  BY <1>a
    <3>2. k = a - 1  BY <1>c
    <3>3. n \in Nat /\ 1 <= n  BY <1>2
    <3>4. l = n - 1  BY <1>6
    <3>5. m = k + 1 + l  BY <2>1
    <3> HIDE DEF a, k, l
    <3>6. m = a + n - 1 /\ m = k + n /\ m \in 1..m /\ m \in Nat /\ k \in Nat
      BY <3>1, <3>2, <3>3, <3>4, <3>5
    <3> QED  BY <3>6 DEF a, k
  <2> QED  BY <2>1, <2>2 DEF m
<1>10. \A i \in 1..Len(u) : M[i] = u[i]
  <2>1. SubSeq(M, 1, Len(u)) = u  BY <1>b, <1>6, <1>8, AroundOne
  <2>2. 1 \in 1..Len(M) + 1 /\ Len(u) \in 1 - 1..Len(M) /\ Len(u) - 1 + 1 = Len(u)
    <3> HIDE DEF M
    <3> QED  BY <1>2, <1>9
  <2> HIDE DEF M
  <2>3. \A k \in 1..Len(u) - 1 + 1 : SubSeq(M, 1, Len(u))[k] = M[1 + k - 1]
    BY <1>9, <2>2, SubSeqTyped
  <2>4. ASSUME NEW i \in 1..Len(u) PROVE M[i] = u[i]
    <3>1. i \in 1..Len(u) - 1 + 1 /\ 1 + i - 1 = i  BY <1>9
    <3> QED  BY <2>1, <2>3, <3>1
  <2> QED  BY <2>4
<1>11. M[Len(u) + 1] = first
  BY <1>b, <1>6, <1>8, AroundOne
<1>12. \A k \in 2..n : M[Len(u) + k] = ps[k]
  <2> SUFFICES ASSUME NEW k \in 2..n PROVE M[Len(u) + k] = ps[k]
    OBVIOUS
  <2> DEFINE o == u \o <<first>>
  <2>1. o \in Seq(Row) /\ Len(o) = Len(u) + 1
    <3> DEFINE g == <<first>>
    <3>1. g \in Seq(Row) /\ Len(g) = 1  BY <1>8
    <3> HIDE DEF g
    <3>2. u \o g \in Seq(Row) /\ Len(u \o g) = Len(u) + Len(g)  BY <1>1, <3>1, ConcatProperties
    <3> QED  BY <3>1, <3>2 DEF g
  <2>2. M = o \o w
    BY DEF Around
  <2> DEFINE i == Len(u) + k
  <2>3. i \in 1..Len(o) + Len(w) /\ ~(i <= Len(o)) /\ i - Len(o) = k - 1 /\ k - 1 \in 1..n - 1
        /\ (k - 1) + 1 = k
    <3> HIDE DEF o
    <3> QED  BY <1>2, <1>6, <1>9, <2>1
  <2> HIDE DEF o, i, M
  <2>4. (o \o w)[i] = w[i - Len(o)]
    BY <1>6, <2>1, <2>3, ConcatProperties
  <2>5. w[k - 1] = ps[k]
    BY <1>6, <2>3
  <2> QED  BY <2>2, <2>3, <2>4, <2>5 DEF i
<1> HIDE DEF M
<1>13. /\ h \in Seq(Row) /\ Len(h) = m - 1 /\ z \in Row /\ M = Append(h, z)
       /\ \A i \in 1..m - 1 : h[i] = M[i]
  BY <1>9, LastApart
<1>14. z = IF n = 1 THEN first ELSE ps[n]
  <2>1. CASE n = 1  BY <1>9, <1>11, <2>1
  <2>2. CASE n # 1
    <3>1. n \in 2..n  BY <1>2, <2>2
    <3> QED  BY <1>9, <1>12, <2>2, <3>1
  <2> QED  BY <2>1, <2>2
<1>15. New \in Seq(Row) /\ Len(New) = n
       /\ \A k \in 1..n : New[k] = ((IF k = 1 THEN x ELSE <<>>) \o ps[k]) \o (IF k = n THEN y ELSE <<>>)
  <2>1. \A k \in 1..n : ((IF k = 1 THEN x ELSE <<>>) \o ps[k]) \o (IF k = n THEN y ELSE <<>>) \in Row
    <3> SUFFICES ASSUME NEW k \in 1..n
                 PROVE  ((IF k = 1 THEN x ELSE <<>>) \o ps[k]) \o (IF k = n THEN y ELSE <<>>) \in Row
      OBVIOUS
    <3> DEFINE f == IF k = 1 THEN x ELSE <<>>  t == IF k = n THEN y ELSE <<>>
    <3>1. f \in Row /\ t \in Row /\ ps[k] \in Row  BY <1>1, <1>2 DEF Row
    <3> HIDE DEF f, t
    <3>2. f \o ps[k] \in Row  BY <3>1, ConcatProperties DEF Row
    <3> DEFINE g == f \o ps[k]
    <3> HIDE DEF g
    <3>3. g \o t \in Row  BY <3>1, <3>2, ConcatProperties DEF Row, g
    <3> QED  BY <3>3 DEF f, t, g
  <2>2. New \in [1..n -> Row]
    BY <2>1
  <2>3. \A k \in 1..n : New[k] = ((IF k = 1 THEN x ELSE <<>>) \o ps[k]) \o (IF k = n THEN y ELSE <<>>)
    OBVIOUS
  <2> HIDE DEF New
  <2>4. New \in Seq(Row) /\ Len(New) = n
    BY <1>2, <2>2
  <2> QED  BY <2>3, <2>4
<1> HIDE DEF New
<1>16. \A k \in 1..n : New[k] = IF k = n THEN z \o y ELSE M[Len(u) + k]
  <2> SUFFICES ASSUME NEW k \in 1..n
               PROVE  New[k] = IF k = n THEN z \o y ELSE M[Len(u) + k]
    OBVIOUS
  <2>1. New[k] = ((IF k = 1 THEN x ELSE <<>>) \o ps[k]) \o (IF k = n THEN y ELSE <<>>)
    BY <1>15
  <2>2. ps[k] \in Row /\ first \in Row
    BY <1>2, <1>8
  <2>3. <<>> \o ps[k] = ps[k] /\ ps[k] \o <<>> = ps[k] /\ first \o <<>> = first
    BY <2>2, ConcatEmptySeq DEF Row
  <2> USE DEF first
  <2>4. CASE k = n /\ k = 1
    BY <1>14, <2>1, <2>4
  <2>5. CASE k = n /\ k # 1
    BY <1>14, <2>1, <2>3, <2>5
  <2>6. CASE k # n /\ k = 1
    BY <1>11, <2>1, <2>3, <2>6
  <2>7. CASE k # n /\ k # 1
    <3>1. k \in 2..n  BY <1>2, <2>7
    <3> QED  BY <1>12, <2>1, <2>3, <2>7, <3>1
  <2> QED  BY <2>4, <2>5, <2>6, <2>7
<1>17. u \o New = h \o <<z \o y>>
  <2> DEFINE e == z \o y  g == <<e>>  a == u \o New  b == h \o g
  <2>1. e \in Row  BY <1>1, <1>13, ConcatProperties DEF Row
  <2> HIDE DEF e
  <2>2. g \in Seq(Row) /\ Len(g) = 1 /\ g[1] = e  BY <2>1
  <2> HIDE DEF g
  <2>3. a \in Seq(Row) /\ Len(a) = Len(u) + n
        /\ \A i \in 1..Len(u) + n : a[i] = IF i <= Len(u) THEN u[i] ELSE New[i - Len(u)]
    BY <1>1, <1>15, ConcatProperties
  <2>4. b \in Seq(Row) /\ Len(b) = (m - 1) + 1
        /\ \A i \in 1..(m - 1) + 1 : b[i] = IF i <= m - 1 THEN h[i] ELSE g[i - (m - 1)]
    <3>1. Len(h) = m - 1 /\ h \in Seq(Row)  BY <1>13
    <3> HIDE DEF h, m
    <3>2. /\ h \o g \in Seq(Row) /\ Len(h \o g) = Len(h) + Len(g)
          /\ \A i \in 1..Len(h) + Len(g) : (h \o g)[i] = IF i <= Len(h) THEN h[i] ELSE g[i - Len(h)]
      BY <2>2, <3>1, ConcatProperties
    <3> QED  BY <2>2, <3>1, <3>2
  <2> HIDE DEF a, b, m, h, z
  <2>5. ASSUME NEW i \in 1..Len(u) + n PROVE a[i] = b[i]
    <3>1. i \in 1..(m - 1) + 1  BY <1>9
    <3>2. CASE i <= Len(u)
      <4>1. i <= m - 1 /\ i \in 1..m - 1 /\ i \in 1..Len(u)  BY <1>2, <1>9, <3>2
      <4>2. a[i] = u[i] /\ b[i] = h[i]  BY <2>3, <2>4, <3>1, <3>2, <4>1
      <4> QED  BY <1>10, <1>13, <4>1, <4>2
    <3>3. CASE ~(i <= Len(u)) /\ i <= m - 1
      <4> DEFINE k == i - Len(u)
      <4>1. k \in 1..n /\ k # n /\ Len(u) + k = i /\ i \in 1..m - 1  BY <1>2, <1>9, <3>3
      <4>2. a[i] = New[k] /\ b[i] = h[i]  BY <2>3, <2>4, <3>1, <3>3
      <4> HIDE DEF k
      <4> QED  BY <1>13, <1>16, <4>1, <4>2
    <3>4. CASE ~(i <= m - 1)
      <4> DEFINE k == i - Len(u)
      <4>1. k = n /\ n \in 1..n /\ ~(i <= Len(u)) /\ i - (m - 1) = 1  BY <1>2, <1>9, <3>4
      <4>2. a[i] = New[k] /\ b[i] = g[i - (m - 1)]  BY <2>3, <2>4, <3>1, <3>4, <4>1
      <4> HIDE DEF k
      <4> QED  BY <1>16, <2>2, <4>1, <4>2 DEF e
    <3> QED  BY <3>2, <3>3, <3>4
  <2>6. Len(a) = Len(b)
    BY <1>9, <2>3, <2>4
  <2>7. a = b
    BY <2>3, <2>4, <2>5, <2>6, SeqEqual
  <2> QED  BY <2>7 DEF a, b, g, e
<1>18. ins = Around(h, z \o y, v)
  BY <1>4, <1>17 DEF Around
<1>19. q = <<Len(h) + 1, Len(z)>>
  <2>1. Len(h) + 1 = p[1] + n - 1
    <3> HIDE DEF h, m
    <3> QED  BY <1>9, <1>13
  <2>2. Len(z) = (IF n = 1 THEN p[2] ELSE 0) + Len(ps[n])
    <3> HIDE DEF z
    <3>1. n \in 1..n  BY <1>2
    <3>2. Len(ps[n]) \in Nat  BY <1>2, <3>1, LenProperties DEF Row
    <3>3. CASE n = 1  BY <1>8, <1>14, <3>3
    <3>4. CASE n # 1  BY <1>14, <3>2, <3>4
    <3> QED  BY <3>3, <3>4
  <2> QED  BY <1>5, <2>1, <2>2
<1> HIDE DEF h, z, m
<1>20. /\ ins \in Rows /\ q \in PlacesOf(ins)
       /\ Upto(ins, q) = M /\ Onward(ins, q) = <<y>> \o v
  <2>1. LET r == <<Len(h) + 1, Len(z)>>
        IN  /\ ins \in Rows /\ r \in PlacesOf(ins)
            /\ Upto(ins, r) = Append(h, z) /\ Onward(ins, r) = <<y>> \o v
    <3>1. h \in Seq(Row) /\ z \in Row  BY <1>13
    <3>2. LET l == Around(h, z \o y, v)
              r == <<Len(h) + 1, Len(z)>>
          IN  /\ l \in Rows /\ r \in PlacesOf(l)
              /\ Upto(l, r) = Append(h, z) /\ Onward(l, r) = <<y>> \o v
      BY <1>1, <3>1, JoinedAt
    <3> QED  BY <1>18, <3>2
  <2> QED  BY <1>13, <1>19, <2>1
<1>21. Upto(ls, p) = Append(u, x) /\ Onward(ls, p) = <<y>> \o v
  BY DEF Upto, Onward, u, x, y, v
<1>22. Flat(ins) = Flat(Upto(ins, q)) \o Flat(Onward(ins, q))
  BY <1>20, PlaceSplits
<1> QED
  BY <1>7, <1>20, <1>21, <1>22 DEF ins, q

(* What is copied is the text between the two places.                          *)
LEMMA FlatOfCopied ==
  ASSUME NEW ls \in Rows, NEW p \in PlacesOf(ls), NEW q \in PlacesOf(ls), Before(p, q)
  PROVE  /\ Copied(ls, p, q) \in Text
         /\ Flat(Upto(ls, q)) = Flat(Upto(ls, p)) \o Copied(ls, p, q)
<1> DEFINE cut == Deleted(ls, p, q)  s == Copied(ls, p, q)
<1>1. Inserted(cut, p, s) = ls /\ Behind(cut, p, s) = q
  BY CutThenPaste
<1>2. s \in Text
  BY CopiedParts
<1>3. cut \in Rows /\ p \in PlacesOf(cut) /\ Upto(cut, p) = Upto(ls, p)
  BY FlatOfDeleted
<1> HIDE DEF cut, s
<1>4. LET new == Inserted(cut, p, s)
          r == Behind(cut, p, s)
      IN  Flat(Upto(new, r)) = Flat(Upto(cut, p)) \o s
  BY <1>2, <1>3, FlatOfInserted
<1> QED
  BY <1>1, <1>2, <1>3, <1>4 DEF s

(* The length of the lines before line l, with their line ends.                *)
Start(ls, l) == Len(Flat(Append(SubSeq(ls, 1, l - 1), << >>)))

LEMMA StartInSteps ==
  ASSUME NEW ls \in Rows
  PROVE  /\ Start(ls, 1) = 0
         /\ \A l \in 1..Len(ls) : Start(ls, l) \in Nat
         /\ \A l \in 2..Len(ls) : Start(ls, l) = Start(ls, l - 1) + Len(ls[l - 1]) + 1
<1>1. ls \in Seq(Row) /\ Len(ls) \in Nat /\ << >> \in Row
  BY RowsTyped DEF Row
<1>2. \A l \in 1..Len(ls) : SubSeq(ls, 1, l - 1) \in Seq(Row)
  BY <1>1, AroundAny
<1>3. ASSUME NEW l \in 1..Len(ls) PROVE Start(ls, l) \in Nat
  <2> DEFINE u == SubSeq(ls, 1, l - 1)
  <2>1. u \in Seq(Row)  BY <1>2
  <2> HIDE DEF u
  <2>2. Append(u, << >>) \in Rows  BY <1>1, <2>1, AppendProperties DEF Rows
  <2>3. Flat(Append(u, << >>)) \in Text  BY <2>2, FlatTyped
  <2>4. Len(Flat(Append(u, << >>))) \in Nat  BY <2>3, LenProperties DEF Text
  <2> QED  BY <2>4 DEF Start, u
<1>4. Start(ls, 1) = 0
  <2>1. SubSeq(ls, 1, 1 - 1) = << >>  BY SubSeqEmpty
  <2>2. Append(<< >>, << >>) = << << >> >>  OBVIOUS
  <2>3. Flat(<< << >> >>) = << >>  BY <1>1, FlatOfOne
  <2>4. Start(ls, 1) = Len(Flat(Append(SubSeq(ls, 1, 1 - 1), << >>)))  BY Zenon DEF Start
  <2>5. Flat(Append(SubSeq(ls, 1, 1 - 1), << >>)) = << >>  BY <2>1, <2>2, <2>3, Zenon
  <2>6. Len(<< >>) = 0  OBVIOUS
  <2> QED  BY <2>4, <2>5, <2>6, Zenon
<1>5. ASSUME NEW l \in 2..Len(ls)
      PROVE  Start(ls, l) = Start(ls, l - 1) + Len(ls[l - 1]) + 1
  <2> DEFINE k == l - 1  g == SubSeq(ls, 1, k - 1)  r == ls[k]
  <2>1. k \in 1..Len(ls) /\ k - 1 \in 0..Len(ls) - 1 /\ (k - 1) + 1 = k
    BY <1>1
  <2>2. g \in Seq(Row) /\ r \in Row
    BY <1>1, <1>2, <2>1, RowsTyped
  <2>3. SubSeq(ls, 1, k) = Append(g, r)
    <3> DEFINE j == k - 1
    <3>1. j \in 0..Len(ls) - 1 /\ j + 1 = k  BY <2>1
    <3> HIDE DEF j
    <3>2. SubSeq(ls, 1, j + 1) = Append(SubSeq(ls, 1, j), ls[j + 1])  BY <1>1, <3>1, PrefixGrows
    <3> QED  BY <3>1, <3>2 DEF j
  <2>4. Start(ls, l) = Len(Flat(Append(SubSeq(ls, 1, k), << >>)))
    BY DEF Start
  <2>5. Start(ls, k) = Len(Flat(Append(g, << >>)))
    BY DEF Start
  <2> HIDE DEF k, g, r
  <2>6. Append(g, r) \in Rows /\ Append(g, << >>) \in Rows
        /\ Flat(Append(g, r)) = Flat(Append(g, << >>)) \o r
    <3>1. << >> \o r = r  BY <2>2, ConcatEmptySeq DEF Row
    <3>2. Append(g, << >> \o r) \in Rows /\ Append(g, << >>) \in Rows
          /\ Flat(Append(g, << >> \o r)) = Flat(Append(g, << >>)) \o r
      BY <1>1, <2>2, FlatOfLonger
    <3> QED  BY <3>1, <3>2
  <2>7. Flat(Append(Append(g, r), << >>)) = (Flat(Append(g, r)) \o <<NL>>) \o << >>
    BY <1>1, <2>6, FlatOfMore
  <2> DEFINE a == Flat(Append(g, << >>))  b == Flat(Append(g, r))
  <2>8. a \in Text /\ b \in Text /\ r \in Text /\ <<NL>> \in Text /\ << >> \in Text
    <3>1. a \in Text /\ b \in Text  BY <2>6, FlatTyped
    <3>2. r \in Text /\ << >> \in Text  BY <1>1, <2>2, RowIsText
    <3> QED  BY <3>1, <3>2 DEF Text
  <2> HIDE DEF a, b
  <2>9. Len(b) = Len(a) + Len(r) /\ Len(a) \in Nat /\ Len(r) \in Nat
    <3>1. b = a \o r  BY <2>6 DEF a, b
    <3> QED  BY <2>8, <3>1, TextConcat
  <2>10. Len((b \o <<NL>>) \o << >>) = Len(b) + 1
    <3>1. b \o <<NL>> \in Text /\ Len(b \o <<NL>>) = Len(b) + 1
      <4>1. Len(<<NL>>) = 1  OBVIOUS
      <4> QED  BY <2>8, <4>1, TextConcat
    <3>2. (b \o <<NL>>) \o << >> = b \o <<NL>>  BY <3>1, ConcatEmptySeq DEF Text
    <3> QED  BY <3>1, <3>2
  <2>11. Start(ls, l) = Len(b) + 1 /\ Start(ls, k) = Len(a)
    BY <2>3, <2>4, <2>5, <2>7, <2>10 DEF a, b
  <2> QED  BY <2>9, <2>11 DEF k, r
<1> QED
  BY <1>3, <1>4, <1>5

(* The offset of a place is the length of the text up to it.                   *)
LEMMA OffsetIs ==
  ASSUME NEW ls \in Rows, NEW p \in PlacesOf(ls)
  PROVE  /\ Offset(ls, p) = Start(ls, p[1]) + p[2]
         /\ Offset(ls, p) = Len(Flat(Upto(ls, p)))
<1> DEFINE n == p[1]
           Eq(f) == f = [l \in 1..p[1] |-> IF l = 1 THEN 0 ELSE f[l - 1] + Len(ls[l - 1]) + 1]
           g == [l \in 1..n |-> Start(ls, l)]
<1>1. n \in 1..Len(ls) /\ n \in Nat /\ Len(ls) \in Nat /\ ls \in Seq(Row)
  BY PlacesTyped, RowsTyped
<1>2. Start(ls, 1) = 0 /\ \A l \in 2..Len(ls) : Start(ls, l) = Start(ls, l - 1) + Len(ls[l - 1]) + 1
  BY StartInSteps
<1>3. Eq(g)
  <2> HIDE DEF n
  <2>1. ASSUME NEW l \in 1..n
        PROVE  Start(ls, l) = IF l = 1 THEN 0 ELSE g[l - 1] + Len(ls[l - 1]) + 1
    <3>1. CASE l = 1  BY <1>2, <3>1
    <3>2. CASE l # 1
      <4>1. l \in 2..Len(ls) /\ l - 1 \in 1..n  BY <1>1, <3>2
      <4>2. g[l - 1] = Start(ls, l - 1)  BY <4>1
      <4> HIDE DEF g
      <4> QED  BY <1>2, <3>2, <4>1, <4>2
    <3> QED  BY <3>1, <3>2
  <2>2. [l \in 1..n |-> Start(ls, l)] = [l \in 1..n |-> IF l = 1 THEN 0 ELSE g[l - 1] + Len(ls[l - 1]) + 1]
    <3> HIDE DEF g
    <3> QED  BY <2>1
  <2> QED  BY <2>2 DEF n
<1> DEFINE start == CHOOSE f : Eq(f)
<1>4. Eq(start)
  <2> HIDE DEF Eq, g
  <2> QED  BY <1>3
<1>5. Offset(ls, p) = start[n] + p[2]
  BY DEF Offset
<1> HIDE DEF start
<1>6. \A l \in 1..n : start[l] = IF l = 1 THEN 0 ELSE start[l - 1] + Len(ls[l - 1]) + 1
  BY <1>4
<1> HIDE DEF Eq, g, n
<1> DEFINE m == n - 1
           Same == {k \in 0..m : start[k + 1] = Start(ls, k + 1)}
<1>7. 0 \in Same
  <2>1. 0 \in 0..m /\ 1 \in 1..n /\ 0 + 1 = 1  BY <1>1
  <2> QED  BY <1>2, <1>6, <2>1
<1>8. ASSUME NEW k \in 0..m - 1, k \in Same PROVE k + 1 \in Same
  <2> DEFINE l == (k + 1) + 1
  <2>1. l \in 1..n /\ l \in 2..Len(ls) /\ l - 1 = k + 1 /\ k + 1 \in 0..m /\ l # 1
    BY <1>1
  <2>2. start[k + 1] = Start(ls, k + 1)
    BY <1>8
  <2> HIDE DEF l, m
  <2>3. start[l] = start[l - 1] + Len(ls[l - 1]) + 1
    BY <1>6, <2>1
  <2>4. Start(ls, l) = Start(ls, l - 1) + Len(ls[l - 1]) + 1
    BY <1>2, <2>1
  <2>5. start[l] = Start(ls, l)
    BY <2>1, <2>2, <2>3, <2>4
  <2> QED  BY <2>1, <2>5 DEF l
<1>9. m \in Nat /\ 0..m \subseteq Same
  <2>1. m \in Nat  BY <1>1
  <2> HIDE DEF Same, m
  <2> QED  BY <1>7, <1>8, <2>1, IntervalInduction
<1>10. start[n] = Start(ls, n)
  <2>1. m \in 0..m /\ m + 1 = n  BY <1>1
  <2> HIDE DEF m
  <2> QED  BY <1>9, <2>1
<1>11. Offset(ls, p) = Start(ls, n) + p[2]
  BY <1>5, <1>10
<1>12. Len(Flat(Upto(ls, p))) = Start(ls, n) + p[2]
  <2> DEFINE u == SubSeq(ls, 1, p[1] - 1)  x == LineBefore(ls, p)
  <2>1. u \in Seq(Row) /\ x \in Row /\ Len(x) = p[2] /\ << >> \in Row
    BY PlaceSplits DEF Row
  <2>2. Upto(ls, p) = Append(u, x) /\ Start(ls, n) = Len(Flat(Append(u, << >>)))
    BY DEF Upto, Start, n
  <2> HIDE DEF u, x
  <2>3. Append(u, << >>) \in Rows /\ Flat(Append(u, x)) = Flat(Append(u, << >>)) \o x
    <3>1. << >> \o x = x  BY <2>1, ConcatEmptySeq DEF Row
    <3>2. Append(u, << >>) \in Rows /\ Flat(Append(u, << >> \o x)) = Flat(Append(u, << >>)) \o x
      BY <2>1, FlatOfLonger
    <3> QED  BY <3>1, <3>2
  <2> DEFINE a == Flat(Append(u, << >>))
  <2>4. a \in Text /\ x \in Text
    BY <2>1, <2>3, FlatTyped, RowIsText
  <2> HIDE DEF a
  <2>5. Len(a \o x) = Len(a) + Len(x)
    BY <2>4, TextConcat
  <2> QED  BY <2>1, <2>2, <2>3, <2>5 DEF a
<1> QED
  BY <1>11, <1>12 DEF n

-----------------------------------------------------------------------------
(* What the operations do to the joined text                                   *)

(* The text in front of a place and the text behind it.                        *)
LEMMA TextHalves ==
  ASSUME NEW ls \in Rows, NEW p \in PlacesOf(ls)
  PROVE  LET t == Flat(ls)
             o == Offset(ls, p)
         IN  /\ t \in Text /\ Len(t) \in Nat /\ o \in 0..Len(t)
             /\ SubSeq(t, 1, o) = Flat(Upto(ls, p)) /\ SubSeq(t, o + 1, Len(t)) = Flat(Onward(ls, p))
             /\ Len(Flat(Upto(ls, p))) = o
             /\ Flat(Upto(ls, p)) \in Text /\ Flat(Onward(ls, p)) \in Text
<1> DEFINE t == Flat(ls)  o == Offset(ls, p)  u == Flat(Upto(ls, p))  v == Flat(Onward(ls, p))
<1>1. t = u \o v /\ t \in Text /\ u \in Text /\ v \in Text
  BY PlaceSplits
<1>2. o = Len(u)
  BY OffsetIs
<1> HIDE DEF t, o, u, v
<1>3. Len(u \o v) = Len(u) + Len(v) /\ Len(u) \in Nat /\ Len(v) \in Nat
  BY <1>1, TextConcat
<1>4. Len(t) \in Nat /\ o \in 0..Len(t)
  BY <1>1, <1>2, <1>3
<1>5. SubSeq(u \o v, 1, Len(u)) = u /\ SubSeq(u \o v, Len(u) + 1, Len(u \o v)) = v
  BY <1>1, ConcatSplits DEF Text
<1>6. SubSeq(t, 1, o) = u /\ SubSeq(t, o + 1, Len(t)) = v
  BY <1>1, <1>2, <1>5, Zenon
<1> QED
  BY <1>1, <1>2, <1>4, <1>6 DEF t, o, u, v

LEMMA DeletedFlat ==
  ASSUME NEW ls \in Rows, NEW p \in PlacesOf(ls), NEW q \in PlacesOf(ls), Before(p, q)
  PROVE  LET cut == Deleted(ls, p, q)
         IN  /\ cut \in Rows /\ p \in PlacesOf(cut)
             /\ Flat(cut) = FT!Remove(Flat(ls), Offset(ls, p), Offset(ls, q))
             /\ Offset(cut, p) = Offset(ls, p)
<1> DEFINE cut == Deleted(ls, p, q)
<1>1. /\ cut \in Rows /\ p \in PlacesOf(cut)
      /\ Upto(cut, p) = Upto(ls, p)
      /\ Flat(cut) = Flat(Upto(ls, p)) \o Flat(Onward(ls, q))
  BY FlatOfDeleted
<1> HIDE DEF cut
<1>2. Offset(cut, p) = Offset(ls, p)
  <2>1. Offset(cut, p) = Len(Flat(Upto(cut, p)))  BY <1>1, OffsetIs
  <2>2. Offset(ls, p) = Len(Flat(Upto(ls, p)))  BY OffsetIs
  <2> QED  BY <1>1, <2>1, <2>2
<1>3. SubSeq(Flat(ls), 1, Offset(ls, p)) = Flat(Upto(ls, p))
  BY TextHalves
<1>4. SubSeq(Flat(ls), Offset(ls, q) + 1, Len(Flat(ls))) = Flat(Onward(ls, q))
  BY TextHalves
<1>5. Flat(cut) = FT!Remove(Flat(ls), Offset(ls, p), Offset(ls, q))
  BY <1>1, <1>3, <1>4, Zenon DEF FT!Remove
<1> QED
  BY <1>1, <1>2, <1>5 DEF cut

LEMMA InsertedFlat ==
  ASSUME NEW ls \in Rows, NEW p \in PlacesOf(ls), NEW s \in Text
  PROVE  LET new == Inserted(ls, p, s)
             q == Behind(ls, p, s)
         IN  /\ new \in Rows /\ q \in PlacesOf(new)
             /\ Flat(new) = FT!Insert(Flat(ls), Offset(ls, p), s)
             /\ Offset(new, q) = Offset(ls, p) + Len(s)
<1> DEFINE new == Inserted(ls, p, s)  q == Behind(ls, p, s)
           u == Flat(Upto(ls, p))  v == Flat(Onward(ls, p))
<1>1. /\ new \in Rows /\ q \in PlacesOf(new)
      /\ Flat(Upto(new, q)) = u \o s
      /\ Onward(new, q) = Onward(ls, p)
  BY FlatOfInserted
<1> HIDE DEF new, q
<1>2. SubSeq(Flat(ls), 1, Offset(ls, p)) = u /\ SubSeq(Flat(ls), Offset(ls, p) + 1, Len(Flat(ls))) = v
      /\ u \in Text /\ Len(u) = Offset(ls, p)
  BY TextHalves
<1>3. Flat(new) = Flat(Upto(new, q)) \o Flat(Onward(new, q))
  BY <1>1, PlaceSplits
<1>4. Offset(new, q) = Len(Flat(Upto(new, q)))
  BY <1>1, OffsetIs
<1>5. Len(u \o s) = Len(u) + Len(s)
  BY <1>2, TextConcat
<1>6. Flat(new) = FT!Insert(Flat(ls), Offset(ls, p), s)
  <2>1. Flat(new) = (u \o s) \o v  BY <1>1, <1>3 DEF v
  <2> HIDE DEF u, v
  <2> QED  BY <1>2, <2>1, Zenon DEF FT!Insert
<1>7. Offset(new, q) = Offset(ls, p) + Len(s)
  BY <1>1, <1>2, <1>4, <1>5
<1> QED
  BY <1>1, <1>6, <1>7 DEF new, q

LEMMA CopiedFlat ==
  ASSUME NEW ls \in Rows, NEW p \in PlacesOf(ls), NEW q \in PlacesOf(ls), Before(p, q)
  PROVE  /\ Copied(ls, p, q) \in Text
         /\ Copied(ls, p, q) = SubSeq(Flat(ls), Offset(ls, p) + 1, Offset(ls, q))
         /\ Offset(ls, p) <= Offset(ls, q)
<1> DEFINE t == Flat(ls)  a == Offset(ls, p)  b == Offset(ls, q)  s == Copied(ls, p, q)
           u == Flat(Upto(ls, p))  w == Flat(Upto(ls, q))
<1>1. s \in Text /\ w = u \o s
  BY FlatOfCopied
<1>2. t \in Text /\ Len(t) \in Nat /\ a \in 0..Len(t) /\ u \in Text /\ Len(u) = a
  BY TextHalves
<1>3. b \in 0..Len(t) /\ SubSeq(t, 1, b) = w /\ Len(w) = b
  BY TextHalves
<1> HIDE DEF t, a, b, s, u, w
<1>4. Len(u \o s) = Len(u) + Len(s) /\ Len(s) \in Nat /\ Len(u) \in Nat
  BY <1>1, <1>2, TextConcat
<1>5. b = a + Len(s) /\ a <= b /\ a \in Nat /\ b \in Nat
  BY <1>1, <1>2, <1>3, <1>4
<1> DEFINE c == a + 1
<1>6. c \in 1..Len(t) + 1 /\ b \in c - 1..Len(t) /\ b - c + 1 = Len(s)
  BY <1>2, <1>3, <1>4, <1>5
<1>7. \A k \in 1..Len(s) : c + k - 1 = a + k /\ a + k \in 1..b /\ a + k - 1 + 1 = a + k
  BY <1>4, <1>5
<1>8. 1 \in 1..Len(t) + 1 /\ b \in 1 - 1..Len(t) /\ b - 1 + 1 = b
  BY <1>2, <1>3
<1> HIDE DEF c
<1>9. /\ SubSeq(t, c, b) \in Seq(Chars \cup {NL}) /\ Len(SubSeq(t, c, b)) = Len(s)
      /\ \A k \in 1..Len(s) : SubSeq(t, c, b)[k] = t[c + k - 1]
  BY <1>2, <1>6, SubSeqTyped DEF Text
<1>10. \A k \in 1..b : w[k] = t[k]
  <2>1. \A k \in 1..b - 1 + 1 : SubSeq(t, 1, b)[k] = t[1 + k - 1]
    BY <1>2, <1>8, SubSeqTyped DEF Text
  <2>2. \A k \in 1..b : 1 + k - 1 = k  OBVIOUS
  <2> QED  BY <1>3, <1>8, <2>1, <2>2
<1>11. \A k \in 1..Len(s) : (u \o s)[a + k] = s[k]
  <2>1. \A i \in 1..Len(u) + Len(s) : (u \o s)[i] = IF i <= Len(u) THEN u[i] ELSE s[i - Len(u)]
    BY <1>1, <1>2, ConcatProperties DEF Text
  <2>2. ASSUME NEW k \in 1..Len(s) PROVE (u \o s)[a + k] = s[k]
    <3> DEFINE i == a + k
    <3>1. i \in 1..Len(u) + Len(s) /\ ~(i <= Len(u)) /\ i - Len(u) = k
      BY <1>2, <1>4, <1>5
    <3> HIDE DEF i
    <3>2. (u \o s)[i] = s[i - Len(u)]  BY <2>1, <3>1
    <3> QED  BY <3>1, <3>2 DEF i
  <2> QED  BY <2>2
<1>12. ASSUME NEW k \in 1..Len(s) PROVE SubSeq(t, c, b)[k] = s[k]
  BY <1>1, <1>7, <1>9, <1>10, <1>11
<1>13. SubSeq(t, c, b) = s
  BY <1>1, <1>9, <1>12, SeqEqual DEF Text
<1> QED
  BY <1>1, <1>5, <1>13 DEF t, a, b, s, c

-----------------------------------------------------------------------------
(* Lines and columns of places in the joined text                              *)

(* Joined lines have one line end less than there are lines.                   *)
LEMMA LineEndsOfFlat ==
  ASSUME NEW ls \in Rows
  PROVE  Tally(Flat(ls), {NL}) = Len(ls) - 1
<1> DEFINE n == Len(ls)
           L(k) == SubSeq(ls, 1, k)
           Good == {k \in 0..n - 1 : L(k + 1) \in Rows /\ Tally(Flat(L(k + 1)), {NL}) = k}
<1>1. ls \in Seq(Row) /\ n \in Nat /\ 1 <= n /\ \A i \in 1..n : ls[i] \in Row
  BY RowsTyped
<1>2. ASSUME NEW l \in Row PROVE Tally(l, {NL}) = 0
  <2>1. l \in Seq(Chars) /\ NL \notin Chars  BY LineEndIsNoChar DEF Row
  <2>2. \A i \in DOMAIN l : l[i] \in Chars  BY <2>1, LenProperties, ElementOfSeq
  <2>3. \A i \in DOMAIN l : l[i] \notin {NL}  BY <2>1, <2>2
  <2> QED  BY <2>1, <2>3, TallyOfNone
<1> HIDE DEF n
<1>3. L(1) = <<ls[1]>>
  <2>1. 0 \in 0..Len(ls) - 1 /\ 0 + 1 = 1  BY <1>1 DEF n
  <2>2. SubSeq(ls, 1, 0 + 1) = Append(SubSeq(ls, 1, 0), ls[0 + 1])  BY <1>1, <2>1, PrefixGrows
  <2>3. SubSeq(ls, 1, 0) = << >>  BY SubSeqEmpty
  <2>4. Append(<< >>, ls[1]) = <<ls[1]>>  OBVIOUS
  <2> QED  BY <2>1, <2>2, <2>3, <2>4
<1>4. 0 \in Good
  <2>1. 1 \in 1..n /\ 0 + 1 = 1 /\ 0 \in 0..n - 1  BY <1>1
  <2>2. L(1) \in Rows /\ Flat(L(1)) = ls[1]  BY <1>1, <1>3, <2>1, FlatOfOne
  <2>3. Tally(ls[1], {NL}) = 0  BY <1>1, <1>2, <2>1
  <2> HIDE DEF L
  <2> QED  BY <2>1, <2>2, <2>3
<1>5. ASSUME NEW k \in 0..(n - 1) - 1, k \in Good PROVE k + 1 \in Good
  <2> DEFINE j == k + 1  u == L(j)  l == ls[j + 1]
  <2>1. j \in 0..n - 1 /\ j + 1 \in 1..n  BY <1>1
  <2> HIDE DEF j
  <2>2. L(j + 1) = Append(u, l)  BY <1>1, <2>1, PrefixGrows DEF n
  <2>3. u \in Rows /\ Tally(Flat(u), {NL}) = k  BY <1>5 DEF j
  <2>4. l \in Row  BY <1>1, <2>1
  <2> HIDE DEF L, u, l
  <2>5. Append(u, l) \in Rows /\ Flat(Append(u, l)) = (Flat(u) \o <<NL>>) \o l
    BY <2>3, <2>4, FlatOfMore
  <2>6. Flat(u) \in Text /\ <<NL>> \in Text /\ l \in Text
    BY <2>3, <2>4, FlatTyped, RowIsText DEF Text
  <2>7. Flat(u) \o <<NL>> \in Text  BY <2>6, TextConcat
  <2>8. Tally((Flat(u) \o <<NL>>) \o l, {NL}) = Tally(Flat(u) \o <<NL>>, {NL}) + Tally(l, {NL})
    <3> DEFINE a == Flat(u) \o <<NL>>
    <3>1. a \in Seq(Chars \cup {NL}) /\ l \in Seq(Chars \cup {NL})  BY <2>6, <2>7 DEF Text
    <3> HIDE DEF a
    <3>2. Tally(a \o l, {NL}) = Tally(a, {NL}) + Tally(l, {NL})  BY <3>1, TallyOfConcat
    <3> QED  BY <3>2 DEF a
  <2>9. Tally(Flat(u) \o <<NL>>, {NL}) = Tally(Flat(u), {NL}) + 1
    <3>1. Flat(u) \o <<NL>> = Append(Flat(u), NL)  BY <2>6, AppendIsConcat DEF Text
    <3>2. Tally(Append(Flat(u), NL), {NL}) = Tally(Flat(u), {NL}) + (IF NL \in {NL} THEN 1 ELSE 0)
      BY <2>6, TallyOfAppend DEF Text
    <3> QED  BY <3>1, <3>2
  <2>10. Tally(Flat(L(j + 1)), {NL}) = j
    <3>1. Flat(L(j + 1)) = (Flat(u) \o <<NL>>) \o l  BY <2>2, <2>5, Zenon
    <3>2. Tally(Flat(L(j + 1)), {NL}) = Tally(Flat(u) \o <<NL>>, {NL}) + Tally(l, {NL})  BY <2>8, <3>1, Zenon
    <3>3. Tally(l, {NL}) = 0 /\ j = k + 1 /\ k \in Int  BY <1>2, <2>4 DEF j
    <3> QED  BY <2>3, <2>9, <3>2, <3>3
  <2>11. L(j + 1) \in Rows  BY <2>2, <2>5
  <2> QED  BY <2>1, <2>10, <2>11 DEF j
<1>6. 0..n - 1 \subseteq Good
  <2> HIDE DEF Good
  <2>1. n - 1 \in Nat  BY <1>1
  <2> QED  BY <1>4, <1>5, <2>1, IntervalInduction
<1>7. n - 1 \in Good
  <2>1. n - 1 \in 0..n - 1  BY <1>1
  <2> HIDE DEF Good
  <2> QED  BY <1>6, <2>1
<1>8. L((n - 1) + 1) = ls
  <2>1. (n - 1) + 1 = n  BY <1>1
  <2>2. SubSeq(ls, 1, n) = ls  BY <1>1, SubSeqFull DEF n
  <2> QED  BY <2>1, <2>2
<1> HIDE DEF L
<1> QED
  BY <1>7, <1>8 DEF n

(* Where a line starts: behind the last line end, or where the text does.      *)
LEMMA LineStartIs ==
  ASSUME NEW t, NEW at \in Nat, NEW i \in 0..at, i = 0 \/ t[i] = NL,
         \A j \in i + 1..at : t[j] # NL
  PROVE  FT!LineStart(t, at) = i
<1> DEFINE Starts(k) == (k = 0 \/ t[k] = NL) /\ \A j \in k + 1..at : t[j] # NL
<1>1. Starts(i)
  OBVIOUS
<1>2. ASSUME NEW k \in 0..at, Starts(k) PROVE k = i
  <2>1. CASE k < i
    <3>1. i \in k + 1..at /\ i # 0  BY <2>1
    <3> QED  BY <1>2, <3>1
  <2>2. CASE i < k
    <3>1. k \in i + 1..at /\ k # 0  BY <2>2
    <3> QED  BY <1>2, <3>1
  <2> QED  BY <2>1, <2>2
<1>3. FT!LineStart(t, at) = CHOOSE k \in 0..at : Starts(k)
  BY DEF FT!LineStart
<1> HIDE DEF Starts
<1> QED
  BY <1>1, <1>2, <1>3

(* The last line of joined lines.                                              *)
LEMMA LastLine ==
  ASSUME NEW u \in Seq(Row), NEW x \in Row
  PROVE  LET t == Flat(Append(u, x))
             i == Len(Flat(Append(u, << >>)))
         IN  /\ t \in Text /\ Len(t) = i + Len(x) /\ i \in Nat /\ Len(x) \in Nat
             /\ i = 0 \/ t[i] = NL
             /\ \A c \in 1..Len(x) : t[i + c] = x[c] /\ x[c] \in Chars
             /\ (u = << >> => i = 0) /\ (u # << >> => i = Len(Flat(u)) + 1)
<1> DEFINE e == << >>  t == Flat(Append(u, x))  s == Flat(Append(u, e))  i == Len(s)
<1>1. e \in Row /\ e \o x = x
  BY ConcatEmptySeq DEF Row
<1>2. Append(u, e) \in Rows /\ t = s \o x /\ Append(u, x) \in Rows
  <2>1. /\ Append(u, e) \in Rows /\ Append(u, e \o x) \in Rows
        /\ Flat(Append(u, e \o x)) = Flat(Append(u, e)) \o x
    BY <1>1, FlatOfLonger
  <2> HIDE DEF e
  <2> QED  BY <1>1, <2>1
<1>3. s \in Text /\ x \in Text /\ t \in Text
  BY <1>2, FlatTyped, RowIsText
<1>4. x \in Seq(Chars) /\ \A c \in 1..Len(x) : x[c] \in Chars
  BY ElementOfSeq DEF Row
<1>5. (u = << >> => s = << >>) /\ (u # << >> => u \in Rows /\ s = Append(Flat(u), NL))
  <2>1. CASE u = << >>
    <3>1. Append(u, e) = << e >>  BY <2>1
    <3>2. Flat(<< e >>) = e  BY <1>1, FlatOfOne
    <3> QED  BY <2>1, <3>1, <3>2
  <2>2. CASE u # << >>
    <3>1. u \in Rows  BY <2>2 DEF Rows
    <3>2. s = (Flat(u) \o <<NL>>) \o e  BY <1>1, <3>1, FlatOfMore
    <3>3. Flat(u) \in Text /\ NL \in Chars \cup {NL}  BY <3>1, FlatTyped
    <3>4. Append(Flat(u), NL) = Flat(u) \o <<NL>> /\ Append(Flat(u), NL) \in Text
      BY <3>3, AppendIsConcat, AppendProperties DEF Text
    <3>5. Append(Flat(u), NL) \o e = Append(Flat(u), NL)  BY <3>4, ConcatEmptySeq DEF Text
    <3> HIDE DEF e, s
    <3> QED  BY <2>2, <3>1, <3>2, <3>4, <3>5
  <2> QED  BY <2>1, <2>2
<1> HIDE DEF e, t, s
<1>6. Len(t) = i + Len(x) /\ i \in Nat /\ Len(x) \in Nat
  BY <1>2, <1>3, TextConcat
<1>7. \A k \in 1..Len(s) + Len(x) : t[k] = IF k <= Len(s) THEN s[k] ELSE x[k - Len(s)]
  BY <1>2, <1>3, ConcatProperties DEF Text
<1>8. ASSUME NEW c \in 1..Len(x) PROVE t[i + c] = x[c] /\ x[c] \in Chars
  <2> DEFINE k == i + c
  <2>1. k \in 1..Len(s) + Len(x) /\ ~(k <= Len(s)) /\ k - Len(s) = c  BY <1>6
  <2> HIDE DEF k, i
  <2>2. t[k] = x[k - Len(s)]  BY <1>7, <2>1
  <2> QED  BY <1>4, <2>1, <2>2 DEF k
<1>9. (u = << >> => i = 0) /\ (u # << >> => i = Len(Flat(u)) + 1 /\ s[i] = NL)
  <2>1. CASE u = << >>  BY <1>5, <2>1
  <2>2. CASE u # << >>
    <3>1. u \in Rows /\ s = Append(Flat(u), NL)  BY <1>5, <2>2
    <3>2. Flat(u) \in Text /\ NL \in Chars \cup {NL}  BY <3>1, FlatTyped
    <3>3. Len(s) = Len(Flat(u)) + 1 /\ s[Len(Flat(u)) + 1] = NL
      BY <3>1, <3>2, AppendProperties DEF Text
    <3> QED  BY <2>2, <3>3
  <2> QED  BY <2>1, <2>2
<1>10. i = 0 \/ t[i] = NL
  <2>1. CASE u = << >>  BY <1>9, <2>1
  <2>2. CASE u # << >>
    <3>1. s[i] = NL  BY <1>9, <2>2
    <3>2. CASE i = 0  BY <3>2
    <3>3. CASE i # 0
      <4>1. i \in 1..Len(s) + Len(x) /\ i <= Len(s)  BY <1>6, <3>3
      <4>2. t[i] = s[i]  BY <1>7, <4>1
      <4> QED  BY <3>1, <4>2
    <3> QED  BY <3>2, <3>3
  <2> QED  BY <2>1, <2>2
<1> QED
  BY <1>3, <1>6, <1>8, <1>9, <1>10 DEF e, t, s

LEMMA CoordinatesOfPlace ==
  ASSUME NEW ls \in Rows, NEW p \in PlacesOf(ls)
  PROVE  /\ FT!LineStart(Flat(ls), Offset(ls, p)) = Start(ls, p[1])
         /\ Offset(ls, p) - Start(ls, p[1]) = p[2]
         /\ FT!Coordinates(Flat(ls), Offset(ls, p)) = <<p[1] - 1, p[2]>>
<1> DEFINE t == Flat(ls)  o == Offset(ls, p)  u == SubSeq(ls, 1, p[1] - 1)  x == LineBefore(ls, p)
           w == Flat(Append(u, x))  i == Len(Flat(Append(u, << >>)))
<1>1. t \in Text /\ Len(t) \in Nat /\ o \in 0..Len(t) /\ SubSeq(t, 1, o) = w
  <2>1. t \in Text /\ Len(t) \in Nat /\ o \in 0..Len(t) /\ SubSeq(t, 1, o) = Flat(Upto(ls, p))
    BY TextHalves
  <2> QED  BY <2>1 DEF Upto
<1>2. u \in Seq(Row) /\ x \in Row /\ Len(x) = p[2]
  BY PlaceSplits
<1>3. Append(u, x) \in Rows /\ Len(Append(u, x)) = p[1]
  BY PlaceSplits DEF Upto
<1>4. i = Start(ls, p[1])
  BY DEF Start
<1>5. o = i + p[2]
  BY <1>4, OffsetIs
<1> HIDE DEF t, o, u, x
<1>6. /\ w \in Text /\ Len(w) = i + Len(x) /\ i \in Nat /\ Len(x) \in Nat
      /\ i = 0 \/ w[i] = NL
      /\ \A c \in 1..Len(x) : w[i + c] = x[c] /\ x[c] \in Chars
  BY <1>2, LastLine
<1> HIDE DEF w, i
<1>7. o \in Nat /\ Len(w) = o /\ i \in 0..o /\ p[2] \in Nat
  BY <1>2, <1>5, <1>6
<1>8. \A k \in 1..o : w[k] = t[k]
  <2>1. 1 \in 1..Len(t) + 1 /\ o \in 1 - 1..Len(t) /\ o - 1 + 1 = o  BY <1>1
  <2>2. \A k \in 1..o - 1 + 1 : SubSeq(t, 1, o)[k] = t[1 + k - 1]
    BY <1>1, <2>1, SubSeqTyped DEF Text
  <2>3. \A k \in 1..o : 1 + k - 1 = k  OBVIOUS
  <2> QED  BY <1>1, <2>1, <2>2, <2>3
<1>9. FT!LineStart(t, o) = i
  <2>1. i = 0 \/ t[i] = NL
    <3>1. CASE i = 0  BY <3>1
    <3>2. CASE i # 0
      <4>1. i \in 1..o  BY <1>7, <3>2
      <4> QED  BY <1>6, <1>8, <3>2, <4>1
    <3> QED  BY <3>1, <3>2
  <2>2. ASSUME NEW j \in i + 1..o PROVE t[j] # NL
    <3> DEFINE c == j - i
    <3>1. c \in 1..Len(x) /\ i + c = j /\ j \in 1..o  BY <1>2, <1>5, <1>6, <1>7
    <3> HIDE DEF c
    <3>2. w[j] = x[c] /\ x[c] \in Chars  BY <1>6, <3>1
    <3>3. t[j] = w[j]  BY <1>8, <3>1
    <3> QED  BY <3>2, <3>3, LineEndIsNoChar
  <2> QED  BY <1>7, <2>1, <2>2, LineStartIs
<1>10. Cardinality({k \in 1..o : t[k] = NL}) = p[1] - 1
  <2>1. DOMAIN w = 1..o  BY <1>6, <1>7, LenProperties DEF Text
  <2>2. {k \in 1..o : t[k] = NL} = {k \in DOMAIN w : w[k] \in {NL}}  BY <1>8, <2>1
  <2>3. Tally(w, {NL}) = p[1] - 1  BY <1>3, LineEndsOfFlat DEF w
  <2> QED  BY <2>2, <2>3 DEF Tally
<1>11. o - i = p[2]
  BY <1>5, <1>6, <1>7
<1>12. FT!Coordinates(t, o) = <<p[1] - 1, p[2]>>
  <2>1. FT!Cardinality({k \in 1..o : t[k] = NL}) = Cardinality({k \in 1..o : t[k] = NL})
    BY Zenon DEF FT!Cardinality, Cardinality
  <2> QED  BY <1>9, <1>10, <1>11, <2>1, Zenon DEF FT!Coordinates
<1> QED
  BY <1>4, <1>9, <1>11, <1>12 DEF t, o

(* A place is told by its offset.                                              *)
LEMMA OffsetsDiffer ==
  ASSUME NEW ls \in Rows, NEW p \in PlacesOf(ls), NEW q \in PlacesOf(ls),
         Offset(ls, p) = Offset(ls, q)
  PROVE  p = q
<1>1. FT!Coordinates(Flat(ls), Offset(ls, p)) = <<p[1] - 1, p[2]>>
  BY CoordinatesOfPlace
<1>2. FT!Coordinates(Flat(ls), Offset(ls, q)) = <<q[1] - 1, q[2]>>
  BY CoordinatesOfPlace
<1>3. <<p[1] - 1, p[2]>> = <<q[1] - 1, q[2]>>
  BY <1>1, <1>2, Zenon
<1>4. p[1] \in 1..Len(ls) /\ q[1] \in 1..Len(ls) /\ p = <<p[1], p[2]>> /\ q = <<q[1], q[2]>>
  BY PlacesTyped
<1>5. p[1] - 1 = q[1] - 1 /\ p[2] = q[2]
  BY <1>3
<1>6. p[1] = q[1]
  BY <1>4, <1>5, RowsTyped
<1> QED
  BY <1>4, <1>5, <1>6

(* Every place in the joined text is one in the lines.                         *)
LEMMA OffsetsReachAll ==
  ASSUME NEW ls \in Rows, NEW c \in 0..Len(Flat(ls))
  PROVE  \E p \in PlacesOf(ls) : Offset(ls, p) = c
<1> DEFINE t == Flat(ls)  n == Len(t)  a == SubSeq(t, 1, c)  b == SubSeq(t, c + 1, n)
           us == Parts(a)  vs == Parts(b)
           m == Len(us)  u == SubSeq(us, 1, m - 1)  x == us[m]  y == vs[1]  v == SubSeq(vs, 2, Len(vs))
           new == Around(u, x \o y, v)  r == <<Len(u) + 1, Len(x)>>
<1>1. t \in Text /\ n \in Nat
  BY FlatTyped, LenProperties DEF Text
<1> HIDE DEF t, n
<1>2. c \in 0..n /\ c \in Nat
  BY <1>1 DEF t, n
<1>3. a \in Text /\ Len(a) = c
  <2>1. 1 \in 1..n + 1 /\ c \in 1 - 1..n /\ c - 1 + 1 = c  BY <1>1, <1>2
  <2> QED  BY <1>1, <2>1, SubSeqTyped DEF Text, n
<1>4. b \in Text
  <2> DEFINE d == c + 1
  <2>1. d \in 1..n + 1 /\ n \in d - 1..n  BY <1>1, <1>2
  <2> HIDE DEF d
  <2>2. SubSeq(t, d, n) \in Text  BY <1>1, <2>1, SubSeqTyped DEF Text, n
  <2> QED  BY <2>2 DEF d
<1>5. a \o b = t
  <2>1. 1 \in 1..n + 1 /\ c \in 1 - 1..n /\ n \in c..n  BY <1>1, <1>2
  <2>2. SubSeq(t, 1, c) \o SubSeq(t, c + 1, n) = SubSeq(t, 1, n)
    BY <1>1, <2>1, ConcatAdjacentSubSeq DEF Text, n
  <2>3. SubSeq(t, 1, n) = t  BY <1>1, SubSeqFull DEF Text, n
  <2> QED  BY <2>2, <2>3, Zenon
<1> HIDE DEF a, b
<1>6. us \in Rows /\ vs \in Rows /\ Flat(us) = a /\ Flat(vs) = b
  BY <1>3, <1>4, PartsTyped, FlatOfParts
<1> HIDE DEF us, vs
<1>7. m \in 1..Len(us) /\ m = Len(us) /\ us \in Seq(Row)
  BY <1>6, RowsTyped
<1> HIDE DEF m
<1>8. u \in Seq(Row) /\ x \in Row /\ us = Append(u, x)
  BY <1>7, LastApart
<1>9. vs \in Seq(Row) /\ vs # << >>
  BY <1>6 DEF Rows
<1>10. v \in Seq(Row) /\ y \in Row /\ vs = <<y>> \o v
  BY <1>9, FirstApart
<1> HIDE DEF u, x, y, v
<1>11. LET l == Around(u, x \o y, v)
           q == <<Len(u) + 1, Len(x)>>
       IN  /\ l \in Rows /\ q \in PlacesOf(l)
           /\ Upto(l, q) = Append(u, x) /\ Onward(l, q) = <<y>> \o v
  BY <1>8, <1>10, JoinedAt
<1>12. new \in Rows /\ r \in PlacesOf(new) /\ Upto(new, r) = us /\ Onward(new, r) = vs
  BY <1>8, <1>10, <1>11
<1> HIDE DEF new, r
<1>13. Flat(new) = a \o b /\ Offset(new, r) = c
  <2>1. Flat(new) = Flat(Upto(new, r)) \o Flat(Onward(new, r))  BY <1>12, PlaceSplits
  <2>2. Offset(new, r) = Len(Flat(Upto(new, r)))  BY <1>12, OffsetIs
  <2>3. Flat(new) = a \o b  BY <1>6, <1>12, <2>1, Zenon
  <2>4. Offset(new, r) = Len(a)  BY <1>6, <1>12, <2>2, Zenon
  <2> QED  BY <1>3, <2>3, <2>4
<1>14. new = ls
  <2>1. Parts(Flat(new)) = new  BY <1>12, PartsOfFlat
  <2>2. Parts(Flat(ls)) = ls  BY PartsOfFlat
  <2>3. Flat(new) = Flat(ls)  BY <1>5, <1>13, Zenon DEF t
  <2> QED  BY <2>1, <2>2, <2>3, Zenon
<1> QED
  BY <1>12, <1>13, <1>14

(* The place p of ls in the joined text, or Nowhere.                           *)
At(ls, p) == IF p \in PlacesOf(ls) THEN Offset(ls, p) ELSE -1

(* FlatText finds lines and columns where the lines have them.                 *)
LEMMA KeptIs ==
  ASSUME NEW ls \in Rows, NEW p \in PlacesOf(ls), NEW ms \in Rows
  PROVE  FT!Kept(Offset(ls, p), Flat(ls), Flat(ms)) = At(ms, p)
<1> DEFINE t == Flat(ls)  u == Flat(ms)  o == Offset(ls, p)
           same == {c \in 0..Len(u) : FT!Coordinates(u, c) = FT!Coordinates(t, o)}
<1>1. FT!Coordinates(t, o) = <<p[1] - 1, p[2]>>
  BY CoordinatesOfPlace
<1>2. p[1] \in 1..Len(ls) /\ p = <<p[1], p[2]>> /\ Len(ls) \in Nat
  BY PlacesTyped, RowsTyped
<1>3. FT!Kept(o, t, u) = IF same = {} THEN -1 ELSE CHOOSE c \in same : TRUE
  BY DEF FT!Kept, FT!Places, FT!Nowhere
<1>4. ASSUME NEW c \in same PROVE p \in PlacesOf(ms) /\ c = Offset(ms, p)
  <2>1. PICK q \in PlacesOf(ms) : Offset(ms, q) = c
    BY OffsetsReachAll
  <2>2. FT!Coordinates(u, Offset(ms, q)) = <<q[1] - 1, q[2]>>
    BY CoordinatesOfPlace
  <2>3. q[1] \in 1..Len(ms) /\ q = <<q[1], q[2]>> /\ Len(ms) \in Nat
    BY PlacesTyped, RowsTyped
  <2>4. <<q[1] - 1, q[2]>> = <<p[1] - 1, p[2]>>
    <3>1. FT!Coordinates(u, c) = FT!Coordinates(t, o)  OBVIOUS
    <3> HIDE DEF t, u, o, same
    <3> QED  BY <1>1, <2>1, <2>2, <3>1, Zenon
  <2>5. q[1] - 1 = p[1] - 1 /\ q[2] = p[2]  BY <2>4
  <2>6. q[1] = p[1]  BY <1>2, <2>3, <2>5
  <2>7. q = p  BY <1>2, <2>3, <2>5, <2>6, Zenon
  <2> QED  BY <2>1, <2>7
<1>5. ASSUME p \in PlacesOf(ms) PROVE Offset(ms, p) \in same
  <2>1. FT!Coordinates(u, Offset(ms, p)) = <<p[1] - 1, p[2]>>
    BY <1>5, CoordinatesOfPlace
  <2>2. Offset(ms, p) \in 0..Len(u)
    BY <1>5, TextHalves
  <2> QED  BY <1>1, <2>1, <2>2
<1> HIDE DEF same, t, u, o
<1>6. CASE p \in PlacesOf(ms)
  <2>1. same # {} /\ (CHOOSE c \in same : TRUE) \in same  BY <1>5, <1>6
  <2>2. (CHOOSE c \in same : TRUE) = Offset(ms, p)  BY <1>4, <2>1
  <2> QED  BY <1>3, <1>6, <2>1, <2>2 DEF At, t, u, o
<1>7. CASE p \notin PlacesOf(ms)
  <2>1. same = {}  BY <1>4, <1>7
  <2> QED  BY <1>3, <1>7, <2>1 DEF At, t, u, o
<1> QED
  BY <1>6, <1>7

(* The order of places is that of their offsets.                               *)
LEMMA PlacesOrdered ==
  ASSUME NEW ls \in Rows, NEW p \in PlacesOf(ls), NEW q \in PlacesOf(ls)
  PROVE  /\ Offset(ls, p) \in Nat /\ Offset(ls, q) \in Nat
         /\ Before(p, q) \/ Before(q, p)
         /\ Before(p, q) <=> Offset(ls, p) <= Offset(ls, q)
         /\ Before(p, q) /\ Before(q, p) => p = q
<1> DEFINE a == Offset(ls, p)  b == Offset(ls, q)
<1>1. p[1] \in 1..Len(ls) /\ p[2] \in 0..Len(ls[p[1]]) /\ p = <<p[1], p[2]>>
  BY PlacesTyped
<1>2. q[1] \in 1..Len(ls) /\ q[2] \in 0..Len(ls[q[1]]) /\ q = <<q[1], q[2]>>
  BY PlacesTyped
<1>3. Len(ls) \in Nat /\ Len(ls[p[1]]) \in Nat /\ Len(ls[q[1]]) \in Nat
  BY <1>1, <1>2, RowsTyped
<1>4. p[1] \in Nat /\ p[2] \in Nat /\ q[1] \in Nat /\ q[2] \in Nat
  <2>1. p[1] \in Nat  BY <1>1, <1>3
  <2>2. p[2] \in Nat  BY <1>1, <1>3
  <2>3. q[1] \in Nat  BY <1>2, <1>3
  <2>4. q[2] \in Nat  BY <1>2, <1>3
  <2> QED  BY <2>1, <2>2, <2>3, <2>4
<1>5. a \in Nat
  <2>1. a \in 0..Len(Flat(ls)) /\ Len(Flat(ls)) \in Nat  BY TextHalves
  <2> HIDE DEF a
  <2> QED  BY <2>1
<1>6. b \in Nat
  <2>1. b \in 0..Len(Flat(ls)) /\ Len(Flat(ls)) \in Nat  BY TextHalves
  <2> HIDE DEF b
  <2> QED  BY <2>1
<1>7. Before(p, q) \/ Before(q, p)
  BY <1>4 DEF Before
<1>8. Before(p, q) => a <= b
  BY CopiedFlat
<1>9. Before(q, p) => b <= a
  BY CopiedFlat
<1>10. Before(p, q) /\ Before(q, p) => p = q
  <2>1. Before(p, q) /\ Before(q, p) => p[1] = q[1] /\ p[2] = q[2]  BY <1>4 DEF Before
  <2> QED  BY <1>1, <1>2, <2>1
<1>11. a <= b => Before(p, q)
  <2> SUFFICES ASSUME a <= b, ~Before(p, q) PROVE FALSE
    OBVIOUS
  <2>1. Before(q, p) /\ b <= a  BY <1>7, <1>9
  <2>2. a = b  BY <1>5, <1>6, <2>1
  <2>3. p = q  BY <2>2, OffsetsDiffer
  <2> QED  BY <2>1, <2>3
<1> QED
  BY <1>5, <1>6, <1>7, <1>8, <1>10, <1>11

LEMMA PlaceInLine ==
  ASSUME NEW ls \in Rows, NEW l \in 1..Len(ls), NEW c \in 0..Len(ls[l])
  PROVE  <<l, c>> \in PlacesOf(ls) /\ <<l, c>>[1] = l /\ <<l, c>>[2] = c
         /\ Offset(ls, <<l, c>>) = Start(ls, l) + c
<1>1. DOMAIN ls = 1..Len(ls)
  BY LenProperties DEF Rows
<1> DEFINE p == <<l, c>>
<1>2. p \in PlacesOf(ls) /\ p[1] = l /\ p[2] = c
  BY <1>1 DEF PlacesOf
<1> HIDE DEF p
<1>3. Offset(ls, p) = Start(ls, l) + c
  BY <1>2, OffsetIs
<1> QED
  BY <1>2, <1>3 DEF p

(* The characters of a line in the joined text.                                *)
LEMMA CharsOfLine ==
  ASSUME NEW ls \in Rows, NEW l \in 1..Len(ls)
  PROVE  LET t == Flat(ls)
             i == Start(ls, l)
             n == Len(ls[l])
         IN  /\ i \in Nat /\ n \in Nat /\ Len(t) \in Nat /\ i + n <= Len(t)
             /\ \A c \in 1..n : t[i + c] = ls[l][c] /\ ls[l][c] \in Chars
             /\ l # 1 => t[i] = NL /\ i # 0
             /\ l = 1 => i = 0
             /\ l = Len(ls) => i + n = Len(t)
             /\ l # Len(ls) => i + n + 1 <= Len(t) /\ t[i + n + 1] = NL
                               /\ Start(ls, l + 1) = i + n + 1
<1> DEFINE t == Flat(ls)  S(k) == Start(ls, k)
<1>1. Len(ls) \in Nat /\ l \in Nat /\ \A k \in 1..Len(ls) : Len(ls[k]) \in Nat /\ S(k) \in Nat
  BY RowsTyped, StartInSteps
<1>2. t \in Text /\ Len(t) \in Nat
  BY FlatTyped, LenProperties DEF Text
<1> HIDE DEF t, S
(* The text up to the end of line k.                                          *)
<1>3. ASSUME NEW k \in 1..Len(ls)
      PROVE  /\ S(k) + Len(ls[k]) <= Len(t)
             /\ S(k) = 0 \/ t[S(k)] = NL
             /\ \A c \in 1..Len(ls[k]) : t[S(k) + c] = ls[k][c] /\ ls[k][c] \in Chars
             /\ k # 1 => S(k) # 0
             /\ k = Len(ls) => S(k) + Len(ls[k]) = Len(t)
  <2> DEFINE n == Len(ls[k])  p == <<k, n>>  u == SubSeq(ls, 1, k - 1)  x == ls[k]
             w == Flat(Append(u, x))  o == Offset(ls, p)  i == Len(Flat(Append(u, << >>)))
  <2>1. n \in Nat /\ n \in 0..Len(ls[k])  BY <1>1
  <2>2. p \in PlacesOf(ls) /\ p[1] = k /\ p[2] = n /\ o = S(k) + n
    <3> HIDE DEF n
    <3> QED  BY <2>1, PlaceInLine DEF S
  <2>3. LineBefore(ls, p) = x /\ x \in Row /\ LineBehind(ls, p) = << >> /\ ls \in Seq(Row)
    <3>1. ls \in Seq(Row) /\ x \in Row  BY RowsTyped
    <3> HIDE DEF p
    <3>2. LineBefore(ls, p) = SubSeq(x, 1, n) /\ LineBehind(ls, p) = SubSeq(x, n + 1, n)
      BY <2>2 DEF LineBefore, LineBehind
    <3>3. SubSeq(x, 1, n) = x  BY <3>1, SubSeqFull DEF Row
    <3>4. SubSeq(x, n + 1, n) = << >>  BY <2>1, SubSeqEmpty
    <3> QED  BY <3>1, <3>2, <3>3, <3>4
  <2>4. u \in Seq(Row) /\ Len(u) = k - 1  BY <2>3, AroundAny
  <2>5. Upto(ls, p) = Append(u, x)
    <3> HIDE DEF x
    <3> QED  BY <2>2, <2>3 DEF Upto
  <2>6. Onward(ls, p) = << << >> >> \o SubSeq(ls, k + 1, Len(ls))
    <3> HIDE DEF x
    <3> QED  BY <2>2, <2>3 DEF Onward
  <2> HIDE DEF p, x, n, u, o
  <2>7. o \in 0..Len(t) /\ SubSeq(t, 1, o) = w /\ Len(w) = o /\ w \in Text
    BY <2>2, <2>5, TextHalves DEF t, o
  <2>8. /\ Len(w) = i + Len(x) /\ i \in Nat /\ Len(x) \in Nat
        /\ i = 0 \/ w[i] = NL
        /\ \A c \in 1..Len(x) : w[i + c] = x[c] /\ x[c] \in Chars
        /\ (u # << >> => i = Len(Flat(u)) + 1)
    BY <2>3, <2>4, LastLine
  <2>9. i = S(k)  BY DEF S, Start, u
  <2> HIDE DEF w, i
  <2>10. \A j \in 1..o : w[j] = t[j]
    <3>1. 1 \in 1..Len(t) + 1 /\ o \in 1 - 1..Len(t) /\ o - 1 + 1 = o /\ o \in Nat  BY <1>2, <2>7
    <3>2. \A j \in 1..o - 1 + 1 : SubSeq(t, 1, o)[j] = t[1 + j - 1]
      BY <1>2, <3>1, SubSeqTyped DEF Text
    <3>3. \A j \in 1..o : 1 + j - 1 = j  OBVIOUS
    <3> QED  BY <2>7, <3>1, <3>2, <3>3
  <2>11. Len(x) = n /\ o = i + n /\ o <= Len(t)  BY <1>2, <2>2, <2>7, <2>9 DEF n, x
  <2>12. i = 0 \/ t[i] = NL
    <3>1. CASE i = 0  BY <3>1
    <3>2. CASE i # 0
      <4>1. i \in 1..o  BY <2>1, <2>8, <2>11, <3>2
      <4> QED  BY <2>8, <2>10, <3>2, <4>1
    <3> QED  BY <3>1, <3>2
  <2>13. ASSUME NEW c \in 1..Len(x) PROVE t[i + c] = x[c] /\ x[c] \in Chars
    <3> DEFINE j == i + c
    <3>1. j \in 1..o  BY <2>1, <2>8, <2>11
    <3>2. w[i + c] = x[c] /\ x[c] \in Chars  BY <2>8
    <3> HIDE DEF j
    <3>3. w[j] = t[j]  BY <2>10, <3>1
    <3> QED  BY <3>2, <3>3 DEF j
  <2>14. k # 1 => i # 0
    <3> SUFFICES ASSUME k # 1 PROVE i # 0
      OBVIOUS
    <3>1. Len(u) # 0  BY <1>1, <2>4
    <3>2. u # << >>  BY <3>1, EmptySeq
    <3>3. u \in Rows  BY <2>4, <3>2 DEF Rows
    <3>4. Flat(u) \in Text  BY <3>3, FlatTyped
    <3>5. Len(Flat(u)) \in Nat  BY <3>4, LenProperties DEF Text
    <3> QED  BY <2>8, <3>2, <3>5
  <2>15. k = Len(ls) => o = Len(t)
    <3> SUFFICES ASSUME k = Len(ls) PROVE o = Len(t)
      OBVIOUS
    <3> DEFINE v == SubSeq(ls, k + 1, Len(ls))
    <3>1. v = << >>  BY <1>1, SubSeqEmpty
    <3> HIDE DEF v
    <3>2. Onward(ls, p) = << << >> >>
      <4>1. Onward(ls, p) = << << >> >> \o v  BY <2>6 DEF v
      <4> QED  BY <3>1, <4>1
    <3>3. Flat(Onward(ls, p)) = << >>
      <4>1. << >> \in Row  BY EmptySeq DEF Row
      <4>2. Flat(<< << >> >>) = << >>  BY <4>1, FlatOfOne
      <4> QED  BY <3>2, <4>2
    <3>4. Flat(ls) = Flat(Upto(ls, p)) \o Flat(Onward(ls, p))  BY <2>2, PlaceSplits
    <3>5. Flat(Upto(ls, p)) = w  BY <2>5 DEF w
    <3>6. t = w \o << >>  BY <3>3, <3>4, <3>5, Zenon DEF t
    <3>7. w \o << >> = w  BY <2>7, ConcatEmptySeq DEF Text
    <3> QED  BY <2>7, <3>6, <3>7
  <2> QED  BY <2>9, <2>11, <2>12, <2>13, <2>14, <2>15 DEF n, x
<1>4. l = 1 => S(l) = 0
  BY StartInSteps DEF S
<1>5. ASSUME l # Len(ls)
      PROVE  S(l + 1) = S(l) + Len(ls[l]) + 1 /\ S(l + 1) <= Len(t) /\ t[S(l + 1)] = NL
  <2> DEFINE k == l + 1
  <2>1. k \in 2..Len(ls) /\ k \in 1..Len(ls) /\ k # 1 /\ k - 1 = l  BY <1>1, <1>5
  <2> HIDE DEF k
  <2>2. S(k) = S(k - 1) + Len(ls[k - 1]) + 1  BY <2>1, StartInSteps DEF S
  <2>3. S(k) + Len(ls[k]) <= Len(t) /\ (S(k) = 0 \/ t[S(k)] = NL) /\ S(k) # 0  BY <1>3, <2>1
  <2>4. S(k) \in Nat /\ Len(ls[k]) \in Nat  BY <1>1, <2>1
  <2>5. S(k) <= Len(t)  BY <1>2, <2>3, <2>4
  <2> QED  BY <2>1, <2>2, <2>3, <2>5 DEF k
<1>6. /\ S(l) \in Nat /\ Len(ls[l]) \in Nat
      /\ S(l) + Len(ls[l]) <= Len(t)
      /\ S(l) = 0 \/ t[S(l)] = NL
      /\ \A c \in 1..Len(ls[l]) : t[S(l) + c] = ls[l][c] /\ ls[l][c] \in Chars
      /\ l # 1 => S(l) # 0
      /\ l = Len(ls) => S(l) + Len(ls[l]) = Len(t)
  BY <1>1, <1>3
<1>7. l # Len(ls) => S(l) + Len(ls[l]) + 1 <= Len(t) /\ t[S(l) + Len(ls[l]) + 1] = NL
                     /\ S(l + 1) = S(l) + Len(ls[l]) + 1
  BY <1>5
<1> QED
  BY <1>2, <1>4, <1>6, <1>7 DEF t, S

(* Where the line of a place ends.                                             *)
LineEnd(t, at) == CHOOSE i \in at..Len(t) :
                    /\ i = Len(t) \/ t[i + 1] = NL
                    /\ \A j \in at + 1 .. i : t[j] # NL

LEMMA LineEndIs ==
  ASSUME NEW ls \in Rows, NEW p \in PlacesOf(ls)
  PROVE  LineEnd(Flat(ls), Offset(ls, p)) = Start(ls, p[1]) + Len(ls[p[1]])
<1> DEFINE t == Flat(ls)  o == Offset(ls, p)  l == p[1]  s == Start(ls, l)  n == Len(ls[l])  e == s + n
           Ends(i) == (i = Len(t) \/ t[i + 1] = NL) /\ \A j \in o + 1..i : t[j] # NL
<1>1. l \in 1..Len(ls) /\ p[2] \in 0..n
  BY PlacesTyped
<1>2. o = s + p[2]
  BY OffsetIs
<1> HIDE DEF l, t, o, s, n
<1>3. /\ s \in Nat /\ n \in Nat /\ Len(t) \in Nat /\ e <= Len(t)
      /\ \A c \in 1..n : t[s + c] = ls[l][c] /\ ls[l][c] \in Chars
      /\ l = Len(ls) => e = Len(t)
      /\ l # Len(ls) => t[e + 1] = NL
  BY <1>1, CharsOfLine DEF t, s, n
<1>4. o \in Nat /\ e \in o..Len(t)
  BY <1>1, <1>2, <1>3
<1>5. e = Len(t) \/ t[e + 1] = NL
  BY <1>3
<1>6. ASSUME NEW j \in o + 1..e PROVE t[j] # NL
  <2> DEFINE c == j - s
  <2>1. c \in 1..n /\ s + c = j  BY <1>1, <1>2, <1>3
  <2> HIDE DEF c
  <2>2. t[j] \in Chars  BY <1>3, <2>1
  <2> QED  BY <2>2, LineEndIsNoChar
<1>7. Ends(e)
  BY <1>5, <1>6
<1>8. ASSUME NEW i \in o..Len(t), Ends(i) PROVE i = e
  <2>1. i \in Nat /\ e \in Nat  BY <1>3, <1>4
  <2>2. CASE i < e
    <3>1. i + 1 \in o + 1..e /\ i # Len(t)  BY <1>3, <1>4, <2>1, <2>2
    <3>2. t[i + 1] = NL  BY <1>8, <3>1
    <3>3. t[i + 1] # NL
      <4> DEFINE k == i + 1
      <4>1. k \in o + 1..e  BY <3>1
      <4> HIDE DEF k, e
      <4>2. t[k] # NL  BY <1>6, <4>1
      <4> QED  BY <4>2 DEF k
    <3> QED  BY <3>2, <3>3
  <2>3. CASE e < i
    <3>1. e + 1 \in o + 1..i /\ e # Len(t)  BY <1>3, <1>4, <2>1, <2>3
    <3>2. t[e + 1] = NL  BY <1>5, <3>1
    <3> DEFINE k == e + 1
    <3>3. k \in o + 1..i /\ t[k] = NL  BY <3>1, <3>2
    <3> HIDE DEF k
    <3>4. t[k] # NL  BY <1>8, <3>3
    <3> QED  BY <3>3, <3>4
  <2> QED  BY <2>1, <2>2, <2>3
<1>9. LineEnd(t, o) = CHOOSE i \in o..Len(t) : Ends(i)
  BY DEF LineEnd
<1> HIDE DEF Ends, e
<1>10. LineEnd(t, o) = e
  BY <1>4, <1>7, <1>8, <1>9
<1> QED
  BY <1>10 DEF t, o, e, s, n, l

(* Lines of the same lengths have the same places.                             *)
LEMMA SameShape ==
  ASSUME NEW ls \in Rows, NEW ms \in Rows, Len(ms) = Len(ls),
         \A l \in 1..Len(ls) : Len(ms[l]) = Len(ls[l])
  PROVE  /\ PlacesOf(ms) = PlacesOf(ls)
         /\ \A l \in 1..Len(ls) : Start(ms, l) = Start(ls, l)
         /\ \A p \in PlacesOf(ls) : Offset(ms, p) = Offset(ls, p)
         /\ Len(Flat(ms)) = Len(Flat(ls))
<1> DEFINE n == Len(ls)
           Same == {k \in 0..n - 1 : Start(ms, k + 1) = Start(ls, k + 1)}
<1>1. n \in Nat /\ 1 <= n /\ DOMAIN ls = 1..n /\ DOMAIN ms = 1..n
  BY RowsTyped, LenProperties DEF Rows
<1>2. PlacesOf(ms) = PlacesOf(ls)
  BY <1>1 DEF PlacesOf
<1>3. Start(ls, 1) = 0 /\ \A l \in 2..n : Start(ls, l) = Start(ls, l - 1) + Len(ls[l - 1]) + 1
  BY StartInSteps
<1>4. Start(ms, 1) = 0 /\ \A l \in 2..n : Start(ms, l) = Start(ms, l - 1) + Len(ms[l - 1]) + 1
  BY StartInSteps
<1>5. \A l \in 1..n : Len(ms[l]) = Len(ls[l])
  OBVIOUS
<1> HIDE DEF n
<1>6. 0 \in Same
  BY <1>1, <1>3, <1>4
<1>7. ASSUME NEW k \in 0..(n - 1) - 1, k \in Same PROVE k + 1 \in Same
  <2> DEFINE j == k + 1  l == j + 1
  <2>1. j \in 1..n /\ j \in 0..n - 1 /\ l \in 2..n /\ l - 1 = j  BY <1>1
  <2>2. Start(ms, j) = Start(ls, j)  BY <1>7
  <2> HIDE DEF j, l
  <2>3. Start(ms, l) = Start(ms, j) + Len(ms[j]) + 1  BY <1>4, <2>1
  <2>4. Start(ls, l) = Start(ls, j) + Len(ls[j]) + 1  BY <1>3, <2>1
  <2>5. Start(ms, l) = Start(ls, l)  BY <1>5, <2>1, <2>2, <2>3, <2>4
  <2> QED  BY <2>1, <2>5 DEF l, j
<1>8. 0..n - 1 \subseteq Same
  <2> HIDE DEF Same
  <2>1. n - 1 \in Nat  BY <1>1
  <2> QED  BY <1>6, <1>7, <2>1, IntervalInduction
<1>9. ASSUME NEW l \in 1..n PROVE Start(ms, l) = Start(ls, l)
  <2> DEFINE k == l - 1
  <2>1. k \in 0..n - 1 /\ k + 1 = l  BY <1>1
  <2> HIDE DEF k
  <2>2. k \in Same  BY <1>8, <2>1
  <2>3. Start(ms, k + 1) = Start(ls, k + 1)  BY <2>2
  <2> QED  BY <2>1, <2>3
<1>10. ASSUME NEW p \in PlacesOf(ls) PROVE Offset(ms, p) = Offset(ls, p)
  <2>1. p[1] \in 1..n  BY PlacesTyped DEF n
  <2>2. Offset(ls, p) = Start(ls, p[1]) + p[2]  BY OffsetIs
  <2>3. Offset(ms, p) = Start(ms, p[1]) + p[2]  BY <1>2, OffsetIs
  <2> QED  BY <1>9, <2>1, <2>2, <2>3
<1>11. Len(Flat(ms)) = Len(Flat(ls))
  <2>1. n \in 1..Len(ls) /\ n = Len(ls) /\ n \in 1..Len(ms) /\ n = Len(ms)  BY <1>1 DEF n
  <2>2. Start(ls, n) + Len(ls[n]) = Len(Flat(ls))  BY <2>1, CharsOfLine
  <2>3. Start(ms, n) + Len(ms[n]) = Len(Flat(ms))  BY <2>1, CharsOfLine
  <2>4. Start(ms, n) = Start(ls, n) /\ Len(ms[n]) = Len(ls[n])  BY <1>1, <1>5, <1>9
  <2> QED  BY <2>2, <2>3, <2>4
<1> QED
  BY <1>2, <1>9, <1>10, <1>11 DEF n

(* Letters between two places become capitals, and nothing else changes.       *)
LEMMA UppercasedFlat ==
  ASSUME NEW ls \in Rows, NEW p \in PlacesOf(ls), NEW q \in PlacesOf(ls), Before(p, q)
  PROVE  LET ms == Uppercased(ls, p, q)
             t == Flat(ls)
         IN  /\ ms \in Rows /\ PlacesOf(ms) = PlacesOf(ls)
             /\ \A r \in PlacesOf(ls) : Offset(ms, r) = Offset(ls, r)
             /\ Flat(ms) = [i \in DOMAIN t |->
                              IF i \in Offset(ls, p) + 1 .. Offset(ls, q) THEN Upper[t[i]] ELSE t[i]]
<1> DEFINE ms == Uppercased(ls, p, q)  t == Flat(ls)  a == Offset(ls, p)  b == Offset(ls, q)
           In(l, c) == l \in p[1]..q[1] /\ Clamped(ls, l, p, q)[1] < c /\ c <= Clamped(ls, l, p, q)[2]
           Up1(l, c) == IF In(l, c) THEN Upper[ls[l][c]] ELSE ls[l][c]
<1>1. /\ InLastLine(ls, q) = q /\ p[1] \in 1..Len(ls) /\ q[1] \in p[1]..Len(ls)
      /\ p[2] \in 0..Len(ls[p[1]]) /\ q[2] \in 0..Len(ls[q[1]])
      /\ \A l \in p[1]..q[1] :
           Clamped(ls, l, p, q) = <<IF l = p[1] THEN p[2] ELSE 0,
                                    IF l = q[1] THEN q[2] ELSE Len(ls[l])>>
  BY BetweenPlaces
<1>2. /\ ls \in Seq(Row) /\ Len(ls) \in Nat /\ DOMAIN ls = 1..Len(ls)
      /\ \A l \in 1..Len(ls) : ls[l] \in Row /\ Len(ls[l]) \in Nat /\ DOMAIN ls[l] = 1..Len(ls[l])
  BY RowsTyped, LenProperties DEF Row
<1>3. ms = [l \in 1..Len(ls) |-> [c \in 1..Len(ls[l]) |-> Up1(l, c)]]
  <2>1. ms = [l \in DOMAIN ls |-> [c \in DOMAIN ls[l] |-> Up1(l, c)]]
    BY <1>1, Zenon DEF Uppercased
  <2> HIDE DEF Up1
  <2> QED  BY <1>2, <2>1
<1>4. ms \in Rows
  BY UppercasedTyped
<1> HIDE DEF ms, Up1
<1>5. /\ Len(ms) = Len(ls)
      /\ \A l \in 1..Len(ls) : Len(ms[l]) = Len(ls[l]) /\ \A c \in 1..Len(ls[l]) : ms[l][c] = Up1(l, c)
  <2>1. DOMAIN ms = 1..Len(ls)  BY <1>3
  <2>2. DOMAIN ms = 1..Len(ms) /\ Len(ms) \in Nat  BY <1>4, LenProperties DEF Rows
  <2>3. Len(ms) = Len(ls)  BY <1>2, <2>1, <2>2
  <2>4. ASSUME NEW l \in 1..Len(ls)
        PROVE  Len(ms[l]) = Len(ls[l]) /\ \A c \in 1..Len(ls[l]) : ms[l][c] = Up1(l, c)
    <3>1. ms[l] = [c \in 1..Len(ls[l]) |-> Up1(l, c)]  BY <1>3
    <3>2. ms[l] \in Row  BY <1>4, <2>3, RowsTyped
    <3>3. DOMAIN ms[l] = 1..Len(ms[l]) /\ Len(ms[l]) \in Nat  BY <3>2, LenProperties DEF Row
    <3>4. Len(ls[l]) \in Nat  BY <1>2
    <3> QED  BY <3>1, <3>3, <3>4
  <2> QED  BY <2>3, <2>4
<1>6. /\ PlacesOf(ms) = PlacesOf(ls)
      /\ \A l \in 1..Len(ls) : Start(ms, l) = Start(ls, l)
      /\ \A r \in PlacesOf(ls) : Offset(ms, r) = Offset(ls, r)
      /\ Len(Flat(ms)) = Len(t)
  BY <1>4, <1>5, SameShape
<1>7. t \in Text /\ Flat(ms) \in Text /\ Len(t) \in Nat /\ DOMAIN t = 1..Len(t)
      /\ DOMAIN Flat(ms) = 1..Len(t)
  <2>1. t \in Text /\ Flat(ms) \in Text  BY <1>4, FlatTyped
  <2>2. Len(t) \in Nat /\ DOMAIN t = 1..Len(t) /\ DOMAIN Flat(ms) = 1..Len(Flat(ms))
    BY <2>1, LenProperties DEF Text
  <2> QED  BY <1>6, <2>1, <2>2
<1> HIDE DEF t, a, b
<1>8. ASSUME NEW i \in 1..Len(t)
      PROVE  Flat(ms)[i] = IF i \in a + 1..b THEN Upper[t[i]] ELSE t[i]
  <2>1. i \in 0..Len(t)  OBVIOUS
  <2>2. PICK r \in PlacesOf(ls) : Offset(ls, r) = i  BY <2>1, OffsetsReachAll DEF t
  <2> DEFINE l == r[1]  c == r[2]  s == Start(ls, l)
  <2>3. l \in 1..Len(ls) /\ c \in 0..Len(ls[l]) /\ Len(ls[l]) \in Nat /\ l \in Nat /\ c \in Nat
    <3>1. l \in 1..Len(ls) /\ c \in 0..Len(ls[l])  BY PlacesTyped
    <3>2. Len(ls[l]) \in Nat  BY <1>2, <3>1
    <3> HIDE DEF l, c
    <3> QED  BY <1>2, <3>1, <3>2
  <2>4. i = s + c  BY <2>2, OffsetIs
  <2>5. i \in a + 1..b <=> ~Before(r, p) /\ Before(r, q)
    <3>1. a \in Nat /\ i \in Nat /\ (Before(r, p) <=> i <= a)  BY <2>2, PlacesOrdered DEF a
    <3>2. b \in Nat /\ (Before(r, q) <=> i <= b)  BY <2>2, PlacesOrdered DEF b
    <3> QED  BY <3>1, <3>2
  <2>6. Before(r, p) <=> l < p[1] \/ (l = p[1] /\ c <= p[2])  BY DEF Before
  <2>7. Before(r, q) <=> l < q[1] \/ (l = q[1] /\ c <= q[2])  BY DEF Before
  <2> HIDE DEF l, c, s
  <2>8. /\ \A d \in 1..Len(ls[l]) : t[s + d] = ls[l][d]
        /\ l # 1 => t[s] = NL
        /\ l = 1 => s = 0
        /\ s \in Nat
    BY <2>3, CharsOfLine DEF t, s
  <2>9. /\ \A d \in 1..Len(ms[l]) : Flat(ms)[Start(ms, l) + d] = ms[l][d]
        /\ l # 1 => Flat(ms)[Start(ms, l)] = NL
    BY <1>4, <1>5, <2>3, CharsOfLine
  <2>10. Start(ms, l) = s  BY <1>6, <2>3 DEF s
  <2>11. CASE c = 0
    <3>1. i = s /\ l # 1  BY <2>4, <2>8, <2>11
    <3>2. t[i] = NL /\ Flat(ms)[i] = NL  BY <2>8, <2>9, <2>10, <3>1
    <3> QED  BY <3>2, UpperIsTotal
  <2>12. CASE c # 0
    <3>1. c \in 1..Len(ls[l])  BY <2>3, <2>12
    <3>2. t[i] = ls[l][c]  BY <2>4, <2>8, <3>1
    <3>3. Flat(ms)[i] = ms[l][c]
      <4>1. c \in 1..Len(ms[l])  BY <1>5, <2>3, <3>1
      <4> QED  BY <2>4, <2>9, <2>10, <4>1
    <3>4. ms[l][c] = Up1(l, c)  BY <1>5, <2>3, <3>1
    <3>5. In(l, c) <=> i \in a + 1..b
      <4>1. p[1] \in Nat /\ q[1] \in Nat /\ p[1] <= q[1] /\ q[1] <= Len(ls)  BY <1>1, <1>2
      <4>2. Len(ls[p[1]]) \in Nat  BY <1>1, <1>2
      <4>3. Len(ls[q[1]]) \in Nat
        <5>1. q[1] \in 1..Len(ls)  BY <1>1, <1>2
        <5> QED  BY <1>2, <5>1
      <4>4. p[2] \in Nat /\ q[2] \in Nat  BY <1>1, <4>2, <4>3
      <4>5. In(l, c) <=> /\ l \in p[1]..q[1]
                         /\ (IF l = p[1] THEN p[2] ELSE 0) < c
                         /\ c <= (IF l = q[1] THEN q[2] ELSE Len(ls[l]))
        <5>1. CASE l \in p[1]..q[1]
          <6>1. Clamped(ls, l, p, q) = <<IF l = p[1] THEN p[2] ELSE 0,
                                         IF l = q[1] THEN q[2] ELSE Len(ls[l])>>
            BY <1>1, <5>1
          <6>2. /\ Clamped(ls, l, p, q)[1] = IF l = p[1] THEN p[2] ELSE 0
                /\ Clamped(ls, l, p, q)[2] = IF l = q[1] THEN q[2] ELSE Len(ls[l])
            BY <6>1
          <6> QED  BY <6>2
        <5>2. CASE l \notin p[1]..q[1]  BY <5>2
        <5> QED  BY <5>1, <5>2
      <4> HIDE DEF In
      <4>6. c <= Len(ls[l]) /\ 1 <= c  BY <2>3, <2>12
      <4>7. (~Before(r, p) /\ Before(r, q))
              <=> /\ ~(l < p[1] \/ (l = p[1] /\ c <= p[2]))
                  /\ l < q[1] \/ (l = q[1] /\ c <= q[2])
        BY <2>6, <2>7
      <4>8. /\ l \in p[1]..q[1]
            /\ (IF l = p[1] THEN p[2] ELSE 0) < c
            /\ c <= (IF l = q[1] THEN q[2] ELSE Len(ls[l]))
            <=> /\ ~(l < p[1] \/ (l = p[1] /\ c <= p[2]))
                /\ l < q[1] \/ (l = q[1] /\ c <= q[2])
        <5> DEFINE n == Len(ls[l])  p1 == p[1]  p2 == p[2]  q1 == q[1]  q2 == q[2]
        <5>1. n \in Nat /\ p1 \in Nat /\ p2 \in Nat /\ q1 \in Nat /\ q2 \in Nat /\ c <= n /\ 1 <= c
          BY <2>3, <4>1, <4>4, <4>6
        <5> HIDE DEF n, p1, p2, q1, q2
        <5>2. (/\ l \in p1..q1
               /\ (IF l = p1 THEN p2 ELSE 0) < c
               /\ c <= (IF l = q1 THEN q2 ELSE n))
              <=> (/\ ~(l < p1 \/ (l = p1 /\ c <= p2))
                   /\ l < q1 \/ (l = q1 /\ c <= q2))
          BY <2>3, <5>1
        <5> QED  BY <5>2 DEF n, p1, p2, q1, q2
      <4> QED  BY <2>5, <4>5, <4>7, <4>8
    <3> HIDE DEF In
    <3> QED  BY <3>2, <3>3, <3>4, <3>5 DEF Up1
  <2> QED  BY <2>11, <2>12
<1>9. Flat(ms) = [i \in 1..Len(t) |-> IF i \in a + 1..b THEN Upper[t[i]] ELSE t[i]]
  <2> DEFINE F == Flat(ms)
  <2>1. F \in Seq(Chars \cup {NL}) /\ DOMAIN F = 1..Len(t)  BY <1>7 DEF Text
  <2>2. \A i \in 1..Len(t) : F[i] = IF i \in a + 1..b THEN Upper[t[i]] ELSE t[i]  BY <1>8
  <2> HIDE DEF F
  <2>3. F \in [1..Len(F) -> Chars \cup {NL}]  BY <2>1, LenProperties
  <2>4. F = [i \in 1..Len(t) |-> F[i]]  BY <2>1, <2>3
  <2>5. F = [i \in 1..Len(t) |-> IF i \in a + 1..b THEN Upper[t[i]] ELSE t[i]]  BY <2>2, <2>4
  <2> QED  BY <2>5 DEF F
<1>10. Flat(ms) = [i \in DOMAIN t |-> IF i \in a + 1..b THEN Upper[t[i]] ELSE t[i]]
  BY <1>7, <1>9
<1> QED
  BY <1>4, <1>6, <1>10 DEF ms, t, a, b

-----------------------------------------------------------------------------
(* The editor's state as a state of FlatText                                   *)

(* The selection s of ls in the joined text.                                   *)
SelAt(ls, s) ==
  IF s = None THEN None
  ELSE IF s[1] \in PlacesOf(ls) /\ s[2] \in PlacesOf(ls)
    THEN <<Offset(ls, s[1]), Offset(ls, s[2])>>
  ELSE <<-1>>

(* What holds as long as the cursor and the selection are inside the text.     *)
Inside ==
  /\ TypeOK /\ ~undefined
  /\ cursor \in PlacesOf(lines)
  /\ sel # None => sel[1] \in PlacesOf(lines) /\ sel[2] \in PlacesOf(lines)

LEMMA OffsetIsNat ==
  ASSUME NEW ls \in Rows, NEW p \in PlacesOf(ls)
  PROVE  Offset(ls, p) \in Nat /\ Offset(ls, p) # -1 /\ Offset(ls, p) \in 0..Len(Flat(ls))
         /\ Flat(ls) \in Text /\ Len(Flat(ls)) \in Nat
<1> DEFINE o == Offset(ls, p)  t == Flat(ls)
<1>1. o \in 0..Len(t) /\ Len(t) \in Nat /\ t \in Text
  BY TextHalves
<1> HIDE DEF o, t
<1>2. o \in Nat /\ o # -1
  BY <1>1
<1> QED
  BY <1>1, <1>2 DEF o, t

LEMMA SoundIsInside ==
  ASSUME TypeOK, FT!Sound
  PROVE  Inside
<1>1. FlatCaret # -1 /\ FlatSelection # <<-1>>
  BY DEF FT!Sound, FT!Nowhere, FT!Stale
<1>2. ~undefined /\ cursor \in PlacesOf(lines)
  BY <1>1 DEF FlatCaret
<1>3. sel # None => sel[1] \in PlacesOf(lines) /\ sel[2] \in PlacesOf(lines)
  BY <1>1 DEF FlatSelection
<1> QED
  BY <1>2, <1>3 DEF Inside

(* The values of FlatText's variables.                                         *)
LEMMA InsideValues ==
  ASSUME Inside
  PROVE  /\ lines \in Rows /\ Len(lines) \in Nat /\ 1 <= Len(lines)
         /\ Flat(lines) \in Text /\ Len(Flat(lines)) \in Nat
         /\ cursor \in PlacesOf(lines) /\ cursor = <<Line, Col>>
         /\ Line \in 1..Len(lines) /\ LineExists
         /\ Here = lines[Line] /\ Here \in Row /\ Len(Here) \in Nat /\ Col \in 0..Len(Here)
         /\ FlatCaret = Offset(lines, cursor) /\ FlatCaret \in 0..Len(Flat(lines))
         /\ FlatSelection = SelAt(lines, sel)
         /\ sel = None <=> FlatSelection = None
         /\ sel # None => FlatSelection = <<Offset(lines, sel[1]), Offset(lines, sel[2])>>
<1>1. lines \in Rows
  BY TypeIs DEF Inside
<1>2. Len(lines) \in Nat /\ 1 <= Len(lines)
  BY <1>1, RowsTyped
<1>3. cursor \in PlacesOf(lines) /\ ~undefined
  BY DEF Inside
<1>4. cursor[1] \in 1..Len(lines) /\ cursor[2] \in 0..Len(lines[cursor[1]]) /\ cursor = <<cursor[1], cursor[2]>>
  BY <1>1, <1>3, PlacesTyped
<1>5. Line \in 1..Len(lines) /\ Col \in 0..Len(Here) /\ cursor = <<Line, Col>> /\ Here = lines[Line]
  BY <1>4 DEF Line, Col, Here
<1>6. Here \in Row /\ Len(Here) \in Nat
  BY <1>1, <1>5, RowsTyped
<1>7. LineExists
  BY <1>2, <1>5 DEF LineExists
<1>8. FlatCaret = Offset(lines, cursor)
  BY <1>3 DEF FlatCaret
<1>9. FlatCaret \in 0..Len(Flat(lines)) /\ Flat(lines) \in Text /\ Len(Flat(lines)) \in Nat
  BY <1>1, <1>3, <1>8, OffsetIsNat
<1>10. FlatSelection = SelAt(lines, sel)
  BY Zenon DEF FlatSelection, SelAt
<1>11. sel # None => FlatSelection = <<Offset(lines, sel[1]), Offset(lines, sel[2])>>
  BY Zenon DEF Inside, FlatSelection
<1>12. sel = None <=> FlatSelection = None
  <2>1. sel = None => FlatSelection = None  BY DEF FlatSelection
  <2>2. sel # None => FlatSelection # None  BY <1>11 DEF None
  <2> QED  BY <2>1, <2>2
<1> QED
  BY <1>1, <1>2, <1>3, <1>5, <1>6, <1>7, <1>8, <1>9, <1>10, <1>11, <1>12

LEMMA NextValues ==
  ASSUME ~undefined'
  PROVE  FlatCaret' = At(lines', cursor') /\ FlatSelection' = SelAt(lines', sel')
<1>1. FlatCaret' = At(lines', cursor')
  BY DEF FlatCaret, At
<1>2. FlatSelection' = SelAt(lines', sel')
  BY Zenon DEF FlatSelection, SelAt
<1> QED
  BY <1>1, <1>2

(* A key that leaves the cursor at p and the selection s.                      *)
LEMMA LeavesFlat ==
  ASSUME Inside, NEW ls, NEW p, NEW s, Leaves(ls, p, s)
  PROVE  /\ lines' = ls /\ Flat(lines)' = Flat(ls) /\ clip' = clip /\ ~undefined'
         /\ FlatCaret' = At(ls, p) /\ FlatSelection' = SelAt(ls, s)
<1>1. lines' = ls /\ cursor' = p /\ sel' = s /\ undefined' = undefined /\ clip' = clip
  BY DEF Leaves
<1>2. ~undefined'
  BY <1>1 DEF Inside
<1>3. FlatCaret' = At(lines', cursor') /\ FlatSelection' = SelAt(lines', sel')
  BY <1>2, NextValues
<1>4. Flat(lines)' = Flat(ls)
  BY <1>1
<1> QED
  BY <1>1, <1>2, <1>3, <1>4

(* A selection that is kept.                                                   *)
LEMMA SelectionKept ==
  ASSUME Inside, NEW ms \in Rows
  PROVE  FT!SelKept(Flat(lines), Flat(ms)) = SelAt(ms, sel)
<1> DEFINE K(o) == FT!Kept(o, Flat(lines), Flat(ms))
           f == FlatSelection
<1>1. lines \in Rows /\ (sel = None <=> f = None)
      /\ (sel # None => f = <<Offset(lines, sel[1]), Offset(lines, sel[2])>>)
  BY InsideValues
<1>2. FT!SelKept(Flat(lines), Flat(ms)) =
        IF f = None THEN None
        ELSE IF -1 \in {K(f[1]), K(f[2])} THEN <<-1>>
        ELSE <<K(f[1]), K(f[2])>>
  BY DEF FT!SelKept, FT!None, FT!Nowhere, FT!Stale, None
<1>3. CASE sel = None
  BY <1>1, <1>2, <1>3 DEF SelAt
<1>4. CASE sel # None
  <2> DEFINE p == sel[1]  q == sel[2]  x == At(ms, p)  y == At(ms, q)
  <2>1. p \in PlacesOf(lines) /\ q \in PlacesOf(lines)  BY <1>4 DEF Inside
  <2> HIDE DEF p, q
  <2>2. f = <<Offset(lines, p), Offset(lines, q)>> /\ f # None  BY <1>1, <1>4 DEF p, q
  <2>3. f[1] = Offset(lines, p) /\ f[2] = Offset(lines, q)
    <3> HIDE DEF f
    <3> QED  BY <2>2
  <2> HIDE DEF f
  <2>4. K(f[1]) = x
    <3>1. FT!Kept(Offset(lines, p), Flat(lines), Flat(ms)) = x  BY <1>1, <2>1, KeptIs
    <3> QED  BY <2>3, <3>1
  <2>5. K(f[2]) = y
    <3>1. FT!Kept(Offset(lines, q), Flat(lines), Flat(ms)) = y  BY <1>1, <2>1, KeptIs
    <3> QED  BY <2>3, <3>1
  <2> HIDE DEF K
  <2>6. FT!SelKept(Flat(lines), Flat(ms)) = IF -1 \in {x, y} THEN <<-1>> ELSE <<x, y>>
    BY <1>2, <2>2, <2>4, <2>5
  <2>7. SelAt(ms, sel) = IF p \in PlacesOf(ms) /\ q \in PlacesOf(ms)
                           THEN <<Offset(ms, p), Offset(ms, q)>> ELSE <<-1>>
    BY <1>4 DEF SelAt, p, q
  <2>8. p \in PlacesOf(ms) => x = Offset(ms, p) /\ x # -1
    BY OffsetIsNat DEF At
  <2>9. q \in PlacesOf(ms) => y = Offset(ms, q) /\ y # -1
    BY OffsetIsNat DEF At
  <2>10. (p \notin PlacesOf(ms) => x = -1) /\ (q \notin PlacesOf(ms) => y = -1)
    BY DEF At
  <2> HIDE DEF x, y
  <2>11. CASE p \in PlacesOf(ms) /\ q \in PlacesOf(ms)
    BY <2>6, <2>7, <2>8, <2>9, <2>11
  <2>12. CASE ~(p \in PlacesOf(ms) /\ q \in PlacesOf(ms))
    BY <2>6, <2>7, <2>10, <2>12
  <2> QED  BY <2>11, <2>12
<1> QED
  BY <1>3, <1>4

(* What is selected.                                                           *)
LEMMA SelectedFlat ==
  ASSUME Inside, sel # None
  PROVE  /\ SelFrom \in PlacesOf(lines) /\ SelTo \in PlacesOf(lines) /\ Before(SelFrom, SelTo)
         /\ SelFrom[1] <= Len(lines)
         /\ FT!From = Offset(lines, SelFrom) /\ FT!To = Offset(lines, SelTo)
         /\ FT!Selected <=> Selected
         /\ ~Selected => SelFrom = SelTo
<1> DEFINE p == sel[1]  q == sel[2]  a == Offset(lines, p)  b == Offset(lines, q)
<1>1. lines \in Rows /\ p \in PlacesOf(lines) /\ q \in PlacesOf(lines)
      /\ FlatSelection = <<a, b>> /\ Len(lines) \in Nat
  BY InsideValues DEF Inside
<1>2. FlatSelection[1] = a /\ FlatSelection[2] = b /\ FlatSelection # None
  <2> DEFINE f == FlatSelection
  <2>1. f = <<a, b>>  BY <1>1
  <2> HIDE DEF f, a, b
  <2>2. f[1] = a /\ f[2] = b /\ f # None  BY <2>1 DEF None
  <2> QED  BY <2>2 DEF f
<1>3. /\ FT!From = IF a < b THEN a ELSE b
      /\ FT!To = IF a < b THEN b ELSE a
      /\ FT!Selected <=> a # b
  BY <1>2 DEF FT!From, FT!To, FT!Selected, FT!None, None
<1>4. SelFrom = (IF Before(p, q) THEN p ELSE q) /\ SelTo = (IF Before(p, q) THEN q ELSE p)
  BY DEF SelFrom, SelTo
<1>5. Selected <=> p # q
  BY DEF Selected
<1> HIDE DEF p, q
<1>6. /\ a \in Nat /\ b \in Nat
      /\ Before(p, q) \/ Before(q, p)
      /\ Before(p, q) <=> a <= b
  BY <1>1, PlacesOrdered
<1>7. a = b => p = q
  BY <1>1, OffsetsDiffer
<1>8. p = q => a = b
  OBVIOUS
<1>9. SelFrom \in PlacesOf(lines) /\ SelTo \in PlacesOf(lines) /\ Before(SelFrom, SelTo)
  BY <1>1, <1>4, <1>6
<1>10. FT!From = Offset(lines, SelFrom) /\ FT!To = Offset(lines, SelTo)
  <2>1. CASE Before(p, q)
    <3>1. SelFrom = p /\ SelTo = q  BY <1>4, <2>1
    <3>2. FT!From = a /\ FT!To = b
      <4> HIDE DEF a, b
      <4> QED  BY <1>3, <1>6, <2>1
    <3> QED  BY <3>1, <3>2
  <2>2. CASE ~Before(p, q)
    <3>1. SelFrom = q /\ SelTo = p  BY <1>4, <2>2
    <3>2. FT!From = b /\ FT!To = a
      <4> HIDE DEF a, b
      <4> QED  BY <1>3, <1>6, <2>2
    <3> QED  BY <3>1, <3>2
  <2> QED  BY <2>1, <2>2
<1>11. FT!Selected <=> Selected
  BY <1>3, <1>5, <1>7, <1>8
<1>12. ~Selected => SelFrom = SelTo
  BY <1>4, <1>5
<1>13. SelFrom[1] <= Len(lines)
  <2>1. SelFrom[1] \in 1..Len(lines)  BY <1>1, <1>9, PlacesTyped
  <2> QED  BY <1>1, <2>1
<1> QED
  BY <1>9, <1>10, <1>11, <1>12, <1>13

LEMMA NothingSelected ==
  ASSUME Inside, sel = None
  PROVE  ~Selected /\ ~FT!Selected
<1>1. FlatSelection = None
  BY InsideValues
<1> QED
  BY <1>1 DEF Selected, FT!Selected, FT!None, None

(* The line of the cursor.                                                     *)
LEMMA LineFlat ==
  ASSUME Inside
  PROVE  /\ FT!LineFrom = Start(lines, Line)
         /\ FT!LineTo = Start(lines, Line) + Len(Here)
<1>1. lines \in Rows /\ cursor \in PlacesOf(lines) /\ FlatCaret = Offset(lines, cursor)
      /\ Here = lines[Line]
  BY InsideValues
<1>2. FT!LineFrom = FT!LineStart(Flat(lines), FlatCaret)
  BY DEF FT!LineFrom
<1>3. FT!LineTo = LineEnd(Flat(lines), FlatCaret)
  BY DEF FT!LineTo, LineEnd
<1>4. FT!LineStart(Flat(lines), Offset(lines, cursor)) = Start(lines, cursor[1])
  BY <1>1, CoordinatesOfPlace
<1>5. LineEnd(Flat(lines), Offset(lines, cursor)) = Start(lines, cursor[1]) + Len(lines[cursor[1]])
  BY <1>1, LineEndIs
<1> QED
  BY <1>1, <1>2, <1>3, <1>4, <1>5, Zenon DEF Line

-----------------------------------------------------------------------------
(* What the keys do is what FlatText says                                      *)

LEMMA SelAtPair ==
  ASSUME NEW ls, NEW p \in PlacesOf(ls), NEW q \in PlacesOf(ls)
  PROVE  SelAt(ls, <<p, q>>) = <<Offset(ls, p), Offset(ls, q)>>
<1> DEFINE s == <<p, q>>
<1>1. s[1] = p /\ s[2] = q /\ s # None
  BY DEF None
<1> HIDE DEF s
<1>2. SelAt(ls, s) = <<Offset(ls, p), Offset(ls, q)>>
  BY <1>1 DEF SelAt
<1> QED
  BY <1>2 DEF s

LEMMA MoveFlat ==
  ASSUME FT!Sound, Inside, Flat(lines)' = Flat(lines), clip' = clip, FlatCaret' \in 0..Len(Flat(lines)),
         \/ FlatSelection' = FlatSelection
         \/ FlatSelection' = None
         \/ FlatSelection' = <<FlatCaret', FlatCaret'>>
         \/ FlatSelection' = <<0, Len(Flat(lines))>>
         \/ FlatSelection' = <<IF FlatSelection = None THEN FlatCaret ELSE FlatSelection[1], FlatCaret'>>
  PROVE  FT!Move
BY DEF FT!Move, FT!Places, FT!None, None

(* An end of the selection that stays, and one that goes with the cursor.      *)
LEMMA ExtendedFlat ==
  ASSUME Inside, NEW p \in PlacesOf(lines)
  PROVE  SelAt(lines, <<IF sel = None THEN cursor ELSE sel[1], p>>)
           = <<IF FlatSelection = None THEN FlatCaret ELSE FlatSelection[1], Offset(lines, p)>>
<1> DEFINE r == IF sel = None THEN cursor ELSE sel[1]
           o == IF FlatSelection = None THEN FlatCaret ELSE FlatSelection[1]
<1>1. /\ cursor \in PlacesOf(lines) /\ FlatCaret = Offset(lines, cursor)
      /\ sel = None <=> FlatSelection = None
      /\ sel # None => FlatSelection = <<Offset(lines, sel[1]), Offset(lines, sel[2])>>
      /\ sel # None => sel[1] \in PlacesOf(lines)
  BY InsideValues DEF Inside
<1>2. r \in PlacesOf(lines)
  BY <1>1
<1>3. o = Offset(lines, r)
  <2>1. CASE sel = None  BY <1>1, <2>1
  <2>2. CASE sel # None
    <3> DEFINE f == FlatSelection
    <3>1. f = <<Offset(lines, sel[1]), Offset(lines, sel[2])>> /\ f # None  BY <1>1, <2>2
    <3>2. f[1] = Offset(lines, sel[1])
      <4> HIDE DEF f
      <4> QED  BY <3>1
    <3> QED  BY <2>2, <3>1, <3>2
  <2> QED  BY <2>1, <2>2
<1> HIDE DEF r, o
<1>4. SelAt(lines, <<r, p>>) = <<o, Offset(lines, p)>>
  BY <1>2, <1>3, SelAtPair
<1> QED
  BY <1>4 DEF r, o

LEMMA MovesFlat ==
  ASSUME FT!Sound, Inside, NEW p \in PlacesOf(lines), MovesTo(p)
  PROVE  FT!Move
<1>1. lines \in Rows
  BY InsideValues
<1>2. Offset(lines, p) \in 0..Len(Flat(lines)) /\ At(lines, p) = Offset(lines, p)
  BY <1>1, OffsetIsNat DEF At
<1>3. CASE Leaves(lines, p, None)
  <2>1. /\ Flat(lines)' = Flat(lines) /\ clip' = clip
        /\ FlatCaret' = At(lines, p) /\ FlatSelection' = SelAt(lines, None)
    BY <1>3, LeavesFlat
  <2>2. SelAt(lines, None) = None  BY DEF SelAt
  <2> QED  BY <1>2, <2>1, <2>2, MoveFlat
<1>4. CASE Leaves(lines, p, <<IF sel = None THEN cursor ELSE sel[1], p>>)
  <2> DEFINE s == <<IF sel = None THEN cursor ELSE sel[1], p>>
  <2>1. Leaves(lines, p, s)  BY <1>4
  <2>2. SelAt(lines, s) = <<IF FlatSelection = None THEN FlatCaret ELSE FlatSelection[1], Offset(lines, p)>>
    BY ExtendedFlat
  <2> HIDE DEF s
  <2>3. /\ Flat(lines)' = Flat(lines) /\ clip' = clip
        /\ FlatCaret' = At(lines, p) /\ FlatSelection' = SelAt(lines, s)
    BY <2>1, LeavesFlat
  <2>4. FlatSelection' = <<IF FlatSelection = None THEN FlatCaret ELSE FlatSelection[1], FlatCaret'>>
    BY <1>2, <2>2, <2>3
  <2> QED  BY <1>2, <2>3, <2>4, MoveFlat
<1> QED
  BY <1>3, <1>4 DEF MovesTo

LEMMA MovingFlat ==
  ASSUME FT!Sound, Inside, Up \/ Down \/ Left \/ Right \/ WordKeys \/ SelectAll
  PROVE  FT!Move
<1>1. /\ lines \in Rows /\ Len(lines) \in Nat /\ 1 <= Len(lines)
      /\ cursor \in PlacesOf(lines) /\ cursor = <<Line, Col>>
      /\ Line \in 1..Len(lines) /\ LineExists
      /\ Here = lines[Line] /\ Here \in Row /\ Len(Here) \in Nat /\ Col \in 0..Len(Here)
  BY InsideValues
<1> HIDE DEF Line, Col
<1>2. Line \in Nat /\ Col \in Nat
  BY <1>1
<1>3. \A l \in 1..Len(lines) : lines[l] \in Row /\ Len(lines[l]) \in Nat
  BY <1>1, RowsTyped
<1>4. \A l \in 1..Len(lines) : \A c \in 0..Len(lines[l]) : <<l, c>> \in PlacesOf(lines)
  BY <1>1, PlaceInLine
<1>5. ASSUME NEW l \in 1..Len(lines)
      PROVE  <<l, Smaller(Col, Len(lines[l]))>> \in PlacesOf(lines)
  <2> DEFINE n == Len(lines[l])  c == Smaller(Col, n)
  <2>1. n \in Nat  BY <1>3
  <2> HIDE DEF n
  <2>2. c \in 0..n  BY <1>2, <2>1 DEF Smaller
  <2> HIDE DEF c
  <2>3. <<l, c>> \in PlacesOf(lines)  BY <1>4, <2>2 DEF n
  <2> QED  BY <2>3 DEF c, n
<1>6. CASE Up
  <2>1. CASE Line > 1
    <3> DEFINE l == Line - 1
    <3>1. l \in 1..Len(lines) /\ l <= Len(lines)  BY <1>1, <1>2, <2>1
    <3>2. MovesTo(<<l, Smaller(Col, Len(lines[l]))>>)  BY <1>6, <2>1, <3>1 DEF Up
    <3> HIDE DEF l
    <3> QED  BY <1>5, <3>1, <3>2, MovesFlat
  <2>2. CASE ~(Line > 1)
    <3>1. MovesTo(cursor)  BY <1>6, <2>2 DEF Up
    <3> QED  BY <1>1, <3>1, MovesFlat
  <2> QED  BY <2>1, <2>2
<1>7. CASE Down
  <2>1. CASE Line < Len(lines)
    <3> DEFINE l == Line + 1
    <3>1. l \in 1..Len(lines)  BY <1>1, <1>2, <2>1
    <3>2. MovesTo(<<l, Smaller(Col, Len(lines[l]))>>)  BY <1>7, <2>1 DEF Down
    <3> HIDE DEF l
    <3> QED  BY <1>5, <3>1, <3>2, MovesFlat
  <2>2. CASE ~(Line < Len(lines))
    <3>1. MovesTo(cursor)  BY <1>7, <2>2 DEF Down
    <3> QED  BY <1>1, <3>1, MovesFlat
  <2> QED  BY <2>1, <2>2
<1>8. CASE Left
  <2>1. CASE Col > 0
    <3> DEFINE c == Col - 1
    <3>1. c \in 0..Len(lines[Line])  BY <1>1, <1>2, <2>1
    <3>2. MovesTo(<<Line, c>>)  BY <1>8, <2>1 DEF Left
    <3> HIDE DEF c
    <3>3. <<Line, c>> \in PlacesOf(lines)  BY <1>1, <1>4, <3>1
    <3> QED  BY <3>2, <3>3, MovesFlat
  <2>2. CASE ~(Col > 0) /\ Line = 1
    <3>1. MovesTo(cursor)  BY <1>8, <2>2 DEF Left
    <3> QED  BY <1>1, <3>1, MovesFlat
  <2>3. CASE ~(Col > 0) /\ Line # 1
    <3> DEFINE l == Line - 1
    <3>1. l \in 1..Len(lines) /\ l <= Len(lines)  BY <1>1, <1>2, <2>3
    <3>2. MovesTo(<<l, Len(lines[l])>>)  BY <1>8, <2>3, <3>1 DEF Left
    <3> HIDE DEF l
    <3>3. Len(lines[l]) \in 0..Len(lines[l])  BY <1>3, <3>1
    <3>4. <<l, Len(lines[l])>> \in PlacesOf(lines)  BY <1>4, <3>1, <3>3
    <3> QED  BY <3>2, <3>4, MovesFlat
  <2> QED  BY <2>1, <2>2, <2>3
<1>9. CASE Right
  <2>1. CASE Col < Len(Here)
    <3> DEFINE c == Col + 1
    <3>1. c \in 0..Len(lines[Line])  BY <1>1, <1>2, <2>1
    <3>2. MovesTo(<<Line, c>>)  BY <1>1, <1>9, <2>1 DEF Right
    <3> HIDE DEF c
    <3>3. <<Line, c>> \in PlacesOf(lines)  BY <1>1, <1>4, <3>1
    <3> QED  BY <3>2, <3>3, MovesFlat
  <2>2. CASE ~(Col < Len(Here)) /\ Line < Len(lines)
    <3> DEFINE l == Line + 1
    <3>1. l \in 1..Len(lines)  BY <1>1, <1>2, <2>2
    <3>2. MovesTo(<<l, 0>>)  BY <1>1, <1>9, <2>2 DEF Right
    <3> HIDE DEF l
    <3>3. 0 \in 0..Len(lines[l])  BY <1>3, <3>1
    <3>4. <<l, 0>> \in PlacesOf(lines)  BY <1>4, <3>1, <3>3
    <3> QED  BY <3>2, <3>4, MovesFlat
  <2>3. CASE ~(Col < Len(Here)) /\ ~(Line < Len(lines))
    <3>1. MovesTo(cursor)  BY <1>1, <1>9, <2>3 DEF Right
    <3> QED  BY <1>1, <3>1, MovesFlat
  <2> QED  BY <2>1, <2>2, <2>3
<1>10. CASE WordKeys
  <2>1. ASSUME NEW l \in 1..Len(lines), WordKey(l) PROVE FT!Move
    <3>1. /\ WordLeft(lines[l], Col) \in 0..Len(lines[l])
          /\ WordRight(lines[l], Col) \in 0..Len(lines[l])
      BY <1>2, <1>3, WordsTyped
    <3>2. ~(l > Len(lines))  BY <1>1
    <3>3. PICK c \in 0..Len(lines[l]) : Leaves(lines, <<l, c>>, None)
      BY <2>1, <3>1, <3>2 DEF WordKey
    <3> DEFINE p == <<l, c>>
    <3>4. p \in PlacesOf(lines) /\ Leaves(lines, p, None)  BY <1>4, <3>3
    <3> HIDE DEF p
    <3>5. MovesTo(p)  BY <3>4 DEF MovesTo
    <3> QED  BY <3>4, <3>5, MovesFlat
  <2>2. CASE WordKey(Line)  BY <1>1, <2>1, <2>2
  <2>3. CASE Line > 1 /\ WordKey(Line - 1)
    <3> DEFINE l == Line - 1
    <3>1. l \in 1..Len(lines) /\ WordKey(l)  BY <1>1, <1>2, <2>3
    <3> HIDE DEF l
    <3> QED  BY <2>1, <3>1
  <2>4. CASE Line < Len(lines) /\ WordKey(Line + 1)
    <3> DEFINE l == Line + 1
    <3>1. l \in 1..Len(lines) /\ WordKey(l)  BY <1>1, <1>2, <2>4
    <3> HIDE DEF l
    <3> QED  BY <2>1, <3>1
  <2> QED  BY <1>10, <2>2, <2>3, <2>4 DEF WordKeys
<1>11. CASE SelectAll
  <2> DEFINE n == Len(lines)  end == <<n, Len(lines[n])>>  first == <<1, 0>>  s == <<first, end>>
  <2>1. Leaves(lines, end, s)  BY <1>11 DEF SelectAll
  <2>2. n \in 1..Len(lines) /\ 1 \in 1..Len(lines) /\ n = Len(lines)  BY <1>1
  <2>3. Len(lines[n]) \in 0..Len(lines[n]) /\ 0 \in 0..Len(lines[1])  BY <1>3, <2>2
  <2>4. /\ first \in PlacesOf(lines) /\ Offset(lines, first) = Start(lines, 1) + 0
    BY <1>1, <2>2, <2>3, PlaceInLine
  <2>5. end \in PlacesOf(lines) /\ Offset(lines, end) = Start(lines, n) + Len(lines[n])
    <3> HIDE DEF n
    <3> QED  BY <1>1, <2>2, <2>3, PlaceInLine
  <2>6. Start(lines, 1) = 0  BY <1>1, StartInSteps
  <2>7. Start(lines, n) + Len(lines[n]) = Len(Flat(lines))
    <3> HIDE DEF n
    <3> QED  BY <1>1, <2>2, CharsOfLine
  <2> HIDE DEF first, end, n
  <2>8. SelAt(lines, s) = <<0, Len(Flat(lines))>>
    <3>1. SelAt(lines, <<first, end>>) = <<Offset(lines, first), Offset(lines, end)>>
      BY <2>4, <2>5, SelAtPair
    <3>2. Offset(lines, first) = 0 /\ Offset(lines, end) = Len(Flat(lines))  BY <2>4, <2>5, <2>6, <2>7
    <3> QED  BY <3>1, <3>2
  <2> HIDE DEF s
  <2>9. /\ Flat(lines)' = Flat(lines) /\ clip' = clip
        /\ FlatCaret' = At(lines, end) /\ FlatSelection' = SelAt(lines, s)
    BY <2>1, LeavesFlat
  <2>10. At(lines, end) = Offset(lines, end) /\ Offset(lines, end) \in 0..Len(Flat(lines))
    BY <1>1, <2>5, OffsetIsNat DEF At
  <2> QED  BY <2>8, <2>9, <2>10, MoveFlat
<1> QED
  BY <1>6, <1>7, <1>8, <1>9, <1>10, <1>11

LEMMA MouseFlat ==
  ASSUME FT!Sound, Inside, NEW p \in PlacesOf(lines), NEW event, Mouse(p, event)
  PROVE  FT!Move
<1>1. lines' = lines /\ cursor' = p /\ clip' = clip /\ ~undefined'
      /\ (sel' = <<p, p>> \/ (sel # None /\ sel' = <<sel[1], p>>) \/ sel' = sel)
  BY DEF Mouse, Inside
<1>2. lines \in Rows /\ FlatSelection = SelAt(lines, sel)
  BY InsideValues
<1>3. FlatCaret' = At(lines', cursor') /\ FlatSelection' = SelAt(lines', sel')
  BY <1>1, NextValues
<1>4. Flat(lines)' = Flat(lines)
  BY <1>1
<1>5. FlatCaret' = Offset(lines, p) /\ FlatCaret' \in 0..Len(Flat(lines))
  BY <1>1, <1>2, <1>3, OffsetIsNat DEF At
<1>6. FlatSelection' = SelAt(lines, sel')
  BY <1>1, <1>3
<1>7. CASE sel' = <<p, p>>
  <2>1. SelAt(lines, <<p, p>>) = <<Offset(lines, p), Offset(lines, p)>>  BY SelAtPair
  <2>2. FlatSelection' = <<FlatCaret', FlatCaret'>>  BY <1>5, <1>6, <1>7, <2>1
  <2> QED  BY <1>1, <1>4, <1>5, <2>2, MoveFlat
<1>8. CASE sel # None /\ sel' = <<sel[1], p>>
  <2>1. SelAt(lines, <<IF sel = None THEN cursor ELSE sel[1], p>>)
          = <<IF FlatSelection = None THEN FlatCaret ELSE FlatSelection[1], Offset(lines, p)>>
    BY ExtendedFlat
  <2>2. sel' = <<IF sel = None THEN cursor ELSE sel[1], p>>  BY <1>8
  <2>3. FlatSelection' = <<IF FlatSelection = None THEN FlatCaret ELSE FlatSelection[1], FlatCaret'>>
    BY <1>5, <1>6, <2>1, <2>2
  <2> QED  BY <1>1, <1>4, <1>5, <2>3, MoveFlat
<1>9. CASE sel' = sel
  <2>1. FlatSelection' = FlatSelection  BY <1>2, <1>6, <1>9
  <2> QED  BY <1>1, <1>4, <1>5, <2>1, MoveFlat
<1> QED
  BY <1>1, <1>7, <1>8, <1>9

LEMMA PluginMovesFlat ==
  ASSUME FT!Sound, Inside, NEW p \in PlacesOf(lines), PluginMoves(p)
  PROVE  FT!Move
<1>1. lines \in Rows /\ FlatSelection = SelAt(lines, sel)
  BY InsideValues
<1>2. /\ Flat(lines)' = Flat(lines) /\ clip' = clip
      /\ FlatCaret' = At(lines, p) /\ FlatSelection' = SelAt(lines, sel)
  BY LeavesFlat DEF PluginMoves
<1>3. At(lines, p) = Offset(lines, p) /\ Offset(lines, p) \in 0..Len(Flat(lines))
  BY <1>1, OffsetIsNat DEF At
<1> QED
  BY <1>1, <1>2, <1>3, MoveFlat

(* A line is what the joined text has between its start and its end.           *)
LEMMA LineText ==
  ASSUME NEW ls \in Rows, NEW l \in 1..Len(ls)
  PROVE  SubSeq(Flat(ls), Start(ls, l) + 1, Start(ls, l) + Len(ls[l])) = ls[l]
<1> DEFINE t == Flat(ls)  s == Start(ls, l)  x == ls[l]  n == Len(x)  c == s + 1  e == s + n
<1>1. /\ s \in Nat /\ n \in Nat /\ Len(t) \in Nat /\ e <= Len(t)
      /\ \A d \in 1..n : t[s + d] = x[d]
  BY CharsOfLine
<1>2. t \in Text /\ x \in Text
  BY FlatTyped, RowsTyped, RowIsText
<1> HIDE DEF t, s, x
<1>3. c \in 1..Len(t) + 1 /\ e \in c - 1..Len(t) /\ e - c + 1 = n
      /\ \A d \in 1..n : c + d - 1 = s + d
  BY <1>1
<1> HIDE DEF c, e
<1>4. /\ SubSeq(t, c, e) \in Seq(Chars \cup {NL}) /\ Len(SubSeq(t, c, e)) = n
      /\ \A d \in 1..n : SubSeq(t, c, e)[d] = t[c + d - 1]
  BY <1>2, <1>3, SubSeqTyped DEF Text
<1>5. ASSUME NEW d \in 1..n PROVE SubSeq(t, c, e)[d] = x[d]
  BY <1>1, <1>3, <1>4
<1>6. SubSeq(t, c, e) = x
  BY <1>2, <1>4, <1>5, SeqEqual DEF Text
<1> QED
  BY <1>6 DEF t, s, x, n, c, e

(* What is copied is what FlatText chooses.                                    *)
LEMMA CopiesFlat ==
  ASSUME Inside, Copies
  PROVE  clip' = FT!Chosen
<1>1. lines \in Rows /\ Line \in 1..Len(lines) /\ LineExists /\ Here = lines[Line]
  BY InsideValues
<1>2. CASE Selected
  <2>1. sel # None  BY <1>2 DEF Selected
  <2>2. /\ SelFrom \in PlacesOf(lines) /\ SelTo \in PlacesOf(lines) /\ Before(SelFrom, SelTo)
        /\ SelFrom[1] <= Len(lines)
        /\ FT!From = Offset(lines, SelFrom) /\ FT!To = Offset(lines, SelTo)
        /\ FT!Selected
    BY <1>2, <2>1, SelectedFlat
  <2>3. Copied(lines, SelFrom, SelTo)
          = SubSeq(Flat(lines), Offset(lines, SelFrom) + 1, Offset(lines, SelTo))
    BY <1>1, <2>2, CopiedFlat
  <2>4. clip' = Copied(lines, SelFrom, SelTo)  BY <1>2, <2>2 DEF Copies
  <2>5. FT!Chosen = SubSeq(Flat(lines), FT!From + 1, FT!To)  BY <2>2, Zenon DEF FT!Chosen
  <2> QED  BY <2>2, <2>3, <2>4, <2>5, Zenon
<1>3. CASE ~Selected
  <2>1. ~FT!Selected
    <3>1. CASE sel = None  BY <3>1, NothingSelected
    <3>2. CASE sel # None  BY <1>3, <3>2, SelectedFlat
    <3> QED  BY <3>1, <3>2
  <2>2. clip' = Append(Here, NL)  BY <1>1, <1>3 DEF Copies
  <2>3. FT!Chosen = Append(SubSeq(Flat(lines), FT!LineFrom + 1, FT!LineTo), NL)
    BY <2>1, Zenon DEF FT!Chosen
  <2>4. FT!LineFrom = Start(lines, Line) /\ FT!LineTo = Start(lines, Line) + Len(lines[Line])
    BY <1>1, LineFlat
  <2>5. SubSeq(Flat(lines), Start(lines, Line) + 1, Start(lines, Line) + Len(lines[Line])) = lines[Line]
    BY <1>1, LineText
  <2>6. SubSeq(Flat(lines), FT!LineFrom + 1, FT!LineTo) = Here
    BY <1>1, <2>4, <2>5, Zenon
  <2> QED  BY <2>2, <2>3, <2>6, Zenon
<1> QED
  BY <1>2, <1>3

LEMMA CopyFlat ==
  ASSUME FT!Sound, Inside, CopyKey
  PROVE  FT!Copy
<1>1. lines' = lines /\ cursor' = cursor /\ sel' = sel /\ undefined' = undefined /\ Copies
  BY DEF CopyKey
<1>2. Flat(lines)' = Flat(lines) /\ FlatCaret' = FlatCaret /\ FlatSelection' = FlatSelection
  BY <1>1 DEF FlatCaret, FlatSelection
<1>3. clip' = FT!Chosen
  BY <1>1, CopiesFlat
<1> QED
  BY <1>2, <1>3 DEF FT!Copy

LEMMA CutFlat ==
  ASSUME FT!Sound, Inside, CutSelection
  PROVE  FT!Cut
<1>1. Selected /\ Copies /\ lines' = Deleted(lines, SelFrom, SelTo) /\ cursor' = SelFrom
      /\ sel' = None /\ undefined' = undefined
  BY DEF CutSelection
<1>2. lines \in Rows /\ ~undefined /\ sel # None
  BY <1>1, InsideValues DEF Inside, Selected
<1>3. clip' = FT!Chosen
  BY <1>1, CopiesFlat
<1>4. /\ SelFrom \in PlacesOf(lines) /\ SelTo \in PlacesOf(lines) /\ Before(SelFrom, SelTo)
      /\ FT!From = Offset(lines, SelFrom) /\ FT!To = Offset(lines, SelTo)
      /\ FT!Selected
  BY <1>1, <1>2, SelectedFlat
<1> DEFINE cut == Deleted(lines, SelFrom, SelTo)
<1>5. /\ cut \in Rows /\ SelFrom \in PlacesOf(cut)
      /\ Flat(cut) = FT!Remove(Flat(lines), Offset(lines, SelFrom), Offset(lines, SelTo))
      /\ Offset(cut, SelFrom) = Offset(lines, SelFrom)
  BY <1>2, <1>4, DeletedFlat
<1> HIDE DEF cut
<1>6. lines' = cut
  BY <1>1 DEF cut
<1>7. Flat(lines)' = FT!Remove(Flat(lines), FT!From, FT!To)
  BY <1>4, <1>5, <1>6
<1>8. FlatCaret' = At(lines', cursor') /\ FlatSelection' = SelAt(lines', sel')
  BY <1>1, <1>2, NextValues
<1>9. FlatCaret' = FT!From
  BY <1>1, <1>4, <1>5, <1>6, <1>8 DEF At
<1>10. FlatSelection' = FT!None
  BY <1>1, <1>8 DEF SelAt, None, FT!None
<1> QED
  BY <1>3, <1>4, <1>7, <1>9, <1>10 DEF FT!Cut

(* Nothing goes where nothing is selected.                                     *)
LEMMA RemoveNothing ==
  ASSUME NEW t \in Text, NEW a \in 0..Len(t)
  PROVE  FT!Remove(t, a, a) = t
<1>1. Len(t) \in Nat
  BY LenProperties DEF Text
<1>2. 1 \in 1..Len(t) + 1 /\ a \in 1 - 1..Len(t) /\ Len(t) \in a..Len(t)
  BY <1>1
<1>3. SubSeq(t, 1, a) \o SubSeq(t, a + 1, Len(t)) = SubSeq(t, 1, Len(t))
  BY <1>2, ConcatAdjacentSubSeq DEF Text
<1>4. SubSeq(t, 1, Len(t)) = t
  BY SubSeqFull DEF Text
<1> QED
  BY <1>3, <1>4, Zenon DEF FT!Remove

LEMMA PasteFlat ==
  ASSUME FT!Sound, Inside, PasteKey
  PROVE  FT!Paste
<1> DEFINE rest == IF Selected THEN Deleted(lines, SelFrom, SelTo) ELSE lines
           at == IF sel = None THEN cursor ELSE SelFrom
           flat == IF FlatSelection = None THEN Flat(lines) ELSE FT!Remove(Flat(lines), FT!From, FT!To)
           o == IF FlatSelection = None THEN FlatCaret ELSE FT!From
<1>1. /\ lines \in Rows /\ Flat(lines) \in Text
      /\ cursor \in PlacesOf(lines) /\ FlatCaret = Offset(lines, cursor)
      /\ sel = None <=> FlatSelection = None
  BY InsideValues
<1>2. clip \in Text
  BY TypeIs DEF Inside
<1>3. rest \in Rows /\ at \in PlacesOf(rest) /\ Flat(rest) = flat /\ Offset(rest, at) = o
  <2>1. CASE sel = None
    <3>1. ~Selected  BY <2>1 DEF Selected
    <3>2. rest = lines /\ at = cursor /\ flat = Flat(lines) /\ o = FlatCaret  BY <1>1, <2>1, <3>1
    <3> QED  BY <1>1, <3>2
  <2>2. CASE sel # None /\ Selected
    <3>1. /\ SelFrom \in PlacesOf(lines) /\ SelTo \in PlacesOf(lines) /\ Before(SelFrom, SelTo)
          /\ FT!From = Offset(lines, SelFrom) /\ FT!To = Offset(lines, SelTo)
      BY <2>2, SelectedFlat
    <3> DEFINE cut == Deleted(lines, SelFrom, SelTo)
    <3>2. /\ cut \in Rows /\ SelFrom \in PlacesOf(cut)
          /\ Flat(cut) = FT!Remove(Flat(lines), Offset(lines, SelFrom), Offset(lines, SelTo))
          /\ Offset(cut, SelFrom) = Offset(lines, SelFrom)
      BY <1>1, <3>1, DeletedFlat
    <3>3. rest = cut /\ at = SelFrom  BY <2>2
    <3>4. flat = FT!Remove(Flat(lines), FT!From, FT!To) /\ o = FT!From  BY <1>1, <2>2
    <3> HIDE DEF cut, rest, at, flat, o
    <3> QED  BY <3>1, <3>2, <3>3, <3>4
  <2>3. CASE sel # None /\ ~Selected
    <3>1. /\ SelFrom \in PlacesOf(lines)
          /\ FT!From = Offset(lines, SelFrom) /\ FT!To = Offset(lines, SelTo)
          /\ SelFrom = SelTo
      BY <2>3, SelectedFlat
    <3>2. rest = lines /\ at = SelFrom  BY <2>3
    <3>3. flat = FT!Remove(Flat(lines), FT!From, FT!From) /\ o = FT!From  BY <1>1, <2>3, <3>1
    <3>4. FT!From \in 0..Len(Flat(lines))  BY <1>1, <3>1, OffsetIsNat
    <3>5. FT!Remove(Flat(lines), FT!From, FT!From) = Flat(lines)  BY <1>1, <3>4, RemoveNothing
    <3> HIDE DEF rest, at, flat, o
    <3> QED  BY <1>1, <3>1, <3>2, <3>3, <3>5
  <2> QED  BY <2>1, <2>2, <2>3
<1>4. clip # << >> /\ IF at[1] <= Len(rest)
                        THEN Leaves(Inserted(rest, at, clip), Behind(rest, at, clip), None)
                        ELSE Undefined
  BY DEF PasteKey
<1> HIDE DEF rest, at, flat, o
<1>5. at[1] <= Len(rest)
  <2>1. at[1] \in 1..Len(rest)  BY <1>3, PlacesTyped
  <2> QED  BY <1>3, <2>1, RowsTyped
<1> DEFINE new == Inserted(rest, at, clip)  q == Behind(rest, at, clip)
<1>6. Leaves(new, q, None)
  BY <1>4, <1>5
<1>7. /\ new \in Rows /\ q \in PlacesOf(new)
      /\ Flat(new) = FT!Insert(Flat(rest), Offset(rest, at), clip)
      /\ Offset(new, q) = Offset(rest, at) + Len(clip)
  BY <1>2, <1>3, InsertedFlat
<1> HIDE DEF new, q
<1>8. /\ Flat(lines)' = Flat(new) /\ clip' = clip
      /\ FlatCaret' = At(new, q) /\ FlatSelection' = SelAt(new, None)
  BY <1>6, LeavesFlat
<1>9. Flat(lines)' = FT!Insert(flat, o, clip) /\ FlatCaret' = o + Len(clip)
  BY <1>3, <1>7, <1>8 DEF At
<1>10. FlatSelection' = None
  BY <1>8 DEF SelAt
<1>11. FT!None = None
  BY DEF FT!None, None
<1>12. FT!Paste <=> /\ FT!Sound /\ clip # << >>
                    /\ Flat(lines)' = FT!Insert(flat, o, clip) /\ FlatCaret' = o + FT!Len(clip)
                    /\ FlatSelection' = None
                    /\ UNCHANGED clip
  BY <1>11, Zenon DEF FT!Paste, flat, o
<1> QED
  BY <1>4, <1>8, <1>9, <1>10, <1>12

LEMMA UppercaseFlat ==
  ASSUME FT!Sound, Inside, UppercaseKey
  PROVE  FT!Uppercase
<1>1. Selected /\ sel # None
  BY DEF UppercaseKey, Selected
<1>2. /\ lines \in Rows /\ cursor \in PlacesOf(lines) /\ FlatCaret = Offset(lines, cursor)
      /\ FlatSelection = SelAt(lines, sel)
      /\ sel # None => FlatSelection = <<Offset(lines, sel[1]), Offset(lines, sel[2])>>
  BY InsideValues
<1>3. /\ SelFrom \in PlacesOf(lines) /\ SelTo \in PlacesOf(lines) /\ Before(SelFrom, SelTo)
      /\ SelFrom[1] <= Len(lines)
      /\ FT!From = Offset(lines, SelFrom) /\ FT!To = Offset(lines, SelTo)
      /\ FT!Selected
  BY <1>1, SelectedFlat
<1> DEFINE ms == Uppercased(lines, SelFrom, SelTo)  t == Flat(lines)
<1>4. Leaves(ms, cursor, sel)
  BY <1>3 DEF UppercaseKey
<1>5. /\ ms \in Rows /\ PlacesOf(ms) = PlacesOf(lines)
      /\ \A r \in PlacesOf(lines) : Offset(ms, r) = Offset(lines, r)
      /\ Flat(ms) = [i \in DOMAIN t |->
                       IF i \in Offset(lines, SelFrom) + 1 .. Offset(lines, SelTo) THEN Upper[t[i]] ELSE t[i]]
  BY <1>2, <1>3, UppercasedFlat
<1> HIDE DEF ms
<1>6. /\ Flat(lines)' = Flat(ms) /\ clip' = clip
      /\ FlatCaret' = At(ms, cursor) /\ FlatSelection' = SelAt(ms, sel)
  BY <1>4, LeavesFlat
<1>7. FlatCaret' = FlatCaret
  BY <1>2, <1>5, <1>6 DEF At
<1>8. FlatSelection' = FlatSelection
  <2>1. sel[1] \in PlacesOf(lines) /\ sel[2] \in PlacesOf(lines)  BY <1>1 DEF Inside
  <2>2. SelAt(ms, sel) = <<Offset(ms, sel[1]), Offset(ms, sel[2])>>  BY <1>1, <1>5, <2>1 DEF SelAt
  <2> QED  BY <1>1, <1>2, <1>5, <1>6, <2>1, <2>2
<1>9. Flat(lines)' = [i \in DOMAIN t |-> IF i \in FT!From + 1 .. FT!To THEN Upper[t[i]] ELSE t[i]]
  BY <1>3, <1>5, <1>6
<1> QED
  BY <1>3, <1>6, <1>7, <1>8, <1>9, Zenon DEF FT!Uppercase

LEMMA PluginFlat ==
  ASSUME FT!Sound, Inside, NEW p \in PlacesOf(lines), NEW q \in PlacesOf(lines), NEW s \in Snippets,
         PluginEdits(p, q, s)
  PROVE  \E from, to \in FT!Places(Flat(lines)) : from <= to /\ FT!Plugin(from, to, s)
<1> DEFINE a == Offset(lines, p)  b == Offset(lines, q)  t == Flat(lines)
           rest == Deleted(lines, p, q)  new == Inserted(rest, p, s)  r == Behind(rest, p, s)
<1>1. Before(p, q) /\ \E c \in {cursor, r} : Leaves(new, c, sel)
  BY DEF PluginEdits
<1>2. PICK c \in {cursor, r} : Leaves(new, c, sel)
  BY <1>1
<1>3. lines \in Rows /\ cursor \in PlacesOf(lines) /\ FlatCaret = Offset(lines, cursor)
  BY InsideValues
<1>4. s \in Text
  BY SnippetsAreTexts DEF Text
<1>5. a \in 0..Len(t) /\ b \in 0..Len(t) /\ a <= b
  <2>1. a \in 0..Len(t) /\ b \in 0..Len(t)  BY <1>3, OffsetIsNat
  <2> HIDE DEF a, b, t
  <2>2. a <= b  BY <1>1, <1>3, CopiedFlat DEF a, b
  <2> QED  BY <2>1, <2>2
<1>6. /\ rest \in Rows /\ p \in PlacesOf(rest)
      /\ Flat(rest) = FT!Remove(t, a, b)
      /\ Offset(rest, p) = a
  BY <1>1, <1>3, DeletedFlat
<1> HIDE DEF rest, a, b
<1>7. /\ new \in Rows /\ r \in PlacesOf(new)
      /\ Flat(new) = FT!Insert(Flat(rest), Offset(rest, p), s)
      /\ Offset(new, r) = Offset(rest, p) + Len(s)
  BY <1>4, <1>6, InsertedFlat
<1> HIDE DEF new, r
<1>8. /\ Flat(lines)' = Flat(new) /\ clip' = clip
      /\ FlatCaret' = At(new, c) /\ FlatSelection' = SelAt(new, sel)
  BY <1>2, LeavesFlat
<1>9. Flat(lines)' = FT!Insert(FT!Remove(t, a, b), a, s)
  BY <1>6, <1>7, <1>8
<1>10. FlatCaret' \in {a + Len(s), FT!Kept(FlatCaret, t, Flat(lines)')}
  <2>1. CASE c = cursor
    <3>1. FT!Kept(Offset(lines, cursor), Flat(lines), Flat(new)) = At(new, cursor)
      BY <1>3, <1>7, KeptIs
    <3>2. FT!Kept(FlatCaret, t, Flat(lines)') = At(new, cursor)  BY <1>3, <1>8, <3>1
    <3> QED  BY <1>8, <2>1, <3>2
  <2>2. CASE c = r
    <3>1. At(new, r) = a + Len(s)  BY <1>6, <1>7 DEF At
    <3> QED  BY <1>8, <2>2, <3>1
  <2> QED  BY <1>2, <2>1, <2>2
<1>11. FlatSelection' = FT!SelKept(t, Flat(lines)')
  <2>1. FT!SelKept(Flat(lines), Flat(new)) = SelAt(new, sel)  BY <1>7, SelectionKept
  <2> QED  BY <1>8, <2>1
<1>12. FT!Plugin(a, b, s)
  BY <1>8, <1>9, <1>10, <1>11 DEF FT!Plugin
<1>13. a \in FT!Places(Flat(lines)) /\ b \in FT!Places(Flat(lines))
  BY <1>5 DEF FT!Places
<1> QED
  BY <1>5, <1>12, <1>13

(* What is left when the text between two places goes, in lines.               *)
LEMMA DeletedAround ==
  ASSUME NEW ls \in Rows, NEW p \in PlacesOf(ls), NEW q \in PlacesOf(ls), Before(p, q)
  PROVE  /\ Deleted(ls, p, q) = Around(SubSeq(ls, 1, p[1] - 1), LineBefore(ls, p) \o LineBehind(ls, q),
                                      SubSeq(ls, q[1] + 1, Len(ls)))
<1> DEFINE cut == Deleted(ls, p, q)
<1>1. /\ cut \in Rows /\ p[1] \in 1..Len(cut)
      /\ cut[p[1]] = LineBefore(ls, p) \o LineBehind(ls, q)
      /\ SubSeq(cut, 1, p[1] - 1) = SubSeq(ls, 1, p[1] - 1)
      /\ SubSeq(cut, p[1] + 1, Len(cut)) = SubSeq(ls, q[1] + 1, Len(ls))
  BY DeletedParts
<1> HIDE DEF cut
<1>2. Around(SubSeq(cut, 1, p[1] - 1), cut[p[1]], SubSeq(cut, p[1] + 1, Len(cut))) = cut
  BY <1>1, AroundAny DEF Rows
<1> QED
  BY <1>1, <1>2, Zenon DEF cut

LEMMA ExceptAround ==
  ASSUME NEW S, NEW u \in Seq(S), NEW x \in S, NEW v \in Seq(S), NEW y \in S, NEW k, k = Len(u) + 1
  PROVE  [Around(u, x, v) EXCEPT ![k] = y] = Around(u, y, v)
<1> DEFINE s == Around(u, x, v)  t == Around(u, y, v)  r == [s EXCEPT ![k] = y]
<1>1. /\ s \in Seq(S) /\ Len(s) = Len(u) + 1 + Len(v) /\ t \in Seq(S) /\ Len(t) = Len(u) + 1 + Len(v)
      /\ Len(u) \in Nat /\ Len(v) \in Nat
  BY AroundOne, LenProperties
<1>2. ASSUME NEW z \in S
      PROVE  \A i \in 1..Len(u) + 1 + Len(v) :
               Around(u, z, v)[i] = IF i <= Len(u) THEN u[i] ELSE IF i = k THEN z ELSE v[i - k]
  <2> DEFINE a == <<z>>  b == u \o a
  <2>1. a \in Seq(S) /\ Len(a) = 1 /\ a[1] = z  OBVIOUS
  <2> HIDE DEF a
  <2>2. /\ b \in Seq(S) /\ Len(b) = Len(u) + 1
        /\ \A i \in 1..Len(u) + 1 : b[i] = IF i <= Len(u) THEN u[i] ELSE a[i - Len(u)]
    <3>1. /\ b \in Seq(S) /\ Len(b) = Len(u) + Len(a)
          /\ \A i \in 1..Len(u) + Len(a) : b[i] = IF i <= Len(u) THEN u[i] ELSE a[i - Len(u)]
      BY <2>1, ConcatProperties
    <3> HIDE DEF b
    <3> QED  BY <2>1, <3>1
  <2> HIDE DEF b
  <2>3. \A i \in 1..Len(b) + Len(v) : (b \o v)[i] = IF i <= Len(b) THEN b[i] ELSE v[i - Len(b)]
    BY <2>2, ConcatProperties
  <2>4. Around(u, z, v) = b \o v  BY DEF Around, a, b
  <2> DEFINE w == b \o v
  <2> HIDE DEF w
  <2>5. ASSUME NEW i \in 1..Len(u) + 1 + Len(v)
        PROVE  w[i] = IF i <= Len(u) THEN u[i] ELSE IF i = k THEN z ELSE v[i - k]
    <3>1. i \in 1..Len(b) + Len(v)  BY <2>2
    <3>2. w[i] = IF i <= Len(b) THEN b[i] ELSE v[i - Len(b)]  BY <2>3, <3>1 DEF w
    <3>3. CASE i <= Len(u)  BY <1>1, <2>2, <3>2, <3>3
    <3>4. CASE i = k
      <4>1. i <= Len(b) /\ ~(i <= Len(u)) /\ i - Len(u) = 1 /\ i \in 1..Len(u) + 1  BY <1>1, <2>2, <3>4
      <4>2. b[i] = a[i - Len(u)]  BY <2>2, <4>1
      <4> QED  BY <2>1, <3>2, <3>4, <4>1, <4>2
    <3>5. CASE ~(i <= Len(u)) /\ i # k
      <4>1. ~(i <= Len(b)) /\ Len(b) = k  BY <1>1, <2>2, <3>5
      <4> QED  BY <3>2, <3>5, <4>1
    <3> QED  BY <3>3, <3>4, <3>5
  <2> QED  BY <2>4, <2>5 DEF w
<1>3. \A i \in 1..Len(s) : s[i] = IF i <= Len(u) THEN u[i] ELSE IF i = k THEN x ELSE v[i - k]
  BY <1>1, <1>2
<1>4. \A i \in 1..Len(s) : t[i] = IF i <= Len(u) THEN u[i] ELSE IF i = k THEN y ELSE v[i - k]
  BY <1>1, <1>2
<1>5. k \in 1..Len(s)
  <2> HIDE DEF s
  <2> QED  BY <1>1
<1> HIDE DEF s, t
<1>6. /\ r \in Seq(S) /\ Len(r) = Len(s)
      /\ \A j \in 1..Len(s) : r[j] = IF j = k THEN y ELSE s[j]
  BY <1>1, <1>5, ExceptSeq
<1> HIDE DEF r
<1>7. ASSUME NEW i \in 1..Len(r) PROVE r[i] = t[i]
  <2>1. i \in 1..Len(s) /\ Len(u) \in Nat /\ (i = k => ~(i <= Len(u)))  BY <1>1, <1>6
  <2> QED  BY <1>3, <1>4, <1>6, <2>1
<1>8. r = t
  BY <1>1, <1>6, <1>7, SeqEqual
<1> QED
  BY <1>8 DEF r, s, t

LEMMA TwoLines ==
  ASSUME NEW S, NEW x \in S
  PROVE  Append(<<x>>, x) = <<x, x>>
<1> DEFINE f == <<x>>  g == <<x, x>>  h == Append(f, x)
<1>1. f \in Seq(S) /\ Len(f) = 1 /\ f[1] = x
  OBVIOUS
<1>2. g \in Seq(S) /\ Len(g) = 2 /\ g[1] = x /\ g[2] = x
  OBVIOUS
<1> HIDE DEF f, g
<1>3. h \in Seq(S) /\ Len(h) = Len(f) + 1
  BY <1>1, AppendProperties
<1>7. \A i \in 1..Len(f) : h[i] = f[i]
  BY <1>1, AppendProperties
<1>8. h[Len(f) + 1] = x
  BY <1>1, AppendProperties
<1> HIDE DEF h
<1>4. h[1] = x /\ h[2] = x /\ Len(h) = 2
  BY <1>1, <1>3, <1>7, <1>8
<1>5. \A i \in 1..Len(h) : h[i] = g[i]
  BY <1>2, <1>4
<1>6. h = g
  BY <1>2, <1>3, <1>4, <1>5, SeqEqual
<1> QED
  BY <1>6 DEF f, g, h

(* What is typed.                                                              *)
LEMMA PartsOfTyped ==
  /\ \A c \in Chars : Parts(<<c>>) = << <<c>> >> /\ <<c>> \in Text
  /\ Parts(<<NL>>) = << << >>, << >> >> /\ <<NL>> \in Text
<1>1. ASSUME NEW c \in Chars PROVE Parts(<<c>>) = << <<c>> >> /\ <<c>> \in Text
  <2> DEFINE x == <<c>>
  <2>1. x \in Row  BY DEF Row
  <2> HIDE DEF x
  <2>2. <<x>> \in Rows /\ Flat(<<x>>) = x  BY <2>1, FlatOfOne
  <2>3. Parts(Flat(<<x>>)) = <<x>>  BY <2>2, PartsOfFlat
  <2>4. x \in Text  BY <2>1, RowIsText
  <2>5. Parts(x) = <<x>>  BY <2>2, <2>3, Zenon
  <2> QED  BY <2>4, <2>5 DEF x
<1>2. Parts(<<NL>>) = << << >>, << >> >> /\ <<NL>> \in Text
  <2> DEFINE e == << >>  n == <<NL>>
  <2>1. e \in Row /\ e \in Text /\ n \in Text  BY DEF Row, Text
  <2>2. <<e>> \in Rows /\ Flat(<<e>>) = e  BY <2>1, FlatOfOne
  <2> DEFINE f == <<e>>
  <2> HIDE DEF f
  <2>3. Append(f, e) \in Rows /\ Flat(Append(f, e)) = (Flat(f) \o n) \o e  BY <2>1, <2>2, FlatOfMore DEF f
  <2>4. (Flat(f) \o n) \o e = n
    <3>1. Flat(f) = e  BY <2>2 DEF f
    <3> HIDE DEF e, n
    <3>2. e \o n = n /\ n \o e = n  BY <2>1, ConcatEmptySeq DEF Text, e
    <3> QED  BY <3>1, <3>2, Zenon
  <2>5. Parts(Flat(Append(f, e))) = Append(f, e)  BY <2>3, PartsOfFlat
  <2>6. Parts(n) = Append(f, e)  BY <2>3, <2>4, <2>5, Zenon
  <2>7. Append(f, e) = <<e, e>>
    <3>1. e \in Row  BY <2>1
    <3> HIDE DEF e
    <3> QED  BY <3>1, TwoLines DEF f
  <2> QED  BY <2>1, <2>6, <2>7
<1> QED
  BY <1>1, <1>2

LEMMA TypesFlat ==
  ASSUME FT!Sound, Inside, NEW c \in Chars \cup {NL}, NEW r,
         Leaves(Inserted(lines, cursor, <<c>>), r, None), r = Behind(lines, cursor, <<c>>)
  PROVE  FT!Type(c)
<1> DEFINE s == <<c>>  new == Inserted(lines, cursor, s)
<1>1. lines \in Rows /\ cursor \in PlacesOf(lines) /\ FlatCaret = Offset(lines, cursor)
  BY InsideValues
<1>2. s \in Text /\ Len(s) = 1
  BY PartsOfTyped
<1> HIDE DEF s
<1>3. /\ new \in Rows /\ r \in PlacesOf(new)
      /\ Flat(new) = FT!Insert(Flat(lines), Offset(lines, cursor), s)
      /\ Offset(new, r) = Offset(lines, cursor) + Len(s)
  BY <1>1, <1>2, InsertedFlat DEF s
<1>4. Leaves(new, r, None)
  BY DEF s
<1> HIDE DEF new
<1>5. /\ Flat(lines)' = Flat(new) /\ clip' = clip
      /\ FlatCaret' = At(new, r) /\ FlatSelection' = SelAt(new, None)
  BY <1>4, LeavesFlat
<1>6. Flat(lines)' = FT!Insert(Flat(lines), FlatCaret, s) /\ FlatCaret' = FlatCaret + 1
  BY <1>1, <1>2, <1>3, <1>5 DEF At
<1>7. FlatSelection' = FT!None
  BY <1>5 DEF SelAt, None, FT!None
<1> QED
  BY <1>5, <1>6, <1>7 DEF FT!Type, s

LEMMA TypeFlat ==
  ASSUME FT!Sound, Inside, NEW c \in Chars, Type(c)
  PROVE  FT!Type(c)
<1>1. /\ lines \in Rows /\ LineExists /\ Line \in 1..Len(lines) /\ Here = lines[Line]
      /\ Len(Here) \in Nat /\ Col \in 0..Len(Here)
      /\ cursor = <<Line, Col>>
  BY InsideValues
<1> DEFINE r == <<Line, Col + 1>>
<1>2. Leaves(Inserted(lines, cursor, <<c>>), r, None)
  <2>1. LineExists /\ ~(Col > Len(Here) + 1) /\ Col # Len(Here) + 1  BY <1>1
  <2> HIDE DEF Col, Line
  <2> QED  BY <2>1 DEF Type
<1>3. Behind(lines, cursor, <<c>>) = r
  <2> DEFINE x == <<c>>  ps == <<x>>
  <2>1. Parts(x) = ps  BY PartsOfTyped
  <2>2. Len(ps) = 1 /\ ps[1] = x /\ Len(x) = 1  OBVIOUS
  <2>3. Behind(lines, cursor, x) =
          <<cursor[1] + Len(ps) - 1,
            (IF Len(ps) = 1 THEN Smaller(cursor[2], Len(lines[cursor[1]])) ELSE 0) + Len(ps[Len(ps)])>>
    BY <2>1, Zenon DEF Behind
  <2>4. Smaller(cursor[2], Len(lines[cursor[1]])) = Col
    <3>1. cursor[2] = Col /\ lines[cursor[1]] = Here  BY <1>1 DEF Line, Col
    <3> QED  BY <1>1, <3>1 DEF Smaller
  <2> HIDE DEF ps, x
  <2>5. Behind(lines, cursor, x) = <<cursor[1] + 1 - 1, Col + 1>>  BY <2>2, <2>3, <2>4
  <2>6. cursor[1] + 1 - 1 = Line  BY <1>1 DEF Line
  <2> QED  BY <2>5, <2>6 DEF x
<1> QED
  BY <1>2, <1>3, TypesFlat

LEMMA EnterFlat ==
  ASSUME FT!Sound, Inside, Enter
  PROVE  FT!Type(NL)
<1>1. /\ lines \in Rows /\ LineExists /\ Line \in 1..Len(lines) /\ Here = lines[Line]
      /\ Len(Here) \in Nat /\ Col \in 0..Len(Here)
      /\ cursor = <<Line, Col>>
  BY InsideValues
<1> DEFINE r == <<Line + 1, 0>>
<1>2. Leaves(Inserted(lines, cursor, <<NL>>), r, None)
  <2>1. LineExists /\ Col <= Len(Here)  BY <1>1
  <2> HIDE DEF Col, Line
  <2> QED  BY <2>1 DEF Enter
<1>3. Behind(lines, cursor, <<NL>>) = r
  <2> DEFINE x == <<NL>>  ps == << << >>, << >> >>
  <2>1. Parts(x) = ps  BY PartsOfTyped
  <2>2. Len(ps) = 2 /\ ps[2] = << >> /\ Len(<< >>) = 0  OBVIOUS
  <2>3. Behind(lines, cursor, x) =
          <<cursor[1] + Len(ps) - 1,
            (IF Len(ps) = 1 THEN Smaller(cursor[2], Len(lines[cursor[1]])) ELSE 0) + Len(ps[Len(ps)])>>
    BY <2>1, Zenon DEF Behind
  <2> HIDE DEF ps, x
  <2>4. Behind(lines, cursor, x) = <<cursor[1] + 2 - 1, 0>>  BY <2>2, <2>3
  <2>5. cursor[1] + 2 - 1 = Line + 1  BY <1>1 DEF Line
  <2> QED  BY <2>4, <2>5 DEF x
<1> QED
  BY <1>2, <1>3, TypesFlat

LEMMA EraseFlat ==
  ASSUME FT!Sound, Inside, NEW p \in PlacesOf(lines), Before(p, cursor), NEW ls,
         ls = Deleted(lines, p, cursor), Leaves(ls, p, sel),
         Offset(lines, p) = Offset(lines, cursor) - 1
  PROVE  FT!Erase
<1> DEFINE t == Flat(lines)
<1>1. lines \in Rows /\ cursor \in PlacesOf(lines) /\ FlatCaret = Offset(lines, cursor)
  BY InsideValues
<1>2. /\ ls \in Rows /\ p \in PlacesOf(ls)
      /\ Flat(ls) = FT!Remove(t, Offset(lines, p), Offset(lines, cursor))
      /\ Offset(ls, p) = Offset(lines, p)
  BY <1>1, DeletedFlat
<1>3. /\ Flat(lines)' = Flat(ls) /\ clip' = clip
      /\ FlatCaret' = At(ls, p) /\ FlatSelection' = SelAt(ls, sel)
  BY LeavesFlat
<1>4. FlatCaret > 0
  <2>1. Offset(lines, p) \in Nat  BY <1>1, OffsetIsNat
  <2>2. Offset(lines, cursor) \in Nat  BY <1>1, OffsetIsNat
  <2> QED  BY <1>1, <2>1, <2>2
<1>5. FlatCaret' = FlatCaret - 1
  BY <1>1, <1>2, <1>3 DEF At
<1>6. Flat(lines)' = FT!Remove(t, FlatCaret - 1, FlatCaret)
  BY <1>1, <1>2, <1>3
<1>7. FlatSelection' = FT!SelKept(t, Flat(lines)')
  <2>1. FT!SelKept(Flat(lines), Flat(ls)) = SelAt(ls, sel)  BY <1>2, SelectionKept
  <2> QED  BY <1>3, <2>1
<1> QED
  BY <1>3, <1>4, <1>5, <1>6, <1>7 DEF FT!Erase

LEMMA BackspaceFlat ==
  ASSUME FT!Sound, Inside, Backspace
  PROVE  FT!Erase
<1>1. /\ lines \in Rows /\ Len(lines) \in Nat /\ cursor \in PlacesOf(lines) /\ cursor = <<Line, Col>>
      /\ Line \in 1..Len(lines) /\ LineExists
      /\ Here = lines[Line] /\ Here \in Row /\ Len(Here) \in Nat /\ Col \in 0..Len(Here)
  BY InsideValues
<1>2. cursor[1] = Line /\ cursor[2] = Col
  BY DEF Line, Col
<1> HIDE DEF Line, Col
<1>3. Line \in Nat /\ Col \in Nat /\ lines \in Seq(Row)
  BY <1>1, RowsTyped
<1>4. CASE Col > 0
  <2> DEFINE c == Col - 1  p == <<Line, c>>  new == [lines EXCEPT ![Line] = RemoveAt(@, Col)]
  <2>1. c \in 0..Len(lines[Line]) /\ c \in Nat /\ c + 1 = Col /\ c <= Col  BY <1>1, <1>3, <1>4
  <2>2. Leaves(new, p, sel)
    <3>1. LineExists /\ ~(Col > Len(Here) + 1) /\ Col # Len(Here) + 1 /\ Col # 0  BY <1>1, <1>3, <1>4
    <3>2. ASSUME NEW A, NEW B, NEW C, IF ~LineExists \/ Col > Len(Here) + 1 THEN A
                                      ELSE IF Col = Len(Here) + 1 THEN B ELSE C
          PROVE  C
      BY <3>1, <3>2
    <3>3. (IF ~LineExists \/ Col > Len(Here) + 1 THEN Undefined
           ELSE IF Col = Len(Here) + 1 THEN Leaves(lines, <<Line, Col - 1>>, sel)
           ELSE Leaves([lines EXCEPT ![Line] = RemoveAt(@, Col)], <<Line, Col - 1>>, sel))
      <4> DEFINE X == IF ~LineExists \/ Col > Len(Here) + 1 THEN Undefined
                      ELSE IF Col = Len(Here) + 1 THEN Leaves(lines, <<Line, Col - 1>>, sel)
                      ELSE Leaves([lines EXCEPT ![Line] = RemoveAt(@, Col)], <<Line, Col - 1>>, sel)
                 Y == IF ~LineExists THEN Undefined
                      ELSE Leaves([RemoveAt(lines, Line) EXCEPT ![Line - 1] = @ \o Here],
                                  <<Line - 1, Len(lines[Line - 1])>>, sel)
      <4>1. (Col > 0 /\ X) \/ (Col = 0 /\ Line > 1 /\ Y)  BY Zenon DEF Backspace
      <4> HIDE DEF X, Y
      <4>2. X  BY <3>1, <4>1
      <4> QED  BY <4>2 DEF X
    <3> QED  BY <3>1, <3>3, Zenon
  <2> HIDE DEF c
  <2>3. p \in PlacesOf(lines) /\ p[1] = Line /\ p[2] = c /\ Offset(lines, p) = Start(lines, Line) + c
    BY <1>1, <2>1, PlaceInLine
  <2> HIDE DEF p
  <2>4. Before(p, cursor)  BY <1>2, <2>1, <2>3 DEF Before
  <2>5. Offset(lines, p) = Offset(lines, cursor) - 1
    <3>1. Offset(lines, cursor) = Start(lines, Line) + Col  BY <1>1, <1>2, OffsetIs
    <3>2. Start(lines, Line) \in Nat  BY <1>1, StartInSteps
    <3> QED  BY <1>3, <2>1, <2>3, <3>1, <3>2
  <2>6. new = Deleted(lines, p, cursor)
    <3> DEFINE u == SubSeq(lines, 1, Line - 1)  v == SubSeq(lines, Line + 1, Len(lines))
               x == LineBefore(lines, p)  y == LineBehind(lines, cursor)  z == RemoveAt(Here, Col)
    <3>1. Deleted(lines, p, cursor) = Around(u, x \o y, v)
      BY <1>1, <1>2, <2>3, <2>4, DeletedAround
    <3>2. z = x \o y
      <4>1. x = SubSeq(Here, 1, c)  BY <1>1, <2>3 DEF LineBefore
      <4>2. y = SubSeq(Here, Col + 1, Len(Here))  BY <1>1, <1>2 DEF LineBehind
      <4>3. z = SubSeq(Here, 1, Col - 1) \o SubSeq(Here, Col + 1, Len(Here))  BY Zenon DEF RemoveAt
      <4>4. Col - 1 = c  BY DEF c
      <4> HIDE DEF x, y, z
      <4> QED  BY <4>1, <4>2, <4>3, <4>4, Zenon
    <3>3. z \in Row
      <4>1. Col \in 1..Len(Here)  BY <1>1, <1>4
      <4> QED  BY <1>1, <4>1, RemoveAtTyped DEF Row
    <3>4. u \in Seq(Row) /\ v \in Seq(Row) /\ Len(u) = Line - 1 /\ lines[Line] \in Row
          /\ Around(u, lines[Line], v) = lines
      BY <1>1, <1>3, AroundAny
    <3> HIDE DEF u, v, x, y, z
    <3>5. Line = Len(u) + 1  BY <1>3, <3>4
    <3>6. [Around(u, lines[Line], v) EXCEPT ![Line] = z] = Around(u, z, v)
      BY <3>3, <3>4, <3>5, ExceptAround
    <3>7. new = [lines EXCEPT ![Line] = z]
      <4>1. z = RemoveAt(lines[Line], Col)  BY <1>1 DEF z
      <4> QED  BY <1>3, <4>1, Zenon
    <3> HIDE DEF new
    <3> QED  BY <3>1, <3>2, <3>4, <3>6, <3>7, Zenon
  <2> HIDE DEF new
  <2> QED  BY <2>2, <2>3, <2>4, <2>5, <2>6, EraseFlat DEF p
<1>5. CASE Col = 0 /\ Line > 1
  <2> DEFINE l == Line - 1  x == lines[l]  n == Len(x)  p == <<l, n>>
             new == [RemoveAt(lines, Line) EXCEPT ![Line - 1] = @ \o Here]
  <2>1. l \in 1..Len(lines) /\ l \in Nat /\ l + 1 = Line /\ l < Line /\ l # Len(lines)  BY <1>1, <1>3, <1>5
  <2>2. Leaves(new, p, sel)
    <3>1. LineExists /\ ~(Col > 0)  BY <1>1, <1>5
    <3> DEFINE X == IF ~LineExists \/ Col > Len(Here) + 1 THEN Undefined
                    ELSE IF Col = Len(Here) + 1 THEN Leaves(lines, <<Line, Col - 1>>, sel)
                    ELSE Leaves([lines EXCEPT ![Line] = RemoveAt(@, Col)], <<Line, Col - 1>>, sel)
               Y == IF ~LineExists THEN Undefined
                    ELSE Leaves([RemoveAt(lines, Line) EXCEPT ![Line - 1] = @ \o Here],
                                <<Line - 1, Len(lines[Line - 1])>>, sel)
    <3>2. (Col > 0 /\ X) \/ (Col = 0 /\ Line > 1 /\ Y)  BY Zenon DEF Backspace
    <3> HIDE DEF X, Y
    <3>3. Y  BY <3>1, <3>2
    <3> QED  BY <3>1, <3>3, Zenon DEF Y
  <2> HIDE DEF l
  <2>3. x \in Row /\ n \in Nat /\ n \in 0..Len(lines[l])  BY <1>1, <2>1, RowsTyped
  <2> HIDE DEF n, x
  <2>4. p \in PlacesOf(lines) /\ p[1] = l /\ p[2] = n /\ Offset(lines, p) = Start(lines, l) + n
    BY <1>1, <2>1, <2>3, PlaceInLine DEF n, x
  <2> HIDE DEF p
  <2>5. Before(p, cursor)  BY <1>2, <2>1, <2>4 DEF Before
  <2>6. Offset(lines, p) = Offset(lines, cursor) - 1
    <3>1. Offset(lines, cursor) = Start(lines, Line) + Col  BY <1>1, <1>2, OffsetIs
    <3>2. Start(lines, Line) = Start(lines, l) + n + 1 /\ Start(lines, l) \in Nat
      BY <1>1, <2>1, CharsOfLine DEF n, x
    <3> QED  BY <1>5, <2>3, <2>4, <3>1, <3>2
  <2>7. new = Deleted(lines, p, cursor)
    <3> DEFINE u == SubSeq(lines, 1, l - 1)  v == SubSeq(lines, Line + 1, Len(lines))
    <3>1. LineBefore(lines, p) = x
      <4>1. LineBefore(lines, p) = SubSeq(x, 1, n)  BY <2>4 DEF LineBefore, x
      <4>2. SubSeq(x, 1, n) = x  BY <2>3, SubSeqFull DEF Row, n
      <4> QED  BY <4>1, <4>2
    <3>2. LineBehind(lines, cursor) = Here
      <4>1. LineBehind(lines, cursor) = SubSeq(Here, Col + 1, Len(Here))  BY <1>1, <1>2 DEF LineBehind
      <4>2. Col + 1 = 1  BY <1>5
      <4>3. SubSeq(Here, 1, Len(Here)) = Here  BY <1>1, SubSeqFull DEF Row
      <4> QED  BY <4>1, <4>2, <4>3, Zenon
    <3>3. Deleted(lines, p, cursor) = Around(u, x \o Here, v)
      <4>1. Deleted(lines, p, cursor)
              = Around(SubSeq(lines, 1, p[1] - 1), LineBefore(lines, p) \o LineBehind(lines, cursor),
                       SubSeq(lines, cursor[1] + 1, Len(lines)))
        BY <1>1, <2>4, <2>5, DeletedAround
      <4> QED  BY <1>2, <2>4, <3>1, <3>2, <4>1, Zenon
    <3>4. RemoveAt(lines, Line) = Around(u, x, v)
      <4>1. RemoveAt(lines, Line) = SubSeq(lines, 1, Line - 1) \o v  BY Zenon DEF RemoveAt
      <4>2. Line - 1 = l  BY DEF l
      <4>3. SubSeq(lines, 1, l) = u \o <<x>>
        <5> DEFINE j == l - 1
        <5>1. j \in 0..Len(lines) - 1 /\ j + 1 = l  BY <1>1, <2>1
        <5> HIDE DEF j
        <5>2. SubSeq(lines, 1, j + 1) = Append(SubSeq(lines, 1, j), lines[j + 1])
          BY <1>3, <5>1, PrefixGrows
        <5>3. u \in Seq(Row)  BY <1>3, <2>1, AroundAny
        <5>4. u = SubSeq(lines, 1, j)  BY DEF j
        <5> HIDE DEF u
        <5>5. Append(u, x) = u \o <<x>>  BY <2>3, <5>3, AppendIsConcat
        <5>6. Append(SubSeq(lines, 1, j), lines[j + 1]) = Append(u, x)  BY <5>1, <5>4, Zenon DEF x
        <5> QED  BY <5>1, <5>2, <5>5, <5>6, Zenon
      <4> HIDE DEF u, v
      <4> QED  BY <4>1, <4>2, <4>3, Zenon DEF Around
    <3>5. u \in Seq(Row) /\ Len(u) = l - 1  BY <1>3, <2>1, AroundAny
    <3>6. v \in Seq(Row)  BY <1>1, <1>3, AroundAny
    <3> HIDE DEF u, v
    <3>7. l = Len(u) + 1 /\ Line - 1 = l  BY <2>1, <3>5 DEF l
    <3>8. x \o Here \in Row  BY <1>1, <2>3, ConcatProperties DEF Row
    <3>9. Around(u, x, v)[Len(u) + 1] = x
      <4>1. u \in Seq(Row) /\ x \in Row /\ v \in Seq(Row)  BY <2>3, <3>5, <3>6
      <4> QED  BY <4>1, AroundOne
    <3>10. [Around(u, x, v) EXCEPT ![l] = x \o Here] = Around(u, x \o Here, v)
      <4> DEFINE z == x \o Here
      <4>1. z \in Row  BY <3>8
      <4> HIDE DEF z
      <4>2. [Around(u, x, v) EXCEPT ![l] = z] = Around(u, z, v)
        BY <2>3, <3>5, <3>6, <3>7, <4>1, ExceptAround
      <4> QED  BY <4>2 DEF z
    <3>11. new = [Around(u, x, v) EXCEPT ![l] = x \o Here]
      <4> DEFINE m == Around(u, x, v)
      <4>1. new = [m EXCEPT ![l] = m[l] \o Here]  BY <3>4, <3>7, Zenon
      <4>2. m[l] = x  BY <3>7, <3>9, Zenon
      <4> HIDE DEF m, new
      <4>3. m[l] \o Here = x \o Here  BY <4>2
      <4>4. new = [m EXCEPT ![l] = x \o Here]  BY <4>1, <4>3, Zenon
      <4> QED  BY <4>4 DEF m
    <3> HIDE DEF new
    <3> QED  BY <3>3, <3>10, <3>11, Zenon
  <2> HIDE DEF new
  <2>8. Leaves(new, p, sel)  BY <2>2
  <2> QED  BY <2>4, <2>5, <2>6, <2>7, <2>8, EraseFlat
<1> QED
  <2>1. Col > 0 \/ (Col = 0 /\ Line > 1)  BY DEF Backspace
  <2> QED  BY <1>4, <1>5, <2>1

(* One member between two sequences, joined from the right. *)
LEMMA AroundJoins ==
  ASSUME NEW S, NEW u \in Seq(S), NEW x \in S, NEW v \in Seq(S)
  PROVE  Around(u, x, v) = u \o (<<x>> \o v)
<1> DEFINE e == <<x>>
<1>1. e \in Seq(S)
  OBVIOUS
<1> HIDE DEF e
<1>2. (u \o e) \o v = u \o (e \o v)
  BY <1>1, ConcatAssociative
<1> QED
  BY <1>2 DEF Around, e

(* A line goes with its line end, or the last one with the line end before it. *)
LEMMA LineCut ==
  ASSUME NEW ls \in Rows, NEW k \in 1..Len(ls), Len(ls) > 1
  PROVE  LET cut == RemoveAt(ls, k)
             t == Flat(ls)
             s == Start(ls, k)
         IN  /\ cut \in Rows /\ Len(cut) = Len(ls) - 1
             /\ k # Len(ls) => Flat(cut) = FT!Remove(t, s, s + Len(ls[k]) + 1)
             /\ k = Len(ls) => /\ Flat(cut) = FT!Remove(t, s - 1, s + Len(ls[k]))
                               /\ cut[k - 1] = ls[k - 1]
<1> DEFINE cut == RemoveAt(ls, k)  t == Flat(ls)  s == Start(ls, k)  n == Len(ls)
           u == SubSeq(ls, 1, k - 1)  v == SubSeq(ls, k + 1, n)
<1>1. ls \in Seq(Row) /\ n \in Nat /\ \A l \in 1..n : ls[l] \in Row /\ Len(ls[l]) \in Nat
  BY RowsTyped
<1>2. cut \in Rows /\ Len(cut) = n - 1
  <2>1. cut \in Seq(Row) /\ Len(cut) = Len(ls) - 1  BY <1>1, RemoveAtTyped
  <2> HIDE DEF cut
  <2>2. Len(cut) # 0  BY <1>1, <2>1
  <2>3. cut # << >>  BY <2>2, EmptySeq
  <2> QED  BY <2>1, <2>3 DEF Rows
<1>3. cut = u \o v
  BY Zenon DEF RemoveAt
<1>4. u \in Seq(Row) /\ v \in Seq(Row) /\ Len(u) = k - 1
  BY <1>1, AroundAny
<1> HIDE DEF cut, t, s, n, u, v
<1>5. ASSUME k # n PROVE Flat(cut) = FT!Remove(t, s, s + Len(ls[k]) + 1)
  <2> DEFINE j == k + 1  p == <<k, 0>>  q == <<j, 0>>  x == ls[j]  w == SubSeq(ls, j + 1, n)
  <2>1. k \in 1..n /\ k \in Nat /\ j \in 1..n /\ j \in Nat /\ k < j /\ 1 \in 1..n  BY <1>1, <1>5 DEF n
  <2> HIDE DEF j
  <2>2. 0 \in 0..Len(ls[k]) /\ 0 \in 0..Len(ls[j])  BY <1>1, <2>1
  <2>3. p \in PlacesOf(ls) /\ p[1] = k /\ p[2] = 0 /\ Offset(ls, p) = s + 0
    BY <2>1, <2>2, PlaceInLine DEF s, n
  <2>4. q \in PlacesOf(ls) /\ q[1] = j /\ q[2] = 0 /\ Offset(ls, q) = Start(ls, j) + 0
    BY <2>1, <2>2, PlaceInLine DEF n
  <2> HIDE DEF p, q
  <2>5. Before(p, q)  BY <2>1, <2>3, <2>4 DEF Before
  <2>6. s \in Nat /\ Start(ls, j) = s + Len(ls[k]) + 1 /\ Len(ls[k]) \in Nat
    BY <1>5, <2>1, CharsOfLine DEF s, n, j
  <2>7. Flat(Deleted(ls, p, q)) = FT!Remove(t, Offset(ls, p), Offset(ls, q))
    BY <2>3, <2>4, <2>5, DeletedFlat DEF t
  <2>8. Offset(ls, p) = s /\ Offset(ls, q) = s + Len(ls[k]) + 1  BY <2>3, <2>4, <2>6
  <2>9. Deleted(ls, p, q) = cut
    <3>1. LineBefore(ls, p) = << >>
      <4>1. LineBefore(ls, p) = SubSeq(ls[k], 1, 0)  BY <2>3 DEF LineBefore
      <4>2. SubSeq(ls[k], 1, 0) = << >>  BY SubSeqEmpty
      <4> QED  BY <4>1, <4>2
    <3>2. LineBehind(ls, q) = x /\ x \in Row
      <4>1. x \in Row  BY <1>1, <2>1
      <4>2. LineBehind(ls, q) = SubSeq(x, 0 + 1, Len(x))  BY <2>4, Zenon DEF LineBehind
      <4>3. SubSeq(x, 1, Len(x)) = x  BY <4>1, SubSeqFull DEF Row
      <4>4. 0 + 1 = 1  OBVIOUS
      <4> QED  BY <4>1, <4>2, <4>3, <4>4, Zenon
    <3>3. Deleted(ls, p, q) = Around(SubSeq(ls, 1, p[1] - 1), LineBefore(ls, p) \o LineBehind(ls, q),
                                     SubSeq(ls, q[1] + 1, Len(ls)))
      BY <2>3, <2>4, <2>5, DeletedAround
    <3>4. << >> \o x = x  BY <3>2, ConcatEmptySeq DEF Row
    <3> HIDE DEF x
    <3>5. Deleted(ls, p, q) = Around(u, x, w)
      BY <2>3, <2>4, <3>1, <3>2, <3>3, <3>4, Zenon DEF u, n
    <3>6. v = <<x>> \o w
      <4>1. n \in j..Len(ls) /\ j \in 1..Len(ls)  BY <1>1, <2>1 DEF n
      <4>2. SubSeq(ls, j, n) = <<ls[j]>> \o SubSeq(ls, j + 1, n)  BY <1>1, <4>1, SubSeqRecursiveFirst
      <4>3. v = SubSeq(ls, j, n)  BY DEF v, j
      <4> QED  BY <4>2, <4>3, Zenon DEF x
    <3>7. Around(u, x, w) = u \o (<<x>> \o w)
      <4>1. w \in Seq(Row)  BY <1>1, <2>1, AroundAny DEF n
      <4> HIDE DEF w
      <4>2. u \in Seq(Row)  BY <1>4
      <4>3. x \in Row  BY <3>2
      <4> QED  BY <4>1, <4>2, <4>3, AroundJoins
    <3> HIDE DEF w
    <3> QED  BY <1>3, <3>5, <3>6, <3>7, Zenon
  <2> QED  BY <2>7, <2>8, <2>9, Zenon
<1>6. ASSUME k = n
      PROVE  Flat(cut) = FT!Remove(t, s - 1, s + Len(ls[k])) /\ cut[k - 1] = ls[k - 1]
  <2> DEFINE l == k - 1  x == ls[l]  m == Len(x)  h == Len(ls[k])  p == <<l, m>>  q == <<k, h>>
             w == SubSeq(ls, 1, l - 1)
  <2>1. k \in 1..n /\ k \in Nat /\ l \in 1..n /\ l \in Nat /\ l < k /\ l + 1 = k /\ l # n
    BY <1>1, <1>6 DEF n
  <2> HIDE DEF l
  <2>2. x \in Row /\ m \in Nat /\ m \in 0..Len(ls[l]) /\ h \in Nat /\ h \in 0..Len(ls[k]) /\ ls[k] \in Row
    BY <1>1, <2>1
  <2> HIDE DEF m, h
  <2>3. p \in PlacesOf(ls) /\ p[1] = l /\ p[2] = m /\ Offset(ls, p) = Start(ls, l) + m
    BY <2>1, <2>2, PlaceInLine DEF n
  <2>4. q \in PlacesOf(ls) /\ q[1] = k /\ q[2] = h /\ Offset(ls, q) = s + h
    BY <2>1, <2>2, PlaceInLine DEF n, s
  <2> HIDE DEF p, q
  <2>5. Before(p, q)  BY <2>1, <2>3, <2>4 DEF Before
  <2>6. Start(ls, k) = Start(ls, l) + m + 1 /\ Start(ls, l) \in Nat
    BY <2>1, CharsOfLine DEF n, m
  <2>7. Flat(Deleted(ls, p, q)) = FT!Remove(t, Offset(ls, p), Offset(ls, q))
    BY <2>3, <2>4, <2>5, DeletedFlat DEF t
  <2>8. Offset(ls, p) = s - 1 /\ Offset(ls, q) = s + Len(ls[k])
    <3>1. Offset(ls, p) = s - 1  BY <2>2, <2>3, <2>6 DEF s
    <3> QED  BY <2>4, <3>1 DEF h
  <2>9. v = << >>
    <3>1. k + 1 \in Int /\ n \in Int /\ n < k + 1  BY <1>1, <1>6, <2>1
    <3> QED  BY <3>1, SubSeqEmpty DEF v
  <2>10. u = w \o <<x>> /\ w \in Seq(Row) /\ Len(w) = l - 1
    <3> DEFINE j == l - 1
    <3>1. j \in 0..Len(ls) - 1 /\ j + 1 = l  BY <1>1, <2>1 DEF n
    <3> HIDE DEF j
    <3>2. SubSeq(ls, 1, j + 1) = Append(SubSeq(ls, 1, j), ls[j + 1])  BY <1>1, <3>1, PrefixGrows
    <3>3. w \in Seq(Row) /\ Len(w) = l - 1  BY <1>1, <2>1, AroundAny DEF n
    <3>4. w = SubSeq(ls, 1, j)  BY DEF j
    <3> HIDE DEF w, x
    <3>5. Append(w, x) = w \o <<x>>  BY <2>2, <3>3, AppendIsConcat
    <3>6. Append(SubSeq(ls, 1, j), ls[j + 1]) = Append(w, x)  BY <3>1, <3>4, Zenon DEF x
    <3>7. u = SubSeq(ls, 1, l)  BY DEF u, l
    <3> QED  BY <3>1, <3>2, <3>3, <3>5, <3>6, <3>7, Zenon
  <2>11. cut = Around(w, x, v) /\ cut[k - 1] = ls[k - 1]
    <3>1. cut = Around(w, x, v)  BY <1>3, <2>10, Zenon DEF Around
    <3> HIDE DEF w, x
    <3>2. w \in Seq(Row) /\ x \in Row /\ v \in Seq(Row)  BY <1>4, <2>2, <2>10
    <3>3. Around(w, x, v)[Len(w) + 1] = x  BY <3>2, AroundOne
    <3>4. Len(w) + 1 = l /\ k - 1 = l  BY <2>1, <2>10
    <3>5. ls[k - 1] = x  BY <3>4 DEF x
    <3> QED  BY <3>1, <3>3, <3>4, <3>5, Zenon
  <2>12. Deleted(ls, p, q) = cut
    <3>1. LineBefore(ls, p) = x
      <4>1. LineBefore(ls, p) = SubSeq(x, 1, m)  BY <2>3, Zenon DEF LineBefore
      <4>2. SubSeq(x, 1, m) = x  BY <2>2, SubSeqFull DEF Row, m
      <4> QED  BY <4>1, <4>2, Zenon
    <3>2. LineBehind(ls, q) = << >>
      <4>1. LineBehind(ls, q) = SubSeq(ls[k], h + 1, h)  BY <2>4 DEF LineBehind, h
      <4>2. SubSeq(ls[k], h + 1, h) = << >>  BY <2>2, SubSeqEmpty
      <4> QED  BY <4>1, <4>2
    <3>3. Deleted(ls, p, q) = Around(SubSeq(ls, 1, p[1] - 1), LineBefore(ls, p) \o LineBehind(ls, q),
                                     SubSeq(ls, q[1] + 1, Len(ls)))
      BY <2>3, <2>4, <2>5, DeletedAround
    <3>4. x \o << >> = x  BY <2>2, ConcatEmptySeq DEF Row
    <3> HIDE DEF x
    <3>5. Deleted(ls, p, q) = Around(w, x, v)
      BY <2>3, <2>4, <3>1, <3>2, <3>3, <3>4, Zenon DEF v, n
    <3> QED  BY <2>11, <3>5
  <2> QED  BY <2>7, <2>8, <2>11, <2>12, Zenon
<1> QED
  BY <1>2, <1>5, <1>6 DEF cut, t, s, n

LEMMA CutLineFlat ==
  ASSUME FT!Sound, Inside, CutLine
  PROVE  FT!CutLine
<1> DEFINE t == Flat(lines)  k == Line  s == Start(lines, k)  h == Len(Here)  n == Len(lines)
<1>1. /\ lines \in Rows /\ n \in Nat /\ 1 <= n /\ t \in Text /\ Len(t) \in Nat
      /\ cursor \in PlacesOf(lines) /\ cursor = <<Line, Col>>
      /\ k \in 1..n /\ LineExists /\ Here = lines[k] /\ h \in Nat /\ Col \in 0..h
      /\ FlatCaret = Offset(lines, cursor)
  BY InsideValues
<1>2. ~Selected /\ Copies /\ sel' = sel /\ undefined' = undefined
      /\ IF n = 1 THEN lines' = << <<>> >> /\ cursor' = <<1, 0>>
         ELSE /\ lines' = RemoveAt(lines, k)
              /\ cursor' = IF k = n THEN <<k - 1, Smaller(Col, Len(lines[k - 1]))>> ELSE cursor
  BY <1>1, Zenon DEF CutLine
<1>3. ~FT!Selected
  <2>1. CASE sel = None  BY <2>1, NothingSelected
  <2>2. CASE sel # None  BY <1>2, <2>2, SelectedFlat
  <2> QED  BY <2>1, <2>2
<1>4. clip' = FT!Chosen
  BY <1>2, CopiesFlat
<1>5. FT!LineFrom = s /\ FT!LineTo = s + h
  BY LineFlat
<1>6. /\ s \in Nat /\ s + h <= Len(t)
      /\ k # 1 => s # 0
      /\ k = 1 => s = 0
      /\ k = n => s + h = Len(t)
      /\ k # n => s + h + 1 <= Len(t)
  BY <1>1, CharsOfLine
<1>7. ~undefined'
  BY <1>2 DEF Inside
<1>8. FlatCaret' = At(lines', cursor') /\ FlatSelection' = SelAt(lines', sel)
  BY <1>2, <1>7, NextValues
<1> DEFINE u == Flat(lines')
<1>9. ASSUME lines' \in Rows,
             u = IF FT!LineTo < Len(t) THEN FT!Remove(t, FT!LineFrom, FT!LineTo + 1)
                 ELSE IF FT!LineFrom > 0 THEN FT!Remove(t, FT!LineFrom - 1, FT!LineTo)
                 ELSE <<>>,
             IF FT!LineTo < Len(t) THEN FlatCaret' = FT!Kept(FlatCaret, t, u)
             ELSE FlatCaret' \in 0..Len(u) /\ FT!LineStart(u, FlatCaret') = FT!LineStart(u, Len(u))
      PROVE  FT!CutLine
  <2>1. FlatSelection' = FT!SelKept(t, u)
    <3>1. FT!SelKept(Flat(lines), Flat(lines')) = SelAt(lines', sel)  BY <1>9, SelectionKept
    <3> QED  BY <1>8, <3>1
  <2>2. Flat(lines)' = u  OBVIOUS
  <2> HIDE DEF t, u
  <2> QED  BY <1>3, <1>4, <1>9, <2>1, <2>2 DEF FT!CutLine, FT!Places, t
<1> HIDE DEF t, k, s, h
<1>10. CASE n = 1
  <2>1. k = n /\ k = 1 /\ s = 0 /\ s + h = Len(t)  BY <1>1, <1>6, <1>10
  <2>2. lines' = << << >> >> /\ cursor' = <<1, 0>>  BY <1>2, <1>10
  <2> DEFINE e == << >>  one == <<e>>  p == <<1, 0>>
  <2>3. e \in Row  BY DEF Row
  <2>4. one \in Rows /\ Flat(one) = e /\ Len(one) = 1 /\ one[1] = e
    <3> HIDE DEF e
    <3> QED  BY <2>3, FlatOfOne
  <2>5. Len(e) = 0  OBVIOUS
  <2>6. 1 \in 1..Len(one) /\ 0 \in 0..Len(one[1])  BY <2>4, <2>5
  <2> HIDE DEF one, e
  <2>7. p \in PlacesOf(one)  BY <2>4, <2>6, PlaceInLine
  <2>8. Offset(one, p) \in 0..Len(Flat(one))  BY <2>4, <2>7, OffsetIsNat
  <2>9. Offset(one, p) = 0  BY <2>4, <2>5, <2>8
  <2>10. lines' = one /\ u = e /\ FlatCaret' = 0
    <3>1. lines' = one /\ cursor' = p  BY <2>2 DEF one, e
    <3> HIDE DEF p
    <3> QED  BY <1>8, <2>4, <2>7, <2>9, <3>1 DEF At
  <2>11. ~(FT!LineTo < Len(t)) /\ ~(FT!LineFrom > 0)
    <3>1. Len(t) \in Nat  BY <1>1 DEF t
    <3> QED  BY <1>5, <2>1, <3>1
  <2>12. FlatCaret' \in 0..Len(u) /\ FT!LineStart(u, FlatCaret') = FT!LineStart(u, Len(u))
    <3> HIDE DEF u
    <3> QED  BY <2>5, <2>10
  <2>13. lines' \in Rows /\ u = << >>  BY <2>4, <2>10 DEF e
  <2> HIDE DEF u
  <2> QED  BY <1>9, <2>11, <2>12, <2>13
<1>11. CASE n # 1
  <2> DEFINE cut == RemoveAt(lines, k)
  <2>1. n > 1 /\ k \in 1..Len(lines) /\ Len(lines[k]) = h
    <3>1. k \in 1..Len(lines)  BY <1>1
    <3>2. Len(lines[k]) = h  BY <1>1 DEF h
    <3> HIDE DEF n
    <3>3. n > 1  BY <1>1, <1>11
    <3> QED  BY <3>1, <3>2, <3>3 DEF n
  <2>2. /\ cut \in Rows /\ Len(cut) = n - 1
        /\ k # n => Flat(cut) = FT!Remove(t, s, s + h + 1)
        /\ k = n => Flat(cut) = FT!Remove(t, s - 1, s + h) /\ cut[k - 1] = lines[k - 1]
    BY <1>1, <2>1, LineCut DEF t, s
  <2>3. lines' = cut /\ cursor' = IF k = n THEN <<k - 1, Smaller(Col, Len(lines[k - 1]))>> ELSE cursor
    BY <1>2, <1>11
  <2> HIDE DEF cut
  <2>4. CASE k # n
    <3>1. FT!LineTo < Len(t)
      <4>1. Len(t) \in Nat /\ h \in Nat  BY <1>1 DEF t, h
      <4> QED  BY <1>5, <1>6, <2>4, <4>1
    <3>2. u = FT!Remove(t, FT!LineFrom, FT!LineTo + 1)  BY <1>5, <2>2, <2>3, <2>4
    <3>3. FlatCaret' = FT!Kept(FlatCaret, t, u)
      <4>1. FT!Kept(Offset(lines, cursor), Flat(lines), Flat(cut)) = At(cut, cursor)
        BY <1>1, <2>2, KeptIs
      <4>2. FlatCaret' = At(cut, cursor)  BY <1>8, <2>3, <2>4
      <4> QED  BY <1>1, <2>3, <4>1, <4>2 DEF t
    <3>4. lines' \in Rows  BY <2>2, <2>3
    <3> HIDE DEF u
    <3> QED  BY <1>9, <3>1, <3>2, <3>3, <3>4
  <2>5. CASE k = n
    <3>1. ~(FT!LineTo < Len(t)) /\ FT!LineFrom > 0
      <4>1. Len(t) \in Nat /\ h \in Nat  BY <1>1 DEF t, h
      <4>2. k # 1  BY <1>11, <2>5
      <4> QED  BY <1>5, <1>6, <2>5, <4>1, <4>2
    <3>2. u = FT!Remove(t, FT!LineFrom - 1, FT!LineTo)  BY <1>5, <2>2, <2>3, <2>5
    <3> DEFINE l == k - 1  m == Len(lines[l])  c == Smaller(Col, m)  p == <<l, c>>  end == <<l, m>>
    <3>3. l \in 1..Len(cut) /\ l = Len(cut) /\ l \in 1..Len(lines) /\ cut[l] = lines[l]
      <4>1. l = n - 1 /\ n \in Nat  BY <1>1, <2>5
      <4>2. cut[l] = lines[l]  BY <2>2, <2>5
      <4> HIDE DEF l
      <4>3. l \in 1..Len(cut) /\ l = Len(cut)  BY <2>1, <2>2, <4>1
      <4>4. l \in 1..Len(lines)  BY <2>1, <4>1
      <4> QED  BY <4>2, <4>3, <4>4
    <3>4. cursor' = p  BY <2>3, <2>5
    <3> HIDE DEF l
    <3>5. m \in Nat  BY <1>1, <3>3, RowsTyped
    <3>6. Col \in Nat  BY <1>1
    <3>7. Len(cut[l]) = m  BY <3>3
    <3> HIDE DEF m
    <3>8. c \in 0..m /\ m \in 0..m  BY <3>5, <3>6 DEF Smaller
    <3> HIDE DEF c
    <3>9. p \in PlacesOf(cut) /\ p[1] = l /\ Offset(cut, p) = Start(cut, l) + c
      BY <2>2, <3>3, <3>7, <3>8, PlaceInLine
    <3>10. end \in PlacesOf(cut) /\ end[1] = l /\ Offset(cut, end) = Start(cut, l) + m
      BY <2>2, <3>3, <3>7, <3>8, PlaceInLine
    <3> HIDE DEF p, end
    <3>11. Offset(cut, end) = Len(Flat(cut))
      <4>1. Start(cut, l) + Len(cut[l]) = Len(Flat(cut))  BY <2>2, <3>3, CharsOfLine
      <4> QED  BY <3>7, <3>10, <4>1
    <3>12. FlatCaret' = Offset(cut, p)  BY <1>8, <2>3, <3>4, <3>9 DEF At
    <3>13. FT!LineStart(Flat(cut), Offset(cut, p)) = Start(cut, p[1])  BY <2>2, <3>9, CoordinatesOfPlace
    <3>14. FT!LineStart(Flat(cut), Offset(cut, end)) = Start(cut, end[1])  BY <2>2, <3>10, CoordinatesOfPlace
    <3>15. FT!LineStart(u, FlatCaret') = FT!LineStart(u, Len(u))
      <4>1. u = Flat(cut)  BY <2>3
      <4> HIDE DEF u
      <4> QED  BY <3>9, <3>10, <3>11, <3>12, <3>13, <3>14, <4>1, Zenon
    <3>16. FlatCaret' \in 0..Len(u)
      <4>1. Offset(cut, p) \in 0..Len(Flat(cut))  BY <2>2, <3>9, OffsetIsNat
      <4> QED  BY <2>3, <3>12, <4>1
    <3>17. lines' \in Rows  BY <2>2, <2>3
    <3> HIDE DEF u
    <3> QED  BY <1>9, <3>1, <3>2, <3>15, <3>16, <3>17
  <2> QED  BY <2>4, <2>5
<1> QED
  BY <1>10, <1>11

-----------------------------------------------------------------------------
(* The editor implements FlatText                                          *)

LEMMA FlatInit == Init => FT!Init
<1> SUFFICES ASSUME Init PROVE FT!Init
  OBVIOUS
<1>1. PICK t \in BoundedSeq(Chars \cup {NL}, MaxText) :
        lines = Inserted(<< <<>> >>, <<1, 0>>, t)
  BY DEF Init
<1>2. t \in Text
  <2>1. PICK m \in 0..MaxText : t \in [1..m -> Chars \cup {NL}]
    BY <1>1 DEF BoundedSeq, SeqOf
  <2>2. m \in Nat  BY <2>1, MaxTextInNat
  <2> QED  BY <2>1, <2>2 DEF Text
<1>3. cursor = <<1, 0>> /\ sel = None /\ clip = << >> /\ ~undefined
  BY DEF Init
<1> DEFINE e == << >>  one == <<e>>  p == <<1, 0>>
<1>4. one \in Rows /\ Len(one) = 1 /\ Len(one[1]) = 0
  <2>1. e \in Row  BY DEF Row
  <2>2. Len(e) = 0  OBVIOUS
  <2> HIDE DEF e
  <2> QED  BY <2>1, <2>2, FlatOfOne
<1>5. lines = Inserted(one, p, t)
  BY <1>1 DEF one, e, p
<1> HIDE DEF one, e, p
<1>6. p \in PlacesOf(one)
  <2>1. 1 \in 1..Len(one) /\ 0 \in 0..Len(one[1])  BY <1>4
  <2> QED  BY <1>4, <2>1, PlaceInLine DEF p
<1>7. lines \in Rows
  BY <1>2, <1>4, <1>5, <1>6, InsertedFlat
<1>8. 1 \in 1..Len(lines) /\ 0 \in 0..Len(lines[1])
  <2>1. Len(lines) \in Nat /\ 1 <= Len(lines)  BY <1>7, RowsTyped
  <2>2. 1 \in 1..Len(lines)  BY <2>1
  <2>3. Len(lines[1]) \in Nat  BY <1>7, <2>2, RowsTyped
  <2> QED  BY <2>2, <2>3
<1>9. p \in PlacesOf(lines) /\ Offset(lines, p) = Start(lines, 1) + 0
  BY <1>7, <1>8, PlaceInLine DEF p
<1>10. Start(lines, 1) = 0
  BY <1>7, <1>8, CharsOfLine
<1>11. FlatCaret = 0
  <2>1. cursor = p  BY <1>3 DEF p
  <2> QED  BY <1>3, <1>9, <1>10, <2>1 DEF FlatCaret
<1>12. FlatSelection = None
  BY <1>3 DEF FlatSelection
<1>13. Flat(lines) \in Seq(Chars \cup {NL})
  BY <1>7, FlatTyped DEF Text
<1> QED
  BY <1>3, <1>11, <1>12, <1>13 DEF FT!Init, FT!None, None

(* Keys *)
LEMMA KeysFlat ==
  ASSUME FT!Sound, Inside, Keys
  PROVE  FT!Next
<1>1. \/ Up \/ Down \/ Left \/ Right \/ WordKeys \/ SelectAll
      \/ CopyKey \/ CutSelection \/ CutLine \/ PasteKey \/ UppercaseKey
      \/ Enter \/ Backspace
      \/ \E c \in Chars : Type(c)
  BY DEF Keys
<1>2. CASE Up \/ Down \/ Left \/ Right \/ WordKeys \/ SelectAll
  <2>1. FT!Move  BY <1>2, MovingFlat
  <2> QED  BY <2>1 DEF FT!Next
<1>3. CASE CopyKey
  <2>1. FT!Copy  BY <1>3, CopyFlat
  <2> QED  BY <2>1 DEF FT!Next
<1>4. CASE CutSelection
  <2>1. FT!Cut  BY <1>4, CutFlat
  <2> QED  BY <2>1 DEF FT!Next
<1>5. CASE CutLine
  <2>1. FT!CutLine  BY <1>5, CutLineFlat
  <2> QED  BY <2>1 DEF FT!Next
<1>6. CASE PasteKey
  <2>1. FT!Paste  BY <1>6, PasteFlat
  <2> QED  BY <2>1 DEF FT!Next
<1>7. CASE UppercaseKey
  <2>1. FT!Uppercase  BY <1>7, UppercaseFlat
  <2> QED  BY <2>1 DEF FT!Next
<1>8. CASE Enter
  <2>1. FT!Type(NL)  BY <1>8, EnterFlat
  <2> QED  BY <2>1 DEF FT!Next
<1>9. CASE Backspace
  <2>1. FT!Erase  BY <1>9, BackspaceFlat
  <2> QED  BY <2>1 DEF FT!Next
<1>10. ASSUME NEW c \in Chars, Type(c) PROVE FT!Next
  <2>1. FT!Type(c)  BY <1>10, TypeFlat
  <2> QED  BY <2>1 DEF FT!Next
<1> QED
  BY <1>1, <1>2, <1>3, <1>4, <1>5, <1>6, <1>7, <1>8, <1>9, <1>10, Zenon

LEMMA FlatStep ==
  ASSUME TypeOK, [Next]_vars
  PROVE  [FT!Next]_(FT!vars)
<1>1. CASE UNCHANGED vars
  <2>1. lines' = lines /\ cursor' = cursor /\ sel' = sel /\ clip' = clip /\ undefined' = undefined
    BY <1>1 DEF vars
  <2>2. Flat(lines)' = Flat(lines)  BY <2>1
  <2>3. FlatCaret' = FlatCaret  BY <2>1 DEF FlatCaret
  <2>4. FlatSelection' = FlatSelection  BY <2>1, Zenon DEF FlatSelection
  <2> QED  BY <2>1, <2>2, <2>3, <2>4, Zenon DEF FT!vars
<1>2. CASE ~FT!Sound
  BY <1>2 DEF FT!Next, FT!Adrift
<1>3. CASE FT!Sound /\ Next
  <2>1. Inside  BY <1>3, SoundIsInside
  <2>2. ~undefined  BY <2>1 DEF Inside
  <2>3. \/ Keys \/ Plugins
        \/ \E p \in PlacesOf(lines) :
             \E event \in {"pressed", "moved", "released", "other"} : Mouse(p, event)
    BY <1>3, <2>2 DEF Next
  <2>4. CASE Keys
    BY <1>3, <2>1, <2>4, KeysFlat
  <2>5. CASE Plugins
    <3>1. ASSUME NEW p \in PlacesOf(lines), NEW q \in PlacesOf(lines), NEW s \in Snippets,
                 PluginEdits(p, q, s)
          PROVE  FT!Next
      <4>1. \E from, to \in FT!Places(Flat(lines)) : from <= to /\ FT!Plugin(from, to, s)
        BY <1>3, <2>1, <3>1, PluginFlat
      <4> QED  BY <4>1 DEF FT!Next
    <3>2. ASSUME NEW p \in PlacesOf(lines), PluginMoves(p)
          PROVE  FT!Next
      <4>1. FT!Move  BY <1>3, <2>1, <3>2, PluginMovesFlat
      <4> QED  BY <4>1 DEF FT!Next
    <3> QED  BY <2>5, <3>1, <3>2, Zenon DEF Plugins
  <2>6. ASSUME NEW p \in PlacesOf(lines), NEW event, Mouse(p, event)
        PROVE  FT!Next
    <3>1. FT!Move  BY <1>3, <2>1, <2>6, MouseFlat
    <3> QED  BY <3>1 DEF FT!Next
  <2> QED  BY <2>3, <2>4, <2>5, <2>6, Zenon
<1> QED
  BY <1>1, <1>2, <1>3

(* As long as the cursor and the selection are inside the text, the keys   *)
(* and the plugins do to the text, taken as one sequence of characters,    *)
(* what FlatText says, however long it is (files.c: insert_text_at_cursor, *)
(* delete_selection, copy_selection_or_line and the keys in                *)
(* editor_handle_key).                                                     *)
THEOREM FlatTextImplemented == Spec => ImplementsFlatText
<1>1. TypeOK /\ [Next]_vars => [FT!Next]_(FT!vars)
  BY FlatStep
<1> QED
  BY <1>1, FlatInit, TextTyped, PTL DEF Spec, ImplementsFlatText, FT!Spec
=============================================================================
