--------------------------- MODULE FileOps_proofs ---------------------------
(* The file operations, for any names and contents, whatever commands fail and *)
(* whoever else changes files: what exists stays a tree of paths, undo and     *)
(* redo are never both pending, and no file's content is lost but where the    *)
(* program means to give it up.                                                *)
EXTENDS FileOps, DataLemmas, SequenceTheorems

-----------------------------------------------------------------------------
(* The paths of the model.                                                  *)

(* Paths: they begin at the directory, what it is renamed to, the storage or   *)
(* the trash; the trash itself is always there.                                *)
Comp == Names \cup {"cwd", "store", "trash", "beside"}
Comps == Seq(Comp)
Tops == {"cwd", "store", "trash", "beside"}
Path == {p \in Comps : Len(p) \in Nat \ {0} /\ p[1] \in Tops /\ (Len(p) = 1 => p[1] # "trash")}

(* What of a sequence is read off its numbers.                                 *)
LEMMA Pieces ==
  ASSUME NEW s \in Comps
  PROVE  /\ Len(s) \in Nat /\ DOMAIN s = 1 .. Len(s) /\ \A i \in 1 .. Len(s) : s[i] \in Comp
         /\ SubSeq(s, 1, Len(s)) = s
BY LenProperties, ElementOfSeq, SubSeqFull DEF Comps

LEMMA Beginning ==
  ASSUME NEW s \in Comps, NEW m \in Int, 0 <= m, m <= Len(s)
  PROVE  /\ SubSeq(s, 1, m) \in Comps /\ Len(SubSeq(s, 1, m)) = m
         /\ \A i \in 1 .. m : SubSeq(s, 1, m)[i] = s[i]
<1>1. \A i \in 1 .. m : i \in 1 .. Len(s) /\ s[i] \in Comp
  BY Pieces
<1> DEFINE ss == SubSeq(s, 1, m)
<1>2. /\ ss \in Seq(Comp) /\ Len(ss) = IF 1 <= m THEN m - 1 + 1 ELSE 0
      /\ \A i \in 1 .. m - 1 + 1 : ss[i] = s[1 + i - 1]
  BY <1>1, SubSeqProperties
<1> HIDE DEF ss
<1>3. m - 1 + 1 = m /\ (IF 1 <= m THEN m - 1 + 1 ELSE 0) = m /\ \A i \in 1 .. m : 1 + i - 1 = i
  OBVIOUS
<1>4. ss \in Comps /\ Len(ss) = m /\ \A i \in 1 .. m : ss[i] = s[i]
  BY <1>2, <1>3 DEF Comps
<1> QED
  BY <1>4 DEF ss

LEMMA SameSequence ==
  ASSUME NEW s \in Comps, NEW t \in Comps, Len(s) = Len(t), \A i \in 1 .. Len(s) : s[i] = t[i]
  PROVE  s = t
BY SeqEqual DEF Comps

LEMMA PrefixMeans ==
  ASSUME NEW p \in Comps, NEW q \in Comps
  PROVE  IsPrefix(p, q) <=> Len(p) <= Len(q) /\ \A i \in 1 .. Len(p) : p[i] = q[i]
<1>1. Len(p) \in Nat /\ Len(q) \in Nat /\ SubSeq(p, 1, Len(p)) = p
  BY Pieces
<1>2. CASE Len(p) <= Len(q)
  <2> DEFINE t == SubSeq(q, 1, Len(p))
  <2>1. t \in Comps /\ Len(t) = Len(p) /\ \A i \in 1 .. Len(p) : t[i] = q[i]
    BY <1>1, <1>2, Beginning
  <2>2. IsPrefix(p, q) <=> p = t
    BY <1>1, <1>2 DEF IsPrefix
  <2> HIDE DEF t
  <2>3. p = t <=> \A i \in 1 .. Len(p) : p[i] = q[i]
    <3>1. ASSUME \A i \in 1 .. Len(p) : p[i] = q[i] PROVE p = t
      <4>1. \A i \in 1 .. Len(p) : p[i] = t[i]  BY <2>1, <3>1
      <4> QED  BY <2>1, <4>1, SameSequence
    <3> QED  BY <2>1, <3>1
  <2> QED  BY <1>2, <2>2, <2>3
<1>3. CASE ~(Len(p) <= Len(q))
  BY <1>3 DEF IsPrefix
<1> QED
  BY <1>2, <1>3

LEMMA PrefixOrder ==
  ASSUME NEW p \in Comps, NEW q \in Comps
  PROVE  /\ IsPrefix(p, p)
         /\ IsPrefix(p, q) /\ Len(p) = Len(q) => p = q
         /\ IsPrefix(p, q) /\ p # q => Len(p) < Len(q)
         /\ \A r \in Comps : IsPrefix(p, q) /\ IsPrefix(q, r) => IsPrefix(p, r)
         /\ \A r \in Comps : IsPrefix(p, r) /\ IsPrefix(q, r) /\ Len(p) <= Len(q) => IsPrefix(p, q)
<1>1. Len(p) \in Nat /\ Len(q) \in Nat
  BY Pieces
<1>2. IsPrefix(p, p)
  BY <1>1, PrefixMeans
<1>3. ASSUME IsPrefix(p, q), Len(p) = Len(q) PROVE p = q
  BY <1>3, PrefixMeans, SameSequence
<1>4. ASSUME IsPrefix(p, q), p # q PROVE Len(p) < Len(q)
  <2>1. Len(p) <= Len(q)  BY <1>4, PrefixMeans
  <2> QED  BY <1>1, <1>3, <1>4, <2>1
<1>5. ASSUME NEW r \in Comps, IsPrefix(p, q), IsPrefix(q, r) PROVE IsPrefix(p, r)
  <2>1. Len(r) \in Nat  BY Pieces
  <2>2. Len(p) <= Len(q) /\ \A i \in 1 .. Len(p) : p[i] = q[i]  BY <1>5, PrefixMeans
  <2>3. Len(q) <= Len(r) /\ \A i \in 1 .. Len(q) : q[i] = r[i]  BY <1>5, PrefixMeans
  <2>4. Len(p) <= Len(r) /\ \A i \in 1 .. Len(p) : p[i] = r[i]  BY <1>1, <2>1, <2>2, <2>3
  <2> QED  BY <2>4, PrefixMeans
<1>6. ASSUME NEW r \in Comps, IsPrefix(p, r), IsPrefix(q, r), Len(p) <= Len(q) PROVE IsPrefix(p, q)
  <2>1. Len(r) \in Nat  BY Pieces
  <2>2. Len(p) <= Len(r) /\ \A i \in 1 .. Len(p) : p[i] = r[i]  BY <1>6, PrefixMeans
  <2>3. Len(q) <= Len(r) /\ \A i \in 1 .. Len(q) : q[i] = r[i]  BY <1>6, PrefixMeans
  <2>4. \A i \in 1 .. Len(p) : p[i] = q[i]  BY <1>1, <1>6, <2>1, <2>2, <2>3
  <2> QED  BY <1>6, <2>4, PrefixMeans
<1> QED
  BY <1>2, <1>3, <1>4, <1>5, <1>6

(* The parent of a path.                                                       *)
LEMMA FrontMeans ==
  ASSUME NEW p \in Comps, Len(p) > 0
  PROVE  /\ Front(p) \in Comps /\ Len(Front(p)) = Len(p) - 1
         /\ \A i \in 1 .. Len(p) - 1 : Front(p)[i] = p[i]
         /\ IsPrefix(Front(p), p) /\ ~IsPrefix(p, Front(p)) /\ Front(p) # p
<1>1. Len(p) \in Nat /\ Len(p) - 1 \in Int /\ 0 <= Len(p) - 1 /\ Len(p) - 1 <= Len(p)
  BY Pieces
<1>2. /\ Front(p) \in Comps /\ Len(Front(p)) = Len(p) - 1
      /\ \A i \in 1 .. Len(p) - 1 : Front(p)[i] = p[i]
  BY <1>1, Beginning DEF Front
<1>3. IsPrefix(Front(p), p)
  BY <1>1, <1>2, PrefixMeans
<1>4. ~IsPrefix(p, Front(p))
  BY <1>1, <1>2, PrefixMeans
<1> QED
  BY <1>1, <1>2, <1>3, <1>4

LEMMA FrontBetween ==
  ASSUME NEW p \in Comps, NEW q \in Comps, IsPrefix(p, q), p # q
  PROVE  Len(q) > 0 /\ IsPrefix(p, Front(q))
<1>1. Len(p) \in Nat /\ Len(q) \in Nat /\ Len(p) < Len(q)
  BY Pieces, PrefixOrder
<1>2. Front(q) \in Comps /\ IsPrefix(Front(q), q) /\ Len(p) <= Len(Front(q))
  BY <1>1, FrontMeans
<1> QED
  BY <1>1, <1>2, PrefixOrder

(* What lies below a path is a path and none of the roots; so does the parent  *)
(* of what lies there.                                                         *)
LEMMA BelowAPath ==
  ASSUME NEW p \in Path, NEW q \in Comps, IsPrefix(p, q)
  PROVE  q \in Path /\ q \notin Roots
<1>1. p \in Comps /\ Len(p) \in Nat \ {0} /\ p[1] \in Tops /\ (Len(p) = 1 => p[1] # "trash")
  BY DEF Path
<1>2. Len(q) \in Nat /\ Len(p) <= Len(q) /\ p[1] = q[1]
  BY <1>1, PrefixMeans, Pieces
<1>3. CASE Len(q) = 1
  <2>0. Len(p) \in Nat \ {0} /\ Len(p) <= 1  BY <1>1, <1>2, <1>3
  <2>1. Len(p) = 1  BY <2>0
  <2>2. p = q /\ p[1] # "trash"  BY <1>1, <1>3, <2>1, PrefixOrder
  <2>3. p \notin Roots
    <3>1. << "trash" >>[1] = "trash" /\ Len(<< >>) = 0  OBVIOUS
    <3> QED  BY <2>1, <2>2, <3>1 DEF Roots
  <2> QED  BY <1>1, <2>2, <2>3 DEF Path
<1>4. CASE Len(q) # 1
  <2>1. Len(q) \in Nat \ {0} /\ q[1] \in Tops  BY <1>1, <1>2
  <2>2. q \in Path  BY <1>4, <2>1 DEF Path
  <2>3. q \notin Roots
    <3>1. Len(<< "trash" >>) = 1 /\ Len(<< >>) = 0  OBVIOUS
    <3> QED  BY <1>4, <2>1, <3>1 DEF Roots
  <2> QED  BY <2>2, <2>3
<1> QED
  BY <1>3, <1>4

(* The parent of a path is a root or a path; that of a top is a root.          *)
LEMMA ParentIs ==
  ASSUME NEW p \in Path
  PROVE  /\ p \in Comps /\ Front(p) \in Comps
         /\ Front(p) \notin Roots => Front(p) \in Path
         /\ p \notin Roots
<1>1. p \in Comps /\ Len(p) \in Nat \ {0} /\ p[1] \in Tops /\ (Len(p) = 1 => p[1] # "trash")
  BY DEF Path
<1>2. Front(p) \in Comps /\ Len(Front(p)) = Len(p) - 1 /\ \A i \in 1 .. Len(p) - 1 : Front(p)[i] = p[i]
  BY <1>1, FrontMeans
<1>3. ASSUME Front(p) \notin Roots PROVE Front(p) \in Path
  <2>1. CASE Len(p) = 1
    <3>1. Len(Front(p)) = 0  BY <1>2, <2>1
    <3>2. << >> \in Comps /\ Len(<< >>) = 0  BY EmptySeq DEF Comps
    <3>3. Front(p) = << >>  BY <1>2, <3>1, <3>2, SameSequence
    <3> QED  BY <1>3, <3>3 DEF Roots
  <2>2. CASE Len(p) = 2
    <3>1. Len(Front(p)) = 1 /\ Front(p)[1] = p[1]  BY <1>2, <2>2
    <3>2. \A c \in Comp : << c >> \in Comps /\ Len(<< c >>) = 1 /\ << c >>[1] = c
      BY DEF Comps
    <3>3. p[1] \in Comp  BY <1>1 DEF Tops, Comp
    <3> DEFINE t == << p[1] >>
    <3>a. t \in Comps /\ Len(t) = 1 /\ t[1] = p[1]  BY <3>2, <3>3
    <3> HIDE DEF t
    <3>b. \A i \in 1 .. 1 : Front(p)[i] = t[i]  BY <3>1, <3>a
    <3>c. Front(p) = t  BY <1>2, <3>1, <3>a, <3>b, SameSequence
    <3>4. Front(p) = << p[1] >>  BY <3>c DEF t
    <3>5. p[1] # "trash"  BY <1>3, <3>4 DEF Roots
    <3>6. Len(Front(p)) \in Nat \ {0} /\ Front(p)[1] \in Tops /\ Front(p)[1] # "trash"
      BY <1>1, <3>1, <3>5
    <3> QED  BY <1>2, <3>6 DEF Path
  <2>3. CASE Len(p) > 2
    <3>1. Len(Front(p)) \in Nat \ {0} /\ Len(Front(p)) # 1 /\ Front(p)[1] = p[1]  BY <1>1, <1>2, <2>3
    <3> QED  BY <1>1, <1>2, <3>1 DEF Path
  <2> DEFINE n == Len(p)
  <2>4. n \in Nat /\ n # 0  BY <1>1
  <2> HIDE DEF n
  <2>5. n = 1 \/ n = 2 \/ n > 2  BY <2>4
  <2> USE DEF n
  <2> QED  BY <2>1, <2>2, <2>3, <2>5
<1>4. p \notin Roots
  BY <1>1, BelowAPath, PrefixOrder
<1> QED
  BY <1>1, <1>2, <1>3, <1>4

-----------------------------------------------------------------------------
(* What is carried elsewhere; disks.                                        *)

(* Where a path below src lies once src is carried to dst.                     *)
Carried(q, src, dst) == dst \o SubSeq(q, Len(src) + 1, Len(q))

LEMMA CarriedIs ==
  ASSUME NEW q \in Comps, NEW src \in Comps, NEW dst \in Comps, IsPrefix(src, q)
  PROVE  /\ Carried(q, src, dst) \in Comps
         /\ Len(Carried(q, src, dst)) = Len(dst) + Len(q) - Len(src)
         /\ \A i \in 1 .. Len(dst) + Len(q) - Len(src) :
              Carried(q, src, dst)[i] = IF i <= Len(dst) THEN dst[i] ELSE q[i - Len(dst) + Len(src)]
         /\ IsPrefix(dst, Carried(q, src, dst))
<1> DEFINE a == Len(src)  b == Len(q)  c == Len(dst)
           t == SubSeq(q, a + 1, b)
           u == Carried(q, src, dst)
<1>1. a \in Nat /\ b \in Nat /\ c \in Nat /\ a <= b /\ \A i \in 1 .. b : q[i] \in Comp
  BY Pieces, PrefixMeans
<1>2. t \in Comps /\ Len(t) = b - a /\ \A i \in 1 .. b - a : t[i] = q[i + a]
  <2>1. \A i \in a + 1 .. b : q[i] \in Comp  BY <1>1
  <2>2. a + 1 \in Int /\ b \in Int  BY <1>1
  <2> HIDE DEF a, b
  <2>3. /\ t \in Seq(Comp) /\ Len(t) = IF a + 1 <= b THEN b - (a + 1) + 1 ELSE 0
        /\ \A i \in 1 .. b - (a + 1) + 1 : t[i] = q[a + 1 + i - 1]
    BY <2>1, <2>2, SubSeqProperties
  <2> HIDE DEF t
  <2>4. (IF a + 1 <= b THEN b - (a + 1) + 1 ELSE 0) = b - a /\ b - (a + 1) + 1 = b - a
    BY <1>1
  <2>5. \A i \in 1 .. b - a : a + 1 + i - 1 = i + a  BY <1>1
  <2> QED  BY <2>3, <2>4, <2>5 DEF Comps
<1>3. u = dst \o t
  BY DEF Carried
<1> HIDE DEF t, u
<1>4. /\ u \in Seq(Comp) /\ Len(u) = c + Len(t)
      /\ \A i \in 1 .. c + Len(t) : u[i] = IF i <= c THEN dst[i] ELSE t[i - c]
  <2> DEFINE w == dst \o t
  <2>1. dst \in Seq(Comp) /\ t \in Seq(Comp)  BY <1>2 DEF Comps
  <2>2. /\ w \in Seq(Comp) /\ Len(w) = Len(dst) + Len(t)
        /\ \A i \in 1 .. Len(dst) + Len(t) : w[i] = IF i <= Len(dst) THEN dst[i] ELSE t[i - Len(dst)]
    BY <2>1, ConcatProperties
  <2>3. w = u  BY <1>3
  <2> HIDE DEF w
  <2> QED  BY <2>2, <2>3
<1>5. u \in Comps /\ Len(u) = c + b - a
  BY <1>1, <1>2, <1>4 DEF Comps
<1>6. \A i \in 1 .. c + b - a : u[i] = IF i <= c THEN dst[i] ELSE q[i - c + a]
  <2> SUFFICES ASSUME NEW i \in 1 .. c + b - a
               PROVE  u[i] = IF i <= c THEN dst[i] ELSE q[i - c + a]
    OBVIOUS
  <2> HIDE DEF a, b, c
  <2>1. i \in 1 .. c + Len(t)  BY <1>1, <1>2
  <2>2. u[i] = IF i <= c THEN dst[i] ELSE t[i - c]  BY <1>4, <2>1
  <2>3. ASSUME ~(i <= c) PROVE t[i - c] = q[i - c + a]
    <3>1. i - c \in 1 .. b - a  BY <1>1, <2>3
    <3> QED  BY <1>2, <3>1
  <2> QED  BY <2>2, <2>3
<1>7. IsPrefix(dst, u)
  <2>1. c <= c + b - a /\ \A i \in 1 .. c : i \in 1 .. c + b - a /\ i <= c
    <3> HIDE DEF a, b, c
    <3> QED  BY <1>1
  <2>2. \A i \in 1 .. c : dst[i] = u[i]  BY <1>6, <2>1
  <2>3. Len(dst) <= Len(u)  BY <1>5, <2>1
  <2> HIDE DEF a, b
  <2> QED  BY <1>5, <2>2, <2>3, PrefixMeans
<1> QED
  BY <1>5, <1>6, <1>7 DEF u

LEMMA CarriedBack ==
  ASSUME NEW q \in Comps, NEW src \in Comps, NEW dst \in Comps, IsPrefix(src, q)
  PROVE  Carried(Carried(q, src, dst), dst, src) = q
<1> DEFINE a == Len(src)  b == Len(q)  c == Len(dst)
           u == Carried(q, src, dst)
           v == Carried(u, dst, src)
<1>1. a \in Nat /\ b \in Nat /\ c \in Nat /\ a <= b /\ \A i \in 1 .. a : src[i] = q[i]
  BY Pieces, PrefixMeans
<1>2. /\ u \in Comps /\ Len(u) = c + b - a /\ IsPrefix(dst, u)
      /\ \A i \in 1 .. c + b - a : u[i] = IF i <= c THEN dst[i] ELSE q[i - c + a]
  BY CarriedIs
<1> HIDE DEF u
<1>3. /\ v \in Comps /\ Len(v) = a + Len(u) - c
      /\ \A i \in 1 .. a + Len(u) - c : v[i] = IF i <= a THEN src[i] ELSE u[i - a + c]
  BY <1>2, CarriedIs
<1> HIDE DEF v, a, b, c
<1>4. Len(v) = b /\ a + Len(u) - c = b
  BY <1>1, <1>2, <1>3
<1>5. ASSUME NEW i \in 1 .. b PROVE v[i] = q[i]
  <2>1. CASE i <= a
    <3>1. i \in 1 .. a  BY <1>1, <2>1
    <3> QED  BY <1>1, <1>3, <1>4, <2>1, <3>1
  <2>2. CASE ~(i <= a)
    <3> DEFINE j == i - a + c
    <3>1. j \in 1 .. c + b - a /\ ~(j <= c) /\ j - c + a = i  BY <1>1, <2>2
    <3>2. v[i] = u[j]  BY <1>3, <1>4, <2>2
    <3> HIDE DEF j
    <3>3. u[j] = q[j - c + a]  BY <1>2, <3>1
    <3> QED  BY <3>1, <3>2, <3>3
  <2> QED  BY <2>1, <2>2
<1>6. v = q
  BY <1>3, <1>4, <1>5, SameSequence DEF b
<1> QED
  BY <1>6 DEF v, u

LEMMA CarriedTop ==
  ASSUME NEW src \in Comps, NEW dst \in Comps
  PROVE  /\ IsPrefix(src, src) /\ Carried(src, src, dst) = dst
         /\ \A q \in Comps : IsPrefix(src, q) /\ q # src =>
              Carried(q, src, dst) # dst
<1>1. IsPrefix(src, src) /\ Len(src) \in Nat /\ Len(dst) \in Nat
  BY PrefixOrder, Pieces
<1>2. Carried(src, src, dst) = dst
  <2> DEFINE u == Carried(src, src, dst)
  <2>1. /\ u \in Comps /\ Len(u) = Len(dst) + Len(src) - Len(src) /\ IsPrefix(dst, u)
    BY <1>1, CarriedIs
  <2> HIDE DEF u
  <2>2. Len(u) = Len(dst)  BY <1>1, <2>1
  <2>3. u = dst  BY <2>1, <2>2, PrefixOrder
  <2> QED  BY <2>3 DEF u
<1>3. ASSUME NEW q \in Comps, IsPrefix(src, q), q # src PROVE Carried(q, src, dst) # dst
  <2>1. Len(q) \in Nat /\ Len(src) < Len(q)  BY <1>3, Pieces, PrefixOrder
  <2>2. Len(Carried(q, src, dst)) = Len(dst) + Len(q) - Len(src)  BY <1>3, CarriedIs
  <2> QED  BY <1>1, <2>1, <2>2
<1> QED
  BY <1>1, <1>2, <1>3

LEMMA CarriedParent ==
  ASSUME NEW q \in Comps, NEW src \in Comps, NEW dst \in Comps, IsPrefix(src, q), q # src
  PROVE  /\ Front(q) \in Comps /\ IsPrefix(src, Front(q))
         /\ Front(Carried(q, src, dst)) = Carried(Front(q), src, dst)
<1> DEFINE a == Len(src)  b == Len(q)  c == Len(dst)
           u == Carried(q, src, dst)
           f == Front(q)
           v == Carried(f, src, dst)
<1>1. a \in Nat /\ b \in Nat /\ c \in Nat /\ a < b
  BY Pieces, PrefixOrder
<1>2. f \in Comps /\ Len(f) = b - 1 /\ IsPrefix(src, f) /\ \A i \in 1 .. b - 1 : f[i] = q[i]
  BY <1>1, FrontMeans, FrontBetween
<1> HIDE DEF f
<1>3. /\ u \in Comps /\ Len(u) = c + b - a
      /\ \A i \in 1 .. c + b - a : u[i] = IF i <= c THEN dst[i] ELSE q[i - c + a]
  BY CarriedIs
<1>4. /\ v \in Comps /\ Len(v) = c + Len(f) - a
      /\ \A i \in 1 .. c + Len(f) - a : v[i] = IF i <= c THEN dst[i] ELSE f[i - c + a]
  BY <1>2, CarriedIs
<1> HIDE DEF u, v, a, b, c
<1>5. Len(u) > 0 /\ Len(v) = Len(u) - 1 /\ c + Len(f) - a = c + b - 1 - a
  BY <1>1, <1>2, <1>3, <1>4
<1>6. Front(u) \in Comps /\ Len(Front(u)) = Len(u) - 1 /\ \A i \in 1 .. Len(u) - 1 : Front(u)[i] = u[i]
  BY <1>3, <1>5, FrontMeans
<1>7. ASSUME NEW i \in 1 .. Len(v) PROVE Front(u)[i] = v[i]
  <2>1. i \in 1 .. Len(u) - 1 /\ i \in 1 .. c + b - a /\ i \in 1 .. c + Len(f) - a
    BY <1>1, <1>3, <1>4, <1>5
  <2>2. Front(u)[i] = IF i <= c THEN dst[i] ELSE q[i - c + a]  BY <1>3, <1>6, <2>1
  <2>3. v[i] = IF i <= c THEN dst[i] ELSE f[i - c + a]  BY <1>4, <2>1
  <2>4. ASSUME ~(i <= c) PROVE f[i - c + a] = q[i - c + a]
    <3>1. i - c + a \in 1 .. b - 1  BY <1>1, <1>3, <2>1, <2>4
    <3> QED  BY <1>2, <3>1
  <2> QED  BY <2>2, <2>3, <2>4
<1>8. Front(u) = v
  BY <1>4, <1>5, <1>6, <1>7, SameSequence
<1> QED
  BY <1>2, <1>8 DEF u, v, f

-----------------------------------------------------------------------------
(* What exists, as a set: paths with a content.                                *)
Values == Contents \cup {Empty, Dir}
Disks == UNION {[D -> Values] : D \in SUBSET Path}
(* A tree: whatever exists lies in a directory.                                *)
Tree(d) == d \in Disks /\ \A p \in DOMAIN d : InDir(d, p)

LEMMA ValuesDiffer ==
  /\ Nothing \notin Values /\ Empty \in Values /\ Dir \in Values /\ Empty # Dir
  /\ Dir \notin Contents /\ Empty \notin Contents /\ Nothing \notin Contents
  /\ Contents \subseteq Values
BY ContentsOpaque DEF Values, Nothing, Empty, Dir

LEMMA DiskIs ==
  ASSUME NEW d \in Disks
  PROVE  /\ DOMAIN d \subseteq Path /\ DOMAIN d \subseteq Comps
         /\ d \in [DOMAIN d -> Values] /\ \A p \in DOMAIN d : d[p] \in Values
<1>1. PICK D \in SUBSET Path : d \in [D -> Values]
  BY DEF Disks
<1>2. DOMAIN d = D
  BY <1>1
<1>3. Path \subseteq Comps
  BY DEF Path
<1> QED
  BY <1>1, <1>2, <1>3

LEMMA DiskOf ==
  ASSUME NEW D \in SUBSET Path, NEW d \in [D -> Values]
  PROVE  d \in Disks /\ DOMAIN d = D
BY DEF Disks

LEMMA AtIs ==
  ASSUME NEW d \in Disks, NEW p
  PROVE  /\ At(d, p) # Nothing <=> p \in DOMAIN d
         /\ p \in DOMAIN d => At(d, p) = d[p]
         /\ At(d, p) = Dir <=> p \in DOMAIN d /\ d[p] = Dir
<1>1. \A q \in DOMAIN d : d[q] \in Values
  BY DiskIs
<1>2. Dir # Nothing
  BY DEF Dir, Nothing
<1> QED
  BY <1>1, <1>2, ValuesDiffer DEF At

LEMMA OverIs ==
  ASSUME NEW new \in Disks, NEW d \in Disks
  PROVE  /\ DOMAIN Over(new, d) = DOMAIN new \cup DOMAIN d
         /\ \A q \in DOMAIN new : Over(new, d)[q] = new[q]
         /\ \A q \in DOMAIN d : q \notin DOMAIN new => Over(new, d)[q] = d[q]
BY DEF Over

LEMMA PutIs ==
  ASSUME NEW d \in Disks, NEW p \in Path, NEW what \in Values
  PROVE  /\ DOMAIN Put(d, p, what) = DOMAIN d \cup {p}
         /\ Put(d, p, what)[p] = what
         /\ \A q \in DOMAIN d : q # p => Put(d, p, what)[q] = d[q]
<1> DEFINE one == [q \in {p} |-> what]
<1>1. DOMAIN one = {p} /\ one[p] = what
  OBVIOUS
<1>2. Put(d, p, what) = Over(one, d)
  BY DEF Put
<1>0. one \in Disks
  <2>1. {p} \in SUBSET Path /\ one \in [{p} -> Values]  OBVIOUS
  <2> HIDE DEF one
  <2> QED  BY <2>1, DiskOf
<1> HIDE DEF one
<1>3. /\ DOMAIN Over(one, d) = DOMAIN one \cup DOMAIN d
      /\ \A q \in DOMAIN one : Over(one, d)[q] = one[q]
      /\ \A q \in DOMAIN d : q \notin DOMAIN one => Over(one, d)[q] = d[q]
  BY <1>0, OverIs
<1> QED
  BY <1>1, <1>2, <1>3

LEMMA OverIsADisk ==
  ASSUME NEW new \in Disks, NEW d \in Disks
  PROVE  Over(new, d) \in Disks
<1>1. DOMAIN new \subseteq Path /\ DOMAIN d \subseteq Path
  BY DiskIs
<1>2. \A q \in DOMAIN new \cup DOMAIN d : (IF q \in DOMAIN new THEN new[q] ELSE d[q]) \in Values
  BY DiskIs
<1>3. Over(new, d) \in [DOMAIN new \cup DOMAIN d -> Values]
  BY <1>2 DEF Over
<1> QED
  BY <1>1, <1>3, DiskOf

-----------------------------------------------------------------------------
(* Trees, and what a step keeps of the contents.                            *)

(* Whatever has something below it in a tree is a directory of that tree.      *)
LEMMA DirectoriesAbove ==
  ASSUME NEW d, Tree(d), NEW p \in Path, NEW q \in DOMAIN d, IsPrefix(p, q), p # q
  PROVE  p \in DOMAIN d /\ d[p] = Dir
<1>1. d \in Disks /\ q \in Comps /\ p \in Comps /\ \A x \in DOMAIN d : x \in Comps /\ InDir(d, x)
  BY DiskIs DEF Tree, Path
<1>2. Len(q) \in Nat /\ Len(p) \in Nat /\ Len(p) < Len(q)
  BY <1>1, Pieces, PrefixOrder
<1> DEFINE m == Len(q) - Len(p)
           Up(j) == SubSeq(q, 1, Len(q) - j)
           S == {j \in 0 .. m : Up(j) \in DOMAIN d /\ (j # 0 => d[Up(j)] = Dir)}
<1>3. m \in Nat /\ m # 0
  BY <1>2
<1>4. 0 \in S
  <2>1. Len(q) - 0 = Len(q) /\ SubSeq(q, 1, Len(q)) = q  BY <1>1, <1>2, Pieces
  <2>2. Up(0) = q  BY <2>1
  <2>3. 0 \in 0 .. m  BY <1>3
  <2> HIDE DEF m, Up
  <2> QED  BY <2>2, <2>3
<1>5. ASSUME NEW j \in 0 .. m - 1, j \in S PROVE j + 1 \in S
  <2> DEFINE r == Up(j)  f == Up(j + 1)
  <2>1. /\ Len(q) - j \in Int /\ 0 <= Len(q) - j /\ Len(q) - j <= Len(q) /\ Len(q) - j > 0
        /\ Len(q) - (j + 1) \in Int /\ 0 <= Len(q) - (j + 1) /\ Len(q) - (j + 1) <= Len(q)
        /\ Len(q) - j - 1 = Len(q) - (j + 1) /\ Len(p) <= Len(q) - (j + 1)
        /\ j + 1 \in 0 .. m
    BY <1>2
  <2>2. r \in Comps /\ Len(r) = Len(q) - j /\ \A i \in 1 .. Len(q) - j : r[i] = q[i]
    BY <1>1, <2>1, Beginning
  <2>3. f \in Comps /\ Len(f) = Len(q) - (j + 1) /\ \A i \in 1 .. Len(q) - (j + 1) : f[i] = q[i]
    BY <1>1, <2>1, Beginning
  <2>4. r \in DOMAIN d  BY <1>5
  <2> HIDE DEF r, f
  <2>5. Front(r) \in Comps /\ Len(Front(r)) = Len(r) - 1 /\ \A i \in 1 .. Len(r) - 1 : Front(r)[i] = r[i]
    BY <2>1, <2>2, FrontMeans
  <2>6. \A i \in 1 .. Len(q) - (j + 1) : i \in 1 .. Len(r) - 1 /\ i \in 1 .. Len(q) - j
    BY <1>2, <2>1, <2>2
  <2>7. Len(Front(r)) = Len(f)  BY <2>1, <2>2, <2>3, <2>5
  <2>8. \A i \in 1 .. Len(f) : Front(r)[i] = f[i]  BY <2>2, <2>3, <2>5, <2>6
  <2>9. Front(r) = f  BY <2>3, <2>5, <2>7, <2>8, SameSequence
  <2>10. IsPrefix(p, f)
    <3>1. IsPrefix(f, q)  BY <1>1, <2>1, <2>3, PrefixMeans
    <3> QED  BY <1>1, <2>1, <2>3, <3>1, PrefixOrder
  <2>11. f \notin Roots  BY <2>3, <2>10, BelowAPath
  <2>12. At(d, f) = Dir  BY <1>1, <2>4, <2>9, <2>11 DEF InDir
  <2>13. f \in DOMAIN d /\ d[f] = Dir  BY <1>1, <2>12, AtIs
  <2> QED  BY <2>1, <2>13 DEF f
<1>6. m \in S
  <2> HIDE DEF S, m
  <2>1. 0 .. m \subseteq S  BY <1>3, <1>4, <1>5, IntervalInduction
  <2> QED  BY <1>3, <2>1
<1>7. Up(m) = p
  <2>1. Len(q) - m = Len(p) /\ Len(p) <= Len(q) /\ 0 <= Len(p)  BY <1>2
  <2>2. IsPrefix(p, q) /\ SubSeq(p, 1, Len(p)) = p  BY <1>1, Pieces
  <2>3. SubSeq(q, 1, Len(p)) = p  BY <2>2 DEF IsPrefix
  <2> QED  BY <2>1, <2>3
<1> QED
  BY <1>3, <1>6, <1>7

(* Below what is no directory, or does not exist, there is nothing.            *)
LEMMA NothingBelow ==
  ASSUME NEW d, Tree(d), NEW p \in Path, At(d, p) # Dir,
         NEW q \in DOMAIN d, IsPrefix(p, q)
  PROVE  p = q /\ p \in DOMAIN d
<1>1. d \in Disks
  BY DEF Tree
<1> QED
  BY <1>1, DirectoriesAbove, AtIs

LEMMA BelowIs ==
  ASSUME NEW d \in Disks, NEW p
  PROVE  \A q : q \in Below(d, p) <=> q \in DOMAIN d /\ IsPrefix(p, q)
BY DEF Below

(* Who has lost nothing of what was there, apart from some places.             *)
Kept(d, e, but) ==
  \A p \in DOMAIN d : p \notin but /\ d[p] \in Contents => \E q \in DOMAIN e : e[q] = d[p]

LEMMA KeptItself ==
  ASSUME NEW d, NEW but
  PROVE  Kept(d, d, but)
BY DEF Kept

LEMMA KeptFurther ==
  ASSUME NEW d, NEW e, NEW f, NEW but, Kept(d, e, but), Kept(e, f, {})
  PROVE  Kept(d, f, but)
<1> SUFFICES ASSUME NEW p \in DOMAIN d, p \notin but, d[p] \in Contents
             PROVE  \E q \in DOMAIN f : f[q] = d[p]
  BY DEF Kept
<1>1. PICK x \in DOMAIN e : e[x] = d[p]
  BY DEF Kept
<1>2. PICK q \in DOMAIN f : f[q] = e[x]
  BY <1>1 DEF Kept
<1> QED
  BY <1>1, <1>2

LEMMA WithoutIs ==
  ASSUME NEW d \in Disks, NEW p \in Comps
  PROVE  /\ Without(d, p) \in Disks
         /\ \A q : q \in DOMAIN Without(d, p) <=> q \in DOMAIN d /\ ~IsPrefix(p, q)
         /\ \A q \in DOMAIN Without(d, p) : Without(d, p)[q] = d[q]
<1> DEFINE D == DOMAIN d \ Below(d, p)
           w == Without(d, p)
<1>1. DOMAIN d \subseteq Path /\ \A q \in DOMAIN d : d[q] \in Values
  BY DiskIs
<1>2. w = [q \in D |-> d[q]]
  BY DEF Without
<1>3. D \in SUBSET Path /\ w \in [D -> Values]
  BY <1>1, <1>2
<1>4. w \in Disks /\ DOMAIN w = D
  <2> HIDE DEF w, D
  <2> QED  BY <1>3, DiskOf
<1>5. \A q : q \in D <=> q \in DOMAIN d /\ ~IsPrefix(p, q)
  BY BelowIs
<1>6. \A q \in D : w[q] = d[q]
  BY <1>2
<1> QED
  <2> HIDE DEF D
  <2> QED  BY <1>4, <1>5, <1>6

LEMMA WithoutIsATree ==
  ASSUME NEW d, Tree(d), NEW p \in Comps
  PROVE  Tree(Without(d, p))
<1> DEFINE w == Without(d, p)
<1>1. d \in Disks /\ DOMAIN d \subseteq Path /\ \A q \in DOMAIN d : InDir(d, q)
  BY DiskIs DEF Tree
<1>2. /\ w \in Disks /\ \A q : q \in DOMAIN w <=> q \in DOMAIN d /\ ~IsPrefix(p, q)
      /\ \A q \in DOMAIN w : w[q] = d[q]
  BY <1>1, WithoutIs
<1> HIDE DEF w
<1>3. ASSUME NEW q \in DOMAIN w PROVE InDir(w, q)
  <2>1. q \in DOMAIN d /\ ~IsPrefix(p, q)  BY <1>2
  <2>2. q \in Path /\ InDir(d, q)  BY <1>1, <2>1
  <2>3. CASE Front(q) \in Roots  BY <2>3 DEF InDir
  <2>4. CASE Front(q) \notin Roots
    <3>1. At(d, Front(q)) = Dir  BY <2>2, <2>4 DEF InDir
    <3>2. Front(q) \in DOMAIN d /\ d[Front(q)] = Dir  BY <1>1, <3>1, AtIs
    <3>3. q \in Comps /\ Front(q) \in Comps /\ IsPrefix(Front(q), q)
      <4>1. q \in Comps /\ Len(q) > 0  BY <2>2 DEF Path
      <4> QED  BY <4>1, FrontMeans
    <3>4. ~IsPrefix(p, Front(q))  BY <2>1, <3>3, PrefixOrder
    <3>5. Front(q) \in DOMAIN w /\ w[Front(q)] = Dir  BY <1>2, <3>2, <3>4
    <3>6. At(w, Front(q)) = Dir  BY <1>2, <3>5, AtIs
    <3> QED  BY <3>6 DEF InDir
  <2> QED  BY <2>3, <2>4
<1>4. Tree(w)
  BY <1>2, <1>3 DEF Tree
<1> QED
  BY <1>4 DEF w

(* Something put into a directory, not over a directory unless it is one.      *)
LEMMA PutIsATree ==
  ASSUME NEW d, Tree(d), NEW p \in Path, NEW what \in Values, InDir(d, p),
         At(d, p) # Dir \/ what = Dir
  PROVE  Tree(Put(d, p, what))
<1> DEFINE e == Put(d, p, what)
<1>1. d \in Disks /\ DOMAIN d \subseteq Path /\ \A q \in DOMAIN d : InDir(d, q) /\ d[q] \in Values
  BY DiskIs DEF Tree
<1>2. DOMAIN e = DOMAIN d \cup {p} /\ e[p] = what /\ \A q \in DOMAIN d : q # p => e[q] = d[q]
  BY <1>1, PutIs
<1>3. e \in Disks
  <2>1. [q \in {p} |-> what] \in [{p} -> Values] /\ {p} \in SUBSET Path  OBVIOUS
  <2>2. [q \in {p} |-> what] \in Disks  BY <2>1, DiskOf
  <2>3. Over([q \in {p} |-> what], d) \in Disks  BY <1>1, <2>2, OverIsADisk
  <2> QED  BY <2>3 DEF Put
<1> HIDE DEF e
<1>4. ASSUME NEW q \in DOMAIN e PROVE InDir(e, q)
  <2>1. q \in Path /\ InDir(d, q)
    <3>1. CASE q = p  BY <3>1
    <3>2. CASE q # p  BY <1>1, <1>2, <3>2
    <3> QED  BY <3>1, <3>2
  <2>2. CASE Front(q) \in Roots  BY <2>2 DEF InDir
  <2>3. CASE Front(q) \notin Roots
    <3>1. Front(q) \in DOMAIN d /\ d[Front(q)] = Dir  BY <1>1, <2>1, <2>3, AtIs DEF InDir
    <3>2. e[Front(q)] = Dir
      <4>1. CASE Front(q) = p
        <5>1. At(d, p) = Dir  BY <1>1, <3>1, <4>1, AtIs
        <5> QED  BY <1>2, <4>1, <5>1
      <4>2. CASE Front(q) # p  BY <1>2, <3>1, <4>2
      <4> QED  BY <4>1, <4>2
    <3>3. At(e, Front(q)) = Dir  BY <1>2, <1>3, <3>1, <3>2, AtIs
    <3> QED  BY <3>3 DEF InDir
  <2> QED  BY <2>2, <2>3
<1>5. Tree(e)
  BY <1>3, <1>4 DEF Tree
<1> QED
  BY <1>5 DEF e

LEMMA PutKeeps ==
  ASSUME NEW d \in Disks, NEW p \in Path, NEW what \in Values
  PROVE  Kept(d, Put(d, p, what), {p}) /\ (At(d, p) \notin Contents => Kept(d, Put(d, p, what), {}))
<1> DEFINE e == Put(d, p, what)
<1>1. DOMAIN e = DOMAIN d \cup {p} /\ \A q \in DOMAIN d : q # p => e[q] = d[q]
  BY PutIs
<1>2. p \in DOMAIN d => At(d, p) = d[p]
  BY AtIs
<1> HIDE DEF e
<1>3. Kept(d, e, {p}) /\ (At(d, p) \notin Contents => Kept(d, e, {}))
  BY <1>1, <1>2 DEF Kept
<1> QED
  BY <1>3 DEF e

-----------------------------------------------------------------------------
(* Carrying a subtree.                                                      *)

LEMMA GraftedIs ==
  ASSUME NEW d \in Disks, NEW src \in Path, NEW dst \in Path
  PROVE  /\ Grafted(d, src, dst) \in Disks
         /\ DOMAIN Grafted(d, src, dst) = DOMAIN d \cup {Carried(q, src, dst) : q \in Below(d, src)}
         /\ \A q \in Below(d, src) : Grafted(d, src, dst)[Carried(q, src, dst)] = d[q]
         /\ \A x \in DOMAIN d : ~IsPrefix(dst, x) => Grafted(d, src, dst)[x] = d[x]
<1> DEFINE new == {Carried(q, src, dst) : q \in Below(d, src)}
           on == [q \in new |-> d[Carried(q, dst, src)]]
           g == Grafted(d, src, dst)
<1>1. src \in Comps /\ dst \in Comps /\ DOMAIN d \subseteq Comps /\ DOMAIN d \subseteq Path
      /\ \A q \in DOMAIN d : d[q] \in Values
  BY DiskIs DEF Path
<1>2. g = Over(on, d)
  BY DEF Grafted, Carried
<1>3. ASSUME NEW q \in Below(d, src)
      PROVE  /\ q \in DOMAIN d /\ q \in Comps /\ IsPrefix(src, q)
             /\ Carried(q, src, dst) \in Path /\ IsPrefix(dst, Carried(q, src, dst))
             /\ Carried(q, src, dst) \in new
             /\ Carried(Carried(q, src, dst), dst, src) = q
  <2>1. q \in DOMAIN d /\ q \in Comps /\ IsPrefix(src, q)  BY <1>1, BelowIs
  <2>2. Carried(q, src, dst) \in Comps /\ IsPrefix(dst, Carried(q, src, dst))
    BY <1>1, <2>1, CarriedIs
  <2>3. Carried(q, src, dst) \in Path  BY <2>2, BelowAPath
  <2>4. Carried(Carried(q, src, dst), dst, src) = q  BY <1>1, <2>1, CarriedBack
  <2> QED  BY <2>1, <2>2, <2>3, <2>4
<1>4. DOMAIN on = new /\ \A q \in new : on[q] = d[Carried(q, dst, src)]
  OBVIOUS
<1>5. on \in Disks
  <2>1. new \in SUBSET Path  BY <1>3
  <2>2. ASSUME NEW x \in new PROVE d[Carried(x, dst, src)] \in Values
    <3>1. PICK q \in Below(d, src) : x = Carried(q, src, dst)  OBVIOUS
    <3> HIDE DEF new
    <3>2. Carried(x, dst, src) = q /\ q \in DOMAIN d  BY <1>3, <3>1
    <3> QED  BY <1>1, <3>2
  <2>3. on \in [new -> Values]
    <3> HIDE DEF new
    <3> QED  BY <2>2
  <2> HIDE DEF on, new
  <2> QED  BY <2>1, <2>3, DiskOf
<1> HIDE DEF on, g
<1>6. g \in Disks
  BY <1>2, <1>5, OverIsADisk
<1>7. /\ DOMAIN g = DOMAIN on \cup DOMAIN d
      /\ \A q \in DOMAIN on : g[q] = on[q]
      /\ \A q \in DOMAIN d : q \notin DOMAIN on => g[q] = d[q]
  <2> HIDE DEF new
  <2> QED  BY <1>2, <1>5, OverIs
<1>8. DOMAIN g = DOMAIN d \cup new
  <2> HIDE DEF new
  <2> QED  BY <1>4, <1>7
<1>9. ASSUME NEW q \in Below(d, src) PROVE g[Carried(q, src, dst)] = d[q]
  <2>1. Carried(q, src, dst) \in new /\ Carried(Carried(q, src, dst), dst, src) = q
    BY <1>3
  <2> HIDE DEF new
  <2>2. on[Carried(q, src, dst)] = d[Carried(Carried(q, src, dst), dst, src)]  BY <1>4, <2>1
  <2>3. g[Carried(q, src, dst)] = on[Carried(q, src, dst)]  BY <1>4, <1>7, <2>1
  <2> QED  BY <2>1, <2>2, <2>3
<1>10. ASSUME NEW x \in DOMAIN d, ~IsPrefix(dst, x) PROVE g[x] = d[x]
  <2>1. x \notin new  BY <1>3, <1>10
  <2> HIDE DEF new
  <2> QED  BY <1>4, <1>7, <2>1
<1> QED
  BY <1>6, <1>8, <1>9, <1>10 DEF g

(* A copy of a tree, put where nothing is or over what is no directory.        *)
LEMMA GraftedIsATree ==
  ASSUME NEW d, Tree(d), NEW src \in DOMAIN d, NEW dst \in Path, InDir(d, dst),
         \A q \in DOMAIN d : IsPrefix(dst, q) => q = dst
  PROVE  /\ Tree(Grafted(d, src, dst))
         /\ \A x \in DOMAIN d : x # dst =>
              x \in DOMAIN Grafted(d, src, dst) /\ Grafted(d, src, dst)[x] = d[x]
<1> DEFINE g == Grafted(d, src, dst)
           new == {Carried(q, src, dst) : q \in Below(d, src)}
<1>1. /\ d \in Disks /\ DOMAIN d \subseteq Comps /\ DOMAIN d \subseteq Path
      /\ \A q \in DOMAIN d : InDir(d, q)
      /\ src \in Path /\ src \in Comps /\ dst \in Comps
  BY DiskIs DEF Tree, Path
<1>2. /\ g \in Disks /\ DOMAIN g = DOMAIN d \cup new
      /\ \A q \in Below(d, src) : g[Carried(q, src, dst)] = d[q]
      /\ \A x \in DOMAIN d : ~IsPrefix(dst, x) => g[x] = d[x]
  BY <1>1, GraftedIs
<1> HIDE DEF g
<1>3. dst \in new
  <2>1. src \in Below(d, src) /\ Carried(src, src, dst) = dst  BY <1>1, CarriedTop, BelowIs
  <2> QED  BY <2>1
<1>4. ASSUME NEW x \in DOMAIN d, x # dst PROVE ~IsPrefix(dst, x) /\ x \in DOMAIN g /\ g[x] = d[x]
  BY <1>2, <1>4
<1>5. ASSUME NEW x \in DOMAIN g, Front(x) \notin Roots, Front(x) \in DOMAIN d,
             d[Front(x)] = Dir, ~IsPrefix(dst, Front(x))
      PROVE  InDir(g, x)
  <2>1. Front(x) \in DOMAIN g /\ g[Front(x)] = Dir  BY <1>2, <1>5
  <2> QED  BY <1>2, <2>1, AtIs DEF InDir
<1>6. ASSUME NEW x \in DOMAIN d, x \notin new PROVE InDir(g, x)
  <2>1. x # dst /\ ~IsPrefix(dst, x) /\ x \in Comps /\ x \in Path /\ x \in DOMAIN g
    <3> HIDE DEF new
    <3> QED  BY <1>1, <1>2, <1>3, <1>4, <1>6
  <2>2. CASE Front(x) \in Roots  BY <2>2 DEF InDir
  <2>3. CASE Front(x) \notin Roots
    <3>1. Front(x) \in DOMAIN d /\ d[Front(x)] = Dir  BY <1>1, <2>3, AtIs DEF InDir
    <3>2. Front(x) \in Comps /\ IsPrefix(Front(x), x)
      <4>1. Len(x) > 0  BY <2>1 DEF Path
      <4> QED  BY <2>1, <4>1, FrontMeans
    <3>3. ~IsPrefix(dst, Front(x))  BY <1>1, <2>1, <3>2, PrefixOrder
    <3> HIDE DEF new
    <3> QED  BY <1>5, <2>1, <2>3, <3>1, <3>3
  <2> QED  BY <2>2, <2>3
<1>7. ASSUME NEW x \in new PROVE InDir(g, x)
  <2>1. PICK q \in Below(d, src) : x = Carried(q, src, dst)  OBVIOUS
  <2>2. q \in DOMAIN d /\ IsPrefix(src, q) /\ q \in Comps /\ x \in DOMAIN g
    BY <1>1, <1>2, BelowIs
  <2> HIDE DEF new
  <2>3. CASE q = src
    <3>1. x = dst  BY <1>1, <2>1, <2>3, CarriedTop
    <3>2. CASE Front(dst) \in Roots  BY <3>1, <3>2 DEF InDir
    <3>3. CASE Front(dst) \notin Roots
      <4>1. Front(dst) \in DOMAIN d /\ d[Front(dst)] = Dir  BY <1>1, <3>3, AtIs DEF InDir
      <4>2. ~IsPrefix(dst, Front(dst))
        <5>1. Len(dst) > 0  BY DEF Path
        <5> QED  BY <1>1, <5>1, FrontMeans
      <4> QED  BY <1>5, <2>2, <3>1, <3>3, <4>1, <4>2
    <3> QED  BY <3>2, <3>3
  <2>4. CASE q # src
    <3>1. /\ Front(q) \in Comps /\ IsPrefix(src, Front(q))
          /\ Front(x) = Carried(Front(q), src, dst)
      BY <1>1, <2>1, <2>2, <2>4, CarriedParent
    <3>2. Front(q) \notin Roots  BY <1>1, <3>1, BelowAPath
    <3>3. Front(q) \in DOMAIN d /\ d[Front(q)] = Dir  BY <1>1, <2>2, <3>2, AtIs DEF InDir
    <3>4. Front(q) \in Below(d, src)  BY <1>1, <3>1, <3>3, BelowIs
    <3>5. g[Front(x)] = Dir  BY <1>2, <3>1, <3>3, <3>4
    <3>6. Front(x) \in DOMAIN g  BY <1>2, <3>1, <3>4 DEF new
    <3> QED  BY <1>2, <3>5, <3>6, AtIs DEF InDir
  <2> QED  BY <2>3, <2>4
<1>8. Tree(g)
  <2> HIDE DEF new
  <2> QED  BY <1>2, <1>6, <1>7 DEF Tree
<1> QED
  BY <1>4, <1>8 DEF g

(* rename(2) leaves a tree, and loses at most what it replaced.                *)
LEMMA RenamedIsATree ==
  ASSUME NEW d, Tree(d), NEW src \in Path, NEW dst \in Path, CanReplace(d, src, dst)
  PROVE  /\ Tree(Renamed(d, src, dst)) /\ Kept(d, Renamed(d, src, dst), {dst})
         /\ At(d, dst) \notin Contents => Kept(d, Renamed(d, src, dst), {})
<1> DEFINE g == Grafted(d, src, dst)
           r == Without(g, src)
<1>1. /\ d \in Disks /\ DOMAIN d \subseteq Comps /\ DOMAIN d \subseteq Path
      /\ src \in DOMAIN d /\ src \in Comps /\ dst \in Comps
      /\ InDir(d, dst) /\ ~IsPrefix(src, dst)
  BY DiskIs, AtIs DEF Tree, Path, CanReplace
<1>2. ASSUME NEW q \in DOMAIN d, IsPrefix(dst, q) PROVE q = dst
  <2>1. CASE At(d, dst) # Dir  BY <1>2, <2>1, NothingBelow
  <2>2. CASE Below(d, dst) = {dst}  BY <1>1, <1>2, <2>2, BelowIs
  <2>3. At(d, dst) # Dir \/ Below(d, dst) = {dst}
    <3>1. Nothing # Dir  BY DEF Nothing, Dir
    <3> QED  BY <3>1 DEF CanReplace
  <2> QED  BY <2>1, <2>2, <2>3
<1>3. Tree(g) /\ \A x \in DOMAIN d : x # dst => x \in DOMAIN g /\ g[x] = d[x]
  BY <1>1, <1>2, GraftedIsATree
<1>4. /\ DOMAIN g = DOMAIN d \cup {Carried(q, src, dst) : q \in Below(d, src)}
      /\ \A q \in Below(d, src) : g[Carried(q, src, dst)] = d[q]
  BY <1>1, GraftedIs
<1> HIDE DEF g
<1>5. Tree(r)
  BY <1>1, <1>3, WithoutIsATree
<1>6. /\ \A q : q \in DOMAIN r <=> q \in DOMAIN g /\ ~IsPrefix(src, q)
      /\ \A q \in DOMAIN r : r[q] = g[q]
  BY <1>1, <1>3, WithoutIs DEF Tree
<1> HIDE DEF r
<1>7. ASSUME NEW p \in DOMAIN d, p # dst PROVE \E y \in DOMAIN r : r[y] = d[p]
  <2>1. p \in Comps /\ p \in DOMAIN g /\ g[p] = d[p]  BY <1>1, <1>3, <1>7
  <2>2. CASE ~IsPrefix(src, p)
    <3>1. p \in DOMAIN r  BY <1>6, <2>1, <2>2
    <3> QED  BY <1>6, <2>1, <3>1
  <2>3. CASE IsPrefix(src, p)
    <3> DEFINE y == Carried(p, src, dst)
    <3>1. p \in Below(d, src)  BY <1>1, <2>3, BelowIs
    <3>2. y \in DOMAIN g /\ g[y] = d[p]  BY <1>4, <3>1
    <3>3. y \in Comps /\ IsPrefix(dst, y)  BY <1>1, <2>1, <2>3, CarriedIs
    <3> HIDE DEF y
    <3>4. ~IsPrefix(src, y)
      <4> SUFFICES ASSUME IsPrefix(src, y) PROVE FALSE  OBVIOUS
      <4>1. Len(src) \in Nat /\ Len(dst) \in Nat  BY <1>1, Pieces
      <4>2. CASE Len(src) <= Len(dst)  BY <1>1, <3>3, <4>2, PrefixOrder
      <4>3. CASE Len(dst) <= Len(src)
        <5>1. IsPrefix(dst, src)  BY <1>1, <3>3, <4>3, PrefixOrder
        <5>2. src = dst  BY <1>1, <1>2, <5>1
        <5> QED  BY <1>1, <5>1, <5>2
      <4> QED  BY <4>1, <4>2, <4>3
    <3>5. y \in DOMAIN r /\ r[y] = d[p]  BY <1>6, <3>2, <3>4
    <3> QED  BY <3>5
  <2> QED  BY <2>2, <2>3
<1>8. Kept(d, r, {dst})
  BY <1>7 DEF Kept
<1>9. At(d, dst) \notin Contents => Kept(d, r, {})
  <2>1. dst \in DOMAIN d => At(d, dst) = d[dst]  BY <1>1, AtIs
  <2> QED  BY <1>7, <2>1 DEF Kept
<1> QED
  BY <1>5, <1>8, <1>9 DEF g, r, Renamed

-----------------------------------------------------------------------------
(* The commands, and the steps of undo and redo.                            *)

LEMMA AppendPath ==
  ASSUME NEW p \in Comps, NEW c \in Comp
  PROVE  /\ Append(p, c) \in Comps /\ Len(Append(p, c)) = Len(p) + 1
         /\ IsPrefix(p, Append(p, c)) /\ Front(Append(p, c)) = p
         /\ p # << >> => Append(p, c)[1] = p[1]
<1> DEFINE a == Append(p, c)
<1>1. /\ a \in Comps /\ Len(a) = Len(p) + 1
      /\ \A i \in 1 .. Len(p) : a[i] = p[i]
  BY AppendProperties DEF Comps
<1>2. Len(p) \in Nat
  BY Pieces
<1> HIDE DEF a
<1>3. IsPrefix(p, a)
  BY <1>1, <1>2, PrefixMeans
<1>4. Front(a) = p
  <2>1. Len(a) > 0  BY <1>1, <1>2
  <2>2. /\ Front(a) \in Comps /\ Len(Front(a)) = Len(a) - 1
        /\ \A i \in 1 .. Len(a) - 1 : Front(a)[i] = a[i]
    BY <1>1, <2>1, FrontMeans
  <2>3. Len(Front(a)) = Len(p) /\ Len(a) - 1 = Len(p)  BY <1>1, <1>2, <2>2
  <2>4. \A i \in 1 .. Len(p) : Front(a)[i] = p[i]  BY <1>1, <2>2, <2>3
  <2> QED  BY <2>2, <2>3, <2>4, SameSequence
<1>5. p # << >> => a[1] = p[1]
  <2> SUFFICES ASSUME p # << >> PROVE a[1] = p[1]  OBVIOUS
  <2>1. Len(p) # 0  BY EmptySeq DEF Comps
  <2>2. 1 \in 1 .. Len(p)  BY <1>2, <2>1
  <2> QED  BY <1>1, <2>2
<1> QED
  BY <1>1, <1>3, <1>4, <1>5 DEF a

LEMMA LastIs ==
  ASSUME NEW p \in Path
  PROVE  Last(p) \in Comp
<1>1. p \in Comps /\ Len(p) \in Nat \ {0}
  BY DEF Path
<1>2. Len(p) \in 1 .. Len(p)
  BY <1>1
<1> QED
  BY <1>1, <1>2, Pieces DEF Last

(* mv loses at most what is at or below the target, and nothing if that is free. *)
LEMMA MvIs ==
  ASSUME NEW d, Tree(d), NEW src \in Path, NEW dst \in Path
  PROVE  /\ Tree(Mv(d, src, dst))
         /\ Kept(d, Mv(d, src, dst), {x \in DOMAIN d : IsPrefix(dst, x)})
         /\ At(d, dst) = Nothing => Kept(d, Mv(d, src, dst), {})
<1> DEFINE to == IF At(d, dst) = Dir THEN Append(dst, Last(src)) ELSE dst
           e == Mv(d, src, dst)
<1>1. e = IF CanReplace(d, src, to) THEN Renamed(d, src, to) ELSE d
  BY DEF Mv
<1>2. d \in Disks /\ dst \in Comps /\ Nothing # Dir /\ Nothing \notin Contents
  BY ValuesDiffer DEF Tree, Path, Nothing, Dir
<1>3. to \in Path /\ IsPrefix(dst, to)
  <2>1. Append(dst, Last(src)) \in Comps /\ IsPrefix(dst, Append(dst, Last(src)))
    BY <1>2, LastIs, AppendPath
  <2>2. Append(dst, Last(src)) \in Path  BY <2>1, BelowAPath
  <2> QED  BY <1>2, <2>1, <2>2, PrefixOrder
<1>4. At(d, dst) = Nothing => to = dst
  BY <1>2
<1> HIDE DEF to, e
<1>5. CASE CanReplace(d, src, to)
  <2>1. e = Renamed(d, src, to)  BY <1>1, <1>5
  <2>2. Tree(e) /\ Kept(d, e, {to}) /\ (At(d, to) \notin Contents => Kept(d, e, {}))
    BY <1>3, <1>5, <2>1, RenamedIsATree
  <2>3. Kept(d, e, {x \in DOMAIN d : IsPrefix(dst, x)})  BY <1>3, <2>2 DEF Kept
  <2> QED  BY <1>2, <1>4, <2>2, <2>3 DEF e
<1>6. CASE ~CanReplace(d, src, to)
  <2>1. e = d  BY <1>1, <1>6
  <2> QED  BY <2>1, KeptItself DEF e
<1> QED
  BY <1>5, <1>6

(* cp to a free place loses nothing.                                           *)
LEMMA CpIs ==
  ASSUME NEW d, Tree(d), NEW src \in Path, NEW dst \in Path, NEW asDir, At(d, dst) = Nothing
  PROVE  Tree(Cp(d, src, dst, asDir)) /\ Kept(d, Cp(d, src, dst, asDir), {})
<1> DEFINE e == Cp(d, src, dst, asDir)
<1>1. d \in Disks /\ Nothing # Dir /\ dst \notin DOMAIN d
  BY AtIs DEF Tree, Nothing, Dir
<1>2. CASE e = d
  BY <1>2, KeptItself
<1>3. CASE e # d
  <2>1. At(d, src) # Nothing /\ InDir(d, dst) /\ e = Grafted(d, src, dst)
    BY <1>3 DEF Cp
  <2>2. src \in DOMAIN d  BY <1>1, <2>1, AtIs
  <2> HIDE DEF e
  <2>3. \A q \in DOMAIN d : IsPrefix(dst, q) => q = dst  BY <1>1, NothingBelow
  <2>4. Tree(e) /\ \A x \in DOMAIN d : x # dst => x \in DOMAIN e /\ e[x] = d[x]
    BY <2>1, <2>2, <2>3, GraftedIsATree
  <2>5. Kept(d, e, {})  BY <1>1, <2>4 DEF Kept
  <2> QED  BY <2>4, <2>5 DEF e
<1> QED
  BY <1>2, <1>3

LEMMA OutcomesAre ==
  ASSUME NEW d, NEW result, NEW e \in Outcomes(d, result)
  PROVE  e = result \/ e = d
BY DEF Outcomes

(* A parent directory that is made takes the place of nothing.                 *)
LEMMA WithParentIs ==
  ASSUME NEW d, Tree(d), NEW p \in Path
  PROVE  /\ Tree(WithParent(d, p)) /\ Kept(d, WithParent(d, p), {})
         /\ At(d, p) = Nothing => At(WithParent(d, p), p) = Nothing
<1> DEFINE e == WithParent(d, p)  f == Front(p)
<1>1. d \in Disks /\ Nothing # Dir /\ Nothing \notin Contents /\ Dir \in Values /\ f # p
  <2>1. p \in Comps /\ Len(p) > 0  BY DEF Path
  <2>2. f # p  BY <2>1, FrontMeans
  <2> QED  BY <2>2, ValuesDiffer DEF Tree, Nothing, Dir
<1>2. CASE e = d
  BY <1>2, KeptItself
<1>3. CASE e # d
  <2>1. e = Put(d, f, Dir) /\ ~InDir(d, p) /\ At(d, f) = Nothing /\ InDir(d, f)
    BY <1>3 DEF WithParent
  <2>2. f \in Path  BY <2>1, ParentIs DEF InDir
  <2> HIDE DEF e, f
  <2>3. Tree(e)  BY <1>1, <2>1, <2>2, PutIsATree
  <2>4. Kept(d, e, {})  BY <1>1, <2>1, <2>2, PutKeeps
  <2>5. DOMAIN e = DOMAIN d \cup {f}  BY <1>1, <2>1, <2>2, PutIs
  <2>6. At(d, p) = Nothing => At(e, p) = Nothing
    <3> SUFFICES ASSUME At(d, p) = Nothing PROVE At(e, p) = Nothing  OBVIOUS
    <3>1. p \notin DOMAIN d  BY <1>1, AtIs
    <3>2. p \notin DOMAIN e  BY <1>1, <2>5, <3>1
    <3> QED  BY <3>2 DEF At
  <2> QED  BY <2>3, <2>4, <2>6 DEF e
<1> QED
  BY <1>2, <1>3

-----------------------------------------------------------------------------
(* What undo and redo do to one item.                                          *)
Attempts == {t \in [disk : Disks, ok : BOOLEAN, exact : BOOLEAN] : Tree(t.disk)}

LEMMA AttemptIs ==
  ASSUME NEW d, Tree(d), NEW a \in BOOLEAN, NEW b \in BOOLEAN
  PROVE  /\ Attempt(d, a, b) \in Attempts
         /\ Attempt(d, a, b).disk = d /\ Attempt(d, a, b).ok = a /\ Attempt(d, a, b).exact = b
BY DEF Attempt, Attempts, Tree

LEMMA MovePathIs ==
  ASSUME NEW d, Tree(d), NEW src \in Path, NEW dst \in Path, NEW t \in MovePath(d, src, dst)
  PROVE  t \in Attempts /\ Kept(d, t.disk, {})
<1> DEFINE made == WithParent(d, dst)
<1>1. CASE t = Attempt(d, TRUE, TRUE) \/ t = Attempt(d, FALSE, FALSE)
  <2>1. t \in Attempts /\ t.disk = d  BY <1>1, AttemptIs
  <2> QED  BY <2>1, KeptItself
<1>2. CASE ~(t = Attempt(d, TRUE, TRUE) \/ t = Attempt(d, FALSE, FALSE))
  <2>1. At(d, dst) = Nothing
        /\ \E e \in Outcomes(made, Mv(made, src, dst)) : t = Attempt(e, TRUE, e # made /\ made = d)
    BY <1>2 DEF MovePath
  <2>2. PICK e \in Outcomes(made, Mv(made, src, dst)) : t = Attempt(e, TRUE, e # made /\ made = d)
    BY <2>1
  <2>3. Tree(made) /\ Kept(d, made, {}) /\ At(made, dst) = Nothing  BY <2>1, WithParentIs
  <2> DEFINE b == e # made /\ made = d
  <2>4. b \in BOOLEAN /\ t = Attempt(e, TRUE, b)  BY <2>2
  <2> HIDE DEF b, made
  <2>5. Tree(e) /\ Kept(made, e, {})
    <3>1. CASE e = made  BY <2>3, <3>1, KeptItself
    <3>2. CASE e = Mv(made, src, dst)  BY <2>3, <3>2, MvIs
    <3> QED  BY <3>1, <3>2, OutcomesAre
  <2>6. Kept(d, e, {})  BY <2>3, <2>5, KeptFurther
  <2>7. t \in Attempts /\ t.disk = e  BY <2>4, <2>5, AttemptIs
  <2> QED  BY <2>6, <2>7
<1> QED
  BY <1>1, <1>2

LEMMA CopyPathIs ==
  ASSUME NEW d, Tree(d), NEW src \in Path, NEW dst \in Path, NEW t \in CopyPath(d, src, dst)
  PROVE  t \in Attempts /\ Kept(d, t.disk, {})
<1> DEFINE made == WithParent(d, dst)
<1>1. CASE t = Attempt(d, FALSE, FALSE)
  <2>1. t \in Attempts /\ t.disk = d  BY <1>1, AttemptIs
  <2> QED  BY <2>1, KeptItself
<1>2. CASE t # Attempt(d, FALSE, FALSE)
  <2> DEFINE c == Cp(made, src, dst, d[src] = Dir)
  <2>1. At(d, dst) = Nothing
        /\ \E e \in Outcomes(made, c) : t = Attempt(e, TRUE, e # made /\ made = d)
    BY <1>2 DEF CopyPath
  <2>2. PICK e \in Outcomes(made, c) : t = Attempt(e, TRUE, e # made /\ made = d)
    BY <2>1
  <2>3. Tree(made) /\ Kept(d, made, {}) /\ At(made, dst) = Nothing  BY <2>1, WithParentIs
  <2> DEFINE b == e # made /\ made = d
  <2>4. b \in BOOLEAN /\ t = Attempt(e, TRUE, b)  BY <2>2
  <2> HIDE DEF b, made
  <2>a. Tree(c) /\ Kept(made, c, {})
    <3> DEFINE w == d[src] = Dir
    <3> HIDE DEF w
    <3>1. Tree(Cp(made, src, dst, w)) /\ Kept(made, Cp(made, src, dst, w), {})
      BY <2>3, CpIs
    <3> QED  BY <3>1 DEF w
  <2> HIDE DEF c
  <2>5. Tree(e) /\ Kept(made, e, {})
    <3>1. CASE e = made  BY <2>3, <3>1, KeptItself
    <3>2. CASE e = c  BY <2>a, <3>2
    <3> QED  BY <3>1, <3>2, OutcomesAre
  <2>6. Kept(d, e, {})  BY <2>3, <2>5, KeptFurther
  <2>7. t \in Attempts /\ t.disk = e  BY <2>4, <2>5, AttemptIs
  <2> QED  BY <2>6, <2>7
<1> QED
  BY <1>1, <1>2

LEMMA CreateIs ==
  ASSUME NEW d, Tree(d), NEW p \in Path, NEW what \in {Empty, Dir}, NEW t \in Create(d, p, what)
  PROVE  t \in Attempts /\ Kept(d, t.disk, {})
<1> DEFINE made == WithParent(d, p)
<1>1. Tree(made) /\ made \in Disks /\ Kept(d, made, {})
  BY WithParentIs DEF Tree
<1>2. t \in {Attempt(made, TRUE, FALSE), Attempt(made, FALSE, FALSE)}
      \/ /\ At(made, p) = Nothing /\ InDir(made, p)
         /\ t = Attempt(Put(made, p, what), TRUE, made = d)
  BY DEF Create
<1> DEFINE b == made = d
<1>3. b \in BOOLEAN
  OBVIOUS
<1>4. CASE t \in {Attempt(made, TRUE, FALSE), Attempt(made, FALSE, FALSE)}
  <2> HIDE DEF made, b
  <2>1. t \in Attempts /\ t.disk = made  BY <1>1, <1>4, AttemptIs
  <2> QED  BY <1>1, <2>1
<1>5. CASE /\ At(made, p) = Nothing /\ InDir(made, p)
           /\ t = Attempt(Put(made, p, what), TRUE, made = d)
  <2> DEFINE e == Put(made, p, what)
  <2>1. t = Attempt(e, TRUE, b)  BY <1>5
  <2> HIDE DEF made, b
  <2>2. what \in Values /\ Nothing # Dir /\ Nothing \notin Contents
    BY ValuesDiffer DEF Nothing, Dir
  <2>3. At(made, p) # Dir /\ At(made, p) \notin Contents /\ InDir(made, p)  BY <1>5, <2>2
  <2>4. Tree(e)  BY <1>1, <2>2, <2>3, PutIsATree
  <2>5. Kept(made, e, {})  BY <1>1, <2>2, <2>3, PutKeeps
  <2> HIDE DEF e
  <2>6. Kept(d, e, {})  BY <1>1, <2>5, KeptFurther
  <2>7. t \in Attempts /\ t.disk = e  BY <1>3, <2>1, <2>4, AttemptIs
  <2> QED  BY <2>6, <2>7
<1> QED
  BY <1>2, <1>4, <1>5

LEMMA RemovePathIs ==
  ASSUME NEW d, Tree(d), NEW p \in Path, NEW t \in RemovePath(d, p)
  PROVE  /\ t \in Attempts /\ t.disk \in {d, Without(d, p)}
         /\ IF Blocked(d, p) THEN t.ok = FALSE /\ t.disk = d ELSE t.ok = TRUE
<1> DEFINE w == Without(d, p)
<1>1. Tree(w)
  BY WithoutIsATree DEF Path
<1>2. CASE Blocked(d, p)
  <2>1. t = Attempt(d, FALSE, FALSE)  BY <1>2 DEF RemovePath
  <2>2. t \in Attempts /\ t.disk = d /\ t.ok = FALSE  BY <2>1, AttemptIs
  <2> QED  BY <1>2, <2>2
<1>3. CASE ~Blocked(d, p)
  <2>1. t = Attempt(w, TRUE, TRUE) \/ \E e \in Outcomes(d, w) : t = Attempt(e, TRUE, FALSE)
    BY <1>3 DEF RemovePath
  <2> HIDE DEF w
  <2>2. CASE t = Attempt(w, TRUE, TRUE)
    <3>1. t \in Attempts /\ t.disk = w /\ t.ok = TRUE  BY <1>1, <2>2, AttemptIs
    <3> QED  BY <1>3, <3>1 DEF w
  <2>3. CASE \E e \in Outcomes(d, w) : t = Attempt(e, TRUE, FALSE)
    <3>1. PICK e \in Outcomes(d, w) : t = Attempt(e, TRUE, FALSE)  BY <2>3
    <3>2. e = d \/ e = w  BY OutcomesAre
    <3>3. t \in Attempts /\ t.disk = e /\ t.ok = TRUE  BY <1>1, <3>1, <3>2, AttemptIs
    <3> QED  BY <1>3, <3>2, <3>3 DEF w
  <2> QED  BY <2>1, <2>2, <2>3
<1> QED
  BY <1>2, <1>3

-----------------------------------------------------------------------------
(* What operations come to.                                                 *)

(* What operations hold for undo and redo.  The targets of a copy, and of a    *)
(* creation, lie in one directory below the one in view.                       *)
Moved == [src : Path, dst : Path]
Made == [src : {Nothing}, dst : Path]
Under(items, dir) ==
  \A i \in 1 .. Len(items) : Front(items[i].dst) = dir /\ items[i].dst[1] = "cwd"
Together(items) == \E dir \in Comps : Under(items, dir)
Moves == [kind : {"rename", "move", "delete"}, items : Seq(Moved)]
Creations == [kind : {"create_file", "create_dir"}, items : Seq(Made)]
Copies == [kind : {"copy"}, items : Seq(Moved)]
Ops == {NoOp} \cup Moves \cup {o \in Creations \cup Copies : Together(o.items)}

(* What an operation on several items has come to.                             *)
Tries == {t \in [disk : Disks, items : Seq(Moved), exact : BOOLEAN] : Tree(t.disk)}

LEMMA TryIs ==
  ASSUME NEW t \in Tries
  PROVE  /\ Tree(t.disk) /\ t.disk \in Disks /\ t.items \in Seq(Moved) /\ t.exact \in BOOLEAN
         /\ Len(t.items) \in Nat
BY DEF Tries

LEMMA StartIs ==
  ASSUME NEW d, Tree(d)
  PROVE  Start(d) \in Tries /\ Start(d).disk = d /\ Start(d).items = << >>
BY DEF Start, Tries, Tree

LEMMA RanIs ==
  ASSUME NEW t \in Tries, NEW src \in Path, NEW dst \in Path,
         NEW result, Tree(result), NEW r \in Ran(t, src, dst, result)
  PROVE  /\ r \in Tries /\ r.disk \in {t.disk, result}
         /\ r.items = Append(t.items, [src |-> src, dst |-> dst])
<1>1. PICK d \in Outcomes(t.disk, result) :
        r = [disk |-> d, items |-> Append(t.items, [src |-> src, dst |-> dst]),
             exact |-> t.exact /\ At(t.disk, dst) = Nothing /\ d # t.disk]
  BY DEF Ran
<1> DEFINE b == t.exact /\ At(t.disk, dst) = Nothing /\ d # t.disk
           m == [src |-> src, dst |-> dst]
           is == Append(t.items, m)
<1>2. b \in BOOLEAN /\ m \in Moved
  BY DEF Moved
<1>3. r = [disk |-> d, items |-> is, exact |-> b]
  BY <1>1
<1>4. d \in {t.disk, result} /\ Tree(d) /\ d \in Disks
  <2>1. d = result \/ d = t.disk  BY OutcomesAre
  <2> QED  BY <2>1, TryIs DEF Tree
<1> HIDE DEF b
<1>5. is \in Seq(Moved)
  <2> HIDE DEF m
  <2> QED  BY <1>2, TryIs, AppendProperties
<1> HIDE DEF is, m
<1>6. r \in Tries /\ r.disk = d /\ r.items = is
  BY <1>2, <1>3, <1>4, <1>5 DEF Tries
<1> QED
  BY <1>4, <1>6 DEF is, m

LEMMA RanMvIs ==
  ASSUME NEW t \in Tries, NEW src \in Path, NEW dst \in Path, NEW r \in RanMv(t, src, dst)
  PROVE  /\ r \in Tries /\ r.items = Append(t.items, [src |-> src, dst |-> dst])
         /\ Kept(t.disk, r.disk, {x \in DOMAIN t.disk : IsPrefix(dst, x)})
         /\ At(t.disk, dst) = Nothing => Kept(t.disk, r.disk, {})
<1> DEFINE e == Mv(t.disk, src, dst)
<1>1. Tree(e) /\ Kept(t.disk, e, {x \in DOMAIN t.disk : IsPrefix(dst, x)})
      /\ (At(t.disk, dst) = Nothing => Kept(t.disk, e, {}))
  BY TryIs, MvIs
<1>2. r \in Ran(t, src, dst, e)
  BY DEF RanMv
<1> HIDE DEF e
<1>3. r \in Tries /\ r.disk \in {t.disk, e} /\ r.items = Append(t.items, [src |-> src, dst |-> dst])
  BY <1>1, <1>2, RanIs
<1>4. CASE r.disk = t.disk
  BY <1>3, <1>4, KeptItself
<1>5. CASE r.disk = e
  BY <1>1, <1>3, <1>5
<1> QED
  BY <1>3, <1>4, <1>5

LEMMA RanCpIs ==
  ASSUME NEW t \in Tries, NEW src \in Path, NEW dst \in Path, At(t.disk, dst) = Nothing,
         NEW asDir, NEW r \in RanCp(t, src, dst, asDir)
  PROVE  /\ r \in Tries /\ r.items = Append(t.items, [src |-> src, dst |-> dst])
         /\ Kept(t.disk, r.disk, {})
<1> DEFINE e == Cp(t.disk, src, dst, asDir)
<1>1. Tree(e) /\ Kept(t.disk, e, {})
  BY TryIs, CpIs
<1>2. r \in Ran(t, src, dst, e)
  BY DEF RanCp
<1> HIDE DEF e
<1>3. r \in Tries /\ r.disk \in {t.disk, e} /\ r.items = Append(t.items, [src |-> src, dst |-> dst])
  BY <1>1, <1>2, RanIs
<1>4. CASE r.disk = t.disk
  BY <1>3, <1>4, KeptItself
<1>5. CASE r.disk = e
  BY <1>1, <1>3, <1>5
<1> QED
  BY <1>3, <1>4, <1>5

LEMMA UnderGrows ==
  ASSUME NEW items \in Seq(Moved), NEW dir, Under(items, dir), NEW m \in Moved,
         Front(m.dst) = dir, m.dst[1] = "cwd"
  PROVE  Under(Append(items, m), dir)
<1> DEFINE a == Append(items, m)
<1>1. /\ Len(items) \in Nat /\ Len(a) = Len(items) + 1
      /\ \A i \in 1 .. Len(items) : a[i] = items[i]
      /\ a[Len(items) + 1] = m
  BY AppendProperties, LenProperties
<1> HIDE DEF a
<1>2. ASSUME NEW i \in 1 .. Len(a) PROVE Front(a[i].dst) = dir /\ a[i].dst[1] = "cwd"
  <2>1. CASE i = Len(items) + 1
    BY <1>1, <2>1
  <2>2. CASE i # Len(items) + 1
    <3>1. i \in 1 .. Len(items)  BY <1>1, <2>2
    <3> QED  BY <1>1, <3>1 DEF Under
  <2> QED  BY <2>1, <2>2
<1>3. Under(a, dir)
  BY <1>2 DEF Under
<1> QED
  BY <1>3 DEF a

LEMMA NothingUnder ==
  ASSUME NEW dir
  PROVE  Under(<< >>, dir)
BY DEF Under

(* Places in the parent of the directory, in it, the storage and the trash.    *)
LEMMA TopsArePaths ==
  /\ Here \in Path /\ Here \in Comps /\ Len(Here) = 1 /\ Here[1] = "cwd" /\ Last(Here) = "cwd"
  /\ Beside \in Path /\ Beside \in Comps /\ Len(Beside) = 1 /\ Beside[1] = "beside"
<1>1. /\ Here \in Comps /\ Len(Here) = 1 /\ Here[1] = "cwd" /\ Last(Here) = "cwd"
      /\ Beside \in Comps /\ Len(Beside) = 1 /\ Beside[1] = "beside"
  BY DEF Comps, Comp, Here, Beside, Last
<1> QED
  BY <1>1 DEF Path, Tops

LEMMA PlacesArePaths ==
  ASSUME NEW n \in FileNames
  PROVE  /\ Cwd(n) \in Path /\ Cwd(n)[1] = "cwd" /\ Front(Cwd(n)) = Here
         /\ Append(Store, n) \in Path /\ << "trash", n >> \in Path
         /\ Append(<< "trash" >>, n) = << "trash", n >> /\ Append(Here, n) = Cwd(n)
         /\ Last(Cwd(n)) = n /\ Store \in Path
         /\ \A m \in FileNames : << "cwd", n, m >> \in Path /\ << "cwd", n, m >>[1] = "cwd"
<1>1. \A c \in Tops : << c, n >> \in Comps /\ Len(<< c, n >>) = 2 /\ << c, n >>[1] = c
  BY DEF Tops, Comps, Comp, FileNames
<1>2. \A c \in Tops : << c, n >> \in Path
  BY <1>1 DEF Path
<1>3. Cwd(n) \in Path /\ Cwd(n)[1] = "cwd" /\ Last(Cwd(n)) = n /\ << "trash", n >> \in Path
  BY <1>1, <1>2 DEF Cwd, Tops, Last
<1>4. /\ Here \in Comps /\ Len(Here) = 1 /\ Here[1] = "cwd"
      /\ << "trash" >> \in Comps /\ Store \in Comps /\ Len(Store) = 1 /\ Store[1] = "store"
  BY DEF Comps, Comp, Store, Here
<1>5. Append(<< "trash" >>, n) = << "trash", n >> /\ Append(Here, n) = Cwd(n)
      /\ Append(Store, n) = << "store", n >>
  <2>1. ASSUME NEW c \in Comp PROVE Append(<< c >>, n) = << c, n >>
    <3> DEFINE one == << c >>  two == << c, n >>  a == Append(one, n)
    <3>1. one \in Comps /\ Len(one) = 1 /\ one[1] = c /\ n \in Comp  BY <2>1 DEF Comp, Comps, FileNames
    <3>2. two \in Comps /\ Len(two) = 2 /\ two[1] = c /\ two[2] = n  BY <3>1 DEF Comps
    <3> HIDE DEF one, two
    <3>3. /\ a \in Seq(Comp) /\ Len(a) = Len(one) + 1 /\ a[Len(one) + 1] = n
          /\ \A i \in 1 .. Len(one) : a[i] = one[i]
      <4>1. one \in Seq(Comp) /\ n \in Comp  BY <3>1 DEF Comps
      <4> HIDE DEF a
      <4>2. a = Append(one, n)  BY DEF a
      <4>3. a \in Seq(Comp) /\ Len(a) = Len(one) + 1  BY <4>1, <4>2, AppendProperties
      <4>4. a[Len(one) + 1] = n  BY <4>1, <4>2, AppendProperties
      <4>5. \A i \in 1 .. Len(one) : a[i] = one[i]  BY <4>1, <4>2, AppendProperties
      <4> QED  BY <4>3, <4>4, <4>5
    <3> HIDE DEF a
    <3>4. a \in Comps /\ Len(a) = 2 /\ a[1] = c /\ a[2] = n  BY <3>1, <3>3 DEF Comps
    <3>5. \A i \in 1 .. 2 : i = 1 \/ i = 2  OBVIOUS
    <3>6. \A i \in 1 .. 2 : a[i] = two[i]  BY <3>2, <3>4, <3>5
    <3>7. a = two  BY <3>2, <3>4, <3>6, SameSequence
    <3> QED  BY <3>7 DEF a, one, two
  <2>2. "cwd" \in Comp /\ "store" \in Comp /\ "trash" \in Comp  BY DEF Comp
  <2> QED  BY <2>1, <2>2 DEF Cwd, Store, Here
<1>6. Append(Store, n) \in Path
  BY <1>2, <1>5 DEF Tops
<1>7. n \in Comp
  BY DEF Comp, FileNames
<1>8. Front(Cwd(n)) = Here
  BY <1>4, <1>5, <1>7, AppendPath
<1>9. Store \in Path
  BY <1>4 DEF Path, Tops
<1>10. ASSUME NEW m \in FileNames PROVE << "cwd", n, m >> \in Path /\ << "cwd", n, m >>[1] = "cwd"
  <2>1. << "cwd", n, m >> \in Comps /\ Len(<< "cwd", n, m >>) = 3 /\ << "cwd", n, m >>[1] = "cwd"
    BY DEF Comps, Comp, FileNames
  <2> QED  BY <2>1 DEF Path, Tops
<1> QED
  BY <1>3, <1>4, <1>5, <1>6, <1>8, <1>9, <1>10

LEMMA NamedArePaths ==
  ASSUME NEW p \in Named
  PROVE  p \in Path /\ p[1] = "cwd" /\ p \in Comps
<1>1. (\E n \in FileNames : p = Cwd(n)) \/ \E n, m \in FileNames : p = << "cwd", n, m >>
  BY DEF Named, FileNames
<1>2. p \in Path /\ p[1] = "cwd"
  BY <1>1, PlacesArePaths
<1> QED
  BY <1>2 DEF Path

LEMMA UniqueIs ==
  ASSUME NEW d, NEW dir, NEW wanted, NEW m \in Unique(d, dir, wanted)
  PROVE  m \in FileNames /\ At(d, Append(dir, m)) = Nothing
BY DEF Unique, FileNames

-----------------------------------------------------------------------------
(* Steps on several items.                                                  *)

(* The steps of undo and redo, and of the operations on several items.         *)
BackOne(t, item) ==
  IF t.ok THEN {[s EXCEPT !.exact = @ /\ t.exact] : s \in Backward(undo.kind, t.disk, item)}
  ELSE {t}
ForthOne(t, item) ==
  IF t.ok THEN {[s EXCEPT !.exact = @ /\ t.exact] : s \in Forward(redo.kind, t.disk, item)}
  ELSE {t}
CutOne(t, n) == UNION {RanMv(t, Cwd(n), Append(Store, m)) : m \in Unique(t.disk, Store, n)}
Wanted(i) == IF clip.multi \/ copied = "" THEN i.name ELSE copied
From(i) == IF clip.op = "cut" /\ ~clip.multi THEN Store ELSE i.src
PasteOne(t, i) ==
  UNION {IF clip.op = "cut" THEN RanMv(t, From(i), Cwd(m))
         ELSE RanCp(t, From(i), Cwd(m), i.isDir) : m \in Unique(t.disk, Here, Wanted(i))}
TransferOne(kind, dir, t, src) ==
  LET dst == Append(dir, Last(src))
  IN  IF At(t.disk, src) = Nothing \/ At(t.disk, dst) # Nothing THEN {t}
      ELSE IF kind = "move" THEN RanMv(t, src, dst)
      ELSE RanCp(t, src, dst, t.disk[src] = Dir)

CutTries(d, shown) == Each(d, CutOne, shown)
PasteTries == Each(disk, PasteOne, clip.items)
TrashTries(paths) == Each(disk, Trashed, paths)
TransferTries(kind, dir, paths) ==
  Each(disk, LAMBDA t, src : TransferOne(kind, dir, t, src), paths)

(* Undo comes to what its steps give one after the other. *)
LEMMA UndoneInSteps ==
  ASSUME NEW G, Attempt(disk, TRUE, TRUE) \in G, Len(undo.items) \in Nat, DOMAIN undo.items = 1 .. Len(undo.items),
         \A t \in G, i \in 1 .. Len(undo.items) : BackOne(t, undo.items[i]) \subseteq G
  PROVE  \E g \in [0 .. Len(undo.items) -> SUBSET G] :
           /\ g[0] = {Attempt(disk, TRUE, TRUE)}
           /\ \A i \in 1 .. Len(undo.items) : \A r \in g[i] : \E t \in g[i - 1] : r \in BackOne(t, undo.items[i])
           /\ Undone = g[Len(undo.items)]
<1> DEFINE n == Len(undo.items)
           A == SUBSET G
           base == {Attempt(disk, TRUE, TRUE)}
           Over1(ts, i) == UNION {BackOne(t, undo.items[i]) : t \in ts}
           step == [x \in A \X (1 .. n) |-> Over1(x[1], x[2])]
           Eq(f) == f = [t \in SUBSET (1 .. n) |->
                           IF t = {} THEN base ELSE Over1(f[t \ {Max(t)}], Max(t))]
<1>1. n \in Nat /\ base \in A
  OBVIOUS
<1>2. ASSUME NEW ts \in A, NEW i \in 1 .. n PROVE Over1(ts, i) \in A
  OBVIOUS
<1>3. step \in [A \X (1 .. n) -> A]
  <2> HIDE DEF A, Over1, n
  <2> QED  BY <1>2
<1>4. PICK f \in [SUBSET (1 .. n) -> A] : \A t \in SUBSET (1 .. n) :
        f[t] = IF t = {} THEN base ELSE step[<< f[t \ {Max(t)}], Max(t) >>]
  <2> HIDE DEF step, A, n, base, Over1
  <2>1. Foldings(n, A, base, step) # {}
    BY <1>1, <1>3, FoldExists
  <2> QED  BY <2>1 DEF Foldings
<1>5. ASSUME NEW t \in SUBSET (1 .. n), t # {}
      PROVE  step[<< f[t \ {Max(t)}], Max(t) >>] = Over1(f[t \ {Max(t)}], Max(t))
  <2>1. Max(t) \in 1 .. n  BY <1>1, <1>5, MaxOfInterval
  <2>2. f[t \ {Max(t)}] \in A
    <3> HIDE DEF A
    <3> QED  BY <1>4
  <2> HIDE DEF A, n, Over1
  <2> QED  BY <2>1, <2>2
<1>6. Eq(f)
  <2> HIDE DEF A, n, step, base, Over1
  <2> QED  BY <1>4, <1>5
<1> DEFINE iter == CHOOSE it : Eq(it)
<1>7. Eq(iter)
  <2> HIDE DEF Eq
  <2> QED  BY <1>6
<1>8. Undone = iter[1 .. n]
  BY DEF Undone, Apply, BackOne, FoldLeft, MapThenFoldSet
<1> HIDE DEF iter
<1> DEFINE g == [i \in 0 .. n |-> iter[1 .. i]]
<1>9. g[0] = base
  <2>1. 1 .. 0 = {} /\ 0 \in 0 .. n  BY <1>1
  <2> HIDE DEF n, base, Over1
  <2> QED  BY <1>7, <2>1
<1>10. ASSUME NEW i \in 1 .. n PROVE g[i] = Over1(g[i - 1], i)
  <2> HIDE DEF base, Over1, n
  <2>1. i \in 0 .. n /\ i - 1 \in 0 .. n  BY <1>1
  <2>2. iter[1 .. i] = IF 1 .. i = {} THEN base
                       ELSE Over1(iter[(1 .. i) \ {Max(1 .. i)}], Max(1 .. i))
    BY <1>1, <1>7, FoldPasses
  <2> QED  BY <1>1, <2>1, <2>2, FoldPasses
<1>11. g[n] = iter[1 .. n]
  BY <1>1
<1>12. g \in [0 .. n -> A]
  <2> DEFINE S == {i \in 0 .. n : g[i] \in A}
  <2>1. 0 \in S
    <3>1. 0 \in 0 .. n  BY <1>1
    <3> HIDE DEF g, A, base
    <3> QED  BY <1>1, <1>9, <3>1
  <2>2. ASSUME NEW i \in 0 .. n - 1, i \in S PROVE i + 1 \in S
    <3>1. i + 1 \in 1 .. n /\ (i + 1) - 1 = i /\ i + 1 \in 0 .. n  BY <1>1
    <3> HIDE DEF g, A, Over1, n
    <3>2. g[i + 1] = Over1(g[i], i + 1)  BY <1>10, <3>1
    <3> QED  BY <1>2, <2>2, <3>1, <3>2
  <2>3. 0 .. n \subseteq S
    <3> HIDE DEF S, n
    <3> QED  BY <1>1, <2>1, <2>2, IntervalInduction
  <2> HIDE DEF A, n
  <2> QED  BY <2>3
<1>13. Undone = g[n]
  BY <1>8, <1>11
<1>14. \A i \in 1 .. n : g[i] = Over1(g[i - 1], i)
  <2> HIDE DEF g, Over1, n
  <2> QED  BY <1>10
<1>15. \A i \in 1 .. n : \A r \in g[i] : \E t \in g[i - 1] : r \in BackOne(t, undo.items[i])
  <2> HIDE DEF g
  <2> QED  BY <1>14
<1> HIDE DEF g
<1> WITNESS g \in [0 .. n -> A]
<1> QED
  BY <1>9, <1>13, <1>15

(* The same of redo. *)
LEMMA RedoneInSteps ==
  ASSUME NEW G, Attempt(disk, TRUE, TRUE) \in G, Len(redo.items) \in Nat, DOMAIN redo.items = 1 .. Len(redo.items),
         \A t \in G, i \in 1 .. Len(redo.items) : ForthOne(t, redo.items[i]) \subseteq G
  PROVE  \E g \in [0 .. Len(redo.items) -> SUBSET G] :
           /\ g[0] = {Attempt(disk, TRUE, TRUE)}
           /\ \A i \in 1 .. Len(redo.items) : \A r \in g[i] : \E t \in g[i - 1] : r \in ForthOne(t, redo.items[i])
           /\ Redone = g[Len(redo.items)]
<1> DEFINE n == Len(redo.items)
           A == SUBSET G
           base == {Attempt(disk, TRUE, TRUE)}
           Over1(ts, i) == UNION {ForthOne(t, redo.items[i]) : t \in ts}
           step == [x \in A \X (1 .. n) |-> Over1(x[1], x[2])]
           Eq(f) == f = [t \in SUBSET (1 .. n) |->
                           IF t = {} THEN base ELSE Over1(f[t \ {Max(t)}], Max(t))]
<1>1. n \in Nat /\ base \in A
  OBVIOUS
<1>2. ASSUME NEW ts \in A, NEW i \in 1 .. n PROVE Over1(ts, i) \in A
  OBVIOUS
<1>3. step \in [A \X (1 .. n) -> A]
  <2> HIDE DEF A, Over1, n
  <2> QED  BY <1>2
<1>4. PICK f \in [SUBSET (1 .. n) -> A] : \A t \in SUBSET (1 .. n) :
        f[t] = IF t = {} THEN base ELSE step[<< f[t \ {Max(t)}], Max(t) >>]
  <2> HIDE DEF step, A, n, base, Over1
  <2>1. Foldings(n, A, base, step) # {}
    BY <1>1, <1>3, FoldExists
  <2> QED  BY <2>1 DEF Foldings
<1>5. ASSUME NEW t \in SUBSET (1 .. n), t # {}
      PROVE  step[<< f[t \ {Max(t)}], Max(t) >>] = Over1(f[t \ {Max(t)}], Max(t))
  <2>1. Max(t) \in 1 .. n  BY <1>1, <1>5, MaxOfInterval
  <2>2. f[t \ {Max(t)}] \in A
    <3> HIDE DEF A
    <3> QED  BY <1>4
  <2> HIDE DEF A, n, Over1
  <2> QED  BY <2>1, <2>2
<1>6. Eq(f)
  <2> HIDE DEF A, n, step, base, Over1
  <2> QED  BY <1>4, <1>5
<1> DEFINE iter == CHOOSE it : Eq(it)
<1>7. Eq(iter)
  <2> HIDE DEF Eq
  <2> QED  BY <1>6
<1>8. Redone = iter[1 .. n]
  BY DEF Redone, Apply, ForthOne, FoldLeft, MapThenFoldSet
<1> HIDE DEF iter
<1> DEFINE g == [i \in 0 .. n |-> iter[1 .. i]]
<1>9. g[0] = base
  <2>1. 1 .. 0 = {} /\ 0 \in 0 .. n  BY <1>1
  <2> HIDE DEF n, base, Over1
  <2> QED  BY <1>7, <2>1
<1>10. ASSUME NEW i \in 1 .. n PROVE g[i] = Over1(g[i - 1], i)
  <2> HIDE DEF base, Over1, n
  <2>1. i \in 0 .. n /\ i - 1 \in 0 .. n  BY <1>1
  <2>2. iter[1 .. i] = IF 1 .. i = {} THEN base
                       ELSE Over1(iter[(1 .. i) \ {Max(1 .. i)}], Max(1 .. i))
    BY <1>1, <1>7, FoldPasses
  <2> QED  BY <1>1, <2>1, <2>2, FoldPasses
<1>11. g[n] = iter[1 .. n]
  BY <1>1
<1>12. g \in [0 .. n -> A]
  <2> DEFINE S == {i \in 0 .. n : g[i] \in A}
  <2>1. 0 \in S
    <3>1. 0 \in 0 .. n  BY <1>1
    <3> HIDE DEF g, A, base
    <3> QED  BY <1>1, <1>9, <3>1
  <2>2. ASSUME NEW i \in 0 .. n - 1, i \in S PROVE i + 1 \in S
    <3>1. i + 1 \in 1 .. n /\ (i + 1) - 1 = i /\ i + 1 \in 0 .. n  BY <1>1
    <3> HIDE DEF g, A, Over1, n
    <3>2. g[i + 1] = Over1(g[i], i + 1)  BY <1>10, <3>1
    <3> QED  BY <1>2, <2>2, <3>1, <3>2
  <2>3. 0 .. n \subseteq S
    <3> HIDE DEF S, n
    <3> QED  BY <1>1, <2>1, <2>2, IntervalInduction
  <2> HIDE DEF A, n
  <2> QED  BY <2>3
<1>13. Redone = g[n]
  BY <1>8, <1>11
<1>14. \A i \in 1 .. n : g[i] = Over1(g[i - 1], i)
  <2> HIDE DEF g, Over1, n
  <2> QED  BY <1>10
<1>15. \A i \in 1 .. n : \A r \in g[i] : \E t \in g[i - 1] : r \in ForthOne(t, redo.items[i])
  <2> HIDE DEF g
  <2> QED  BY <1>14
<1> HIDE DEF g
<1> WITNESS g \in [0 .. n -> A]
<1> QED
  BY <1>9, <1>13, <1>15

(* A cut of all comes to what the cuts of one give one after the other. *)
LEMMA CutInSteps ==
  ASSUME NEW d \in Disks, NEW shown \in Seq(FileNames), NEW G, Start(d) \in G, Len(shown) \in Nat, DOMAIN shown = 1 .. Len(shown),
         \A t \in G, i \in 1 .. Len(shown) : CutOne(t, shown[i]) \subseteq G
  PROVE  \E g \in [0 .. Len(shown) -> SUBSET G] :
           /\ g[0] = {Start(d)}
           /\ \A i \in 1 .. Len(shown) : \A r \in g[i] : \E t \in g[i - 1] : r \in CutOne(t, shown[i])
           /\ CutTries(d, shown) = g[Len(shown)]
<1> DEFINE n == Len(shown)
           A == SUBSET G
           base == {Start(d)}
           Over1(ts, i) == UNION {CutOne(t, shown[i]) : t \in ts}
           step == [x \in A \X (1 .. n) |-> Over1(x[1], x[2])]
           Eq(f) == f = [t \in SUBSET (1 .. n) |->
                           IF t = {} THEN base ELSE Over1(f[t \ {Max(t)}], Max(t))]
<1>1. n \in Nat /\ base \in A
  OBVIOUS
<1>2. ASSUME NEW ts \in A, NEW i \in 1 .. n PROVE Over1(ts, i) \in A
  OBVIOUS
<1>3. step \in [A \X (1 .. n) -> A]
  <2> HIDE DEF A, Over1, n
  <2> QED  BY <1>2
<1>4. PICK f \in [SUBSET (1 .. n) -> A] : \A t \in SUBSET (1 .. n) :
        f[t] = IF t = {} THEN base ELSE step[<< f[t \ {Max(t)}], Max(t) >>]
  <2> HIDE DEF step, A, n, base, Over1
  <2>1. Foldings(n, A, base, step) # {}
    BY <1>1, <1>3, FoldExists
  <2> QED  BY <2>1 DEF Foldings
<1>5. ASSUME NEW t \in SUBSET (1 .. n), t # {}
      PROVE  step[<< f[t \ {Max(t)}], Max(t) >>] = Over1(f[t \ {Max(t)}], Max(t))
  <2>1. Max(t) \in 1 .. n  BY <1>1, <1>5, MaxOfInterval
  <2>2. f[t \ {Max(t)}] \in A
    <3> HIDE DEF A
    <3> QED  BY <1>4
  <2> HIDE DEF A, n, Over1
  <2> QED  BY <2>1, <2>2
<1>6. Eq(f)
  <2> HIDE DEF A, n, step, base, Over1
  <2> QED  BY <1>4, <1>5
<1> DEFINE iter == CHOOSE it : Eq(it)
<1>7. Eq(iter)
  <2> HIDE DEF Eq
  <2> QED  BY <1>6
<1>8. CutTries(d, shown) = iter[1 .. n]
  BY DEF CutTries, Each, FoldLeft, MapThenFoldSet
<1> HIDE DEF iter
<1> DEFINE g == [i \in 0 .. n |-> iter[1 .. i]]
<1>9. g[0] = base
  <2>1. 1 .. 0 = {} /\ 0 \in 0 .. n  BY <1>1
  <2> HIDE DEF n, base, Over1
  <2> QED  BY <1>7, <2>1
<1>10. ASSUME NEW i \in 1 .. n PROVE g[i] = Over1(g[i - 1], i)
  <2> HIDE DEF base, Over1, n
  <2>1. i \in 0 .. n /\ i - 1 \in 0 .. n  BY <1>1
  <2>2. iter[1 .. i] = IF 1 .. i = {} THEN base
                       ELSE Over1(iter[(1 .. i) \ {Max(1 .. i)}], Max(1 .. i))
    BY <1>1, <1>7, FoldPasses
  <2> QED  BY <1>1, <2>1, <2>2, FoldPasses
<1>11. g[n] = iter[1 .. n]
  BY <1>1
<1>12. g \in [0 .. n -> A]
  <2> DEFINE S == {i \in 0 .. n : g[i] \in A}
  <2>1. 0 \in S
    <3>1. 0 \in 0 .. n  BY <1>1
    <3> HIDE DEF g, A, base
    <3> QED  BY <1>1, <1>9, <3>1
  <2>2. ASSUME NEW i \in 0 .. n - 1, i \in S PROVE i + 1 \in S
    <3>1. i + 1 \in 1 .. n /\ (i + 1) - 1 = i /\ i + 1 \in 0 .. n  BY <1>1
    <3> HIDE DEF g, A, Over1, n
    <3>2. g[i + 1] = Over1(g[i], i + 1)  BY <1>10, <3>1
    <3> QED  BY <1>2, <2>2, <3>1, <3>2
  <2>3. 0 .. n \subseteq S
    <3> HIDE DEF S, n
    <3> QED  BY <1>1, <2>1, <2>2, IntervalInduction
  <2> HIDE DEF A, n
  <2> QED  BY <2>3
<1>13. CutTries(d, shown) = g[n]
  BY <1>8, <1>11
<1>14. \A i \in 1 .. n : g[i] = Over1(g[i - 1], i)
  <2> HIDE DEF g, Over1, n
  <2> QED  BY <1>10
<1>15. \A i \in 1 .. n : \A r \in g[i] : \E t \in g[i - 1] : r \in CutOne(t, shown[i])
  <2> HIDE DEF g
  <2> QED  BY <1>14
<1> HIDE DEF g
<1> WITNESS g \in [0 .. n -> A]
<1> QED
  BY <1>9, <1>13, <1>15

(* The same of a paste. *)
LEMMA PasteInSteps ==
  ASSUME NEW G, Start(disk) \in G, Len(clip.items) \in Nat, DOMAIN clip.items = 1 .. Len(clip.items),
         \A t \in G, i \in 1 .. Len(clip.items) : PasteOne(t, clip.items[i]) \subseteq G
  PROVE  \E g \in [0 .. Len(clip.items) -> SUBSET G] :
           /\ g[0] = {Start(disk)}
           /\ \A i \in 1 .. Len(clip.items) : \A r \in g[i] : \E t \in g[i - 1] : r \in PasteOne(t, clip.items[i])
           /\ PasteTries = g[Len(clip.items)]
<1> DEFINE n == Len(clip.items)
           A == SUBSET G
           base == {Start(disk)}
           Over1(ts, i) == UNION {PasteOne(t, clip.items[i]) : t \in ts}
           step == [x \in A \X (1 .. n) |-> Over1(x[1], x[2])]
           Eq(f) == f = [t \in SUBSET (1 .. n) |->
                           IF t = {} THEN base ELSE Over1(f[t \ {Max(t)}], Max(t))]
<1>1. n \in Nat /\ base \in A
  OBVIOUS
<1>2. ASSUME NEW ts \in A, NEW i \in 1 .. n PROVE Over1(ts, i) \in A
  OBVIOUS
<1>3. step \in [A \X (1 .. n) -> A]
  <2> HIDE DEF A, Over1, n
  <2> QED  BY <1>2
<1>4. PICK f \in [SUBSET (1 .. n) -> A] : \A t \in SUBSET (1 .. n) :
        f[t] = IF t = {} THEN base ELSE step[<< f[t \ {Max(t)}], Max(t) >>]
  <2> HIDE DEF step, A, n, base, Over1
  <2>1. Foldings(n, A, base, step) # {}
    BY <1>1, <1>3, FoldExists
  <2> QED  BY <2>1 DEF Foldings
<1>5. ASSUME NEW t \in SUBSET (1 .. n), t # {}
      PROVE  step[<< f[t \ {Max(t)}], Max(t) >>] = Over1(f[t \ {Max(t)}], Max(t))
  <2>1. Max(t) \in 1 .. n  BY <1>1, <1>5, MaxOfInterval
  <2>2. f[t \ {Max(t)}] \in A
    <3> HIDE DEF A
    <3> QED  BY <1>4
  <2> HIDE DEF A, n, Over1
  <2> QED  BY <2>1, <2>2
<1>6. Eq(f)
  <2> HIDE DEF A, n, step, base, Over1
  <2> QED  BY <1>4, <1>5
<1> DEFINE iter == CHOOSE it : Eq(it)
<1>7. Eq(iter)
  <2> HIDE DEF Eq
  <2> QED  BY <1>6
<1>8. PasteTries = iter[1 .. n]
  BY DEF PasteTries, Each, FoldLeft, MapThenFoldSet
<1> HIDE DEF iter
<1> DEFINE g == [i \in 0 .. n |-> iter[1 .. i]]
<1>9. g[0] = base
  <2>1. 1 .. 0 = {} /\ 0 \in 0 .. n  BY <1>1
  <2> HIDE DEF n, base, Over1
  <2> QED  BY <1>7, <2>1
<1>10. ASSUME NEW i \in 1 .. n PROVE g[i] = Over1(g[i - 1], i)
  <2> HIDE DEF base, Over1, n
  <2>1. i \in 0 .. n /\ i - 1 \in 0 .. n  BY <1>1
  <2>2. iter[1 .. i] = IF 1 .. i = {} THEN base
                       ELSE Over1(iter[(1 .. i) \ {Max(1 .. i)}], Max(1 .. i))
    BY <1>1, <1>7, FoldPasses
  <2> QED  BY <1>1, <2>1, <2>2, FoldPasses
<1>11. g[n] = iter[1 .. n]
  BY <1>1
<1>12. g \in [0 .. n -> A]
  <2> DEFINE S == {i \in 0 .. n : g[i] \in A}
  <2>1. 0 \in S
    <3>1. 0 \in 0 .. n  BY <1>1
    <3> HIDE DEF g, A, base
    <3> QED  BY <1>1, <1>9, <3>1
  <2>2. ASSUME NEW i \in 0 .. n - 1, i \in S PROVE i + 1 \in S
    <3>1. i + 1 \in 1 .. n /\ (i + 1) - 1 = i /\ i + 1 \in 0 .. n  BY <1>1
    <3> HIDE DEF g, A, Over1, n
    <3>2. g[i + 1] = Over1(g[i], i + 1)  BY <1>10, <3>1
    <3> QED  BY <1>2, <2>2, <3>1, <3>2
  <2>3. 0 .. n \subseteq S
    <3> HIDE DEF S, n
    <3> QED  BY <1>1, <2>1, <2>2, IntervalInduction
  <2> HIDE DEF A, n
  <2> QED  BY <2>3
<1>13. PasteTries = g[n]
  BY <1>8, <1>11
<1>14. \A i \in 1 .. n : g[i] = Over1(g[i - 1], i)
  <2> HIDE DEF g, Over1, n
  <2> QED  BY <1>10
<1>15. \A i \in 1 .. n : \A r \in g[i] : \E t \in g[i - 1] : r \in PasteOne(t, clip.items[i])
  <2> HIDE DEF g
  <2> QED  BY <1>14
<1> HIDE DEF g
<1> WITNESS g \in [0 .. n -> A]
<1> QED
  BY <1>9, <1>13, <1>15

(* The same of a deletion. *)
LEMMA TrashedInSteps ==
  ASSUME NEW paths, NEW G, Start(disk) \in G, Len(paths) \in Nat, DOMAIN paths = 1 .. Len(paths),
         \A t \in G, i \in 1 .. Len(paths) : Trashed(t, paths[i]) \subseteq G
  PROVE  \E g \in [0 .. Len(paths) -> SUBSET G] :
           /\ g[0] = {Start(disk)}
           /\ \A i \in 1 .. Len(paths) : \A r \in g[i] : \E t \in g[i - 1] : r \in Trashed(t, paths[i])
           /\ TrashTries(paths) = g[Len(paths)]
<1> DEFINE n == Len(paths)
           A == SUBSET G
           base == {Start(disk)}
           Over1(ts, i) == UNION {Trashed(t, paths[i]) : t \in ts}
           step == [x \in A \X (1 .. n) |-> Over1(x[1], x[2])]
           Eq(f) == f = [t \in SUBSET (1 .. n) |->
                           IF t = {} THEN base ELSE Over1(f[t \ {Max(t)}], Max(t))]
<1>1. n \in Nat /\ base \in A
  OBVIOUS
<1>2. ASSUME NEW ts \in A, NEW i \in 1 .. n PROVE Over1(ts, i) \in A
  OBVIOUS
<1>3. step \in [A \X (1 .. n) -> A]
  <2> HIDE DEF A, Over1, n
  <2> QED  BY <1>2
<1>4. PICK f \in [SUBSET (1 .. n) -> A] : \A t \in SUBSET (1 .. n) :
        f[t] = IF t = {} THEN base ELSE step[<< f[t \ {Max(t)}], Max(t) >>]
  <2> HIDE DEF step, A, n, base, Over1
  <2>1. Foldings(n, A, base, step) # {}
    BY <1>1, <1>3, FoldExists
  <2> QED  BY <2>1 DEF Foldings
<1>5. ASSUME NEW t \in SUBSET (1 .. n), t # {}
      PROVE  step[<< f[t \ {Max(t)}], Max(t) >>] = Over1(f[t \ {Max(t)}], Max(t))
  <2>1. Max(t) \in 1 .. n  BY <1>1, <1>5, MaxOfInterval
  <2>2. f[t \ {Max(t)}] \in A
    <3> HIDE DEF A
    <3> QED  BY <1>4
  <2> HIDE DEF A, n, Over1
  <2> QED  BY <2>1, <2>2
<1>6. Eq(f)
  <2> HIDE DEF A, n, step, base, Over1
  <2> QED  BY <1>4, <1>5
<1> DEFINE iter == CHOOSE it : Eq(it)
<1>7. Eq(iter)
  <2> HIDE DEF Eq
  <2> QED  BY <1>6
<1>8. TrashTries(paths) = iter[1 .. n]
  BY DEF TrashTries, Each, FoldLeft, MapThenFoldSet
<1> HIDE DEF iter
<1> DEFINE g == [i \in 0 .. n |-> iter[1 .. i]]
<1>9. g[0] = base
  <2>1. 1 .. 0 = {} /\ 0 \in 0 .. n  BY <1>1
  <2> HIDE DEF n, base, Over1
  <2> QED  BY <1>7, <2>1
<1>10. ASSUME NEW i \in 1 .. n PROVE g[i] = Over1(g[i - 1], i)
  <2> HIDE DEF base, Over1, n
  <2>1. i \in 0 .. n /\ i - 1 \in 0 .. n  BY <1>1
  <2>2. iter[1 .. i] = IF 1 .. i = {} THEN base
                       ELSE Over1(iter[(1 .. i) \ {Max(1 .. i)}], Max(1 .. i))
    BY <1>1, <1>7, FoldPasses
  <2> QED  BY <1>1, <2>1, <2>2, FoldPasses
<1>11. g[n] = iter[1 .. n]
  BY <1>1
<1>12. g \in [0 .. n -> A]
  <2> DEFINE S == {i \in 0 .. n : g[i] \in A}
  <2>1. 0 \in S
    <3>1. 0 \in 0 .. n  BY <1>1
    <3> HIDE DEF g, A, base
    <3> QED  BY <1>1, <1>9, <3>1
  <2>2. ASSUME NEW i \in 0 .. n - 1, i \in S PROVE i + 1 \in S
    <3>1. i + 1 \in 1 .. n /\ (i + 1) - 1 = i /\ i + 1 \in 0 .. n  BY <1>1
    <3> HIDE DEF g, A, Over1, n
    <3>2. g[i + 1] = Over1(g[i], i + 1)  BY <1>10, <3>1
    <3> QED  BY <1>2, <2>2, <3>1, <3>2
  <2>3. 0 .. n \subseteq S
    <3> HIDE DEF S, n
    <3> QED  BY <1>1, <2>1, <2>2, IntervalInduction
  <2> HIDE DEF A, n
  <2> QED  BY <2>3
<1>13. TrashTries(paths) = g[n]
  BY <1>8, <1>11
<1>14. \A i \in 1 .. n : g[i] = Over1(g[i - 1], i)
  <2> HIDE DEF g, Over1, n
  <2> QED  BY <1>10
<1>15. \A i \in 1 .. n : \A r \in g[i] : \E t \in g[i - 1] : r \in Trashed(t, paths[i])
  <2> HIDE DEF g
  <2> QED  BY <1>14
<1> HIDE DEF g
<1> WITNESS g \in [0 .. n -> A]
<1> QED
  BY <1>9, <1>13, <1>15

(* The same of a copy or a move by a plugin. *)
LEMMA TransferInSteps ==
  ASSUME NEW kind, NEW dir, NEW paths, NEW G, Start(disk) \in G, Len(paths) \in Nat, DOMAIN paths = 1 .. Len(paths),
         \A t \in G, i \in 1 .. Len(paths) : TransferOne(kind, dir, t, paths[i]) \subseteq G
  PROVE  \E g \in [0 .. Len(paths) -> SUBSET G] :
           /\ g[0] = {Start(disk)}
           /\ \A i \in 1 .. Len(paths) : \A r \in g[i] : \E t \in g[i - 1] : r \in TransferOne(kind, dir, t, paths[i])
           /\ TransferTries(kind, dir, paths) = g[Len(paths)]
<1> DEFINE n == Len(paths)
           A == SUBSET G
           base == {Start(disk)}
           Over1(ts, i) == UNION {TransferOne(kind, dir, t, paths[i]) : t \in ts}
           step == [x \in A \X (1 .. n) |-> Over1(x[1], x[2])]
           Eq(f) == f = [t \in SUBSET (1 .. n) |->
                           IF t = {} THEN base ELSE Over1(f[t \ {Max(t)}], Max(t))]
<1>1. n \in Nat /\ base \in A
  OBVIOUS
<1>2. ASSUME NEW ts \in A, NEW i \in 1 .. n PROVE Over1(ts, i) \in A
  OBVIOUS
<1>3. step \in [A \X (1 .. n) -> A]
  <2> HIDE DEF A, Over1, n
  <2> QED  BY <1>2
<1>4. PICK f \in [SUBSET (1 .. n) -> A] : \A t \in SUBSET (1 .. n) :
        f[t] = IF t = {} THEN base ELSE step[<< f[t \ {Max(t)}], Max(t) >>]
  <2> HIDE DEF step, A, n, base, Over1
  <2>1. Foldings(n, A, base, step) # {}
    BY <1>1, <1>3, FoldExists
  <2> QED  BY <2>1 DEF Foldings
<1>5. ASSUME NEW t \in SUBSET (1 .. n), t # {}
      PROVE  step[<< f[t \ {Max(t)}], Max(t) >>] = Over1(f[t \ {Max(t)}], Max(t))
  <2>1. Max(t) \in 1 .. n  BY <1>1, <1>5, MaxOfInterval
  <2>2. f[t \ {Max(t)}] \in A
    <3> HIDE DEF A
    <3> QED  BY <1>4
  <2> HIDE DEF A, n, Over1
  <2> QED  BY <2>1, <2>2
<1>6. Eq(f)
  <2> HIDE DEF A, n, step, base, Over1
  <2> QED  BY <1>4, <1>5
<1> DEFINE iter == CHOOSE it : Eq(it)
<1>7. Eq(iter)
  <2> HIDE DEF Eq
  <2> QED  BY <1>6
<1>8. TransferTries(kind, dir, paths) = iter[1 .. n]
  BY DEF TransferTries, Each, FoldLeft, MapThenFoldSet
<1> HIDE DEF iter
<1> DEFINE g == [i \in 0 .. n |-> iter[1 .. i]]
<1>9. g[0] = base
  <2>1. 1 .. 0 = {} /\ 0 \in 0 .. n  BY <1>1
  <2> HIDE DEF n, base, Over1
  <2> QED  BY <1>7, <2>1
<1>10. ASSUME NEW i \in 1 .. n PROVE g[i] = Over1(g[i - 1], i)
  <2> HIDE DEF base, Over1, n
  <2>1. i \in 0 .. n /\ i - 1 \in 0 .. n  BY <1>1
  <2>2. iter[1 .. i] = IF 1 .. i = {} THEN base
                       ELSE Over1(iter[(1 .. i) \ {Max(1 .. i)}], Max(1 .. i))
    BY <1>1, <1>7, FoldPasses
  <2> QED  BY <1>1, <2>1, <2>2, FoldPasses
<1>11. g[n] = iter[1 .. n]
  BY <1>1
<1>12. g \in [0 .. n -> A]
  <2> DEFINE S == {i \in 0 .. n : g[i] \in A}
  <2>1. 0 \in S
    <3>1. 0 \in 0 .. n  BY <1>1
    <3> HIDE DEF g, A, base
    <3> QED  BY <1>1, <1>9, <3>1
  <2>2. ASSUME NEW i \in 0 .. n - 1, i \in S PROVE i + 1 \in S
    <3>1. i + 1 \in 1 .. n /\ (i + 1) - 1 = i /\ i + 1 \in 0 .. n  BY <1>1
    <3> HIDE DEF g, A, Over1, n
    <3>2. g[i + 1] = Over1(g[i], i + 1)  BY <1>10, <3>1
    <3> QED  BY <1>2, <2>2, <3>1, <3>2
  <2>3. 0 .. n \subseteq S
    <3> HIDE DEF S, n
    <3> QED  BY <1>1, <2>1, <2>2, IntervalInduction
  <2> HIDE DEF A, n
  <2> QED  BY <2>3
<1>13. TransferTries(kind, dir, paths) = g[n]
  BY <1>8, <1>11
<1>14. \A i \in 1 .. n : g[i] = Over1(g[i - 1], i)
  <2> HIDE DEF g, Over1, n
  <2> QED  BY <1>10
<1>15. \A i \in 1 .. n : \A r \in g[i] : \E t \in g[i - 1] : r \in TransferOne(kind, dir, t, paths[i])
  <2> HIDE DEF g
  <2> QED  BY <1>14
<1> HIDE DEF g
<1> WITNESS g \in [0 .. n -> A]
<1> QED
  BY <1>9, <1>13, <1>15

-----------------------------------------------------------------------------
(* The inductive invariant.                                                 *)

Listings == UNION {[N -> BOOLEAN] : N \in SUBSET FileNames}
Clipped == [src : Path, isDir : BOOLEAN, name : FileNames]
Clips == [op : {"none", "copy", "cut"}, multi : BOOLEAN, items : Seq(Clipped)]

(* The inductive invariant: what exists is a tree of paths, and whatever the   *)
(* clipboard, undo and redo name are paths.                                    *)
HistoryOK(u, r, e) == u \in Ops /\ r \in Ops /\ NoOp \in {u, r} /\ e \in BOOLEAN
FilesInv ==
  /\ Tree(disk) /\ listed \in Listings
  /\ clip \in Clips /\ copied \in FileNames \cup {"none", "MULTI", ""}
  /\ HistoryOK(undo, redo, exact)
  /\ budget \in 0 .. MaxOps

(* What the cuts of one after the other come to.                               *)
LEMMA CutIs ==
  ASSUME NEW d, Tree(d), NEW shown \in Seq(FileNames), NEW t \in CutTries(d, shown)
  PROVE  t \in Tries /\ Kept(d, t.disk, {}) /\ Len(t.items) = Len(shown)
<1> DEFINE G == {x \in Tries : Kept(d, x.disk, {})}
           n == Len(shown)
<1>0. /\ Len(shown) \in Nat /\ DOMAIN shown = 1 .. Len(shown) /\ d \in Disks
      /\ \A i \in 1 .. Len(shown) : shown[i] \in FileNames
  BY LenProperties, ElementOfSeq DEF Tree
<1>1. Start(d) \in G /\ Len(Start(d).items) = 0
  BY StartIs, KeptItself
<1>2. ASSUME NEW x \in Tries, NEW i \in 1 .. n, NEW r \in CutOne(x, shown[i])
      PROVE  r \in Tries /\ Kept(x.disk, r.disk, {}) /\ Len(r.items) = Len(x.items) + 1
  <2>1. PICK m \in Unique(x.disk, Store, shown[i]) : r \in RanMv(x, Cwd(shown[i]), Append(Store, m))
    BY DEF CutOne
  <2>2. m \in FileNames /\ At(x.disk, Append(Store, m)) = Nothing  BY UniqueIs
  <2>3. Cwd(shown[i]) \in Path /\ Append(Store, m) \in Path  BY <1>0, <2>2, PlacesArePaths
  <2> DEFINE src == Cwd(shown[i])  dst == Append(Store, m)  mv == [src |-> src, dst |-> dst]
  <2> HIDE DEF src, dst
  <2>4. src \in Path /\ dst \in Path /\ At(x.disk, dst) = Nothing /\ r \in RanMv(x, src, dst)
    BY <2>1, <2>2, <2>3 DEF src, dst
  <2>5. mv \in Moved  BY <2>4 DEF Moved
  <2>6. r \in Tries /\ Kept(x.disk, r.disk, {}) /\ r.items = Append(x.items, mv)
    BY <2>4, RanMvIs
  <2> HIDE DEF mv
  <2>7. Len(Append(x.items, mv)) = Len(x.items) + 1  BY <2>5, TryIs, AppendProperties
  <2> QED  BY <2>6, <2>7
<1>3. \A x \in G, i \in 1 .. n : CutOne(x, shown[i]) \subseteq G
  BY <1>2, KeptFurther
<1>4. PICK g \in [0 .. n -> SUBSET G] :
        /\ g[0] = {Start(d)}
        /\ \A i \in 1 .. n : \A r \in g[i] : \E x \in g[i - 1] : r \in CutOne(x, shown[i])
        /\ CutTries(d, shown) = g[n]
  <2> HIDE DEF G
  <2> QED  BY <1>0, <1>1, <1>3, CutInSteps
<1> DEFINE S == {k \in 0 .. n : \A x \in g[k] : Len(x.items) = k}
<1>5. n \in Nat /\ 0 \in S
  BY <1>0, <1>1, <1>4
<1>6. ASSUME NEW k \in 0 .. n - 1, k \in S PROVE k + 1 \in S
  <2>1. k + 1 \in 1 .. n /\ k + 1 \in 0 .. n /\ (k + 1) - 1 = k  OBVIOUS
  <2>2. ASSUME NEW r \in g[k + 1] PROVE Len(r.items) = k + 1
    <3>2. PICK x \in g[k] : r \in CutOne(x, shown[k + 1])  BY <1>4, <2>1, <2>2
    <3>3. x \in Tries  BY <1>4
    <3>4. Len(x.items) = k  BY <1>6
    <3> QED  BY <1>2, <2>1, <3>2, <3>3, <3>4
  <2> QED  BY <2>1, <2>2
<1>7. n \in S
  <2> HIDE DEF S, n
  <2>1. 0 .. n \subseteq S  BY <1>5, <1>6, IntervalInduction
  <2> QED  BY <1>5, <2>1
<1>8. t \in g[n] /\ t \in G
  BY <1>4, <1>5
<1> QED
  BY <1>7, <1>8

LEMMA ClipItemIs ==
  ASSUME clip \in Clips, NEW i \in 1 .. Len(clip.items)
  PROVE  clip.items[i] \in Clipped /\ clip.items[i].src \in Path /\ From(clip.items[i]) \in Path
<1>1. clip.items \in Seq(Clipped)
  BY DEF Clips
<1>2. clip.items[i] \in Clipped
  BY <1>1, ElementOfSeq
<1>3. clip.items[i].src \in Path
  BY <1>2 DEF Clipped
<1>4. Store \in Path
  <2>1. "cwd" \in FileNames  BY DEF FileNames
  <2> QED  BY <2>1, PlacesArePaths
<1> QED
  BY <1>2, <1>3, <1>4 DEF From

LEMMA PasteIs ==
  ASSUME Tree(disk), clip \in Clips, NEW t \in PasteTries
  PROVE  t \in Tries /\ Kept(disk, t.disk, {}) /\ Under(t.items, Here)
<1> DEFINE G == {x \in Tries : Kept(disk, x.disk, {}) /\ Under(x.items, Here)}
           n == Len(clip.items)
<1>1. Start(disk) \in G
  BY StartIs, KeptItself, NothingUnder
<1>2. n \in Nat /\ DOMAIN clip.items = 1 .. n
  BY LenProperties DEF Clips
<1>3. ASSUME NEW x \in G, NEW i \in 1 .. n, NEW r \in PasteOne(x, clip.items[i])
      PROVE  r \in G
  <2> DEFINE item == clip.items[i]  src == From(item)
  <2>1. PICK m \in Unique(x.disk, Here, Wanted(item)) :
          \/ r \in RanMv(x, src, Cwd(m))
          \/ r \in RanCp(x, src, Cwd(m), item.isDir)
    BY DEF PasteOne
  <2> DEFINE dst == Cwd(m)  mv == [src |-> src, dst |-> dst]
  <2>2. m \in FileNames /\ At(x.disk, Append(Here, m)) = Nothing  BY UniqueIs
  <2>3. dst \in Path /\ dst[1] = "cwd" /\ Front(dst) = Here /\ At(x.disk, dst) = Nothing
    BY <2>2, PlacesArePaths
  <2>4. src \in Path  BY ClipItemIs
  <2>5. x \in Tries /\ Kept(disk, x.disk, {}) /\ Under(x.items, Here)  OBVIOUS
  <2> HIDE DEF G, src, dst
  <2>6. mv \in Moved /\ mv.dst = dst  BY <2>3, <2>4 DEF Moved
  <2>7. r \in Tries /\ r.items = Append(x.items, mv) /\ Kept(x.disk, r.disk, {})
    <3>1. CASE r \in RanMv(x, src, Cwd(m))
      <4>1. r \in RanMv(x, src, dst)  BY <3>1 DEF dst
      <4> QED  BY <2>3, <2>4, <2>5, <4>1, RanMvIs
    <3>2. CASE r \in RanCp(x, src, Cwd(m), item.isDir)
      <4>1. r \in RanCp(x, src, dst, item.isDir)  BY <3>2 DEF dst
      <4> QED  BY <2>3, <2>4, <2>5, <4>1, RanCpIs
    <3> QED  BY <2>1, <3>1, <3>2
  <2>8. Kept(disk, r.disk, {})  BY <2>5, <2>7, KeptFurther
  <2> HIDE DEF mv
  <2>9. Under(Append(x.items, mv), Here)
    BY <2>3, <2>5, <2>6, TryIs, UnderGrows
  <2> QED  BY <2>7, <2>8, <2>9 DEF G
<1>4. \A x \in G, i \in 1 .. n : PasteOne(x, clip.items[i]) \subseteq G
  <2> HIDE DEF G
  <2> QED  BY <1>3
<1>5. t \in G
  <2> HIDE DEF G
  <2>1. PICK g \in [0 .. n -> SUBSET G] : PasteTries = g[n]
    BY <1>1, <1>2, <1>4, PasteInSteps
  <2> QED  BY <1>2, <2>1
<1> QED
  BY <1>5

LEMMA TrashIs ==
  ASSUME Tree(disk), NEW paths, Len(paths) \in Nat, DOMAIN paths = 1 .. Len(paths),
         \A i \in 1 .. Len(paths) : paths[i] \in Path, NEW t \in TrashTries(paths)
  PROVE  t \in Tries /\ Kept(disk, t.disk, {})
<1> DEFINE G == {x \in Tries : Kept(disk, x.disk, {})}
           n == Len(paths)
<1>1. Start(disk) \in G
  BY StartIs, KeptItself
<1>2. ASSUME NEW x \in G, NEW i \in 1 .. n, NEW r \in Trashed(x, paths[i]) PROVE r \in G
  <2>1. CASE r = x  BY <2>1
  <2>2. CASE r # x
    <3>1. PICK m \in Unique(x.disk, << "trash" >>, Last(paths[i])) :
            r \in RanMv(x, paths[i], << "trash", m >>)
      BY <2>2 DEF Trashed
    <3> DEFINE dst == << "trash", m >>  src == paths[i]
    <3>2. m \in FileNames /\ At(x.disk, Append(<< "trash" >>, m)) = Nothing  BY UniqueIs
    <3>3. dst \in Path /\ At(x.disk, dst) = Nothing  BY <3>2, PlacesArePaths
    <3>4. src \in Path /\ r \in RanMv(x, src, dst)  BY <3>1
    <3>5. x \in Tries /\ Kept(disk, x.disk, {})  OBVIOUS
    <3> HIDE DEF G, src, dst
    <3>6. r \in Tries /\ Kept(x.disk, r.disk, {})  BY <3>3, <3>4, <3>5, RanMvIs
    <3>7. Kept(disk, r.disk, {})  BY <3>5, <3>6, KeptFurther
    <3> QED  BY <3>6, <3>7 DEF G
  <2> QED  BY <2>1, <2>2
<1>3. \A x \in G, i \in 1 .. n : Trashed(x, paths[i]) \subseteq G
  <2> HIDE DEF G
  <2> QED  BY <1>2
<1>4. t \in G
  <2> HIDE DEF G
  <2>1. PICK g \in [0 .. n -> SUBSET G] : TrashTries(paths) = g[n]
    BY <1>1, <1>3, TrashedInSteps
  <2> QED  BY <2>1
<1> QED
  BY <1>4

LEMMA TransferIs ==
  ASSUME Tree(disk), NEW kind, NEW dir \in Comps, dir # << >>, dir[1] = "cwd",
         NEW paths, Len(paths) \in Nat, DOMAIN paths = 1 .. Len(paths),
         \A i \in 1 .. Len(paths) : paths[i] \in Path, NEW t \in TransferTries(kind, dir, paths)
  PROVE  t \in Tries /\ Kept(disk, t.disk, {}) /\ Under(t.items, dir)
<1> DEFINE G == {x \in Tries : Kept(disk, x.disk, {}) /\ Under(x.items, dir)}
           n == Len(paths)
<1>1. Start(disk) \in G
  BY StartIs, KeptItself, NothingUnder
<1>2. ASSUME NEW x \in G, NEW i \in 1 .. n, NEW r \in TransferOne(kind, dir, x, paths[i]) PROVE r \in G
  <2>1. CASE r = x  BY <2>1
  <2>2. CASE r # x
    <3> DEFINE src == paths[i]  dst == Append(dir, Last(src))  mv == [src |-> src, dst |-> dst]
    <3>1. /\ At(x.disk, dst) = Nothing
          /\ \/ r \in RanMv(x, src, dst)
             \/ r \in RanCp(x, src, dst, x.disk[src] = Dir)
      BY <2>2 DEF TransferOne
    <3>2. src \in Path  OBVIOUS
    <3>3. dst \in Path /\ dst[1] = "cwd" /\ Front(dst) = dir
      <4>1. Last(src) \in Comp  BY <3>2, LastIs
      <4>2. dst \in Comps /\ Len(dst) = Len(dir) + 1 /\ dst[1] = "cwd" /\ Front(dst) = dir
        BY <4>1, AppendPath
      <4>3. Len(dir) \in Nat /\ Len(dir) # 0  BY EmptySeq, Pieces DEF Comps
      <4> HIDE DEF dst
      <4>4. Len(dst) \in Nat \ {0} /\ Len(dst) # 1  BY <4>2, <4>3
      <4> QED  BY <4>2, <4>4 DEF Path, Tops
    <3>5. x \in Tries /\ Kept(disk, x.disk, {}) /\ Under(x.items, dir)  OBVIOUS
    <3> HIDE DEF G, src, dst
    <3>6. mv \in Moved /\ mv.dst = dst  BY <3>2, <3>3 DEF Moved
    <3>7. r \in Tries /\ r.items = Append(x.items, mv) /\ Kept(x.disk, r.disk, {})
      <4>1. CASE r \in RanMv(x, src, dst)
        BY <3>1, <3>2, <3>3, <3>5, <4>1, RanMvIs
      <4>2. CASE r \in RanCp(x, src, dst, x.disk[src] = Dir)
        <5> DEFINE w == x.disk[src] = Dir
        <5>1. r \in RanCp(x, src, dst, w)  BY <4>2
        <5> HIDE DEF w
        <5> QED  BY <3>1, <3>2, <3>3, <3>5, <5>1, RanCpIs
      <4> QED  BY <3>1, <4>1, <4>2
    <3>8. Kept(disk, r.disk, {})  BY <3>5, <3>7, KeptFurther
    <3> HIDE DEF mv
    <3>9. Under(Append(x.items, mv), dir)
      BY <3>3, <3>5, <3>6, TryIs, UnderGrows
    <3> QED  BY <3>7, <3>8, <3>9 DEF G
  <2> QED  BY <2>1, <2>2
<1>3. \A x \in G, i \in 1 .. n : TransferOne(kind, dir, x, paths[i]) \subseteq G
  <2> HIDE DEF G
  <2> QED  BY <1>2
<1>4. t \in G
  <2> HIDE DEF G
  <2>1. PICK g \in [0 .. n -> SUBSET G] : TransferTries(kind, dir, paths) = g[n]
    BY <1>1, <1>3, TransferInSteps
  <2> QED  BY <2>1
<1> QED
  BY <1>4

-----------------------------------------------------------------------------
(* Undo and redo of whole operations.                                       *)

LEMMA Exactly ==
  ASSUME NEW s \in Attempts, NEW b \in BOOLEAN
  PROVE  /\ [s EXCEPT !.exact = b] \in Attempts
         /\ [s EXCEPT !.exact = b].disk = s.disk /\ [s EXCEPT !.exact = b].ok = s.ok
<1> DEFINE R == [disk : Disks, ok : BOOLEAN, exact : BOOLEAN]
           e == [s EXCEPT !.exact = b]
<1>1. s \in R /\ Tree(s.disk)
  BY DEF Attempts
<1>2. e \in R /\ e.disk = s.disk /\ e.ok = s.ok
  BY <1>1
<1> HIDE DEF e
<1>3. e \in Attempts
  BY <1>1, <1>2 DEF Attempts
<1> QED
  BY <1>2, <1>3 DEF e

LEMMA OpIs ==
  ASSUME NEW o \in Ops, o # NoOp
  PROVE  /\ Len(o.items) \in Nat /\ DOMAIN o.items = 1 .. Len(o.items)
         /\ \A i \in 1 .. Len(o.items) : o.items[i].dst \in Path
         /\ o.kind \notin {"create_file", "create_dir"} => \A i \in 1 .. Len(o.items) : o.items[i].src \in Path
         /\ o.kind \in {"create_file", "create_dir", "copy"} =>
              \E dir \in Comps : Under(o.items, dir)
         /\ o.kind \in {"create_file", "create_dir", "copy", "rename", "move", "delete"}
<1>1. CASE o \in Moves \cup Copies
  <2>1. o.items \in Seq(Moved) /\ o.kind \in {"copy", "rename", "move", "delete"}
    BY <1>1 DEF Moves, Copies
  <2>2. /\ Len(o.items) \in Nat /\ DOMAIN o.items = 1 .. Len(o.items)
        /\ \A i \in 1 .. Len(o.items) : o.items[i] \in Moved
    BY <2>1, LenProperties, ElementOfSeq
  <2>3. \A i \in 1 .. Len(o.items) : o.items[i].dst \in Path /\ o.items[i].src \in Path
    BY <2>2 DEF Moved
  <2>4. o.kind = "copy" => Together(o.items)
    BY DEF Ops, Moves, Creations, NoOp
  <2> QED  BY <2>1, <2>2, <2>3, <2>4 DEF Together
<1>2. CASE o \in Creations
  <2>1. o.items \in Seq(Made) /\ o.kind \in {"create_file", "create_dir"}
    BY <1>2 DEF Creations
  <2>2. /\ Len(o.items) \in Nat /\ DOMAIN o.items = 1 .. Len(o.items)
        /\ \A i \in 1 .. Len(o.items) : o.items[i] \in Made
    BY <2>1, LenProperties, ElementOfSeq
  <2>3. \A i \in 1 .. Len(o.items) : o.items[i].dst \in Path
    BY <2>2 DEF Made
  <2>4. Together(o.items)
    BY <2>1 DEF Ops, Moves, NoOp
  <2> QED  BY <2>1, <2>2, <2>3, <2>4 DEF Together
<1> QED
  BY <1>1, <1>2 DEF Ops

(* Redo puts things only where nothing is.                                     *)
LEMMA RedoneIs ==
  ASSUME Tree(disk), redo \in Ops, redo # NoOp, NEW t \in Redone
  PROVE  t \in Attempts /\ Kept(disk, t.disk, {})
<1> DEFINE G == {x \in Attempts : Kept(disk, x.disk, {})}
           n == Len(redo.items)
<1>1. /\ n \in Nat /\ DOMAIN redo.items = 1 .. n
      /\ \A i \in 1 .. n : redo.items[i].dst \in Path
      /\ redo.kind \notin {"create_file", "create_dir"} => \A i \in 1 .. n : redo.items[i].src \in Path
  BY OpIs
<1>2. Attempt(disk, TRUE, TRUE) \in G
  <2>1. Attempt(disk, TRUE, TRUE) \in Attempts /\ Attempt(disk, TRUE, TRUE).disk = disk
    BY AttemptIs
  <2>2. Kept(disk, disk, {})  BY KeptItself
  <2> QED  BY <2>1, <2>2
<1>3. ASSUME NEW x \in G, NEW i \in 1 .. n, NEW r \in ForthOne(x, redo.items[i]) PROVE r \in G
  <2>1. CASE r = x  BY <2>1
  <2>2. CASE r # x
    <3> DEFINE item == redo.items[i]
    <3>1. PICK s \in Forward(redo.kind, x.disk, item) : r = [s EXCEPT !.exact = s.exact /\ x.exact]
      BY <2>2 DEF ForthOne
    <3>2. x \in Attempts /\ Kept(disk, x.disk, {}) /\ Tree(x.disk)  BY DEF Attempts
    <3>a. item.dst \in Path /\ (redo.kind \notin {"create_file", "create_dir"} => item.src \in Path)
      BY <1>1
    <3> HIDE DEF G, item
    <3>3. s \in Attempts /\ Kept(x.disk, s.disk, {})
      <4>1. CASE redo.kind = "create_file"
        <5>1. s \in Create(x.disk, item.dst, Empty)  BY <3>1, <4>1 DEF Forward
        <5> QED  BY <3>2, <3>a, <5>1, CreateIs
      <4>2. CASE redo.kind = "create_dir"
        <5>1. s \in Create(x.disk, item.dst, Dir)  BY <3>1, <4>2 DEF Forward
        <5> QED  BY <3>2, <3>a, <5>1, CreateIs
      <4>3. CASE redo.kind = "copy"
        <5>1. s \in CopyPath(x.disk, item.src, item.dst)  BY <3>1, <4>3 DEF Forward
        <5> QED  BY <3>2, <3>a, <4>3, <5>1, CopyPathIs
      <4>4. CASE redo.kind \notin {"create_file", "create_dir", "copy"}
        <5>1. s \in MovePath(x.disk, item.src, item.dst)  BY <3>1, <4>4 DEF Forward
        <5> QED  BY <3>2, <3>a, <4>4, <5>1, MovePathIs
      <4> QED  BY <4>1, <4>2, <4>3, <4>4
    <3> DEFINE b == s.exact /\ x.exact
    <3>4. b \in BOOLEAN /\ r = [s EXCEPT !.exact = b]  BY <3>1
    <3> HIDE DEF b
    <3>5. r \in Attempts /\ r.disk = s.disk  BY <3>3, <3>4, Exactly
    <3>6. Kept(disk, r.disk, {})  BY <3>2, <3>3, <3>5, KeptFurther
    <3> QED  BY <3>5, <3>6 DEF G
  <2> QED  BY <2>1, <2>2
<1>4. \A x \in G, i \in 1 .. n : ForthOne(x, redo.items[i]) \subseteq G
  <2> HIDE DEF G
  <2> QED  BY <1>3
<1>5. t \in G
  <2> HIDE DEF G
  <2>1. PICK g \in [0 .. n -> SUBSET G] : Redone = g[n]
    BY <1>1, <1>2, <1>4, RedoneInSteps
  <2> QED  BY <1>1, <2>1
<1> QED
  BY <1>5

(* Undo of a move puts things only where nothing is.                           *)
LEMMA UndoneMoves ==
  ASSUME Tree(disk), undo \in Ops, undo # NoOp,
         undo.kind \notin {"create_file", "create_dir", "copy"}, NEW t \in Undone
  PROVE  t \in Attempts /\ Kept(disk, t.disk, {})
<1> DEFINE G == {x \in Attempts : Kept(disk, x.disk, {})}
           n == Len(undo.items)
<1>1. /\ n \in Nat /\ DOMAIN undo.items = 1 .. n
      /\ \A i \in 1 .. n : undo.items[i].dst \in Path /\ undo.items[i].src \in Path
  BY OpIs
<1>2. Attempt(disk, TRUE, TRUE) \in G
  <2>1. Attempt(disk, TRUE, TRUE) \in Attempts /\ Attempt(disk, TRUE, TRUE).disk = disk
    BY AttemptIs
  <2>2. Kept(disk, disk, {})  BY KeptItself
  <2> QED  BY <2>1, <2>2
<1>3. ASSUME NEW x \in G, NEW i \in 1 .. n, NEW r \in BackOne(x, undo.items[i]) PROVE r \in G
  <2>1. CASE r = x  BY <2>1
  <2>2. CASE r # x
    <3> DEFINE item == undo.items[i]
    <3>1. PICK s \in Backward(undo.kind, x.disk, item) : r = [s EXCEPT !.exact = s.exact /\ x.exact]
      BY <2>2 DEF BackOne
    <3>2. x \in Attempts /\ Kept(disk, x.disk, {}) /\ Tree(x.disk)  BY DEF Attempts
    <3>a. item.dst \in Path /\ item.src \in Path
      BY <1>1
    <3> HIDE DEF G, item
    <3>3. s \in Attempts /\ Kept(x.disk, s.disk, {})
      <4>1. s \in MovePath(x.disk, item.dst, item.src)  BY <3>1 DEF Backward
      <4> QED  BY <3>2, <3>a, <4>1, MovePathIs
    <3> DEFINE b == s.exact /\ x.exact
    <3>4. b \in BOOLEAN /\ r = [s EXCEPT !.exact = b]  BY <3>1
    <3> HIDE DEF b
    <3>5. r \in Attempts /\ r.disk = s.disk  BY <3>3, <3>4, Exactly
    <3>6. Kept(disk, r.disk, {})  BY <3>2, <3>3, <3>5, KeptFurther
    <3> QED  BY <3>5, <3>6 DEF G
  <2> QED  BY <2>1, <2>2
<1>4. \A x \in G, i \in 1 .. n : BackOne(x, undo.items[i]) \subseteq G
  <2> HIDE DEF G
  <2> QED  BY <1>3
<1>5. t \in G
  <2> HIDE DEF G
  <2>1. PICK g \in [0 .. n -> SUBSET G] : Undone = g[n]
    BY <1>1, <1>2, <1>4, UndoneInSteps
  <2> QED  BY <1>1, <2>1
<1> QED
  BY <1>5

(* Nothing on the way to dir is a file.                                        *)
Clear(d, dir) == \A k \in 1 .. Len(dir) : At(d, SubSeq(dir, 1, k)) \in {Nothing, Dir}

LEMMA BlockedIs ==
  ASSUME NEW d, NEW p \in Path
  PROVE  Blocked(d, p) <=> ~Clear(d, Front(p))
<1> DEFINE f == Front(p)
<1>1. p \in Comps /\ Len(p) \in Nat /\ Len(p) > 0
  BY DEF Path
<1>2. f \in Comps /\ Len(f) = Len(p) - 1 /\ \A i \in 1 .. Len(p) - 1 : f[i] = p[i]
  BY <1>1, FrontMeans
<1> HIDE DEF f
<1>3. ASSUME NEW k \in 1 .. Len(p) - 1 PROVE SubSeq(p, 1, k) = SubSeq(f, 1, k)
  <2>1. k \in Int /\ 0 <= k /\ k <= Len(p) /\ k <= Len(f)  BY <1>1, <1>2
  <2> DEFINE a == SubSeq(p, 1, k)  b == SubSeq(f, 1, k)
  <2>2. a \in Comps /\ Len(a) = k /\ \A i \in 1 .. k : a[i] = p[i]  BY <1>1, <2>1, Beginning
  <2>3. b \in Comps /\ Len(b) = k /\ \A i \in 1 .. k : b[i] = f[i]  BY <1>2, <2>1, Beginning
  <2> HIDE DEF a, b
  <2>4. \A i \in 1 .. k : i \in 1 .. Len(p) - 1  BY <1>1
  <2>5. \A i \in 1 .. k : a[i] = b[i]  BY <1>2, <2>2, <2>3, <2>4
  <2>6. a = b  BY <2>2, <2>3, <2>5, SameSequence
  <2> QED  BY <2>6 DEF a, b
<1>4. Blocked(d, p) <=> ~Clear(d, f)
  BY <1>1, <1>2, <1>3 DEF Blocked, Clear
<1> QED
  BY <1>4 DEF f

(* Undo of a creation or of a copy removes what lies at or below a target, and *)
(* if it fails it has removed nothing.                                         *)
Remains(e) ==
  \A p \in DOMAIN disk :
    \/ p \in DOMAIN e /\ e[p] = disk[p]
    \/ \E i \in 1 .. Len(undo.items) : IsPrefix(undo.items[i].dst, p)

LEMMA UndoneMakings ==
  ASSUME Tree(disk), undo \in Ops, undo # NoOp,
         undo.kind \in {"create_file", "create_dir", "copy"}, NEW t \in Undone
  PROVE  t \in Attempts /\ Remains(t.disk) /\ (t.ok \/ t.disk = disk)
<1> DEFINE n == Len(undo.items)
<1>1. /\ n \in Nat /\ DOMAIN undo.items = 1 .. n
      /\ \A i \in 1 .. n : undo.items[i].dst \in Path
  BY OpIs
<1>2. PICK dir \in Comps : Under(undo.items, dir)
  BY OpIs
<1> DEFINE G == {x \in Attempts : /\ Remains(x.disk) /\ (x.ok \/ x.disk = disk)
                                  /\ x.disk = disk \/ Clear(x.disk, dir)}
<1>3. Attempt(disk, TRUE, TRUE) \in G
  <2>1. Attempt(disk, TRUE, TRUE) \in Attempts /\ Attempt(disk, TRUE, TRUE).disk = disk
    BY AttemptIs
  <2>2. Remains(disk)  BY DEF Remains
  <2> QED  BY <2>1, <2>2
<1>4. ASSUME NEW x \in G, NEW i \in 1 .. n, NEW r \in BackOne(x, undo.items[i]) PROVE r \in G
  <2>1. CASE r = x  BY <2>1
  <2>2. CASE r # x
    <3> DEFINE p == undo.items[i].dst
    <3>1. PICK s \in Backward(undo.kind, x.disk, undo.items[i]) : r = [s EXCEPT !.exact = s.exact /\ x.exact]
      BY <2>2 DEF BackOne
    <3>2. /\ x \in Attempts /\ Remains(x.disk) /\ (x.ok \/ x.disk = disk)
          /\ x.disk = disk \/ Clear(x.disk, dir)
      OBVIOUS
    <3>3. Tree(x.disk) /\ x.disk \in Disks  BY <3>2 DEF Attempts
    <3>4. p \in Path /\ p \in Comps /\ Front(p) = dir  BY <1>1, <1>2 DEF Under, Path
    <3>5. s \in RemovePath(x.disk, p)  BY <3>1 DEF Backward
    <3>6. \A q : IsPrefix(p, q) => \E j \in 1 .. n : IsPrefix(undo.items[j].dst, q)
      OBVIOUS
    <3> HIDE DEF G, p
    <3>7. /\ s \in Attempts /\ s.disk \in {x.disk, Without(x.disk, p)}
          /\ IF Blocked(x.disk, p) THEN s.ok = FALSE /\ s.disk = x.disk ELSE s.ok = TRUE
      BY <3>3, <3>4, <3>5, RemovePathIs
    <3> DEFINE b == s.exact /\ x.exact  w == Without(x.disk, p)
    <3>8. b \in BOOLEAN /\ r = [s EXCEPT !.exact = b]  BY <3>1
    <3> HIDE DEF b
    <3>9. r \in Attempts /\ r.disk = s.disk /\ r.ok = s.ok  BY <3>7, <3>8, Exactly
    <3>10. Blocked(x.disk, p) <=> ~Clear(x.disk, dir)  BY <3>4, BlockedIs
    <3>11. /\ \A q : q \in DOMAIN w <=> q \in DOMAIN x.disk /\ ~IsPrefix(p, q)
           /\ \A q \in DOMAIN w : w[q] = x.disk[q]
      BY <3>3, <3>4, WithoutIs
    <3> HIDE DEF w
    <3>12. Clear(x.disk, dir) => Clear(w, dir)
      BY <3>11 DEF Clear, At
    <3>13. Remains(w)
      BY <3>2, <3>6, <3>11 DEF Remains
    <3>14. CASE Blocked(x.disk, p)
      <4>1. x.disk = disk /\ r.disk = disk  BY <3>2, <3>7, <3>9, <3>10, <3>14
      <4>2. Remains(r.disk)  BY <3>2, <4>1
      <4> QED  BY <3>9, <4>1, <4>2 DEF G
    <3>15. CASE ~Blocked(x.disk, p)
      <4>1. r.ok = TRUE  BY <3>7, <3>9, <3>15
      <4>2. Clear(x.disk, dir)  BY <3>10, <3>15
      <4>3. r.disk = x.disk \/ r.disk = w  BY <3>7, <3>9 DEF w
      <4>4. Clear(r.disk, dir) /\ Remains(r.disk)  BY <3>2, <3>12, <3>13, <4>2, <4>3
      <4> QED  BY <3>9, <4>1, <4>4 DEF G
    <3> QED  BY <3>14, <3>15
  <2> QED  BY <2>1, <2>2
<1>5. \A x \in G, i \in 1 .. n : BackOne(x, undo.items[i]) \subseteq G
  <2> HIDE DEF G
  <2> QED  BY <1>4
<1>6. t \in G
  <2> HIDE DEF G
  <2>1. PICK g \in [0 .. n -> SUBSET G] : Undone = g[n]
    BY <1>1, <1>3, <1>5, UndoneInSteps
  <2> QED  BY <1>1, <2>1
<1> QED
  BY <1>6

-----------------------------------------------------------------------------
(* What steps keep.                                                         *)

(* A step that loses nothing but what ContentsSurvive allows.                  *)
Survives ==
  \A p \in DOMAIN disk : Lost(p) =>
       \/ Quit /\ p[1] \in {"store", "trash"}
       \/ p[1] = "store" /\ clip'.op = "cut" /\ ~clip'.multi /\ undo'.kind = "move"
       \/ undo'.kind \in {"create_file", "rename"} /\ undo'.items[1].dst = p
       \/ p[1] = "cwd" /\ Unmade(p)
       \/ /\ p[1] = "cwd" /\ "others" \in Env /\ At(disk', p) # disk[p]
          /\ undo' = undo /\ listed' = listed

LEMMA LostAreNotKept ==
  ASSUME NEW S, Kept(disk, disk', S), NEW p \in DOMAIN disk, Lost(p)
  PROVE  p \in S
BY DEF Kept, Lost

LEMMA NothingLost ==
  ASSUME Kept(disk, disk', {})
  PROVE  Survives
BY LostAreNotKept DEF Survives

LEMMA ListingIs ==
  ASSUME NEW d
  PROVE  Listing(d) \in Listings
<1> DEFINE N == {m \in FileNames : At(d, Cwd(m)) # Nothing}
<1>1. N \in SUBSET FileNames
  OBVIOUS
<1>2. Listing(d) \in [N -> BOOLEAN]
  BY DEF Listing
<1> QED
  BY <1>1, <1>2 DEF Listings

LEMMA ListedAreNames ==
  ASSUME listed \in Listings
  PROVE  DOMAIN listed \subseteq FileNames /\ \A n \in DOMAIN listed : listed[n] \in BOOLEAN
BY DEF Listings

LEMMA ViewIs ==
  ASSUME listed \in Listings, NEW shown \in InView
  PROVE  /\ shown \in Seq(FileNames) /\ Len(shown) \in Nat /\ DOMAIN shown = 1 .. Len(shown)
         /\ \A i \in 1 .. Len(shown) : shown[i] \in FileNames /\ shown[i] \in DOMAIN listed
<1>1. DOMAIN listed \subseteq FileNames /\ IsFiniteSet(FileNames)
  <2>1. IsFiniteSet({"cwd"})  BY FS_Singleton
  <2>2. IsFiniteSet(Names \cup {"cwd"})  BY <2>1, NamesFinite, FS_Union
  <2> QED  BY <2>2, ListedAreNames DEF FileNames
<1>2. PICK s \in SUBSET (DOMAIN listed) : shown \in SetToSeqs(s)
  BY DEF InView, SetToAllKPermutations
<1>3. IsFiniteSet(s) /\ s \subseteq FileNames
  BY <1>1, FS_Subset
<1>4. Cardinality(s) \in Nat
  BY <1>3, FS_CardinalityType
<1>5. shown \in [1 .. Cardinality(s) -> s]
  BY <1>2 DEF SetToSeqs
<1>6. shown \in Seq(FileNames) /\ \A i \in DOMAIN shown : shown[i] \in DOMAIN listed
  BY <1>3, <1>4, <1>5
<1> QED
  BY <1>6, LenProperties, ElementOfSeq

(* What is recorded can be undone.                                             *)
LEMMA RecordedMoves ==
  ASSUME NEW kind \in {"rename", "move", "delete"}, NEW items \in Seq(Moved), NEW w,
         Record(kind, items, w)
  PROVE  HistoryOK(undo', redo', exact') /\ undo'.kind = kind /\ undo'.items = items
<1>1. undo' = [kind |-> kind, items |-> items] /\ redo' = NoOp
      /\ exact' = (w /\ Unnested(items))
  BY DEF Record
<1>2. undo' \in Moves /\ undo'.kind = kind /\ undo'.items = items
  BY <1>1 DEF Moves
<1>3. exact' \in BOOLEAN
  BY <1>1
<1> QED
  BY <1>1, <1>2, <1>3 DEF HistoryOK, Ops

LEMMA RecordedCopies ==
  ASSUME NEW items \in Seq(Moved), NEW dir \in Comps, Under(items, dir), NEW w,
         Record("copy", items, w)
  PROVE  HistoryOK(undo', redo', exact')
<1>1. undo' = [kind |-> "copy", items |-> items] /\ redo' = NoOp
      /\ exact' = (w /\ Unnested(items))
  BY DEF Record
<1>2. undo' \in Copies /\ undo'.items = items
  BY <1>1 DEF Copies
<1>3. exact' \in BOOLEAN
  BY <1>1
<1>4. Together(items)
  BY DEF Together
<1> QED
  BY <1>1, <1>2, <1>3, <1>4 DEF HistoryOK, Ops

LEMMA RecordedCreation ==
  ASSUME NEW kind \in {"create_file", "create_dir"}, NEW p \in Path, p[1] = "cwd", NEW w,
         RecordOne(kind, Nothing, p, w)
  PROVE  HistoryOK(undo', redo', exact') /\ undo'.kind = kind /\ undo'.items[1].dst = p
<1> DEFINE m == [src |-> Nothing, dst |-> p]  items == << m >>
<1>1. undo' = [kind |-> kind, items |-> items] /\ redo' = NoOp
      /\ exact' = (w /\ Unnested(items))
  BY DEF Record, RecordOne
<1>2. m \in Made /\ m.dst = p
  BY DEF Made
<1> HIDE DEF m
<1>3. items \in Seq(Made) /\ Len(items) = 1 /\ items[1] = m
  BY <1>2
<1> HIDE DEF items
<1>4. undo' \in Creations /\ undo'.kind = kind /\ undo'.items = items
  BY <1>1, <1>3 DEF Creations
<1>5. exact' \in BOOLEAN
  BY <1>1
<1>6. Together(items)
  <2>1. Front(p) \in Comps  BY ParentIs
  <2>2. \A i \in 1 .. Len(items) : items[i] = m  BY <1>3
  <2>3. Under(items, Front(p))  BY <1>2, <2>2 DEF Under
  <2> QED  BY <2>1, <2>3 DEF Together
<1>7. undo'.items[1].dst = p
  BY <1>2, <1>3, <1>4
<1> QED
  BY <1>1, <1>4, <1>5, <1>6, <1>7 DEF HistoryOK, Ops

LEMMA RecordedTry ==
  ASSUME FilesInv, NEW t \in Tries, NEW kind, RecordTry(kind, t),
         kind \in {"move", "delete"} \/ (kind = "copy" /\ \E dir \in Comps : Under(t.items, dir))
  PROVE  disk' = t.disk /\ Tree(disk') /\ HistoryOK(undo', redo', exact')
<1>1. disk' = t.disk /\ Tree(disk')
  BY TryIs DEF RecordTry
<1>2. CASE t.items = << >>
  BY <1>1, <1>2 DEF RecordTry, history, FilesInv, HistoryOK
<1>3. CASE t.items # << >>
  <2>1. Record(kind, t.items, t.exact) /\ t.items \in Seq(Moved)  BY <1>3, TryIs DEF RecordTry
  <2>2. CASE kind \in {"move", "delete"}  BY <1>1, <2>1, <2>2, RecordedMoves
  <2>3. CASE kind = "copy" /\ \E dir \in Comps : Under(t.items, dir)
    BY <1>1, <2>1, <2>3, RecordedCopies
  <2> QED  BY <2>2, <2>3
<1> QED
  BY <1>2, <1>3

LEMMA Spent ==
  ASSUME FilesInv, Spend
  PROVE  budget' \in 0 .. MaxOps
<1>1. budget \in 0 .. MaxOps
  BY DEF FilesInv
<1>2. budget > 0 /\ budget' = budget - 1
  BY DEF Spend
<1> QED
  BY <1>1, <1>2, MaxOpsInNat

-----------------------------------------------------------------------------
(* The keys.                                                                   *)
LEMMA SelectedIs ==
  ASSUME listed \in Listings, NEW p \in Selected
  PROVE  p \in Path /\ Last(p) \in FileNames /\ NameOf(p) \in FileNames \cup {""} /\ ~IsPrefix(p, Store)
<1>1. Len(Store) = 1 /\ Store[1] = "store" /\ Store \in Comps
  BY DEF Store, Comps, Comp
<1> HIDE DEF Store
<1>2. CASE p = Here
  <2>1. p \in Path /\ p \in Comps /\ Len(p) = 1 /\ p[1] = "cwd" /\ Last(p) = "cwd"
    BY <1>2, TopsArePaths
  <2>2. ~IsPrefix(p, Store)  BY <1>1, <2>1, PrefixOrder
  <2> QED  BY <1>2, <2>1, <2>2 DEF FileNames, NameOf
<1>3. CASE p # Here
  <2>1. PICK n \in DOMAIN listed : p = Cwd(n)  BY <1>3 DEF Selected
  <2>2. n \in FileNames  BY <2>1, ListedAreNames
  <2>3. p \in Path /\ Last(p) = n  BY <2>1, <2>2, PlacesArePaths
  <2>4. Len(p) = 2  BY <2>1 DEF Cwd
  <2>5. ~IsPrefix(p, Store)  BY <1>1, <2>4 DEF IsPrefix
  <2> QED  BY <1>3, <2>2, <2>3, <2>5 DEF NameOf
<1> QED
  BY <1>2, <1>3

LEMMA OneIs ==
  ASSUME NEW op \in {"copy", "cut"}, NEW p \in Path, Last(p) \in FileNames
  PROVE  One(op, p) \in Clips /\ One(op, p).op = op /\ One(op, p).multi = FALSE
<1> DEFINE b == At(disk, p) = Dir
           i == [src |-> p, isDir |-> b, name |-> Last(p)]
           items == << i >>
<1>1. b \in BOOLEAN
  OBVIOUS
<1>2. i \in Clipped
  <2> HIDE DEF b
  <2> QED  BY <1>1 DEF Clipped
<1>3. One(op, p) = [op |-> op, multi |-> FALSE, items |-> items]
  BY DEF One
<1> HIDE DEF i
<1>4. items \in Seq(Clipped)
  BY <1>2
<1> HIDE DEF items
<1> QED
  BY <1>3, <1>4 DEF Clips

LEMMA CopyKeySafe ==
  ASSUME FilesInv, NEW p \in Selected, CopyKey(p)
  PROVE  FilesInv' /\ Survives
<1>1. p \in Path /\ Last(p) \in FileNames /\ NameOf(p) \in FileNames \cup {""}
  BY SelectedIs DEF FilesInv
<1>2. Tree(disk') /\ listed' \in Listings /\ HistoryOK(undo', redo', exact')
      /\ copied' \in FileNames \cup {"none", "MULTI", ""} /\ budget' \in 0 .. MaxOps
  BY <1>1, Spent DEF CopyKey, history, FilesInv
<1>3. clip' \in Clips
  BY <1>1, OneIs DEF CopyKey, FilesInv
<1>4. Survives
  BY KeptItself, NothingLost DEF CopyKey
<1> QED
  BY <1>2, <1>3, <1>4 DEF FilesInv

LEMMA CopyAllKeySafe ==
  ASSUME FilesInv, NEW shown \in InView, CopyAllKey(shown)
  PROVE  FilesInv' /\ Survives
<1>1. Tree(disk') /\ listed' \in Listings /\ HistoryOK(undo', redo', exact')
      /\ copied' \in FileNames \cup {"none", "MULTI", ""} /\ budget' \in 0 .. MaxOps
  BY Spent DEF CopyAllKey, history, FilesInv
<1> DEFINE items == [i \in DOMAIN shown |->
                       [src |-> Cwd(shown[i]), isDir |-> listed[shown[i]], name |-> shown[i]]]
<1>2. items \in Seq(Clipped)
  <2>1. /\ Len(shown) \in Nat /\ DOMAIN shown = 1 .. Len(shown)
        /\ \A i \in 1 .. Len(shown) : shown[i] \in FileNames /\ shown[i] \in DOMAIN listed
    BY ViewIs DEF FilesInv
  <2>2. ASSUME NEW i \in 1 .. Len(shown)
        PROVE  [src |-> Cwd(shown[i]), isDir |-> listed[shown[i]], name |-> shown[i]] \in Clipped
    <3>1. shown[i] \in FileNames /\ Cwd(shown[i]) \in Path /\ listed[shown[i]] \in BOOLEAN
      BY <2>1, ListedAreNames, PlacesArePaths DEF FilesInv
    <3> QED  BY <3>1 DEF Clipped
  <2>3. items \in [1 .. Len(shown) -> Clipped]  BY <2>1, <2>2
  <2> HIDE DEF items
  <2> QED  BY <2>1, <2>3
<1>3. clip' = [op |-> "copy", multi |-> TRUE, items |-> items]
  BY DEF CopyAllKey
<1> HIDE DEF items
<1>4. clip' \in Clips
  BY <1>2, <1>3 DEF Clips
<1>5. Survives
  BY KeptItself, NothingLost DEF CopyAllKey
<1> QED
  BY <1>1, <1>4, <1>5 DEF FilesInv

(* mv leaves what does not lie at or below its source.                         *)
LEMMA MvStays ==
  ASSUME NEW d, Tree(d), NEW src \in Path, NEW dst \in Path, NEW x \in DOMAIN d, ~IsPrefix(src, x)
  PROVE  x \in DOMAIN Mv(d, src, dst)
<1> DEFINE to == IF At(d, dst) = Dir THEN Append(dst, Last(src)) ELSE dst
           g == Grafted(d, src, to)
<1>1. Mv(d, src, dst) = IF CanReplace(d, src, to) THEN Without(g, src) ELSE d
  BY DEF Mv, Renamed
<1>2. to \in Path /\ d \in Disks /\ src \in Comps
  <2>1. Append(dst, Last(src)) \in Comps /\ IsPrefix(dst, Append(dst, Last(src)))
    BY LastIs, AppendPath DEF Path
  <2>2. Append(dst, Last(src)) \in Path  BY <2>1, BelowAPath
  <2> QED  BY <2>2 DEF Tree, Path
<1> HIDE DEF to
<1>3. g \in Disks /\ x \in DOMAIN g
  <2>1. /\ Grafted(d, src, to) \in Disks
        /\ DOMAIN Grafted(d, src, to) = DOMAIN d \cup {Carried(q, src, to) : q \in Below(d, src)}
    BY <1>2, GraftedIs
  <2> QED  BY <2>1
<1> HIDE DEF g
<1>4. x \in DOMAIN Without(g, src)
  BY <1>2, <1>3, WithoutIs
<1> QED
  BY <1>1, <1>4

LEMMA CutKeySafe ==
  ASSUME FilesInv, NEW src \in Selected, CutKey(src)
  PROVE  FilesInv' /\ Survives
<1>0. /\ src \in Path /\ Last(src) \in FileNames /\ NameOf(src) \in FileNames \cup {""}
      /\ ~IsPrefix(src, Store)
  BY SelectedIs DEF FilesInv
<1>1. listed' \in Listings /\ copied' \in FileNames \cup {"none", "MULTI", ""} /\ budget' \in 0 .. MaxOps
      /\ Tree(disk)
  BY <1>0, Spent, ListingIs DEF CutKey, FilesInv
<1>2. CASE At(disk, src) = Nothing
  <2>1. disk' = disk /\ clip' = clip /\ undo' = undo /\ redo' = redo /\ exact' = exact
    BY <1>2 DEF CutKey, history
  <2> QED  BY <1>1, <2>1, KeptItself, NothingLost DEF FilesInv
<1>3. CASE At(disk, src) # Nothing
  <2>1. clip' \in Clips /\ clip'.op = "cut" /\ clip'.multi = FALSE
    BY <1>0, <1>3, OneIs DEF CutKey
  <2>2. PICK t \in RanMv(Start(disk), src, Store) :
          /\ disk' = t.disk
          /\ IF At(t.disk, Store) = Nothing THEN UNCHANGED history
             ELSE Record("move", t.items, t.exact)
    BY <1>3 DEF CutKey
  <2>3. Start(disk) \in Tries /\ Start(disk).disk = disk /\ src \in Path /\ Store \in Path
    <3>1. "cwd" \in FileNames  BY DEF FileNames
    <3> QED  BY <1>0, <1>1, <3>1, StartIs, PlacesArePaths
  <2>4. /\ t \in Tries
        /\ Kept(disk, disk', {x \in DOMAIN disk : IsPrefix(Store, x)})
        /\ At(disk, Store) = Nothing => Kept(disk, disk', {})
    BY <2>2, <2>3, RanMvIs
  <2>5. Tree(disk') /\ t.items \in Seq(Moved)  BY <2>2, <2>4, TryIs
  <2>6. CASE At(disk', Store) = Nothing
    <3>1. undo' = undo /\ redo' = redo /\ exact' = exact  BY <2>2, <2>6 DEF history
    <3>2. At(disk, Store) = Nothing
      <4> SUFFICES ASSUME At(disk, Store) # Nothing PROVE FALSE  OBVIOUS
      <4>1. Store \in DOMAIN disk  BY <1>1, AtIs DEF Tree
      <4>2. ~IsPrefix(src, Store)  BY <1>0
      <4>3. Store \in DOMAIN Mv(disk, src, Store)  BY <1>1, <2>3, <4>1, <4>2, MvStays
      <4>4. t.disk \in {disk, Mv(disk, src, Store)}
        BY <2>2, <2>3, OutcomesAre DEF RanMv, Ran
      <4>5. Store \in DOMAIN disk' /\ disk' \in Disks  BY <2>2, <2>5, <4>1, <4>3, <4>4 DEF Tree
      <4> QED  BY <2>6, <4>5, AtIs
    <3>3. Survives  BY <2>4, <3>2, NothingLost
    <3> QED  BY <1>1, <2>1, <2>5, <3>1, <3>3 DEF FilesInv
  <2>7. CASE At(disk', Store) # Nothing
    <3>1. HistoryOK(undo', redo', exact') /\ undo'.kind = "move"
      BY <2>2, <2>5, <2>7, RecordedMoves
    <3>2. ASSUME NEW p \in DOMAIN disk, Lost(p) PROVE p[1] = "store"
      <4>1. IsPrefix(Store, p)  BY <2>4, <3>2, LostAreNotKept
      <4>2. p \in Comps /\ Store \in Comps /\ Len(Store) = 1 /\ Store[1] = "store"
        BY <1>1, <2>3, DiskIs DEF Tree, Path, Store
      <4>3. \A i \in 1 .. Len(Store) : Store[i] = p[i]  BY <4>1, <4>2, PrefixMeans
      <4>4. 1 \in 1 .. Len(Store)  BY <4>2
      <4> HIDE DEF Store
      <4> QED  BY <4>2, <4>3, <4>4
    <3>3. Survives  BY <2>1, <3>1, <3>2 DEF Survives
    <3> QED  BY <1>1, <2>1, <2>5, <3>1, <3>3 DEF FilesInv
  <2> QED  BY <2>6, <2>7
<1> QED
  BY <1>2, <1>3

LEMMA CutAllKeySafe ==
  ASSUME FilesInv, NEW shown \in InView, CutAllKey(shown)
  PROVE  FilesInv' /\ Survives
<1> DEFINE d == IF At(disk, Store) = Nothing THEN Put(disk, Store, Dir) ELSE disk
<1>1. PICK t \in CutTries(d, shown) :
        /\ RecordTry("move", t)
        /\ clip' = [op |-> "cut", multi |-> TRUE,
                    items |-> [i \in DOMAIN shown |->
                      [src |-> t.items[i].dst, isDir |-> listed[shown[i]], name |-> shown[i]]]]
        /\ listed' = Listing(t.disk)
  BY Zenon DEF CutAllKey, CutTries, CutOne, Each, FoldLeft, MapThenFoldSet
<1>2. copied' \in FileNames \cup {"none", "MULTI", ""} /\ budget' \in 0 .. MaxOps /\ Tree(disk)
  BY Spent DEF CutAllKey, FilesInv
<1>3. Store \in Path /\ InDir(disk, Store) /\ Dir \in Values /\ Nothing # Dir /\ Nothing \notin Contents
  <2>1. "cwd" \in FileNames  BY DEF FileNames
  <2>2. Store \in Path  BY <2>1, PlacesArePaths
  <2>3. Len(Store) = 1  BY DEF Store
  <2>4. Store \in Comps /\ Len(Store) > 0  BY <2>2, <2>3 DEF Path
  <2>5. Front(Store) \in Comps /\ Len(Front(Store)) = 0  BY <2>3, <2>4, FrontMeans
  <2>6. Front(Store) = << >>  BY <2>5, EmptySeq DEF Comps
  <2> QED  BY <2>2, <2>6, ValuesDiffer DEF InDir, Roots, Nothing, Dir
<1>4. Tree(d) /\ Kept(disk, d, {})
  <2>1. CASE At(disk, Store) = Nothing
    <3>1. Tree(Put(disk, Store, Dir))  BY <1>2, <1>3, <2>1, PutIsATree
    <3>2. disk \in Disks  BY <1>2 DEF Tree
    <3>3. Kept(disk, Put(disk, Store, Dir), {})  BY <1>3, <2>1, <3>2, PutKeeps
    <3> QED  BY <2>1, <3>1, <3>3
  <2>2. CASE At(disk, Store) # Nothing
    BY <1>2, <2>2, KeptItself
  <2> QED  BY <2>1, <2>2
<1> HIDE DEF d
<1>5. /\ shown \in Seq(FileNames) /\ Len(shown) \in Nat /\ DOMAIN shown = 1 .. Len(shown)
      /\ \A i \in 1 .. Len(shown) : shown[i] \in FileNames /\ shown[i] \in DOMAIN listed
  BY ViewIs DEF FilesInv
<1>6. t \in Tries /\ Kept(d, t.disk, {}) /\ Len(t.items) = Len(shown)
  BY <1>4, <1>5, CutIs
<1>7. disk' = t.disk /\ Tree(disk') /\ HistoryOK(undo', redo', exact')
  BY <1>1, <1>6, RecordedTry
<1>8. Survives
  BY <1>4, <1>6, <1>7, KeptFurther, NothingLost
<1>9. clip' \in Clips
  <2> DEFINE items == [i \in DOMAIN shown |->
                        [src |-> t.items[i].dst, isDir |-> listed[shown[i]], name |-> shown[i]]]
  <2>1. ASSUME NEW i \in 1 .. Len(shown)
        PROVE  [src |-> t.items[i].dst, isDir |-> listed[shown[i]], name |-> shown[i]] \in Clipped
    <3>1. t.items[i] \in Moved  BY <1>6, TryIs, ElementOfSeq
    <3>2. t.items[i].dst \in Path  BY <3>1 DEF Moved
    <3>3. shown[i] \in FileNames /\ listed[shown[i]] \in BOOLEAN  BY <1>5, ListedAreNames DEF FilesInv
    <3> QED  BY <3>2, <3>3 DEF Clipped
  <2>2. items \in [1 .. Len(shown) -> Clipped]  BY <1>5, <2>1
  <2>3. clip' = [op |-> "cut", multi |-> TRUE, items |-> items]  BY <1>1
  <2> HIDE DEF items
  <2>4. items \in Seq(Clipped)  BY <1>5, <2>2
  <2> QED  BY <2>3, <2>4 DEF Clips
<1>10. listed' \in Listings
  BY <1>1, ListingIs
<1> QED
  BY <1>2, <1>7, <1>8, <1>9, <1>10 DEF FilesInv

LEMMA PasteKeySafe ==
  ASSUME FilesInv, PasteKey
  PROVE  FilesInv' /\ Survives
<1>1. PICK t \in PasteTries :
        /\ RecordTry(IF clip.op = "cut" THEN "move" ELSE "copy", t)
        /\ listed' = Listing(t.disk)
  BY Zenon DEF PasteKey, PasteTries, PasteOne, Wanted, From, Each, FoldLeft, MapThenFoldSet
<1>2. budget' \in 0 .. MaxOps /\ clip' \in Clips /\ copied' \in FileNames \cup {"none", "MULTI", ""}
      /\ listed' \in Listings
  BY <1>1, Spent, ListingIs DEF PasteKey, FilesInv
<1>3. t \in Tries /\ Kept(disk, t.disk, {}) /\ Under(t.items, Here)
  BY PasteIs DEF FilesInv
<1>4. Here \in Comps
  BY TopsArePaths
<1>5. disk' = t.disk /\ Tree(disk') /\ HistoryOK(undo', redo', exact')
  <2> DEFINE kind == IF clip.op = "cut" THEN "move" ELSE "copy"
  <2>1. kind = "move" \/ kind = "copy"  OBVIOUS
  <2>2. RecordTry(kind, t)  BY <1>1
  <2> HIDE DEF kind
  <2> QED  BY <1>3, <1>4, <2>1, <2>2, RecordedTry
<1>6. Survives
  BY <1>3, <1>5, NothingLost
<1> QED
  BY <1>2, <1>5, <1>6 DEF FilesInv

LEMMA DeletesSafe ==
  ASSUME FilesInv, Spend, NEW paths, Len(paths) \in Nat, DOMAIN paths = 1 .. Len(paths),
         \A i \in 1 .. Len(paths) : paths[i] \in Path,
         Deletes(paths), UNCHANGED << clip, copied >>
  PROVE  FilesInv' /\ Survives
<1>1. PICK t \in TrashTries(paths) : RecordTry("delete", t) /\ listed' = Listing(t.disk)
  BY Zenon DEF Deletes, TrashTries, Each, FoldLeft, MapThenFoldSet
<1>2. budget' \in 0 .. MaxOps /\ clip' \in Clips /\ copied' \in FileNames \cup {"none", "MULTI", ""}
      /\ listed' \in Listings
  BY <1>1, Spent, ListingIs DEF FilesInv
<1>3. t \in Tries /\ Kept(disk, t.disk, {})
  BY TrashIs DEF FilesInv
<1>4. disk' = t.disk /\ Tree(disk') /\ HistoryOK(undo', redo', exact')
  BY <1>1, <1>3, RecordedTry
<1>5. Survives
  BY <1>3, <1>4, NothingLost
<1> QED
  BY <1>2, <1>4, <1>5 DEF FilesInv

LEMMA DeleteAllSafe ==
  ASSUME FilesInv, NEW shown \in InView, DeleteKey([i \in DOMAIN shown |-> Cwd(shown[i])])
  PROVE  FilesInv' /\ Survives
<1> DEFINE paths == [i \in DOMAIN shown |-> Cwd(shown[i])]
<1>1. /\ Len(shown) \in Nat /\ DOMAIN shown = 1 .. Len(shown)
      /\ \A i \in 1 .. Len(shown) : shown[i] \in FileNames
  BY ViewIs DEF FilesInv
<1>2. \A i \in 1 .. Len(shown) : Cwd(shown[i]) \in Path
  BY <1>1, PlacesArePaths
<1>3. paths \in [1 .. Len(shown) -> Path]
  BY <1>1, <1>2
<1>4. Spend /\ Deletes(paths) /\ UNCHANGED << clip, copied >>
  BY DEF DeleteKey
<1> HIDE DEF paths
<1>5. paths \in Seq(Path)
  BY <1>1, <1>3
<1>6. Len(paths) \in Nat /\ DOMAIN paths = 1 .. Len(paths) /\ \A i \in 1 .. Len(paths) : paths[i] \in Path
  BY <1>5, LenProperties, ElementOfSeq
<1> QED
  BY <1>4, <1>6, DeletesSafe

LEMMA DeleteKeySafe ==
  ASSUME FilesInv, NEW p \in Selected, DeleteKey(<< p >>)
  PROVE  FilesInv' /\ Survives
<1> DEFINE paths == << p >>
<1>1. Len(paths) \in Nat /\ DOMAIN paths = 1 .. Len(paths) /\ \A i \in 1 .. Len(paths) : paths[i] \in Path
  <2>1. p \in Path  BY SelectedIs DEF FilesInv
  <2> QED  BY <2>1
<1>2. Spend /\ Deletes(paths) /\ UNCHANGED << clip, copied >>
  BY DEF DeleteKey
<1> HIDE DEF paths
<1> QED
  BY <1>1, <1>2, DeletesSafe

LEMMA SomeArePaths ==
  ASSUME Tree(disk), NEW paths \in Some
  PROVE  Len(paths) \in Nat /\ DOMAIN paths = 1 .. Len(paths) /\ \A i \in 1 .. Len(paths) : paths[i] \in Path
<1> DEFINE inside == Below(disk, Here) \ {Here}
<1>1. \A p \in inside : p \in Path
  BY DiskIs, BelowIs DEF Tree
<1>2. (\E p \in inside : paths = << p >>) \/ \E p, q \in inside : paths = << p, q >>
  BY DEF Some
<1> HIDE DEF inside
<1>3. CASE \E p \in inside : paths = << p >>
  BY <1>1, <1>3
<1>4. CASE \E p, q \in inside : paths = << p, q >>
  <2>1. PICK p \in inside, q \in inside : paths = << p, q >>
    BY <1>4
  <2>2. p \in Path /\ q \in Path  BY <1>1
  <2> QED  BY <2>1, <2>2
<1> QED
  BY <1>2, <1>3, <1>4

LEMMA PluginDeleteSafe ==
  ASSUME FilesInv, NEW paths \in Some, PluginDelete(paths)
  PROVE  FilesInv' /\ Survives
BY SomeArePaths, DeletesSafe DEF PluginDelete, FilesInv

LEMMA PluginTransferSafe ==
  ASSUME FilesInv, NEW kind \in {"copy", "move"}, NEW paths \in Some,
         NEW dir \in {Here} \cup {Cwd(n) : n \in FileNames},
         PluginTransfer(kind, paths, dir)
  PROVE  FilesInv' /\ Survives
<1>1. PICK t \in TransferTries(kind, dir, paths) : RecordTry(kind, t) /\ listed' = Listing(t.disk)
  BY Zenon DEF PluginTransfer, TransferTries, TransferOne, Each, FoldLeft, MapThenFoldSet
<1>2. budget' \in 0 .. MaxOps /\ clip' \in Clips /\ copied' \in FileNames \cup {"none", "MULTI", ""}
      /\ listed' \in Listings
  BY <1>1, Spent, ListingIs DEF PluginTransfer, FilesInv
<1>3. dir \in Comps /\ dir # << >> /\ dir[1] = "cwd"
  <2>1. CASE dir = Here
    <3>1. Here \in Comps /\ Here # << >> /\ Here[1] = "cwd"  BY TopsArePaths, ParentIs DEF Roots
    <3> QED  BY <2>1, <3>1
  <2>2. CASE dir # Here
    <3>1. PICK n \in FileNames : dir = Cwd(n)  BY <2>2
    <3>2. dir \in Path /\ dir[1] = "cwd"  BY <3>1, PlacesArePaths
    <3>3. dir # << >>  BY <3>2, ParentIs DEF Roots
    <3> QED  BY <3>2, <3>3 DEF Path
  <2> QED  BY <2>1, <2>2
<1>4. t \in Tries /\ Kept(disk, t.disk, {}) /\ Under(t.items, dir)
  BY <1>3, SomeArePaths, TransferIs DEF FilesInv
<1>5. disk' = t.disk /\ Tree(disk') /\ HistoryOK(undo', redo', exact')
  BY <1>1, <1>3, <1>4, RecordedTry
<1>6. Survives
  BY <1>4, <1>5, NothingLost
<1> QED
  BY <1>2, <1>5, <1>6 DEF FilesInv

LEMMA RecordedRename ==
  ASSUME NEW src \in Path, NEW dst \in Path, NEW w, RecordOne("rename", src, dst, w)
  PROVE  HistoryOK(undo', redo', exact') /\ undo'.kind = "rename" /\ undo'.items[1].dst = dst
<1> DEFINE m == [src |-> src, dst |-> dst]  items == << m >>
<1>1. Record("rename", items, w)
  BY DEF RecordOne
<1>2. m \in Moved /\ m.dst = dst
  BY DEF Moved
<1> HIDE DEF m
<1>3. items \in Seq(Moved) /\ items[1] = m
  BY <1>2
<1> HIDE DEF items
<1>4. HistoryOK(undo', redo', exact') /\ undo'.kind = "rename" /\ undo'.items = items
  BY <1>1, <1>3, RecordedMoves
<1> QED
  BY <1>2, <1>3, <1>4

LEMMA RenameKeySafe ==
  ASSUME FilesInv, NEW src \in Selected, NEW dst \in Named \cup {Here, Beside}, RenameKey(src, dst)
  PROVE  FilesInv' /\ Survives
<1>1. budget' \in 0 .. MaxOps /\ clip' \in Clips /\ copied' \in FileNames \cup {"none", "MULTI", ""}
      /\ listed' \in Listings /\ Tree(disk)
  BY Spent, ListingIs DEF RenameKey, FilesInv
<1>2. src \in Path /\ dst \in Path
  BY SelectedIs, NamedArePaths, TopsArePaths DEF FilesInv
<1>3. \/ disk' = disk /\ RecordOne("rename", src, dst, TRUE)
      \/ /\ CanReplace(disk, src, dst) /\ disk' = Renamed(disk, src, dst)
         /\ RecordOne("rename", src, dst, At(disk, dst) = Nothing)
  BY DEF RenameKey
<1>4. HistoryOK(undo', redo', exact') /\ undo'.kind = "rename" /\ undo'.items[1].dst = dst
  <2>1. PICK w : RecordOne("rename", src, dst, w)
    <3>1. CASE RecordOne("rename", src, dst, TRUE)  BY <3>1
    <3>2. CASE RecordOne("rename", src, dst, At(disk, dst) = Nothing)  BY <3>2
    <3> QED  BY <1>3, <3>1, <3>2
  <2> QED  BY <1>2, <2>1, RecordedRename
<1>5. Tree(disk') /\ Kept(disk, disk', {dst})
  <2>1. CASE disk' = disk  BY <1>1, <2>1, KeptItself
  <2>2. CASE disk' # disk  BY <1>1, <1>2, <1>3, <2>2, RenamedIsATree
  <2> QED  BY <2>1, <2>2
<1>6. Survives
  <2>1. ASSUME NEW p \in DOMAIN disk, Lost(p) PROVE p = dst
    BY <1>5, <2>1, LostAreNotKept
  <2> QED  BY <1>2, <1>4, <2>1 DEF Survives
<1> QED
  BY <1>1, <1>4, <1>5, <1>6 DEF FilesInv

LEMMA CreateFileKeySafe ==
  ASSUME FilesInv, NEW p \in Named, CreateFileKey(p)
  PROVE  FilesInv' /\ Survives
<1>1. budget' \in 0 .. MaxOps /\ clip' \in Clips /\ copied' \in FileNames \cup {"none", "MULTI", ""}
      /\ listed' \in Listings /\ Tree(disk) /\ disk \in Disks
  BY Spent, ListingIs DEF CreateFileKey, FilesInv, Tree
<1>2. p \in Path /\ p[1] = "cwd" /\ Empty \in Values
  BY NamedArePaths, ValuesDiffer
<1>3. /\ InDir(disk, p) /\ At(disk, p) # Dir /\ disk' = Put(disk, p, Empty)
      /\ RecordOne("create_file", Nothing, p, At(disk, p) = Nothing)
  BY DEF CreateFileKey
<1>4. HistoryOK(undo', redo', exact') /\ undo'.kind = "create_file" /\ undo'.items[1].dst = p
  <2> DEFINE w == At(disk, p) = Nothing
  <2>1. RecordOne("create_file", Nothing, p, w)  BY <1>3
  <2> HIDE DEF w
  <2> QED  BY <1>2, <2>1, RecordedCreation
<1>5. Tree(disk')
  BY <1>1, <1>2, <1>3, PutIsATree
<1>6. Kept(disk, disk', {p})
  BY <1>1, <1>2, <1>3, PutKeeps
<1>7. Survives
  <2>1. ASSUME NEW q \in DOMAIN disk, Lost(q) PROVE q = p
    BY <1>6, <2>1, LostAreNotKept
  <2> QED  BY <1>2, <1>4, <2>1 DEF Survives
<1> QED
  BY <1>1, <1>4, <1>5, <1>7 DEF FilesInv

LEMMA CreateDirKeySafe ==
  ASSUME FilesInv, NEW p \in Named, CreateDirKey(p)
  PROVE  FilesInv' /\ Survives
<1>1. budget' \in 0 .. MaxOps /\ clip' \in Clips /\ copied' \in FileNames \cup {"none", "MULTI", ""}
      /\ listed' \in Listings /\ Tree(disk) /\ disk \in Disks
  BY Spent, ListingIs DEF CreateDirKey, FilesInv, Tree
<1>2. p \in Path /\ p[1] = "cwd" /\ Dir \in Values /\ Nothing \notin Contents
  BY NamedArePaths, ValuesDiffer
<1>3. /\ InDir(disk, p) /\ At(disk, p) = Nothing /\ disk' = Put(disk, p, Dir)
      /\ RecordOne("create_dir", Nothing, p, TRUE)
  BY DEF CreateDirKey
<1>4. HistoryOK(undo', redo', exact')
  BY <1>2, <1>3, RecordedCreation
<1>5. Tree(disk')
  BY <1>1, <1>2, <1>3, PutIsATree
<1>6. Kept(disk, disk', {})
  BY <1>1, <1>2, <1>3, PutKeeps
<1> QED
  BY <1>1, <1>4, <1>5, <1>6, NothingLost DEF FilesInv

LEMMA PluginCreateSafe ==
  ASSUME FilesInv, NEW p \in Named, NEW kind \in {"create_file", "create_dir"}, PluginCreate(p, kind)
  PROVE  FilesInv' /\ Survives
<1> DEFINE made == WithParent(disk, p)
           what == IF kind = "create_dir" THEN Dir ELSE Empty
<1>1. budget' \in 0 .. MaxOps /\ clip' \in Clips /\ copied' \in FileNames \cup {"none", "MULTI", ""}
      /\ listed' \in Listings /\ Tree(disk)
  BY Spent, ListingIs DEF PluginCreate, FilesInv
<1>2. p \in Path /\ p[1] = "cwd" /\ what \in Values /\ Nothing \notin Contents /\ Nothing # Dir
  BY NamedArePaths, ValuesDiffer DEF Nothing, Dir
<1>3. /\ InDir(made, p) /\ At(made, p) = Nothing /\ disk' = Put(made, p, what)
      /\ RecordOne(kind, Nothing, p, made = disk)
  BY DEF PluginCreate
<1>4. Tree(made) /\ Kept(disk, made, {}) /\ made \in Disks
  BY <1>1, <1>2, WithParentIs DEF Tree
<1> DEFINE w == made = disk
<1>5. RecordOne(kind, Nothing, p, w)
  BY <1>3
<1> HIDE DEF made, what, w
<1>6. HistoryOK(undo', redo', exact')
  BY <1>2, <1>5, RecordedCreation
<1>7. Tree(disk')
  BY <1>2, <1>3, <1>4, PutIsATree
<1>8. Kept(made, disk', {})
  BY <1>2, <1>3, <1>4, PutKeeps
<1>9. Survives
  BY <1>4, <1>8, KeptFurther, NothingLost
<1> QED
  BY <1>1, <1>6, <1>7, <1>9 DEF FilesInv

LEMMA PluginRenameSafe ==
  ASSUME FilesInv, NEW src \in Named, NEW dst \in Named, PluginRename(src, dst)
  PROVE  FilesInv' /\ Survives
<1> DEFINE made == WithParent(disk, dst)  w == made = disk
<1>1. budget' \in 0 .. MaxOps /\ clip' \in Clips /\ copied' \in FileNames \cup {"none", "MULTI", ""}
      /\ Tree(disk) /\ listed \in Listings /\ HistoryOK(undo, redo, exact)
  BY Spent DEF PluginRename, FilesInv
<1>2. src \in Path /\ dst \in Path /\ Nothing \notin Contents
  BY NamedArePaths, ValuesDiffer
<1>3. /\ At(disk, dst) = Nothing
      /\ \/ /\ CanReplace(made, src, dst) /\ disk' = Renamed(made, src, dst)
            /\ RecordOne("rename", src, dst, w) /\ listed' = Listing(disk')
         \/ disk' = made /\ undo' = undo /\ redo' = redo /\ exact' = exact /\ listed' = listed
  BY DEF PluginRename
<1>4. Tree(made) /\ Kept(disk, made, {}) /\ At(made, dst) = Nothing
  BY <1>1, <1>2, <1>3, WithParentIs
<1> HIDE DEF made, w
<1>5. CASE /\ CanReplace(made, src, dst) /\ disk' = Renamed(made, src, dst)
           /\ RecordOne("rename", src, dst, w) /\ listed' = Listing(disk')
  <2>1. HistoryOK(undo', redo', exact') /\ listed' \in Listings
    BY <1>2, <1>5, RecordedRename, ListingIs
  <2>2. Tree(disk') /\ Kept(made, disk', {})  BY <1>2, <1>4, <1>5, RenamedIsATree
  <2>3. Survives  BY <1>4, <2>2, KeptFurther, NothingLost
  <2> QED  BY <1>1, <2>1, <2>2, <2>3 DEF FilesInv
<1>6. CASE disk' = made /\ undo' = undo /\ redo' = redo /\ exact' = exact /\ listed' = listed
  <2>1. Survives  BY <1>4, <1>6, NothingLost
  <2> QED  BY <1>1, <1>4, <1>6, <2>1 DEF FilesInv
<1> QED
  BY <1>3, <1>5, <1>6

(* What a removed path p lies below is where it lies.                          *)
LEMMA TopBelow ==
  ASSUME NEW p \in Path, NEW q \in Path, IsPrefix(p, q)
  PROVE  q[1] = p[1]
<1>1. p \in Comps /\ q \in Comps /\ Len(p) \in Nat /\ Len(p) # 0
  BY DEF Path
<1>2. \A i \in 1 .. Len(p) : p[i] = q[i]
  BY <1>1, PrefixMeans
<1>3. 1 \in 1 .. Len(p)
  BY <1>1
<1> QED
  BY <1>2, <1>3

LEMMA TurnedHistory ==
  ASSUME NEW o \in Ops, NEW b, b \in BOOLEAN
  PROVE  HistoryOK(o, NoOp, b) /\ HistoryOK(NoOp, o, b)
BY DEF HistoryOK, Ops

LEMMA UndoSafe ==
  ASSUME FilesInv, Undo
  PROVE  FilesInv' /\ Survives
<1>1. Tree(disk) /\ HistoryOK(undo, redo, exact) /\ undo \in Ops /\ undo # NoOp /\ listed \in Listings
  BY DEF FilesInv, HistoryOK, Undo
<1>2. budget' \in 0 .. MaxOps /\ clip' \in Clips /\ copied' \in FileNames \cup {"none", "MULTI", ""}
  BY Spent DEF Undo, FilesInv
<1>3. PICK t \in Undone :
        /\ disk' = t.disk
        /\ \/ Failed(t)
           \/ Succeeded(t) /\ redo' = undo /\ undo' = NoOp
  BY DEF Undo
<1>4. t \in Attempts
  <2>1. CASE undo.kind \in {"create_file", "create_dir", "copy"}  BY <1>1, <2>1, UndoneMakings
  <2>2. CASE undo.kind \notin {"create_file", "create_dir", "copy"}  BY <1>1, <2>2, UndoneMoves
  <2> QED  BY <2>1, <2>2
<1>5. Tree(disk') /\ t.exact \in BOOLEAN
  BY <1>3, <1>4 DEF Attempts
<1>6. HistoryOK(undo', redo', exact') /\ listed' \in Listings
  <2>1. CASE Failed(t)  BY <1>1, <2>1 DEF Failed
  <2>2. CASE Succeeded(t) /\ redo' = undo /\ undo' = NoOp
    <3>1. exact' = (exact /\ t.exact) /\ listed' = Listing(t.disk)  BY <2>2 DEF Succeeded
    <3>2. exact' \in BOOLEAN  BY <1>1, <1>5, <3>1 DEF HistoryOK
    <3> QED  BY <1>1, <2>2, <3>1, <3>2, ListingIs, TurnedHistory
  <2> QED  BY <1>3, <2>1, <2>2
<1>7. Survives
  <2>1. CASE undo.kind \notin {"create_file", "create_dir", "copy"}
    BY <1>1, <1>3, <2>1, UndoneMoves, NothingLost
  <2>2. CASE undo.kind \in {"create_file", "create_dir", "copy"}
    <3>1. Remains(disk') /\ (t.ok \/ disk' = disk)  BY <1>1, <1>3, <2>2, UndoneMakings
    <3>2. CASE disk' = disk  BY <3>2, KeptItself, NothingLost
    <3>3. CASE disk' # disk
      <4>1. undo' # undo  BY <1>1, <1>3, <3>1, <3>3 DEF Failed
      <4>2. ASSUME NEW p \in DOMAIN disk, Lost(p) PROVE p[1] = "cwd" /\ Unmade(p)
        <5>1. PICK i \in 1 .. Len(undo.items) : IsPrefix(undo.items[i].dst, p)
          BY <3>1, <4>2 DEF Remains, Lost
        <5>2. /\ DOMAIN undo.items = 1 .. Len(undo.items) /\ undo.items[i].dst \in Path
              /\ \E dir \in Comps : Under(undo.items, dir)
          BY <1>1, <2>2, OpIs
        <5>3. undo.items[i].dst[1] = "cwd"  BY <5>2 DEF Under
        <5>4. p \in Path  BY <1>1, DiskIs DEF Tree
        <5>5. p[1] = "cwd"  BY <5>1, <5>2, <5>3, <5>4, TopBelow
        <5>6. Unmade(p)  BY <2>2, <4>1, <5>1, <5>2 DEF Unmade
        <5> QED  BY <5>5, <5>6
      <4> QED  BY <4>2 DEF Survives
    <3> QED  BY <3>2, <3>3
  <2> QED  BY <2>1, <2>2
<1> QED
  BY <1>2, <1>5, <1>6, <1>7 DEF FilesInv

LEMMA RedoSafe ==
  ASSUME FilesInv, Redo
  PROVE  FilesInv' /\ Survives
<1>1. Tree(disk) /\ HistoryOK(undo, redo, exact) /\ redo \in Ops /\ redo # NoOp /\ listed \in Listings
  BY DEF FilesInv, HistoryOK, Redo
<1>2. budget' \in 0 .. MaxOps /\ clip' \in Clips /\ copied' \in FileNames \cup {"none", "MULTI", ""}
  BY Spent DEF Redo, FilesInv
<1>3. PICK t \in Redone :
        /\ disk' = t.disk
        /\ \/ Failed(t)
           \/ Succeeded(t) /\ undo' = redo /\ redo' = NoOp
  BY DEF Redo
<1>4. t \in Attempts /\ Kept(disk, disk', {})
  BY <1>1, <1>3, RedoneIs
<1>5. Tree(disk') /\ t.exact \in BOOLEAN
  BY <1>3, <1>4 DEF Attempts
<1>6. HistoryOK(undo', redo', exact') /\ listed' \in Listings
  <2>1. CASE Failed(t)  BY <1>1, <2>1 DEF Failed
  <2>2. CASE Succeeded(t) /\ undo' = redo /\ redo' = NoOp
    <3>1. exact' = (exact /\ t.exact) /\ listed' = Listing(t.disk)  BY <2>2 DEF Succeeded
    <3>2. exact' \in BOOLEAN  BY <1>1, <1>5, <3>1 DEF HistoryOK
    <3> QED  BY <1>1, <2>2, <3>1, <3>2, ListingIs, TurnedHistory
  <2> QED  BY <1>3, <2>1, <2>2
<1> QED
  BY <1>2, <1>4, <1>5, <1>6, NothingLost DEF FilesInv

-----------------------------------------------------------------------------
(* The world.                                                                  *)
LEMMA OthersSafe ==
  ASSUME FilesInv, Others
  PROVE  FilesInv' /\ Survives
<1>1. /\ Tree(disk) /\ disk \in Disks /\ "others" \in Env /\ budget' \in 0 .. MaxOps
      /\ UNCHANGED << listed, clip, copied, undo, redo, exact >>
  BY Spent DEF FilesInv, Others, browser, Tree
<1>2. PICK p \in Named :
        \/ /\ At(disk, p) = Nothing /\ InDir(disk, p)
           /\ \E what \in {Empty, Dir} : disk' = Put(disk, p, what)
        \/ At(disk, p) # Nothing /\ disk' = Without(disk, p)
        \/ \E q \in Named : CanReplace(disk, p, q) /\ disk' = Renamed(disk, p, q)
  BY DEF Others
<1>3. p \in Path /\ p \in Comps /\ p[1] = "cwd" /\ Nothing \notin Contents
  BY NamedArePaths, ValuesDiffer
<1>4. /\ Tree(disk')
      /\ \A x \in DOMAIN disk : Lost(x) => x[1] = "cwd"
  <2>1. CASE /\ At(disk, p) = Nothing /\ InDir(disk, p)
             /\ \E what \in {Empty, Dir} : disk' = Put(disk, p, what)
    <3>1. PICK what \in {Empty, Dir} : disk' = Put(disk, p, what)  BY <2>1
    <3>2. what \in Values  BY ValuesDiffer
    <3>3. Tree(disk')  BY <1>1, <1>3, <2>1, <3>1, <3>2, PutIsATree DEF Nothing, Dir
    <3>4. Kept(disk, disk', {})  BY <1>1, <1>3, <2>1, <3>1, <3>2, PutKeeps
    <3> QED  BY <3>3, <3>4, LostAreNotKept
  <2>2. CASE disk' = Without(disk, p)
    <3>1. Tree(disk')  BY <1>1, <1>3, <2>2, WithoutIsATree
    <3>2. ASSUME NEW x \in DOMAIN disk, Lost(x) PROVE x[1] = "cwd"
      <4>1. x \notin DOMAIN disk' \/ disk'[x] # disk[x]  BY <3>2 DEF Lost
      <4>2. IsPrefix(p, x)  BY <1>1, <1>3, <2>2, <4>1, WithoutIs
      <4>3. x \in Path  BY <1>1, DiskIs
      <4> QED  BY <1>3, <4>2, <4>3, TopBelow
    <3> QED  BY <3>1, <3>2
  <2>3. CASE \E q \in Named : CanReplace(disk, p, q) /\ disk' = Renamed(disk, p, q)
    <3>1. PICK q \in Named : CanReplace(disk, p, q) /\ disk' = Renamed(disk, p, q)  BY <2>3
    <3>2. q \in Path /\ q[1] = "cwd"  BY NamedArePaths
    <3>3. Tree(disk') /\ Kept(disk, disk', {q})  BY <1>1, <1>3, <3>1, <3>2, RenamedIsATree
    <3> QED  BY <3>2, <3>3, LostAreNotKept
  <2> QED  BY <1>2, <2>1, <2>2, <2>3
<1>5. ASSUME NEW x \in DOMAIN disk, Lost(x) PROVE At(disk', x) # disk[x]
  <2>1. disk' \in Disks /\ disk[x] \in Contents  BY <1>4, <1>5 DEF Tree, Lost
  <2>2. CASE x \in DOMAIN disk'
    <3>1. disk'[x] # disk[x]  BY <1>5, <2>2 DEF Lost
    <3> QED  BY <2>1, <2>2, <3>1, AtIs
  <2>3. CASE x \notin DOMAIN disk'
    BY <1>3, <2>1, <2>3, AtIs
  <2> QED  BY <2>2, <2>3
<1>6. Survives
  BY <1>1, <1>4, <1>5 DEF Survives
<1> QED
  BY <1>1, <1>4, <1>6 DEF FilesInv

LEMMA ReloadSafe ==
  ASSUME FilesInv, Reload
  PROVE  FilesInv' /\ Survives
<1>1. UNCHANGED << disk, clip, copied, undo, redo, exact, budget >> /\ listed' = Listing(disk)
  BY DEF Reload, history
<1>2. listed' \in Listings
  BY <1>1, ListingIs
<1>3. Survives
  BY <1>1, KeptItself, NothingLost
<1> QED
  BY <1>1, <1>2, <1>3 DEF FilesInv

LEMMA StutterSafe ==
  ASSUME FilesInv, UNCHANGED vars
  PROVE  FilesInv' /\ Survives
<1>1. UNCHANGED << disk, listed, clip, copied, undo, redo, exact, budget >>
  BY DEF vars, browser, history
<1>2. Survives
  BY <1>1, KeptItself, NothingLost
<1> QED
  BY <1>1, <1>2 DEF FilesInv

LEMMA QuitSafe ==
  ASSUME FilesInv, Quit
  PROVE  FilesInv' /\ Survives
<1> DEFINE trash == << "trash" >>  v == Without(disk, Store)  w == Without(v, trash)
<1>1. /\ Tree(disk) /\ budget' \in 0 .. MaxOps /\ disk' = w
      /\ listed' \in Listings /\ clip' \in Clips /\ copied' \in FileNames \cup {"none", "MULTI", ""}
      /\ HistoryOK(undo', redo', exact')
  <2>1. undo' = NoOp /\ redo' = NoOp /\ exact' = exact /\ exact \in BOOLEAN
    BY DEF Quit, FilesInv, HistoryOK
  <2>2. HistoryOK(undo', redo', exact')  BY <2>1, TurnedHistory DEF Ops
  <2>3. budget' \in 0 .. MaxOps  BY MaxOpsInNat DEF Quit
  <2> QED  BY <2>2, <2>3 DEF Quit, FilesInv, browser
<1>2. /\ Store \in Comps /\ Len(Store) = 1 /\ Store[1] = "store"
      /\ trash \in Comps /\ Len(trash) = 1 /\ trash[1] = "trash"
  BY DEF Comps, Comp, Store
<1> HIDE DEF trash, v, w
<1>3. Tree(v) /\ Tree(w)
  <2>1. Tree(v)  BY <1>1, <1>2, WithoutIsATree DEF v
  <2> QED  BY <1>2, <2>1, WithoutIsATree DEF w
<1>4. ASSUME NEW p \in DOMAIN disk, Lost(p) PROVE p[1] \in {"store", "trash"}
  <2>1. p \in Comps  BY <1>1, DiskIs DEF Tree, Path
  <2>2. p \notin DOMAIN w \/ w[p] # disk[p]  BY <1>1, <1>4 DEF Lost
  <2>3. disk \in Disks /\ v \in Disks  BY <1>1, <1>3 DEF Tree
  <2>4. /\ p \in DOMAIN v <=> ~IsPrefix(Store, p)
        /\ p \in DOMAIN v => v[p] = disk[p]
    BY <1>2, <2>3, WithoutIs DEF v
  <2>5. /\ p \in DOMAIN w <=> p \in DOMAIN v /\ ~IsPrefix(trash, p)
        /\ p \in DOMAIN w => w[p] = v[p]
    BY <1>2, <2>3, WithoutIs DEF w
  <2>6. IsPrefix(Store, p) \/ IsPrefix(trash, p)  BY <2>2, <2>4, <2>5
  <2>7. ASSUME NEW t \in Comps, Len(t) = 1, IsPrefix(t, p) PROVE p[1] = t[1]
    <3>1. 1 \in 1 .. Len(t)  BY <2>7
    <3> QED  BY <2>1, <2>7, <3>1, PrefixMeans
  <2> QED  BY <1>2, <2>6, <2>7
<1>5. Survives
  BY <1>4 DEF Survives
<1> QED
  BY <1>1, <1>3, <1>5 DEF FilesInv

-----------------------------------------------------------------------------
(* The start and the end.                                                      *)
LEMMA NamedMeans ==
  ASSUME NEW p \in Named
  PROVE  /\ p[2] \in FileNames /\ Len(p) \in {2, 3} /\ IsPrefix(Cwd(p[2]), p)
         /\ Front(p) = Here \/ Front(p) = Cwd(p[2])
<1>1. CASE \E n \in FileNames : p = Cwd(n)
  <2>1. PICK n \in FileNames : p = Cwd(n)  BY <1>1
  <2>2. p[2] = n /\ Len(p) = 2  BY <2>1 DEF Cwd
  <2>3. p \in Comps  BY NamedArePaths
  <2> QED  BY <2>1, <2>2, <2>3, PlacesArePaths, PrefixOrder
<1>2. CASE \E n, m \in FileNames : p = << "cwd", n, m >>
  <2>1. PICK n \in FileNames, m \in FileNames : p = << "cwd", n, m >>  BY <1>2
  <2>2. p[2] = n /\ Len(p) = 3  BY <2>1
  <2>3. Cwd(n) \in Comps /\ m \in Comp  BY PlacesArePaths DEF Path, Comp, FileNames
  <2>4. p = Append(Cwd(n), m)  BY <2>1 DEF Cwd
  <2>5. IsPrefix(Cwd(n), p) /\ Front(p) = Cwd(n)  BY <2>3, <2>4, AppendPath
  <2> QED  BY <2>1, <2>2, <2>5
<1> QED
  BY <1>1, <1>2 DEF Named, FileNames

LEMMA InitIsATree ==
  ASSUME NEW place \in [Contents -> Named],
         \A c, e \in Contents : c # e => ~IsPrefix(place[c], place[e])
  PROVE  Tree(Over([p \in {place[c] : c \in Contents} |-> CHOOSE c \in Contents : place[c] = p],
                   [p \in {Cwd(place[c][2]) : c \in Contents} \cup {Here} |-> Dir]))
<1> DEFINE P == {place[c] : c \in Contents}
           Q == {Cwd(place[c][2]) : c \in Contents} \cup {Here}
           a == [p \in P |-> CHOOSE c \in Contents : place[c] = p]
           b == [p \in Q |-> Dir]
           d == Over(a, b)
<1>1. \A c \in Contents : place[c] \in Named /\ place[c] \in Path
  BY NamedArePaths
<1>2. \A c \in Contents : Cwd(place[c][2]) \in Path
  BY <1>1, NamedMeans, PlacesArePaths
<1>3. P \in SUBSET Path /\ Q \in SUBSET Path
  BY <1>1, <1>2, TopsArePaths
<1>4. a \in [P -> Values] /\ b \in [Q -> Values]
  <2>1. \A p \in P : (CHOOSE c \in Contents : place[c] = p) \in Values  BY DEF Values
  <2>2. Dir \in Values  BY ValuesDiffer
  <2> QED  BY <2>1, <2>2
<1>5. \A p \in Q : b[p] = Dir
  OBVIOUS
<1> HIDE DEF a, b
<1>6. a \in Disks /\ DOMAIN a = P /\ b \in Disks /\ DOMAIN b = Q
  BY <1>3, <1>4, DiskOf
<1>7. /\ d \in Disks /\ DOMAIN d = DOMAIN a \cup DOMAIN b
      /\ \A p \in DOMAIN b : p \notin DOMAIN a => d[p] = b[p]
  <2> HIDE DEF P, Q
  <2> QED  BY <1>6, OverIs, OverIsADisk
<1> HIDE DEF d
<1>8. DOMAIN d = P \cup Q /\ \A p \in Q : p \notin P => d[p] = Dir
  <2> HIDE DEF P, Q
  <2> QED  BY <1>5, <1>6, <1>7
<1>a. At(d, Here) = Dir
  <2>1. \A c \in Contents : Len(place[c]) # 1  BY <1>1, NamedMeans
  <2>2. Here \in Q /\ Here \notin P  BY <2>1, TopsArePaths
  <2>3. Here \in DOMAIN d /\ d[Here] = Dir  BY <1>8, <2>2
  <2> QED  BY <1>7, <2>3, AtIs
<1>9. ASSUME NEW p \in DOMAIN d PROVE InDir(d, p)
  <2>1. CASE p \in P
    <3>1. PICK c \in Contents : p = place[c]  BY <2>1
    <3> DEFINE up == Cwd(place[c][2])
    <3>2. p \in Named /\ p \in Path  BY <1>1, <3>1
    <3>3. up \in Q /\ up \in Path /\ IsPrefix(up, p) /\ (Front(p) = Here \/ Front(p) = up)
      BY <1>2, <3>1, <3>2, NamedMeans
    <3> HIDE DEF up
    <3>4. CASE Front(p) = Here  BY <1>a, <3>4 DEF InDir
    <3>5. CASE Front(p) = up
      <4>1. up # p  BY <3>2, <3>5, FrontMeans DEF Path
      <4>2. ASSUME up \in P PROVE FALSE
        <5>1. PICK e \in Contents : up = place[e]  BY <4>2
        <5>2. e # c  BY <3>1, <4>1, <5>1
        <5> QED  BY <3>1, <3>3, <5>1, <5>2
      <4>3. up \in DOMAIN d /\ d[up] = Dir  BY <1>8, <3>3, <4>2
      <4>4. At(d, up) = Dir  BY <1>7, <4>3, AtIs
      <4> QED  BY <3>5, <4>4 DEF InDir
    <3> QED  BY <3>3, <3>4, <3>5
  <2>2. CASE p \in Q
    <3>1. CASE p = Here
      <4>1. Front(Here) \in Comps /\ Len(Front(Here)) = 0
        <5>1. Here \in Comps /\ Len(Here) = 1 /\ 1 > 0 /\ 1 - 1 = 0  BY TopsArePaths
        <5> QED  BY <5>1, FrontMeans
      <4>2. Front(Here) = << >>  BY <4>1, EmptySeq DEF Comps
      <4> QED  BY <3>1, <4>2 DEF InDir, Roots
    <3>2. CASE p # Here
      <4>1. PICK c \in Contents : p = Cwd(place[c][2])  BY <2>2, <3>2
      <4>2. Front(p) = Here  BY <1>1, <4>1, NamedMeans, PlacesArePaths
      <4> QED  BY <1>a, <4>2 DEF InDir
    <3> QED  BY <3>1, <3>2
  <2> QED  BY <1>8, <2>1, <2>2
<1>10. Tree(d)
  BY <1>7, <1>9 DEF Tree
<1> QED
  BY <1>10 DEF d, a, b

LEMMA FilesInit ==
  ASSUME Init
  PROVE  FilesInv
<1>1. /\ listed = Listing(disk) /\ clip = NoClip /\ copied = "none"
      /\ undo = NoOp /\ redo = NoOp /\ exact = TRUE /\ budget = MaxOps
  BY DEF Init
<1>2. PICK place \in [Contents -> Named] :
       /\ \A c, e \in Contents : c # e => ~IsPrefix(place[c], place[e])
       /\ disk = Over([p \in {place[c] : c \in Contents} |-> CHOOSE c \in Contents : place[c] = p],
                      [p \in {Cwd(place[c][2]) : c \in Contents} \cup {Here} |-> Dir])
  BY DEF Init
<1>3. Tree(disk)
  BY <1>2, InitIsATree
<1>4. HistoryOK(undo, redo, exact)
  BY <1>1, TurnedHistory DEF Ops
<1>5. clip \in Clips
  BY <1>1 DEF NoClip, Clips
<1>6. listed \in Listings /\ budget \in 0 .. MaxOps
  BY <1>1, ListingIs, MaxOpsInNat
<1> QED
  BY <1>1, <1>3, <1>4, <1>5, <1>6 DEF FilesInv

(* Every step keeps the invariant, and loses only what may be lost.            *)
LEMMA FilesStep ==
  ASSUME FilesInv, [Next]_vars
  PROVE  FilesInv' /\ Survives
<1>1. CASE Keys
  <2>1. CASE PasteKey  BY <2>1, PasteKeySafe
  <2>2. CASE Undo  BY <2>2, UndoSafe
  <2>3. CASE Redo  BY <2>3, RedoSafe
  <2>4. CASE \E p \in Selected :
       \/ CopyKey(p) \/ CutKey(p) \/ DeleteKey(<< p >>)
       \/ \E q \in IF p = Here THEN {Here, Beside} ELSE Named : RenameKey(p, q)
    <3>1. PICK p \in Selected :
       \/ CopyKey(p) \/ CutKey(p) \/ DeleteKey(<< p >>)
       \/ \E q \in Named \cup {Here, Beside} : RenameKey(p, q)
      BY <2>4
    <3> QED  BY <3>1, CopyKeySafe, CutKeySafe, DeleteKeySafe, RenameKeySafe
  <2>5. CASE \E shown \in InView :
       \/ CopyAllKey(shown) \/ CutAllKey(shown)
       \/ DeleteKey([i \in DOMAIN shown |-> Cwd(shown[i])])
    BY <2>5, CopyAllKeySafe, CutAllKeySafe, DeleteAllSafe
  <2>6. CASE \E p \in Named : CreateFileKey(p) \/ CreateDirKey(p)
    BY <2>6, CreateFileKeySafe, CreateDirKeySafe
  <2> QED  BY <1>1, <2>1, <2>2, <2>3, <2>4, <2>5, <2>6 DEF Keys
<1>2. CASE Plugins
  <2>1. CASE \E p \in Named : PluginCreate(p, "create_file") \/ PluginCreate(p, "create_dir")
    BY <2>1, PluginCreateSafe
  <2>2. CASE \E p, q \in Named : PluginRename(p, q)
    BY <2>2, PluginRenameSafe
  <2>3. CASE \E paths \in Some :
       \/ PluginDelete(paths)
       \/ \E dir \in {Here} \cup {Cwd(n) : n \in Names} :
            PluginTransfer("copy", paths, dir) \/ PluginTransfer("move", paths, dir)
    <3>1. Names \subseteq FileNames  BY DEF FileNames
    <3> QED  BY <2>3, <3>1, PluginDeleteSafe, PluginTransferSafe
  <2> QED  BY <1>2, <2>1, <2>2, <2>3 DEF Plugins
<1> QED
  BY <1>1, <1>2, OthersSafe, ReloadSafe, QuitSafe, StutterSafe DEF Next

(* A parent that is a root, or a directory, whoever moved what where; and      *)
(* undo and redo never both pending (undo.c, utils.c, plugins_api.c).          *)
LEMMA FilesTyped ==
  ASSUME FilesInv
  PROVE  TypeOK
<1>1. Tree(disk) /\ disk \in Disks /\ listed \in Listings /\ HistoryOK(undo, redo, exact)
  BY DEF FilesInv, Tree
<1>2. \A p \in DOMAIN disk : disk[p] \in Contents \cup {Empty, Dir} /\ InDir(disk, p)
  BY <1>1, DiskIs DEF Tree, Values
<1>3. \A n \in DOMAIN listed : n \in FileNames /\ listed[n] \in BOOLEAN
  BY <1>1, ListedAreNames
<1>4. \A o \in Ops : o.kind \in Kinds
  BY DEF Ops, NoOp, Moves, Creations, Copies, Kinds
<1> QED
  BY <1>1, <1>2, <1>3, <1>4 DEF TypeOK, FilesInv, HistoryOK

(* Whatever commands fail, whoever else moves files: what exists lies in a     *)
(* directory, what is listed are names, and undo and redo are never both       *)
(* pending (undo_state_set_owned, undo_state_undo, undo_state_redo).           *)
THEOREM FileOpsTypes == Spec => []TypeOK
<1>1. FilesInv /\ [Next]_vars => FilesInv'
  BY FilesStep
<1> QED
  BY <1>1, FilesInit, FilesTyped, PTL DEF Spec

(* A file's content is not lost: a command that fails leaves it where it was,  *)
(* what is pasted, transferred, trashed, redone or moved back goes only to     *)
(* free names, and an undo that fails has removed nothing.  Lost are, at most, *)
(* what a second cut overwrites in the storage, what a new or a renamed file   *)
(* replaces, a creation undone, what others remove, and the trash at the end.  *)
THEOREM NoContentIsLost == Spec => ContentsSurvive
<1>1. FilesInv /\ [Next]_vars => FilesInv'
  BY FilesStep
<1>2. FilesInv /\ [Next]_vars => Survives
  BY FilesStep
<1> QED
  BY <1>1, <1>2, FilesInit, PTL DEF Spec, ContentsSurvive, Survives
=============================================================================
