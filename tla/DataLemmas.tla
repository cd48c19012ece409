-------------------------- MODULE DataLemmas --------------------------
(* Induction and recursion in a form that the provers can instantiate: over    *)
(* sets of numbers instead of predicates.  They rest on the fact that strict   *)
(* inclusion is well-founded on finite sets.                                   *)
EXTENDS Integers, Sequences, FiniteSets, FiniteSetsExt, SequencesExt, TLAPS,
        WellFoundedInduction, FiniteSetTheorems, FunctionTheorems

(* A set of numbers that holds 0 and with each number the next holds all.      *)
LEMMA NatSetInduction ==
  ASSUME NEW S, 0 \in S, \A n \in Nat : n \in S => n + 1 \in S
  PROVE  Nat \subseteq S
<1> SUFFICES ASSUME NEW n \in Nat, n \notin S PROVE FALSE
  OBVIOUS
<1> DEFINE Segments == {0 .. k : k \in Nat \ S}
<1>1. IsWellFoundedOn(StrictSubsetOrdering(Nat), FiniteSubsetsOf(Nat))
  BY FS_StrictSubsetOrderingWellFounded
<1>2. Segments \subseteq FiniteSubsetsOf(Nat)
  <2> SUFFICES ASSUME NEW k \in Nat PROVE 0 .. k \in FiniteSubsetsOf(Nat)
    OBVIOUS
  <2>1. IsFiniteSet(0 .. k)  BY FS_Interval
  <2> QED  BY <2>1 DEF FiniteSubsetsOf
<1>3. Segments # {}
  OBVIOUS
<1>4. PICK s \in Segments : \A t \in Segments : << t, s >> \notin StrictSubsetOrdering(Nat)
  <2> HIDE DEF Segments
  <2> QED  BY <1>1, <1>2, <1>3, WFMin
<1>5. PICK k \in Nat \ S : s = 0 .. k
  OBVIOUS
<1>6. k - 1 \in Nat \ S
  OBVIOUS
<1>7. 0 .. (k - 1) \in Segments
  BY <1>6
<1>8. << 0 .. (k - 1), s >> \in StrictSubsetOrdering(Nat)
  <2>1. k \in 0 .. k /\ k \notin 0 .. (k - 1)  BY <1>6
  <2>2. 0 .. (k - 1) \subseteq 0 .. k  BY <1>6
  <2> QED  BY <1>5, <1>6, <2>1, <2>2 DEF StrictSubsetOrdering
<1> QED
  BY <1>4, <1>7, <1>8

(* The same up to a bound.                                                     *)
LEMMA IntervalInduction ==
  ASSUME NEW m \in Nat, NEW S, 0 \in S, \A n \in 0 .. m - 1 : n \in S => n + 1 \in S
  PROVE  0 .. m \subseteq S
<1> DEFINE T == S \cup {n \in Nat : n > m}
<1>1. \A n \in Nat : n \in T => n + 1 \in T
  OBVIOUS
<1>2. Nat \subseteq T
  <2> HIDE DEF T
  <2>1. 0 \in T  BY DEF T
  <2> QED  BY <1>1, <2>1, NatSetInduction
<1> QED
  BY <1>2

(* A set of numbers that is not empty has a least one, which Min returns.      *)
LEMMA MinOfNats ==
  ASSUME NEW T, T \subseteq Nat, T # {}
  PROVE  Min(T) \in T /\ \A y \in T : Min(T) <= y
<1> SUFFICES \E x \in T : \A y \in T : x <= y
  BY DEF Min
<1> DEFINE Below == {n \in Nat : \A k \in 0 .. n : k \notin T}
<1>1. SUFFICES ASSUME \A x \in T : \E y \in T : y < x PROVE FALSE
  OBVIOUS
<1>2. 0 \in Below
  BY <1>1
<1>3. \A n \in Nat : n \in Below => n + 1 \in Below
  BY <1>1
<1>4. Nat \subseteq Below
  <2> HIDE DEF Below
  <2> QED  BY <1>2, <1>3, NatSetInduction
<1>5. PICK t \in T : TRUE
  OBVIOUS
<1>6. t \in Below /\ t \in 0 .. t
  BY <1>4
<1> QED
  BY <1>6

(* Max returns the greatest of a set of numbers that has one.                  *)
LEMMA MaxIs ==
  ASSUME NEW T, T \subseteq Int, NEW n \in T, \A y \in T : y <= n
  PROVE  Max(T) = n
<1>1. n \in Int /\ \A y \in T : y \in Int /\ n >= y
  OBVIOUS
<1>2. Max(T) \in T /\ \A y \in T : Max(T) >= y
  BY <1>1 DEF Max
<1>3. Max(T) \in Int /\ n >= Max(T) /\ Max(T) >= n
  BY <1>1, <1>2
<1> QED
  BY <1>1, <1>3

(* Every non-empty set of bounded numbers has a greatest one.                  *)
LEMMA MaxOfInterval ==
  ASSUME NEW m \in Nat, NEW T, T \subseteq 1 .. m, T # {}
  PROVE  Max(T) \in T /\ \A y \in T : y <= Max(T)
<1> DEFINE Mirror == {m - t : t \in T}
<1>1. Mirror \subseteq Nat /\ Mirror # {}
  <2>1. \A t \in T : m - t \in Nat  OBVIOUS
  <2>2. PICK t \in T : TRUE  OBVIOUS
  <2>3. m - t \in Mirror  OBVIOUS
  <2> QED  BY <2>1, <2>3
<1>2. Min(Mirror) \in Mirror /\ \A y \in Mirror : Min(Mirror) <= y
  <2> HIDE DEF Mirror
  <2> QED  BY <1>1, MinOfNats
<1>3. PICK t \in T : Min(Mirror) = m - t
  BY <1>2
<1>4. \A y \in T : y <= t
  <2> SUFFICES ASSUME NEW y \in T PROVE y <= t  OBVIOUS
  <2>1. m - y \in Mirror  OBVIOUS
  <2>2. m - t <= m - y  BY <1>2, <1>3, <2>1
  <2>3. t \in Int /\ y \in Int  OBVIOUS
  <2> QED  BY <2>2, <2>3
<1>5. Max(T) = t
  <2>1. T \subseteq Int  OBVIOUS
  <2> HIDE DEF Mirror
  <2> QED  BY <1>4, <2>1, MaxIs
<1> QED
  BY <1>4, <1>5

(* The functions on the subsets of 1 .. n that start from base and apply step  *)
(* to what they give without the greatest member, and to that member.          *)
Foldings(n, A, base, step) ==
  {f \in [SUBSET (1 .. n) -> A] : \A s \in SUBSET (1 .. n) :
     f[s] = IF s = {} THEN base ELSE step[<< f[s \ {Max(s)}], Max(s) >>]}

(* What a fold from the left recurs on exists.                                 *)
LEMMA FoldExists ==
  ASSUME NEW n \in Nat, NEW A, NEW base \in A, NEW step \in [A \X (1 .. n) -> A]
  PROVE  Foldings(n, A, base, step) # {}
<1> DEFINE Obeys(f, k) == \A s \in SUBSET (1 .. k) :
             f[s] = IF s = {} THEN base ELSE step[<< f[s \ {Max(s)}], Max(s) >>]
           Defined == {k \in 0 .. n : \E f \in [SUBSET (1 .. k) -> A] : Obeys(f, k)}
<1>1. 0 \in Defined
  <2>1. [s \in SUBSET (1 .. 0) |-> base] \in [SUBSET (1 .. 0) -> A]  OBVIOUS
  <2>2. \A s \in SUBSET (1 .. 0) : s = {}  OBVIOUS
  <2>3. Obeys([s \in SUBSET (1 .. 0) |-> base], 0)  BY <2>2
  <2> HIDE DEF Obeys
  <2> QED  BY <2>1, <2>3
<1>2. ASSUME NEW k \in 0 .. n - 1, k \in Defined PROVE k + 1 \in Defined
  <2>1. PICK f \in [SUBSET (1 .. k) -> A] : Obeys(f, k)
    BY <1>2
  <2> DEFINE g == [s \in SUBSET (1 .. (k + 1)) |->
                     IF k + 1 \in s THEN step[<< f[s \ {k + 1}], k + 1 >>] ELSE f[s]]
  <2>2. ASSUME NEW s \in SUBSET (1 .. (k + 1)) PROVE s \ {k + 1} \in SUBSET (1 .. k)
    OBVIOUS
  <2>3. g \in [SUBSET (1 .. (k + 1)) -> A]
    <3> SUFFICES ASSUME NEW s \in SUBSET (1 .. (k + 1)) PROVE g[s] \in A
      OBVIOUS
    <3>1. CASE k + 1 \in s  BY <2>2, <3>1
    <3>2. CASE k + 1 \notin s
      <4>1. s = s \ {k + 1}  BY <3>2
      <4>2. s \in SUBSET (1 .. k)  BY <4>1, <2>2
      <4> QED  BY <4>2, <3>2
    <3> QED  BY <3>1, <3>2
  <2>4. ASSUME NEW s \in SUBSET (1 .. (k + 1))
        PROVE  g[s] = IF s = {} THEN base ELSE step[<< g[s \ {Max(s)}], Max(s) >>]
    <3>1. CASE k + 1 \in s
      <4>1. \A y \in s : y <= k + 1  OBVIOUS
      <4>2. s \subseteq Int  OBVIOUS
      <4>3. Max(s) = k + 1  BY <3>1, <4>1, <4>2, MaxIs
      <4>4. g[s \ {k + 1}] = f[s \ {k + 1}]  BY <2>2
      <4> QED  BY <3>1, <4>3, <4>4
    <3>2. CASE k + 1 \notin s
      <4>1. s \in SUBSET (1 .. k)
        <5>1. s = s \ {k + 1}  BY <3>2
        <5> QED  BY <5>1, <2>2
      <4>2. g[s] = f[s]  BY <3>2
      <4>3. g[s \ {Max(s)}] = f[s \ {Max(s)}]  BY <3>2
      <4> QED  BY <2>1, <4>1, <4>2, <4>3
    <3> QED  BY <3>1, <3>2
  <2>5. Obeys(g, k + 1)
    <3> HIDE DEF g
    <3> QED  BY <2>4
  <2> HIDE DEF g, Obeys
  <2> QED  BY <2>3, <2>5
<1>3. 0 .. n \subseteq Defined
  <2> HIDE DEF Defined
  <2> QED  BY <1>1, <1>2, IntervalInduction
<1> QED
  <2> HIDE DEF Obeys
  <2>1. n \in 0 .. n  OBVIOUS
  <2>2. PICK f \in [SUBSET (1 .. n) -> A] : Obeys(f, n)  BY <1>3, <2>1
  <2> QED  BY <2>2 DEF Obeys, Foldings

(* A function with that equation passes through the values of the prefixes.    *)
LEMMA FoldPasses ==
  ASSUME NEW n \in Nat, NEW f, NEW k \in 1 .. n
  PROVE  /\ 1 .. k # {} /\ Max(1 .. k) = k
         /\ (1 .. k) \ {Max(1 .. k)} = 1 .. (k - 1)
         /\ 1 .. k \in SUBSET (1 .. n)
<1>1. Max(1 .. k) = k
  <2>1. 1 .. k \subseteq Int /\ k \in 1 .. k /\ \A y \in 1 .. k : y <= k  OBVIOUS
  <2> QED  BY <2>1, MaxIs
<1> QED
  BY <1>1

(* The functions that go from one number to the next by a step, and that there *)
(* is one.                                                                     *)
Recursions(a, n, A, base, step) ==
  {f \in [a .. n -> A] : f[a] = base /\ \A k \in a + 1 .. n : f[k] = step[<< f[k - 1], k >>]}

LEMMA RecursionExists ==
  ASSUME NEW a \in Int, NEW n \in Int, a <= n, NEW A, NEW base \in A,
         NEW step \in [A \X (a + 1 .. n) -> A]
  PROVE  Recursions(a, n, A, base, step) # {}
<1> DEFINE Obeys(f, m) == f[a] = base /\ \A k \in a + 1 .. m : f[k] = step[<< f[k - 1], k >>]
           Defined == {d \in 0 .. n - a : \E f \in [a .. a + d -> A] : Obeys(f, a + d)}
<1>1. 0 \in Defined
  <2>1. [k \in a .. a + 0 |-> base] \in [a .. a + 0 -> A]  OBVIOUS
  <2>2. Obeys([k \in a .. a + 0 |-> base], a + 0)  OBVIOUS
  <2> HIDE DEF Obeys
  <2> QED  BY <2>1, <2>2
<1>2. ASSUME NEW d \in 0 .. n - a - 1, d \in Defined PROVE d + 1 \in Defined
  <2>1. PICK f \in [a .. a + d -> A] : Obeys(f, a + d)
    BY <1>2
  <2> DEFINE g == [k \in a .. a + (d + 1) |->
                     IF k = a + (d + 1) THEN step[<< f[k - 1], k >>] ELSE f[k]]
  <2>2. f[a + d] \in A /\ a + (d + 1) \in a + 1 .. n /\ a + (d + 1) - 1 = a + d
    OBVIOUS
  <2>3. g \in [a .. a + (d + 1) -> A]
    <3> SUFFICES ASSUME NEW k \in a .. a + (d + 1) PROVE g[k] \in A
      OBVIOUS
    <3>1. CASE k = a + (d + 1)
      BY <2>2, <3>1
    <3>2. CASE k # a + (d + 1)
      <4>1. k \in a .. a + d  BY <3>2
      <4> QED  BY <3>2, <4>1
    <3> QED  BY <3>1, <3>2
  <2>4. g[a] = base
    BY <2>1
  <2>5. ASSUME NEW k \in a + 1 .. a + (d + 1) PROVE g[k] = step[<< g[k - 1], k >>]
    <3>1. k - 1 \in a .. a + d /\ g[k - 1] = f[k - 1]
      OBVIOUS
    <3>2. CASE k = a + (d + 1)
      BY <3>1, <3>2
    <3>3. CASE k # a + (d + 1)
      <4>1. k \in a + 1 .. a + d /\ k \in a .. a + (d + 1)  BY <3>3
      <4>2. g[k] = f[k]  BY <3>3, <4>1
      <4> QED  BY <2>1, <3>1, <4>1, <4>2
    <3> QED  BY <3>2, <3>3
  <2>6. Obeys(g, a + (d + 1))
    <3> HIDE DEF g
    <3> QED  BY <2>4, <2>5
  <2>7. d + 1 \in 0 .. n - a
    OBVIOUS
  <2> HIDE DEF g, Obeys
  <2> QED  BY <2>3, <2>6, <2>7
<1>3. n - a \in Nat /\ 0 .. n - a \subseteq Defined
  <2> HIDE DEF Defined
  <2> QED  BY <1>1, <1>2, IntervalInduction
<1>4. PICK f \in [a .. a + (n - a) -> A] : Obeys(f, a + (n - a))
  <2>1. n - a \in 0 .. n - a  BY <1>3
  <2>2. n - a \in Defined
    <3> HIDE DEF Defined
    <3> QED  BY <1>3, <2>1
  <2> HIDE DEF Obeys
  <2> QED  BY <2>2
<1>5. a + (n - a) = n
  OBVIOUS
<1> QED
  BY <1>4, <1>5 DEF Recursions

-----------------------------------------------------------------------------
(* Sequences and small sets *)

(* What a longer sequence holds.                                               *)
LEMMA RangeOfAppend ==
  ASSUME NEW S, NEW s \in Seq(S), NEW x
  PROVE  Range(Append(s, x)) = Range(s) \cup {x}
<1>1. /\ DOMAIN s = 1 .. Len(s) /\ Len(s) \in Nat
      /\ DOMAIN Append(s, x) = 1 .. Len(s) + 1
      /\ \A i \in 1 .. Len(s) : Append(s, x)[i] = s[i]
      /\ Append(s, x)[Len(s) + 1] = x
  OBVIOUS
<1> HIDE DEF Range
<1>2. Range(Append(s, x)) = {Append(s, x)[i] : i \in 1 .. Len(s) + 1}
  BY <1>1 DEF Range
<1>3. Range(s) = {s[i] : i \in 1 .. Len(s)}
  BY <1>1 DEF Range
<1>4. 1 .. Len(s) + 1 = (1 .. Len(s)) \cup {Len(s) + 1}
  BY <1>1
<1> QED
  BY <1>1, <1>2, <1>3, <1>4

(* The members of a sequence over a set are in the set.                        *)
LEMMA SeqMembers ==
  ASSUME NEW S, NEW s \in Seq(S)
  PROVE  /\ Range(s) \subseteq S
         /\ \A x \in Range(s) : \E i \in 1 .. Len(s) : x = s[i]
         /\ \A i \in 1 .. Len(s) : s[i] \in Range(s)
<1>1. DOMAIN s = 1 .. Len(s) /\ \A i \in 1 .. Len(s) : s[i] \in S
  OBVIOUS
<1> QED
  BY <1>1 DEF Range

(* Whatever a sequence has at a place is a member.                             *)
LEMMA MemberOfSeq ==
  ASSUME NEW S, NEW s \in Seq(S), NEW i \in 1 .. Len(s)
  PROVE  s[i] \in Range(s) /\ s[i] \in S
  BY SeqMembers

(* The empty sequence has no members.                                          *)
LEMMA RangeOfEmpty == Range(<< >>) = {}
  BY DEF Range

(* A sequence is a prefix of itself and of what is appended to it.             *)
LEMMA SelfIsPrefix ==
  ASSUME NEW S, NEW s \in Seq(S)
  PROVE  IsPrefix(s, s)
  BY DEF IsPrefix

LEMMA PrefixOfAppend ==
  ASSUME NEW S, NEW s \in Seq(S), NEW x \in S
  PROVE  IsPrefix(s, Append(s, x))
<1>1. Len(Append(s, x)) = Len(s) + 1 /\ Len(s) \in Nat
  OBVIOUS
<1>2. SubSeq(s, 1, Len(s)) = SubSeq(Append(s, x), 1, Len(s))
  OBVIOUS
<1> QED
  BY <1>1, <1>2 DEF IsPrefix

(* The least and the greatest of two numbers.                                  *)
LEMMA MinMaxOfTwo ==
  ASSUME NEW a \in Int, NEW b \in Int
  PROVE  /\ Min({a, b}) = IF a <= b THEN a ELSE b
         /\ Max({a, b}) = IF a <= b THEN b ELSE a
<1>1. \E x \in {a, b} : \A y \in {a, b} : x <= y
  BY a <= b \/ b <= a
<1>2. Min({a, b}) \in {a, b} /\ \A y \in {a, b} : Min({a, b}) <= y
  BY <1>1 DEF Min
<1>3. \E x \in {a, b} : \A y \in {a, b} : x >= y
  BY a <= b \/ b <= a
<1>4. Max({a, b}) \in {a, b} /\ \A y \in {a, b} : Max({a, b}) >= y
  BY <1>3 DEF Max
<1> QED
  BY <1>2, <1>4

(* A set without two members has at most one.                                  *)
LEMMA AtMostOneCounts ==
  ASSUME NEW S, \A x, y \in S : x = y
  PROVE  IsFiniteSet(S) /\ Cardinality(S) <= 1
<1>1. CASE S = {}
  BY <1>1, FS_EmptySet
<1>2. CASE S # {}
  <2>1. PICK x \in S : TRUE  BY <1>2
  <2>2. S = {x}  BY <2>1
  <2>3. IsFiniteSet({x}) /\ Cardinality({x}) = 1  BY FS_Singleton
  <2> QED  BY <2>2, <2>3
<1> QED
  BY <1>1, <1>2
-----------------------------------------------------------------------------
(* Counting in sequences *)

(* How many items of a sequence are in S.                                      *)
Tally(s, S) == Cardinality({i \in DOMAIN s : s[i] \in S})

LEMMA TallyIsNat ==
  ASSUME NEW A, NEW s \in Seq(A), NEW S
  PROVE  /\ IsFiniteSet({i \in DOMAIN s : s[i] \in S})
         /\ Tally(s, S) \in 0 .. Len(s)
<1>1. DOMAIN s = 1 .. Len(s) /\ Len(s) \in Nat
  OBVIOUS
<1>2. IsFiniteSet(1 .. Len(s)) /\ Cardinality(1 .. Len(s)) = Len(s)
  BY <1>1, FS_Interval
<1>3. {i \in DOMAIN s : s[i] \in S} \in SUBSET (1 .. Len(s))
  BY <1>1
<1>4. /\ IsFiniteSet({i \in DOMAIN s : s[i] \in S})
      /\ Cardinality({i \in DOMAIN s : s[i] \in S}) <= Len(s)
  BY <1>2, <1>3, FS_Subset
<1>5. Cardinality({i \in DOMAIN s : s[i] \in S}) \in Nat
  BY <1>4, FS_CardinalityType
<1> QED
  BY <1>1, <1>4, <1>5 DEF Tally

LEMMA TallyOfEmpty ==
  ASSUME NEW S
  PROVE  Tally(<< >>, S) = 0
<1>1. {i \in DOMAIN << >> : << >>[i] \in S} = {}
  OBVIOUS
<1> QED
  BY <1>1, FS_EmptySet DEF Tally

LEMMA TallyOfConcat ==
  ASSUME NEW A, NEW s \in Seq(A), NEW t \in Seq(A), NEW S
  PROVE  Tally(s \o t, S) = Tally(s, S) + Tally(t, S)
<1> DEFINE X == {i \in DOMAIN s : s[i] \in S}
           Y == {i \in DOMAIN t : t[i] \in S}
           Z == {i \in (Len(s) + 1) .. (Len(s) + Len(t)) : t[i - Len(s)] \in S}
           shift == [i \in Y |-> i + Len(s)]
<1>1. /\ Len(s) \in Nat /\ Len(t) \in Nat
      /\ DOMAIN s = 1 .. Len(s) /\ DOMAIN t = 1 .. Len(t)
      /\ DOMAIN (s \o t) = 1 .. (Len(s) + Len(t))
  OBVIOUS
<1>2. \A i \in 1 .. (Len(s) + Len(t)) :
        (s \o t)[i] = IF i <= Len(s) THEN s[i] ELSE t[i - Len(s)]
  OBVIOUS
<1>3. {i \in DOMAIN (s \o t) : (s \o t)[i] \in S} = X \cup Z
  BY <1>1, <1>2
<1>4. X \cap Z = {}
  BY <1>1
<1>5. IsFiniteSet(X) /\ IsFiniteSet(Y)
  BY TallyIsNat
<1>6. shift \in Bijection(Y, Z)
  <2>1. \A i \in Y : i + Len(s) \in Z
    BY <1>1
  <2>2. \A j \in Z : j - Len(s) \in Y /\ (j - Len(s)) + Len(s) = j
    BY <1>1
  <2>3. \A i, j \in Y : i + Len(s) = j + Len(s) => i = j
    BY <1>1
  <2> HIDE DEF Y, Z
  <2>4. shift \in [Y -> Z]  BY <2>1
  <2>5. \A i, j \in Y : shift[i] = shift[j] => i = j  BY <2>3
  <2>6. \A j \in Z : \E i \in Y : shift[i] = j
    <3> SUFFICES ASSUME NEW j \in Z PROVE \E i \in Y : shift[i] = j
      OBVIOUS
    <3>1. j - Len(s) \in Y /\ shift[j - Len(s)] = j  BY <2>2
    <3> QED  BY <3>1
  <2> HIDE DEF shift
  <2> QED  BY <2>4, <2>5, <2>6, Fun_IsBij
<1>7. IsFiniteSet(Z) /\ Cardinality(Z) = Cardinality(Y)
  <2>1. ExistsBijection(Y, Z)
    <3> HIDE DEF Y, Z, shift
    <3> QED  BY <1>6 DEF ExistsBijection
  <2> HIDE DEF Y, Z
  <2> QED  BY <1>5, <2>1, FS_Bijection
<1>8. Cardinality(X \cup Z) = Cardinality(X) + Cardinality(Z) - Cardinality(X \cap Z)
  <2> HIDE DEF X, Z
  <2> QED  BY <1>5, <1>7, FS_Union
<1>9. Cardinality(X) \in Nat /\ Cardinality(Y) \in Nat
  <2> HIDE DEF X, Y
  <2> QED  BY <1>5, FS_CardinalityType
<1>10. Cardinality(X \cup Z) = Cardinality(X) + Cardinality(Y)
  <2> HIDE DEF X, Y, Z
  <2>1. Cardinality(X \cap Z) = 0  BY <1>4, FS_EmptySet
  <2> QED  BY <1>7, <1>8, <1>9, <2>1
<1> QED
  BY <1>3, <1>10 DEF Tally

LEMMA TallyOfAppend ==
  ASSUME NEW A, NEW s \in Seq(A), NEW x \in A, NEW S
  PROVE  Tally(Append(s, x), S) = Tally(s, S) + (IF x \in S THEN 1 ELSE 0)
<1>1. Append(s, x) = s \o << x >> /\ << x >> \in Seq(A)
  OBVIOUS
<1>2. Tally(<< x >>, S) = IF x \in S THEN 1 ELSE 0
  <2>1. DOMAIN << x >> = {1} /\ << x >>[1] = x
    OBVIOUS
  <2>2. CASE x \in S
    <3>1. {i \in DOMAIN << x >> : << x >>[i] \in S} = {1}  BY <2>1, <2>2
    <3> QED  BY <2>2, <3>1, FS_Singleton DEF Tally
  <2>3. CASE x \notin S
    <3>1. {i \in DOMAIN << x >> : << x >>[i] \in S} = {}  BY <2>1, <2>3
    <3> QED  BY <2>3, <3>1, FS_EmptySet DEF Tally
  <2> QED  BY <2>2, <2>3
<1>3. Tally(s \o << x >>, S) = Tally(s, S) + Tally(<< x >>, S)
  BY <1>1, TallyOfConcat
<1> QED
  BY <1>1, <1>2, <1>3

LEMMA TallyOfNone ==
  ASSUME NEW A, NEW s \in Seq(A), NEW S, \A i \in DOMAIN s : s[i] \notin S
  PROVE  Tally(s, S) = 0
<1>1. {i \in DOMAIN s : s[i] \in S} = {}
  OBVIOUS
<1> QED
  BY <1>1, FS_EmptySet DEF Tally
=============================================================================
