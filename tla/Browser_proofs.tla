-------------------------- MODULE Browser_proofs --------------------------
(* The browser for any names, directories, queries and batches: its types,    *)
(* that the search view and the listing belong together, and that the         *)
(* selection is what the cursor is on.  Then the archive readers: what they   *)
(* promise for every archive.  Their inductive invariant says where the       *)
(* shared stream is with respect to the entry and the window, and each call   *)
(* keeps it.                                                                  *)
EXTENDS Browser, Archive, DataLemmas

(* What the state of the browser is, whatever is loaded *)
Disks == {d \in [Paths -> Seq(Names)] :
            \A p \in Paths : \A n \in Range(d[p]) \cap DirNames : Append(p, n) \in Paths}

(* search_files never becomes smaller than it was made *)
Caps == {n \in Nat : n >= ViewCap}

State ==
  [disk : Disks, cwd : Paths, files : Seq(Names), loaded : Nat, total : Nat,
   cursor : Int, start : Nat, num : Nat, selected : Names \cup {None}, freed : BOOLEAN,
   active : BOOLEAN, query : Queries \cup {None}, mode : Modes, view : Seq(Names),
   cap : Caps, selectAll : BOOLEAN, override : BOOLEAN, stack : Seq(DirNames), fresh : BOOLEAN]

(* The directories that are listed are in the current one *)
Enterable(s) == \A n \in Range(s.files) \cap DirNames : Append(s.cwd, n) \in Paths

(* What is assumed of the numbers *)
LEMMA Bounds ==
  Visible \in Nat \ {0} /\ Batch \in Nat \ {0} /\ Threshold \in Nat /\ ViewCap \in Nat \ {0}
  BY BrowserAssumption

(* The listing, as far as it is loaded *)
Listing(s) ==
  /\ s \in State /\ Enterable(s)
  /\ s.loaded = Len(s.files)
  /\ s.fresh => IsPrefix(s.files, Entries(s)) /\ s.total = Len(Entries(s))

ViewOf(s) == IF s.active THEN Matches(s.files, s.query, s.mode) ELSE << >>

(* A fuzzy search asked for all the room it needs *)
Fits(s) == s.mode = "fuzzy" => Len(s.view) <= s.cap

(* ... and the view of it; the cursor may be anywhere *)
Viewed(s) == Listing(s) /\ s.view = ViewOf(s) /\ Fits(s) /\ s.cursor \in Nat

(* The selection is the entry under the cursor *)
Shown(s) ==
  LET v == ActiveFiles(s)
  IN  /\ ~s.freed
      /\ IF v = << >> THEN s.selected = None /\ s.cursor = 0
         ELSE /\ s.cursor < Len(v) /\ s.selected = v[s.cursor + 1]
              /\ s.start <= s.cursor /\ s.cursor < s.start + Visible

Counted(s) == s.num = Len(ActiveFiles(s))

InView ==
  Viewed(b) /\ Counted(b) /\ unsynced \in BOOLEAN /\ (~unsynced => Shown(b))

(* Each request slot holds one argument, of its kind *)
Requests(r) ==
  /\ DOMAIN r = Range(Kinds)
  /\ \A k \in Range(Kinds) : \A x, y \in r[k] : x = y
  /\ r["set_search"] \subseteq Queries \cup {None}
  /\ r["search_mode"] \subseteq Modes

InLoop ==
  /\ phase \in {"load", "loop", "prompt", "stopped"}
  /\ saved \in Names \cup {None} /\ quitting \in BOOLEAN
  /\ calls \in 0 .. MaxCalls /\ changes \in 0 .. MaxChanges
  /\ phase = "load" => ~b.active /\ ~unsynced

BrowserInv == InView /\ Requests(req) /\ InLoop

-----------------------------------------------------------------------------
(* Sequences *)

(* A part of a sequence has no other members.                                 *)
LEMMA SubSeqIsPart ==
  ASSUME NEW S, NEW s \in Seq(S), NEW i \in 1 .. Len(s) + 1, NEW j \in 0 .. Len(s)
  PROVE  /\ SubSeq(s, i, j) \in Seq(S) /\ Range(SubSeq(s, i, j)) \subseteq Range(s)
         /\ Len(SubSeq(s, i, j)) = IF i <= j THEN j - i + 1 ELSE 0
         /\ \A k \in 1 .. j - i + 1 : SubSeq(s, i, j)[k] = s[i + k - 1]
<1> DEFINE t == SubSeq(s, i, j)
<1>1. /\ t \in Seq(S) /\ Len(t) = IF i <= j THEN j - i + 1 ELSE 0
      /\ \A k \in 1 .. j - i + 1 : t[k] = s[i + k - 1]
  OBVIOUS
<1>2. ASSUME NEW x \in Range(t) PROVE x \in Range(s)
  <2> HIDE DEF t
  <2>1. PICK k \in 1 .. Len(t) : x = t[k]
    BY <1>1, <1>2, SeqMembers
  <2>2. i + k - 1 \in 1 .. Len(s) /\ x = s[i + k - 1]
    BY <1>1, <2>1
  <2> QED  BY <2>2, SeqMembers
<1> QED
  BY <1>1, <1>2

(* What is in two sequences one after the other.                             *)
LEMMA RangeOfConcat ==
  ASSUME NEW S, NEW s \in Seq(S), NEW t \in Seq(S)
  PROVE  Range(s \o t) = Range(s) \cup Range(t) /\ s \o t \in Seq(S)
<1> DEFINE u == s \o t
<1>1. /\ u \in Seq(S) /\ Len(u) = Len(s) + Len(t) /\ Len(s) \in Nat /\ Len(t) \in Nat
      /\ \A i \in 1 .. Len(s) : u[i] = s[i]
      /\ \A i \in 1 .. Len(t) : u[Len(s) + i] = t[i]
      /\ \A i \in Len(s) + 1 .. Len(s) + Len(t) : u[i] = t[i - Len(s)]
  OBVIOUS
<1> HIDE DEF u
<1>2. ASSUME NEW x \in Range(u) PROVE x \in Range(s) \cup Range(t)
  <2>1. PICK k \in 1 .. Len(u) : x = u[k]
    BY <1>1, <1>2, SeqMembers
  <2>2. CASE k <= Len(s)
    <3>1. k \in 1 .. Len(s) /\ x = s[k]  BY <1>1, <2>1, <2>2
    <3> QED  BY <3>1, SeqMembers
  <2>3. CASE k > Len(s)
    <3>1. k - Len(s) \in 1 .. Len(t) /\ x = t[k - Len(s)]  BY <1>1, <2>1, <2>3
    <3> QED  BY <3>1, SeqMembers
  <2> QED  BY <1>1, <2>1, <2>2, <2>3
<1>3. Range(s) \subseteq Range(u)
  <2> SUFFICES ASSUME NEW x \in Range(s) PROVE x \in Range(u)
    OBVIOUS
  <2>1. PICK k \in 1 .. Len(s) : x = s[k]  BY SeqMembers
  <2>2. k \in 1 .. Len(u) /\ x = u[k]  BY <1>1, <2>1
  <2> QED  BY <1>1, <2>2, SeqMembers
<1>4. Range(t) \subseteq Range(u)
  <2> SUFFICES ASSUME NEW x \in Range(t) PROVE x \in Range(u)
    OBVIOUS
  <2>1. PICK k \in 1 .. Len(t) : x = t[k]  BY SeqMembers
  <2>2. Len(s) + k \in 1 .. Len(u) /\ x = u[Len(s) + k]  BY <1>1, <2>1
  <2> QED  BY <1>1, <2>2, SeqMembers
<1> QED
  BY <1>1, <1>2, <1>3, <1>4 DEF u

(* A sequence with one item more.                                            *)
LEMMA InsertStays ==
  ASSUME NEW S, NEW s \in Seq(S), NEW i \in 1 .. Len(s) + 1, NEW x \in S
  PROVE  InsertAt(s, i, x) \in Seq(S) /\ Range(InsertAt(s, i, x)) \subseteq Range(s) \cup {x}
<1>1. SubSeq(s, 1, i - 1) \in Seq(S) /\ Range(SubSeq(s, 1, i - 1)) \subseteq Range(s)
  <2>1. 1 \in 1 .. Len(s) + 1 /\ i - 1 \in 0 .. Len(s)  OBVIOUS
  <2> QED  BY <2>1, SubSeqIsPart
<1>2. SubSeq(s, i, Len(s)) \in Seq(S) /\ Range(SubSeq(s, i, Len(s))) \subseteq Range(s)
  <2>1. Len(s) \in 0 .. Len(s)  OBVIOUS
  <2> QED  BY <2>1, SubSeqIsPart
<1>3. << x >> \in Seq(S) /\ Range(<< x >>) = {x}
  <2>1. << x >> \in Seq(S) /\ Len(<< x >>) = 1 /\ << x >>[1] = x  OBVIOUS
  <2>2. DOMAIN << x >> = {1}  OBVIOUS
  <2> QED  BY <2>1, <2>2 DEF Range
<1> DEFINE l == SubSeq(s, 1, i - 1)  m == << x >>  r == SubSeq(s, i, Len(s))
<1>4. InsertAt(s, i, x) = (l \o m) \o r
  BY DEF InsertAt
<1>5. /\ l \in Seq(S) /\ r \in Seq(S) /\ m \in Seq(S)
      /\ Range(l) \subseteq Range(s) /\ Range(r) \subseteq Range(s) /\ Range(m) = {x}
  BY <1>1, <1>2, <1>3
<1> HIDE DEF l, m, r
<1>6. l \o m \in Seq(S) /\ Range(l \o m) = Range(l) \cup Range(m)
  BY <1>5, RangeOfConcat
<1> DEFINE k == l \o m  u == k \o r
<1>7. k \in Seq(S) /\ Range(k) = Range(l) \cup Range(m)
  BY <1>6
<1> HIDE DEF k
<1>8. u \in Seq(S) /\ Range(u) = Range(k) \cup Range(r)
  BY <1>5, <1>7, RangeOfConcat
<1> HIDE DEF u
<1>9. InsertAt(s, i, x) = u
  BY <1>4 DEF k, u
<1> QED
  BY <1>5, <1>7, <1>8, <1>9

(* A sequence with one item less.                                            *)
LEMMA RemoveStays ==
  ASSUME NEW S, NEW s \in Seq(S), NEW i \in 1 .. Len(s)
  PROVE  RemoveAt(s, i) \in Seq(S) /\ Range(RemoveAt(s, i)) \subseteq Range(s)
<1>1. SubSeq(s, 1, i - 1) \in Seq(S) /\ Range(SubSeq(s, 1, i - 1)) \subseteq Range(s)
  <2>1. 1 \in 1 .. Len(s) + 1 /\ i - 1 \in 0 .. Len(s)  OBVIOUS
  <2> QED  BY <2>1, SubSeqIsPart
<1>2. SubSeq(s, i + 1, Len(s)) \in Seq(S) /\ Range(SubSeq(s, i + 1, Len(s))) \subseteq Range(s)
  <2>1. Len(s) \in 0 .. Len(s) /\ i + 1 \in 1 .. Len(s) + 1  OBVIOUS
  <2> QED  BY <2>1, SubSeqIsPart
<1> DEFINE l == SubSeq(s, 1, i - 1)  r == SubSeq(s, i + 1, Len(s))
<1>3. RemoveAt(s, i) = l \o r
  BY DEF RemoveAt
<1>4. /\ l \in Seq(S) /\ r \in Seq(S)
      /\ Range(l) \subseteq Range(s) /\ Range(r) \subseteq Range(s)
  BY <1>1, <1>2
<1> HIDE DEF l, r
<1>5. l \o r \in Seq(S) /\ Range(l \o r) = Range(l) \cup Range(r)
  BY <1>4, RangeOfConcat
<1> QED
  BY <1>3, <1>4, <1>5

(* A listing that is extended with the entries that follow is still a prefix. *)
LEMMA PrefixGrows ==
  ASSUME NEW S, NEW e \in Seq(S), NEW s \in Seq(S), IsPrefix(s, e),
         NEW j \in Len(s) .. Len(e)
  PROVE  IsPrefix(s \o SubSeq(e, Len(s) + 1, j), e)
<1> DEFINE n == Len(s)  t == SubSeq(e, n + 1, j)  u == s \o t
<1>1. n \in Nat /\ Len(e) \in Nat /\ n <= Len(e) /\ SubSeq(s, 1, n) = SubSeq(e, 1, n)
  BY DEF IsPrefix
<1>2. t \in Seq(S) /\ Len(t) = j - n /\ \A k \in 1 .. j - n : t[k] = e[n + k]
  <2>1. n + 1 \in 1 .. Len(e) + 1 /\ j \in 0 .. Len(e)  BY <1>1
  <2>2. /\ SubSeq(e, n + 1, j) \in Seq(S)
        /\ Len(SubSeq(e, n + 1, j)) = IF n + 1 <= j THEN j - (n + 1) + 1 ELSE 0
        /\ \A k \in 1 .. j - (n + 1) + 1 : SubSeq(e, n + 1, j)[k] = e[(n + 1) + k - 1]
    <3> HIDE DEF n
    <3> QED  BY <2>1, SubSeqIsPart
  <2> QED  BY <1>1, <2>2
<1>3. \A k \in 1 .. n : s[k] = e[k]
  <2> SUFFICES ASSUME NEW k \in 1 .. n PROVE s[k] = e[k]
    OBVIOUS
  <2>1. SubSeq(s, 1, n)[k] = s[k] /\ SubSeq(e, 1, n)[k] = e[k]  BY <1>1
  <2> QED  BY <1>1, <2>1
<1> HIDE DEF t
<1>4. u \in Seq(S) /\ Len(u) = j /\ \A k \in 1 .. j : u[k] = e[k]
  <2>1. u \in Seq(S) /\ Len(u) = n + (j - n)  BY <1>1, <1>2
  <2>2. ASSUME NEW k \in 1 .. j, k <= n PROVE u[k] = e[k]
    BY <1>1, <1>2, <1>3, <2>2
  <2>3. ASSUME NEW k \in 1 .. j, k > n PROVE u[k] = e[k]
    <3>1. k - n \in 1 .. j - n /\ n + (k - n) = k  BY <1>1, <2>3
    <3>2. u[k] = t[k - n]  BY <1>1, <1>2, <3>1
    <3> QED  BY <1>2, <3>1, <3>2
  <2> QED  BY <1>1, <2>1, <2>2, <2>3
<1> HIDE DEF u
<1>5. SubSeq(u, 1, j) = SubSeq(e, 1, j)
  BY <1>1, <1>4
<1> QED
  BY <1>1, <1>4, <1>5 DEF IsPrefix, u, t

-----------------------------------------------------------------------------
(* The matches *)

(* A match is put where the order of the view wants it.                      *)
LEMMA WithMatchStays ==
  ASSUME NEW S, NEW v \in Seq(S), NEW n \in S, NEW query, NEW mode
  PROVE  WithMatch(v, n, query, mode) \in Seq(S)
<1> DEFINE before == {i \in DOMAIN v : mode # "fuzzy" \/ Score[query][v[i]] <= Score[query][n]}
<1>1. DOMAIN v = 1 .. Len(v) /\ Len(v) \in Nat
  OBVIOUS
<1>2. before \subseteq 1 .. Len(v) /\ IsFiniteSet(1 .. Len(v)) /\ Cardinality(1 .. Len(v)) = Len(v)
  BY <1>1, FS_Interval
<1> HIDE DEF before
<1>3. Cardinality(before) \in Nat /\ Cardinality(before) <= Len(v)
  <2>1. IsFiniteSet(before) /\ Cardinality(before) <= Cardinality(1 .. Len(v))
    BY <1>2, FS_Subset
  <2>2. Cardinality(before) \in Nat  BY <2>1, FS_CardinalityType
  <2> QED  BY <1>2, <2>1, <2>2
<1>4. Cardinality(before) + 1 \in 1 .. Len(v) + 1
  BY <1>1, <1>3
<1>5. InsertAt(v, Cardinality(before) + 1, n) \in Seq(S)
  BY <1>4, InsertStays
<1> QED
  BY <1>5 DEF WithMatch, before

(* The view is a sequence of entries that are listed (search_rebuild).         *)
LEMMA MatchesAreListed ==
  ASSUME NEW files \in Seq(Names), NEW query, NEW mode
  PROVE  Matches(files, query, mode) \in Seq(Range(files))
<1> DEFINE n == Len(files)
           S == Range(files)
           A == Seq(S)
           Takes(v, e) == IF IsMatch(e, query, mode) THEN WithMatch(v, e, query, mode) ELSE v
           step == [x \in A \X (1 .. n) |-> Takes(x[1], files[x[2]])]
           Eq(f) == f = [s \in SUBSET (1 .. n) |->
                           IF s = {} THEN << >>
                           ELSE Takes(f[s \ {Max(s)}], files[Max(s)])]
<1>1. n \in Nat /\ DOMAIN files = 1 .. n /\ \A i \in 1 .. n : files[i] \in S
  BY SeqMembers
<1>2. ASSUME NEW v \in A, NEW e \in S PROVE Takes(v, e) \in A
  <2> HIDE DEF S
  <2> QED  BY WithMatchStays
<1>3. step \in [A \X (1 .. n) -> A]
  <2> HIDE DEF S, n, Takes
  <2> QED  BY <1>1, <1>2
<1>4. PICK f \in [SUBSET (1 .. n) -> A] : \A s \in SUBSET (1 .. n) :
        f[s] = IF s = {} THEN << >> ELSE step[<< f[s \ {Max(s)}], Max(s) >>]
  <2> DEFINE base == << >>
  <2>1. n \in Nat /\ base \in A /\ step \in [A \X (1 .. n) -> A]  BY <1>1, <1>3
  <2> HIDE DEF step, A, n, base
  <2>2. Foldings(n, A, base, step) # {}
    BY <2>1, FoldExists
  <2> QED  BY <2>2 DEF base, Foldings
<1>5. ASSUME NEW s \in SUBSET (1 .. n), s # {}
      PROVE  step[<< f[s \ {Max(s)}], Max(s) >>] = Takes(f[s \ {Max(s)}], files[Max(s)])
  <2>1. Max(s) \in 1 .. n  BY <1>1, <1>5, MaxOfInterval
  <2>2. f[s \ {Max(s)}] \in A
    <3> HIDE DEF A
    <3> QED  BY <1>4
  <2> HIDE DEF A, n, Takes
  <2> QED  BY <2>1, <2>2
<1>6. Eq(f)
  <2> HIDE DEF A, n, step, Takes
  <2> QED  BY <1>4, <1>5
<1> DEFINE iter == CHOOSE it : Eq(it)
<1>7. Eq(iter)
  <2> HIDE DEF Eq
  <2> QED  BY <1>6
<1>8. CASE query # None
  <2>1. Matches(files, query, mode) = iter[1 .. n]
    BY <1>1, <1>8 DEF Matches, FoldLeft, MapThenFoldSet
  <2> DEFINE Typed == {k \in 0 .. n : iter[1 .. k] \in A}
  <2> HIDE DEF iter
  <2>2. 0 \in Typed
    <3>1. 1 .. 0 = {} /\ << >> \in A  OBVIOUS
    <3> HIDE DEF A, Takes
    <3> QED  BY <1>1, <1>7, <3>1
  <2>3. ASSUME NEW k \in 0 .. n - 1, k \in Typed PROVE k + 1 \in Typed
    <3>1. k + 1 \in 1 .. n /\ (k + 1) - 1 = k  BY <1>1
    <3>2. /\ 1 .. (k + 1) # {} /\ Max(1 .. (k + 1)) = k + 1
          /\ (1 .. (k + 1)) \ {Max(1 .. (k + 1))} = 1 .. k
          /\ 1 .. (k + 1) \in SUBSET (1 .. n)
      BY <1>1, <3>1, FoldPasses
    <3> HIDE DEF A, Takes, n
    <3>3. iter[1 .. (k + 1)] = Takes(iter[1 .. k], files[k + 1])
      BY <1>7, <3>2
    <3> QED  BY <1>1, <1>2, <2>3, <3>1, <3>3
  <2>4. 0 .. n \subseteq Typed
    <3> HIDE DEF Typed, n
    <3> QED  BY <1>1, <2>2, <2>3, IntervalInduction
  <2>5. n \in 0 .. n  BY <1>1
  <2> HIDE DEF n, A
  <2>6. iter[1 .. n] \in A  BY <2>4, <2>5
  <2> QED  BY <2>1, <2>6 DEF A
<1>9. CASE query = None
  BY <1>9 DEF Matches
<1> QED
  BY <1>8, <1>9

-----------------------------------------------------------------------------
(* The cursor and the view *)

(* t lists what s lists, of the same directory.                               *)
SameListing(s, t) ==
  /\ t.disk = s.disk /\ t.cwd = s.cwd /\ t.files = s.files
  /\ t.loaded = s.loaded /\ t.total = s.total /\ t.fresh = s.fresh

(* ... and shows the same view of it.                                         *)
SameView(s, t) ==
  /\ SameListing(s, t) /\ t.cap = s.cap
  /\ t.view = s.view /\ t.active = s.active /\ t.query = s.query /\ t.mode = s.mode

(* What does not touch the listing leaves it one.                            *)
LEMMA ListingStays ==
  ASSUME NEW s, Listing(s), NEW t \in State, SameListing(s, t)
  PROVE  Listing(t) /\ Entries(t) = Entries(s)
  BY DEF Listing, SameListing, Enterable, Entries

(* ... and what does not touch the view either leaves the view one of it.    *)
LEMMA ViewStays ==
  ASSUME NEW s, Viewed(s), NEW t \in State, SameView(s, t), t.cursor \in Nat
  PROVE  Viewed(t) /\ ActiveFiles(t) = ActiveFiles(s)
<1>1. Listing(t)
  BY ListingStays DEF SameView, Viewed
<1> QED
  BY <1>1 DEF Viewed, ViewOf, Fits, SameView, SameListing, ActiveFiles

(* What is shown is a sequence of names.                                      *)
LEMMA ActiveIsSeq ==
  ASSUME NEW s \in State
  PROVE  /\ ActiveFiles(s) \in Seq(Names) /\ Len(ActiveFiles(s)) \in Nat
         /\ ActiveFiles(s) = << >> <=> Len(ActiveFiles(s)) = 0
         /\ \A i \in 1 .. Len(ActiveFiles(s)) : ActiveFiles(s)[i] \in Names
<1> DEFINE v == ActiveFiles(s)
<1>1. v \in Seq(Names)
  BY DEF State, ActiveFiles
<1> HIDE DEF v
<1>2. /\ Len(v) \in Nat /\ v = << >> <=> Len(v) = 0
      /\ \A i \in 1 .. Len(v) : v[i] \in Names
  BY <1>1
<1> QED
  BY <1>1, <1>2 DEF v

(* A view of nothing needs no room.                                          *)
LEMMA NothingFits ==
  ASSUME NEW s \in State, s.view = << >>
  PROVE  Fits(s)
<1>1. Len(<< >>) = 0 /\ s.cap \in Nat
  BY DEF State, Caps
<1> QED
  BY <1>1 DEF Fits

WithCursor(s, c) == [s EXCEPT !.cursor = c]
WithStart(s, st) == [s EXCEPT !.start = st]
WithNum(s, n) == [s EXCEPT !.num = n]
AtPlace(s, c, st) == WithStart(WithCursor(s, c), st)

(* Each of these sets one field, and leaves listing and view alone.          *)
LEMMA CursorMoves ==
  ASSUME NEW s \in State, NEW c \in Int
  PROVE  LET t == WithCursor(s, c)
         IN  /\ t \in State /\ SameView(s, t)
             /\ t.cursor = c /\ t.start = s.start /\ t.num = s.num
             /\ t.selected = s.selected /\ t.freed = s.freed
  BY DEF State, SameView, SameListing, WithCursor, WithStart, WithNum

LEMMA WindowMoves ==
  ASSUME NEW s \in State, NEW st \in Nat
  PROVE  LET t == WithStart(s, st)
         IN  /\ t \in State /\ SameView(s, t)
             /\ t.cursor = s.cursor /\ t.start = st /\ t.num = s.num
             /\ t.selected = s.selected /\ t.freed = s.freed
  BY DEF State, SameView, SameListing, WithCursor, WithStart, WithNum

LEMMA CountIs ==
  ASSUME NEW s \in State, NEW n \in Nat
  PROVE  LET t == WithNum(s, n)
         IN  /\ t \in State /\ SameView(s, t)
             /\ t.cursor = s.cursor /\ t.start = s.start /\ t.num = n
             /\ t.selected = s.selected /\ t.freed = s.freed
  BY DEF State, SameView, SameListing, WithCursor, WithStart, WithNum

LEMMA BothMove ==
  ASSUME NEW s \in State, NEW c \in Int, NEW st \in Nat
  PROVE  LET t == AtPlace(s, c, st)
         IN  /\ t \in State /\ SameView(s, t)
             /\ t.cursor = c /\ t.start = st /\ t.num = s.num
             /\ t.selected = s.selected /\ t.freed = s.freed
<1> DEFINE u == WithCursor(s, c)
<1>1. /\ u \in State /\ SameView(s, u)
      /\ u.cursor = c /\ u.num = s.num
      /\ u.selected = s.selected /\ u.freed = s.freed
  BY CursorMoves
<1> HIDE DEF u
<1> DEFINE t == WithStart(u, st)
<1>2. /\ t \in State /\ SameView(u, t)
      /\ t.cursor = u.cursor /\ t.start = st /\ t.num = u.num
      /\ t.selected = u.selected /\ t.freed = u.freed
  BY <1>1, WindowMoves
<1>3. t = AtPlace(s, c, st)
  BY DEF u, AtPlace
<1> HIDE DEF t
<1>4. SameView(s, t)
  BY <1>1, <1>2 DEF SameView, SameListing
<1> QED
  BY <1>1, <1>2, <1>3, <1>4

(* The cursor goes to the top.                                               *)
LEMMA ToTopKeeps ==
  ASSUME NEW s \in State
  PROVE  LET t == ToTop(s)
         IN  /\ t \in State /\ SameView(s, t)
             /\ t.cursor = 0 /\ t.start = 0 /\ t.num = s.num
             /\ t.selected = s.selected /\ t.freed = s.freed
<1>1. ToTop(s) = AtPlace(s, 0, 0)
  BY DEF ToTop, AtPlace, WithCursor, WithStart
<1>2. 0 \in Int /\ 0 \in Nat
  OBVIOUS
<1> QED
  BY <1>1, <1>2, BothMove

(* A name is selected, and alive.                                            *)
LEMMA SelectKeeps ==
  ASSUME NEW s \in State, NEW n \in Names \cup {None}
  PROVE  /\ Select(s, n) \in State /\ SameView(s, Select(s, n))
         /\ Select(s, n).cursor = s.cursor /\ Select(s, n).start = s.start
         /\ Select(s, n).num = s.num
         /\ Select(s, n).selected = n /\ Select(s, n).freed = FALSE
  BY DEF Select, State, SameView, SameListing

(* A number kept between 0 and another one.                                   *)
LEMMA Clamped ==
  ASSUME NEW x \in Int, NEW y \in Int
  PROVE  Max({0, Min({x, y})}) = IF x <= y THEN (IF x < 0 THEN 0 ELSE x)
                                 ELSE IF y < 0 THEN 0 ELSE y
<1> DEFINE m == IF x <= y THEN x ELSE y
<1>1. Min({x, y}) = m
  BY MinMaxOfTwo
<1>2. m \in Int
  OBVIOUS
<1>3. Max({0, m}) = IF 0 <= m THEN m ELSE 0
  <2> HIDE DEF m
  <2>1. 0 \in Int  OBVIOUS
  <2> QED  BY <1>2, <2>1, MinMaxOfTwo
<1> HIDE DEF m
<1>4. Max({0, Min({x, y})}) = IF m < 0 THEN 0 ELSE m
  BY <1>1, <1>2, <1>3
<1> QED
  BY <1>4 DEF m

(* The smaller and the larger of two numbers.                                *)
LEMMA NatMinMax ==
  ASSUME NEW x \in Nat, NEW y \in Int
  PROVE  Max({x, y}) \in Nat /\ (y \in Nat => Min({x, y}) \in Nat)
<1>1. x \in Int
  OBVIOUS
<1>2. /\ Min({x, y}) = (IF x <= y THEN x ELSE y)
      /\ Max({x, y}) = (IF x <= y THEN y ELSE x)
  BY <1>1, MinMaxOfTwo
<1> QED
  BY <1>2

(* fix_cursor puts the cursor on an entry, if there is one, and that into the  *)
(* window.                                                                    *)
LEMMA FixCursorFits ==
  ASSUME NEW s \in State
  PROVE  LET t == FixCursor(s)
         IN  /\ t \in State /\ SameView(s, t)
             /\ t.num = s.num /\ t.selected = s.selected /\ t.freed = s.freed
             /\ t.cursor \in Nat
             /\ s.num > 0 => t.cursor < s.num
             /\ s.num = 0 => t.cursor = 0
             /\ s.num > 0 => t.start <= t.cursor /\ t.cursor < t.start + Visible
<1> DEFINE c == IF s.cursor <= s.num - 1 THEN (IF s.cursor < 0 THEN 0 ELSE s.cursor)
                ELSE IF s.num - 1 < 0 THEN 0 ELSE s.num - 1
           near == IF c < s.start THEN c
                   ELSE IF c >= s.start + Visible THEN c - Visible + 1 ELSE s.start
           low == IF near <= s.num - Visible THEN near ELSE s.num - Visible
           st == IF s.num <= Visible THEN 0 ELSE IF low < 0 THEN 0 ELSE low
<1>1. s.cursor \in Int /\ s.num \in Nat /\ s.start \in Nat /\ Visible \in Nat \ {0}
  BY Bounds DEF State
<1>2. Max({0, Min({s.cursor, s.num - 1})}) = c
  <2>1. s.num - 1 \in Int  BY <1>1
  <2> QED  BY <1>1, <2>1, Clamped
<1>3. c \in Nat /\ (s.num > 0 => c < s.num) /\ (s.num = 0 => c = 0)
  BY <1>1
<1> HIDE DEF c
<1>4. near \in Int
  BY <1>1, <1>3
<1>5. Max({0, Min({near, s.num - Visible})}) = IF low < 0 THEN 0 ELSE low
  <2> HIDE DEF near
  <2>1. s.num - Visible \in Int  BY <1>1
  <2> QED  BY <1>4, <2>1, Clamped
<1>6. FixCursor(s) = [s EXCEPT !.cursor = c, !.start = st]
  <2> DEFINE x == Max({0, Min({s.cursor, s.num - 1})})
  <2>1. x = c  BY <1>2
  <2>2. FixCursor(s) =
          [s EXCEPT !.cursor = x,
             !.start = IF s.num <= Visible THEN 0
                       ELSE Max({0, Min({IF x < s.start THEN x
                                         ELSE IF x >= s.start + Visible THEN x - Visible + 1
                                         ELSE s.start, s.num - Visible})})]
    BY DEF FixCursor
  <2> HIDE DEF x
  <2> QED  BY <1>5, <2>1, <2>2
<1>7. st \in Nat
  <2> HIDE DEF near
  <2> QED  BY <1>1, <1>4
<1>8. s.num > 0 => st <= c /\ c < st + Visible
  <2>1. CASE c < s.start  BY <1>1, <1>3, <2>1
  <2>2. CASE c >= s.start + Visible  BY <1>1, <1>3, <2>2
  <2>3. CASE c >= s.start /\ c < s.start + Visible  BY <1>1, <1>3, <2>3
  <2> QED  BY <1>1, <1>3, <2>1, <2>2, <2>3
<1> HIDE DEF st, low, near
<1>9. FixCursor(s) = AtPlace(s, c, st)
  BY <1>6 DEF AtPlace, WithCursor, WithStart
<1> QED
  BY <1>3, <1>7, <1>8, <1>9, BothMove

(* search_clear ends the search and leaves the listing alone.                *)
LEMMA SearchClearKeeps ==
  ASSUME NEW s \in State
  PROVE  LET t == SearchClear(s)
         IN  /\ t \in State /\ SameListing(s, t)
             /\ t.view = << >> /\ ~t.active /\ t.query = None /\ t.mode = s.mode
             /\ t.cursor = s.cursor /\ t.start = s.start /\ t.num = s.num
             /\ t.selected = s.selected /\ t.freed = s.freed
<1>1. /\ << >> \in Seq(Names) /\ FALSE \in BOOLEAN /\ None \in Queries \cup {None}
  OBVIOUS
<1> QED
  BY <1>1 DEF SearchClear, State, SameListing

(* Vector_add never takes room away, and gives what it is asked for.         *)
LEMMA RoomIsAdded ==
  ASSUME NEW c \in Caps, NEW n \in Nat
  PROVE  VectorAdd(c, 0, n) \in Caps /\ n <= VectorAdd(c, 0, n)
<1>1. c \in Nat /\ c >= ViewCap /\ ViewCap \in Nat /\ 0 + n = n /\ 2 * c \in Nat
  BY Bounds DEF Caps
<1>2. CASE n > c
  <2> DEFINE d == 2 * c
  <2>1. d \in Int /\ n \in Int /\ d \in Nat  BY <1>1
  <2> HIDE DEF d
  <2>2. Max({d, n}) = IF d <= n THEN n ELSE d  BY <2>1, MinMaxOfTwo
  <2>3. VectorAdd(c, 0, n) = Max({d, n})  BY <1>1, <1>2 DEF VectorAdd, d
  <2>4. VectorAdd(c, 0, n) \in Nat /\ n <= VectorAdd(c, 0, n)  BY <2>1, <2>2, <2>3
  <2> QED  BY <1>1, <1>2, <2>4 DEF Caps
<1>3. CASE ~(n > c)
  <2>1. VectorAdd(c, 0, n) = c  BY <1>1, <1>3 DEF VectorAdd
  <2> QED  BY <1>1, <1>3, <2>1
<1> QED
  BY <1>2, <1>3

(* search_rebuild replaces the view and may make room for it, nothing else.  *)
LEMMA RebuildKeeps ==
  ASSUME NEW s \in State
  PROVE  LET t == Rebuild(s)
         IN  /\ t \in State /\ SameListing(s, t) /\ Fits(t)
             /\ t.view = Matches(s.files, s.query, s.mode)
             /\ t.active = s.active /\ t.query = s.query /\ t.mode = s.mode
             /\ t.cursor = s.cursor /\ t.start = s.start /\ t.num = s.num
             /\ t.selected = s.selected /\ t.freed = s.freed
<1> DEFINE m == Matches(s.files, s.query, s.mode)
           room == IF s.mode = "fuzzy" THEN Len(m) ELSE Min({Len(m), 1})
           c == VectorAdd(s.cap, 0, room)
           t == [s EXCEPT !.view = m, !.cap = c]
<1>1. s.files \in Seq(Names)
  BY DEF State
<1>2. m \in Seq(Range(s.files)) /\ Range(s.files) \subseteq Names
  BY <1>1, MatchesAreListed, SeqMembers
<1>3. m \in Seq(Names) /\ Len(m) \in Nat
  <2> HIDE DEF m
  <2> QED  BY <1>2
<1>4. Rebuild(s) = t
  BY DEF Rebuild
<1>5. room \in Nat
  <2> DEFINE l == Len(m)
  <2>1. l \in Nat /\ 1 \in Int /\ 1 \in Nat  BY <1>3
  <2> HIDE DEF l
  <2>2. Min({l, 1}) \in Nat  BY <2>1, NatMinMax
  <2> QED  BY <2>1, <2>2 DEF l
<1>6. c \in Caps /\ room <= c
  <2>1. s.cap \in Caps  BY DEF State
  <2> HIDE DEF room
  <2> QED  BY <1>5, <2>1, RoomIsAdded
<1>7. s.mode = "fuzzy" => room = Len(m)
  OBVIOUS
<1> HIDE DEF m, room, c
<1>8. /\ t \in State /\ SameListing(s, t) /\ t.view = m /\ t.cap = c
      /\ t.active = s.active /\ t.query = s.query /\ t.mode = s.mode
      /\ t.cursor = s.cursor /\ t.start = s.start /\ t.num = s.num
      /\ t.selected = s.selected /\ t.freed = s.freed
  BY <1>3, <1>6 DEF State, SameListing
<1> HIDE DEF t
<1>9. Fits(t)
  BY <1>6, <1>7, <1>8 DEF Fits
<1> QED
  BY <1>4, <1>8, <1>9 DEF m

(* The view is built anew from the query (search_rebuild).                     *)
LEMMA RebuildViews ==
  ASSUME NEW s, Listing(s), s.active, s.cursor \in Nat
  PROVE  Viewed(Rebuild(s)) /\ Rebuild(s).active
<1>1. s \in State
  BY DEF Listing
<1> DEFINE t == Rebuild(s)
<1>2. /\ t \in State /\ SameListing(s, t) /\ Fits(t)
      /\ t.view = Matches(s.files, s.query, s.mode)
      /\ t.active = s.active /\ t.query = s.query /\ t.mode = s.mode
      /\ t.cursor = s.cursor
  BY <1>1, RebuildKeeps
<1> HIDE DEF t
<1>3. Listing(t)
  BY <1>2, ListingStays
<1>4. Viewed(t) /\ t.active
  BY <1>2, <1>3 DEF Viewed, ViewOf, SameListing
<1> QED
  BY <1>4 DEF t

(* Without a search the view is empty.                                       *)
LEMMA ClearViews ==
  ASSUME NEW s, Listing(s), s.cursor \in Nat
  PROVE  Viewed(SearchClear(s)) /\ ~SearchClear(s).active
<1>1. s \in State
  BY DEF Listing
<1> DEFINE t == SearchClear(s)
<1>2. /\ t \in State /\ SameListing(s, t) /\ t.view = << >> /\ ~t.active
      /\ t.cursor = s.cursor
  BY <1>1, SearchClearKeeps
<1> HIDE DEF t
<1>3. Listing(t)
  BY <1>2, ListingStays
<1>4. Viewed(t) /\ ~t.active
  BY <1>2, <1>3, NothingFits DEF Viewed, ViewOf
<1> QED
  BY <1>4 DEF t

(* A query, or none, is followed by a view of its own.                       *)
LEMMA SetQueryViews ==
  ASSUME NEW s, Listing(s), s.cursor \in Nat, NEW q \in Queries \cup {None}
  PROVE  Viewed(SetQuery(s, q)) /\ SetQuery(s, q).num = s.num
<1>1. s \in State
  BY DEF Listing
<1>2. CASE q = None
  BY <1>1, <1>2, ClearViews, SearchClearKeeps DEF SetQuery
<1>3. CASE q # None
  <2> DEFINE u == [s EXCEPT !.query = q, !.active = TRUE]
  <2>1. /\ u \in State /\ SameListing(s, u) /\ u.active /\ u.cursor = s.cursor /\ u.num = s.num
    BY <1>1 DEF State, SameListing
  <2>2. SetQuery(s, q) = Rebuild(u)
    BY <1>3 DEF SetQuery
  <2> HIDE DEF u
  <2>3. Listing(u)
    BY <2>1, ListingStays
  <2> QED  BY <2>1, <2>2, <2>3, RebuildViews, RebuildKeeps
<1> QED
  BY <1>2, <1>3

(* After sync_selection_from_active the entry under the cursor is selected.    *)
LEMMA SyncShows ==
  ASSUME NEW s, Viewed(s), NEW same \in BOOLEAN
  PROVE  LET t == Sync(s, same)
         IN  /\ Viewed(t) /\ Shown(t) /\ Counted(t)
             /\ t.active = s.active
<1> DEFINE v == ActiveFiles(s)
<1>1. s \in State /\ s.cursor \in Nat
  BY DEF Viewed, Listing
<1>2. v \in Seq(Names) /\ Len(v) \in Nat /\ (v = << >> <=> Len(v) = 0)
      /\ \A i \in 1 .. Len(v) : v[i] \in Names
  BY <1>1, ActiveIsSeq
<1>3. CASE v = << >>
  <2> DEFINE w == ToTop(WithNum(s, 0))
             t == Select(w, None)
  <2>1. Sync(s, same) = t
    BY <1>3 DEF Sync, WithNum
  <2>2. /\ WithNum(s, 0) \in State /\ SameView(s, WithNum(s, 0)) /\ WithNum(s, 0).num = 0
    BY <1>1, CountIs
  <2>3. /\ w \in State /\ SameView(WithNum(s, 0), w) /\ w.cursor = 0 /\ w.num = 0
    BY <2>2, ToTopKeeps
  <2> HIDE DEF w
  <2>4. /\ t \in State /\ SameView(w, t) /\ t.cursor = 0 /\ t.num = 0
        /\ t.selected = None /\ t.freed = FALSE
    BY <2>3, SelectKeeps
  <2> HIDE DEF t
  <2>5. SameView(s, t)
    BY <2>2, <2>3, <2>4 DEF SameView, SameListing
  <2>6. Viewed(t) /\ ActiveFiles(t) = v
    BY <2>4, <2>5, ViewStays
  <2> HIDE DEF v
  <2> QED  BY <1>2, <1>3, <2>1, <2>4, <2>5, <2>6 DEF Shown, Counted, SameView
<1>4. CASE v # << >>
  <2> DEFINE w == WithNum(s, Len(v))
             t == FixCursor(w)
             n == v[t.cursor + 1]
             o == t.override /\ (IF s.freed THEN same ELSE s.selected = n)
             u == [Select(t, n) EXCEPT !.override = o]
  <2>1. Sync(s, same) = u
    <3> HIDE DEF v
    <3> QED  BY <1>4 DEF Sync, WithNum, v, Select
  <2>2. w \in State /\ SameView(s, w) /\ w.num = Len(v)
    <3> HIDE DEF v
    <3> QED  BY <1>1, <1>2, CountIs
  <2> HIDE DEF w
  <2>3. /\ t \in State /\ SameView(w, t) /\ t.num = w.num /\ t.cursor \in Nat
        /\ t.cursor < w.num /\ t.start <= t.cursor /\ t.cursor < t.start + Visible
    <3> HIDE DEF v
    <3>1. w.num > 0  BY <1>2, <1>4, <2>2
    <3> QED  BY <2>2, <3>1, FixCursorFits
  <2> HIDE DEF t
  <2>4. n \in Names
    <3> HIDE DEF v
    <3>1. t.cursor + 1 \in 1 .. Len(v)  BY <1>2, <2>2, <2>3
    <3> QED  BY <1>2, <3>1
  <2> HIDE DEF n
  <2>5. /\ Select(t, n) \in State /\ SameView(t, Select(t, n))
        /\ Select(t, n).cursor = t.cursor /\ Select(t, n).start = t.start
        /\ Select(t, n).num = t.num
        /\ Select(t, n).selected = n /\ Select(t, n).freed = FALSE
    BY <2>3, <2>4, SelectKeeps
  <2>6. o \in BOOLEAN
    BY <1>1, <2>3 DEF State
  <2> HIDE DEF o
  <2>7. /\ u \in State /\ SameView(Select(t, n), u)
        /\ u.cursor = t.cursor /\ u.start = t.start /\ u.num = t.num
        /\ u.selected = n /\ u.freed = FALSE
    BY <2>5, <2>6 DEF State, SameView, SameListing
  <2> HIDE DEF u
  <2>8. SameView(s, u)
    BY <2>2, <2>3, <2>5, <2>7 DEF SameView, SameListing
  <2>9. Viewed(u) /\ ActiveFiles(u) = v
    BY <2>3, <2>7, <2>8, ViewStays
  <2> HIDE DEF v
  <2> QED
    BY <1>2, <1>4, <2>1, <2>2, <2>3, <2>7, <2>8, <2>9 DEF Shown, Counted, SameView, n
<1> QED
  BY <1>3, <1>4

-----------------------------------------------------------------------------
(* Loading *)

(* readdir finds names, and directories that can be entered.                 *)
LEMMA EntriesAreNames ==
  ASSUME NEW s \in State
  PROVE  /\ Entries(s) \in Seq(Names) /\ Len(Entries(s)) \in Nat
         /\ \A n \in Range(Entries(s)) \cap DirNames : Append(s.cwd, n) \in Paths
<1>1. CASE Exists(s.disk, s.cwd)
  <2>1. s.disk \in Disks /\ s.cwd \in Paths
    BY DEF State
  <2>2. Entries(s) = s.disk[s.cwd]
    BY <1>1 DEF Entries
  <2>3. s.disk[s.cwd] \in Seq(Names)
    BY <2>1 DEF Disks
  <2>4. \A n \in Range(s.disk[s.cwd]) \cap DirNames : Append(s.cwd, n) \in Paths
    BY <2>1 DEF Disks
  <2> QED  BY <2>2, <2>3, <2>4
<1>2. CASE ~ Exists(s.disk, s.cwd)
  <2>1. Entries(s) = << >>
    BY <1>2 DEF Entries
  <2>2. << >> \in Seq(Names) /\ Len(<< >>) = 0
    OBVIOUS
  <2> QED  BY <2>1, <2>2, RangeOfEmpty
<1> QED
  BY <1>1, <1>2

(* What stays when more is loaded.                                            *)
SameDirectory(s, t) ==
  /\ t.disk = s.disk /\ t.cwd = s.cwd /\ t.total = s.total /\ t.fresh = s.fresh
  /\ t.view = s.view /\ t.active = s.active /\ t.query = s.query /\ t.mode = s.mode
  /\ t.start = s.start /\ t.cap = s.cap

WithFiles(s, f) == [s EXCEPT !.files = f]
WithLoaded(s, l) == [s EXCEPT !.loaded = l]

(* The listing and the count of what is loaded are set one after the other.  *)
LEMMA FilesAre ==
  ASSUME NEW s \in State, NEW f \in Seq(Names)
  PROVE  LET t == WithFiles(s, f)
         IN  /\ t \in State /\ SameDirectory(s, t)
             /\ t.files = f /\ t.loaded = s.loaded
             /\ t.cursor = s.cursor /\ t.num = s.num
             /\ t.selected = s.selected /\ t.freed = s.freed
  BY DEF State, SameDirectory, WithFiles

LEMMA LoadedIs ==
  ASSUME NEW s \in State, NEW l \in Nat
  PROVE  LET t == WithLoaded(s, l)
         IN  /\ t \in State /\ SameDirectory(s, t)
             /\ t.files = s.files /\ t.loaded = l
             /\ t.cursor = s.cursor /\ t.num = s.num
             /\ t.selected = s.selected /\ t.freed = s.freed
  BY DEF State, SameDirectory, WithLoaded

(* append_files_to_vec_lazy goes on in the listing where it was left.          *)
LEMMA AppendLazyLists ==
  ASSUME NEW s, Listing(s), NEW n \in Nat
  PROVE  LET t == AppendLazy(s, n)
         IN  /\ Listing(t) /\ SameDirectory(s, t)
             /\ t.cursor = s.cursor /\ t.num = s.num
             /\ t.selected = s.selected /\ t.freed = s.freed
             /\ Len(t.files) >= Len(s.files)
             /\ t.files # s.files => /\ Len(t.files) > Len(s.files)
                                     /\ Len(t.files) <= Len(Entries(s))
<1> DEFINE e == Entries(s)
           l == Len(s.files)
           j == Min({s.loaded + n, Len(e)})
           new == SubSeq(e, s.loaded + 1, j)
           more == s.files \o new
           t == [s EXCEPT !.files = more, !.loaded = s.loaded + Len(new)]
<1>1. /\ s \in State /\ s.files \in Seq(Names) /\ s.loaded = l /\ l \in Nat
      /\ \A m \in Range(s.files) \cap DirNames : Append(s.cwd, m) \in Paths
  BY DEF Listing, State, Enterable
<1>2. /\ e \in Seq(Names) /\ Len(e) \in Nat
      /\ \A m \in Range(e) \cap DirNames : Append(s.cwd, m) \in Paths
  BY <1>1, EntriesAreNames
<1>3. AppendLazy(s, n) = t
  BY DEF AppendLazy
<1> HIDE DEF e
<1>4. j \in Nat /\ j <= Len(e) /\ j <= l + n /\ (j = Len(e) \/ j = l + n)
  BY <1>1, <1>2, MinMaxOfTwo
<1> HIDE DEF j
<1>5. /\ new \in Seq(Names) /\ Range(new) \subseteq Range(e)
      /\ Len(new) = IF l < j THEN j - l ELSE 0
  <2>1. CASE l <= Len(e)
    <3>1. l + 1 \in 1 .. Len(e) + 1 /\ j \in 0 .. Len(e)  BY <1>1, <1>2, <1>4, <2>1
    <3>2. /\ SubSeq(e, l + 1, j) \in Seq(Names) /\ Range(SubSeq(e, l + 1, j)) \subseteq Range(e)
          /\ Len(SubSeq(e, l + 1, j)) = IF l + 1 <= j THEN j - (l + 1) + 1 ELSE 0
      <4> HIDE DEF l
      <4> QED  BY <1>2, <3>1, SubSeqIsPart
    <3>3. new = SubSeq(e, l + 1, j)
      BY <1>1
    <3> HIDE DEF new, l
    <3> QED  BY <1>1, <1>4, <3>2, <3>3
  <2>2. CASE l > Len(e)
    <3> HIDE DEF l
    <3>1. l + 1 > j /\ ~(l < j)  BY <1>1, <1>2, <1>4, <2>2
    <3>2. SubSeq(e, l + 1, j) = << >>  BY <1>1, <1>2, <1>4, <3>1
    <3>3. new = << >>  BY <1>1, <3>2
    <3>4. << >> \in Seq(Names) /\ Len(<< >>) = 0  OBVIOUS
    <3> HIDE DEF new
    <3> QED  BY <3>1, <3>3, <3>4, RangeOfEmpty
  <2> QED  BY <1>1, <1>2, <2>1, <2>2
<1>6. s.fresh => IsPrefix(more, e)
  <2> SUFFICES ASSUME s.fresh PROVE IsPrefix(more, e)
    OBVIOUS
  <2>1. IsPrefix(s.files, e) /\ l <= Len(e)
    BY DEF Listing, e, IsPrefix
  <2>2. CASE l <= j
    <3>1. j \in l .. Len(e)  BY <1>1, <1>2, <1>4, <2>2
    <3>2. IsPrefix(s.files \o SubSeq(e, l + 1, j), e)
      BY <1>1, <1>2, <2>1, <3>1, PrefixGrows
    <3> QED  BY <1>1, <3>2
  <2>3. CASE l > j
    <3>1. FALSE  BY <1>1, <1>2, <1>4, <2>1, <2>3
    <3> QED  BY <3>1
  <2> QED  BY <1>1, <1>4, <2>2, <2>3
<1> HIDE DEF new
<1>7. /\ more \in Seq(Names) /\ Range(more) = Range(s.files) \cup Range(new)
      /\ Len(more) = l + Len(new) /\ Len(new) \in Nat
  BY <1>1, <1>5, RangeOfConcat
<1>8. more # s.files => Len(new) # 0
  BY <1>1, <1>5
<1>9. \A m \in Range(more) \cap DirNames : Append(s.cwd, m) \in Paths
  BY <1>1, <1>2, <1>5, <1>7
<1> HIDE DEF more
<1>10. /\ t \in State /\ SameDirectory(s, t)
       /\ t.files = more /\ t.loaded = Len(more)
       /\ t.cursor = s.cursor /\ t.num = s.num
       /\ t.selected = s.selected /\ t.freed = s.freed
  <2> DEFINE u == WithFiles(s, more)
             w == WithLoaded(u, s.loaded + Len(new))
  <2>1. s.loaded + Len(new) \in Nat /\ s.loaded + Len(new) = Len(more)
    BY <1>1, <1>7
  <2>2. /\ u \in State /\ SameDirectory(s, u) /\ u.files = more
        /\ u.cursor = s.cursor /\ u.num = s.num
        /\ u.selected = s.selected /\ u.freed = s.freed
    BY <1>1, <1>7, FilesAre
  <2>3. t = w
    BY DEF WithFiles, WithLoaded
  <2> HIDE DEF u, t
  <2>4. /\ w \in State /\ SameDirectory(u, w) /\ w.files = u.files
        /\ w.loaded = Len(more) /\ w.cursor = u.cursor /\ w.num = u.num
        /\ w.selected = u.selected /\ w.freed = u.freed
    BY <2>1, <2>2, LoadedIs
  <2> HIDE DEF w
  <2> QED  BY <2>2, <2>3, <2>4 DEF SameDirectory
<1> HIDE DEF t
<1>11. Entries(t) = e
  BY <1>10 DEF Entries, SameDirectory, e
<1>12. Listing(t)
  <2>1. Enterable(t)  BY <1>9, <1>10 DEF Enterable, SameDirectory
  <2>2. t.fresh => IsPrefix(t.files, Entries(t)) /\ t.total = Len(Entries(t))
    BY <1>6, <1>10, <1>11 DEF SameDirectory, Listing, e
  <2> QED  BY <1>10, <2>1, <2>2 DEF Listing
<1>13. Len(more) >= l /\ (more # s.files => Len(more) > l /\ Len(more) <= Len(e))
  <2> DEFINE k == Len(new)  z == Len(more)
  <2>1. /\ z = l + k /\ k \in Nat /\ k = (IF l < j THEN j - l ELSE 0)
        /\ (more # s.files => k # 0)
    BY <1>5, <1>7, <1>8
  <2>2. l \in Nat /\ Len(e) \in Nat /\ j \in Nat /\ j <= Len(e)
    BY <1>1, <1>2, <1>4
  <2> HIDE DEF k, z, l
  <2>3. z >= l  BY <2>1, <2>2
  <2>4. k # 0 => z = j /\ l < j  BY <2>1, <2>2
  <2> QED  BY <2>1, <2>2, <2>3, <2>4 DEF z
<1> QED
  BY <1>3, <1>10, <1>12, <1>13 DEF e

(* load_more_files_if_needed *)
LEMMA LoadMoreLists ==
  ASSUME NEW s, Listing(s), NEW from
  PROVE  LET t == LoadMoreAt(s, from)
         IN  /\ Listing(t) /\ SameDirectory(s, t)
             /\ t.cursor = s.cursor
             /\ t.num = s.num \/ t.num = Len(t.files)
             /\ t.selected = s.selected /\ t.freed = s.freed
             /\ Len(t.files) >= Len(s.files)
             /\ t.files # s.files => /\ Len(t.files) > Len(s.files)
                                     /\ Len(t.files) <= Len(Entries(s))
<1>1. s \in State /\ Len(s.files) \in Nat /\ s.loaded \in Nat /\ s.total \in Nat
  BY DEF Listing, State
<1>2. CASE LoadMoreAt(s, from) = s
  BY <1>1, <1>2 DEF SameDirectory
<1>3. CASE LoadMoreAt(s, from) # s
  <2> DEFINE u == AppendLazy(s, Min({s.total - s.loaded, Batch}))
             t == WithNum(u, Len(u.files))
  <2>1. LoadMoreAt(s, from) = t /\ s.loaded < s.total
    BY <1>1, <1>3 DEF LoadMoreAt, WithNum
  <2>2. Min({s.total - s.loaded, Batch}) \in Nat
    BY <1>1, <2>1, Bounds, MinMaxOfTwo
  <2>3. /\ Listing(u) /\ SameDirectory(s, u)
        /\ u.cursor = s.cursor
        /\ u.selected = s.selected /\ u.freed = s.freed
        /\ Len(u.files) >= Len(s.files)
        /\ u.files # s.files => /\ Len(u.files) > Len(s.files)
                                /\ Len(u.files) <= Len(Entries(s))
    BY <2>2, AppendLazyLists
  <2> HIDE DEF u
  <2>4. u \in State /\ Len(u.files) \in Nat
    BY <2>3 DEF Listing, State
  <2>5. /\ t \in State /\ SameView(u, t)
        /\ t.cursor = u.cursor /\ t.start = u.start /\ t.num = Len(u.files)
        /\ t.selected = u.selected /\ t.freed = u.freed
    BY <2>4, CountIs
  <2> HIDE DEF t
  <2>6. Listing(t)
    BY <2>3, <2>5, ListingStays DEF SameView
  <2>7. t.files = u.files /\ SameDirectory(s, t)
    BY <2>3, <2>5 DEF SameView, SameListing, SameDirectory
  <2> QED  BY <2>1, <2>3, <2>5, <2>6, <2>7
<1> QED
  BY <1>2, <1>3

(* A place in a sequence, or -1.                                              *)
LEMMA IndexIsPlace ==
  ASSUME NEW S, NEW seq \in Seq(S), NEW n
  PROVE  IndexIn(seq, n) \in -1 .. Len(seq) - 1
<1> DEFINE I == {i \in 1 .. Len(seq) : seq[i] = n}
<1>1. IndexIn(seq, n) = (IF I # {} THEN Min(I) ELSE 0) - 1
  BY DEF IndexIn, SelectInSeq
<1>2. Len(seq) \in Nat /\ I \subseteq 1 .. Len(seq) /\ I \subseteq Nat
  OBVIOUS
<1> HIDE DEF I
<1>3. I # {} => Min(I) \in 1 .. Len(seq)
  BY <1>2, MinOfNats
<1> QED
  BY <1>1, <1>2, <1>3

(* One batch more of find_index_by_name_lazy.                                  *)
LEMMA NextBatchLists ==
  ASSUME NEW s, Listing(s)
  PROVE  LET t == NextBatch(s)
         IN  /\ Listing(t) /\ SameDirectory(s, t)
             /\ t.cursor = Len(s.files) - 1
             /\ Len(t.files) >= Len(s.files)
             /\ t.files # s.files => /\ Len(t.files) > Len(s.files)
                                     /\ Len(t.files) <= Len(Entries(s))
<1> DEFINE l == Len(s.files)
           u == WithNum(s, l)
           w == WithCursor(u, l - 1)
           t == LoadMoreAt(w, w.start)
<1>1. s \in State /\ l \in Nat /\ l - 1 \in Int
  BY DEF Listing, State
<1>2. NextBatch(s) = t
  BY DEF NextBatch, LoadMore, WithNum, WithCursor
<1>3. u \in State /\ SameView(s, u) /\ u.start = s.start
  BY <1>1, CountIs
<1> HIDE DEF u, l
<1>4. w \in State /\ SameView(u, w) /\ w.cursor = l - 1 /\ w.start = u.start
  BY <1>1, <1>3, CursorMoves
<1> HIDE DEF w
<1>5. SameListing(s, w) /\ SameDirectory(s, w)
  BY <1>3, <1>4 DEF SameView, SameListing, SameDirectory
<1>6. Listing(w) /\ Entries(w) = Entries(s) /\ w.files = s.files
  BY <1>4, <1>5, ListingStays DEF SameListing
<1>7. /\ Listing(t) /\ SameDirectory(w, t)
      /\ t.cursor = w.cursor
      /\ Len(t.files) >= Len(w.files)
      /\ t.files # w.files => /\ Len(t.files) > Len(w.files)
                              /\ Len(t.files) <= Len(Entries(w))
  BY <1>6, LoadMoreLists
<1> HIDE DEF t
<1>8. SameDirectory(s, t)
  BY <1>5, <1>7 DEF SameDirectory
<1> QED
  BY <1>2, <1>4, <1>6, <1>7, <1>8 DEF l

(* The entries are those of the directory, whatever is loaded of them.          *)
LEMMA SameEntries ==
  ASSUME NEW s, NEW t, SameDirectory(s, t)
  PROVE  Entries(t) = Entries(s)
  BY DEF SameDirectory, Entries

(* find_index_by_name_lazy comes to an end, because it stops when a batch adds  *)
(* nothing, with the cursor on an entry or where it was.                        *)
LEMMA FindLazyFinds ==
  ASSUME NEW s, Viewed(s), ~s.active, NEW n
  PROVE  LET t == FindLazy(s, n)
         IN  Viewed(t) /\ ~t.active /\ Counted(t)
<1> DEFINE N == Len(Entries(s))
           A == {x \in State : Listing(x)}
           Eq(f) == f = [k \in 0 .. N + 1 |-> IF k = 0 THEN s ELSE NextBatch(f[k - 1])]
           after == CHOOSE f : Eq(f)
           ended(k) == \/ IndexIn(after[k].files, n) # -1 \/ after[k].files = << >>
                       \/ k > 0 /\ after[k].files = after[k - 1].files
                       \/ k = 512
           least == CHOOSE j \in DOMAIN after : ended(j) /\ \A i \in 0 .. j - 1 : ~ended(i)
           u == after[least]
           t == WithNum(u, Len(u.files))
<1>1. s \in A /\ s \in State /\ Listing(s) /\ N \in Nat /\ s.cursor \in Nat
  BY EntriesAreNames DEF Viewed, Listing
<1>2. FindLazy(s, n) = t
  BY DEF FindLazy, WithNum
<1> HIDE DEF N
<1>3. ASSUME NEW x \in A PROVE NextBatch(x) \in A
  BY NextBatchLists DEF Listing
<1>4. Eq(after)
  <2> DEFINE step == [x \in A \X (1 .. N + 1) |-> NextBatch(x[1])]
  <2>1. step \in [A \X (1 .. N + 1) -> A]
    <3> HIDE DEF A
    <3> QED  BY <1>3
  <2>2. 0 \in Int /\ N + 1 \in Int /\ 0 <= N + 1 /\ 0 + 1 = 1
    BY <1>1
  <2>3. Recursions(0, N + 1, A, s, step) # {}
    <3> HIDE DEF step, A
    <3> QED  BY <1>1, <2>1, <2>2, RecursionExists
  <2>4. PICK f \in [0 .. N + 1 -> A] :
          f[0] = s /\ \A k \in 1 .. N + 1 : f[k] = step[<< f[k - 1], k >>]
    <3> HIDE DEF step, A
    <3> QED  BY <2>2, <2>3 DEF Recursions
  <2>5. ASSUME NEW k \in 1 .. N + 1 PROVE f[k] = NextBatch(f[k - 1])
    <3>1. k - 1 \in 0 .. N + 1  BY <1>1
    <3>2. f[k - 1] \in A
      <4> HIDE DEF A
      <4> QED  BY <3>1
    <3> HIDE DEF A
    <3>3. step[<< f[k - 1], k >>] = NextBatch(f[k - 1])
      BY <3>2
    <3> QED  BY <2>4, <3>3
  <2>6. Eq(f)
    <3> HIDE DEF A, step
    <3>1. ASSUME NEW k \in 0 .. N + 1
          PROVE  f[k] = IF k = 0 THEN s ELSE NextBatch(f[k - 1])
      <4>1. CASE k = 0  BY <2>4, <4>1
      <4>2. CASE k # 0
        <5>1. k \in 1 .. N + 1  BY <1>1, <4>2
        <5> QED  BY <2>5, <4>2, <5>1
      <4> QED  BY <4>1, <4>2
    <3> QED  BY <3>1
  <2> HIDE DEF Eq
  <2> QED  BY <2>6
<1> HIDE DEF after
<1>5. /\ DOMAIN after = 0 .. N + 1 /\ after[0] = s
      /\ \A k \in 1 .. N + 1 : after[k] = NextBatch(after[k - 1])
  <2>1. 0 \in 0 .. N + 1 /\ \A k \in 1 .. N + 1 : k \in 0 .. N + 1 /\ k # 0
    BY <1>1
  <2> QED  BY <1>4, <2>1
<1> HIDE DEF Eq, A
<1> DEFINE Loaded == {k \in 0 .. N + 1 : /\ Listing(after[k]) /\ SameDirectory(s, after[k])
                                         /\ Len(after[k].files) >= Len(s.files)}
<1>6. 0 .. N + 1 \subseteq Loaded
  <2>1. 0 \in Loaded
    BY <1>1, <1>5 DEF SameDirectory, Listing, State
  <2>2. ASSUME NEW k \in 0 .. (N + 1) - 1, k \in Loaded PROVE k + 1 \in Loaded
    <3> DEFINE x == after[k]  y == after[k + 1]
    <3>1. k + 1 \in 1 .. N + 1 /\ k + 1 \in 0 .. N + 1 /\ (k + 1) - 1 = k
      BY <1>1
    <3>2. y = NextBatch(x)  BY <1>5, <3>1
    <3>3. Listing(x) /\ SameDirectory(s, x) /\ Len(x.files) >= Len(s.files)
      BY <2>2
    <3> HIDE DEF x, y
    <3>4. Listing(y) /\ SameDirectory(x, y) /\ Len(y.files) >= Len(x.files)
      BY <3>2, <3>3, NextBatchLists
    <3>5. SameDirectory(s, y)  BY <3>3, <3>4 DEF SameDirectory
    <3>6. Len(y.files) \in Nat /\ Len(x.files) \in Nat /\ Len(s.files) \in Nat
      BY <1>1, <3>3, <3>4 DEF Listing, State
    <3>7. Len(y.files) >= Len(s.files)  BY <3>3, <3>4, <3>6
    <3> QED  BY <3>1, <3>4, <3>5, <3>7 DEF y
  <2> HIDE DEF Loaded
  <2>3. N + 1 \in Nat  BY <1>1
  <2> QED  BY <2>1, <2>2, <2>3, IntervalInduction
<1>7. \E k \in 0 .. N + 1 : ended(k)
  <2> SUFFICES ASSUME \A k \in 0 .. N + 1 : ~ended(k) PROVE FALSE
    OBVIOUS
  <2> DEFINE Grown == {k \in 0 .. N + 1 : Len(after[k].files) >= k}
  <2>1. ASSUME NEW k \in 0 .. N
        PROVE  /\ Len(after[k + 1].files) > Len(after[k].files)
               /\ Len(after[k + 1].files) <= N
               /\ Len(after[k].files) \in Nat /\ Len(after[k + 1].files) \in Nat
    <3> DEFINE x == after[k]  y == after[k + 1]
    <3>1. /\ k + 1 \in 1 .. N + 1 /\ k + 1 \in 0 .. N + 1 /\ (k + 1) - 1 = k
          /\ k \in 0 .. N + 1 /\ k + 1 > 0
      BY <1>1
    <3>2. y = NextBatch(x)  BY <1>5, <3>1
    <3>3. y.files # x.files  BY <3>1
    <3>4. k \in Loaded /\ k + 1 \in Loaded
      <4> HIDE DEF Loaded
      <4> QED  BY <1>6, <3>1
    <3>5. Listing(x) /\ SameDirectory(s, x) /\ Listing(y)  BY <3>4
    <3> HIDE DEF x, y, Loaded, ended
    <3>6. Len(y.files) > Len(x.files) /\ Len(y.files) <= Len(Entries(x))
      BY <3>2, <3>3, <3>5, NextBatchLists
    <3>7. Entries(x) = Entries(s)  BY <3>5, SameEntries
    <3>8. Len(y.files) \in Nat /\ Len(x.files) \in Nat
      BY <3>5 DEF Listing, State
    <3> QED  BY <3>6, <3>7, <3>8 DEF N, x, y
  <2>2. 0 \in Grown
    BY <1>1, <1>5 DEF Listing, State
  <2>3. ASSUME NEW k \in 0 .. (N + 1) - 1, k \in Grown PROVE k + 1 \in Grown
    <3>1. k \in 0 .. N /\ k + 1 \in 0 .. N + 1  BY <1>1
    <3>2. /\ Len(after[k + 1].files) > Len(after[k].files)
          /\ Len(after[k].files) \in Nat /\ Len(after[k + 1].files) \in Nat
      BY <2>1, <3>1
    <3>3. Len(after[k].files) >= k  BY <2>3
    <3> QED  BY <3>1, <3>2, <3>3
  <2>4. N + 1 \in Grown
    <3> HIDE DEF Grown
    <3>1. N + 1 \in Nat /\ N + 1 \in 0 .. N + 1  BY <1>1
    <3>2. 0 .. N + 1 \subseteq Grown  BY <2>2, <2>3, <3>1, IntervalInduction
    <3> QED  BY <3>1, <3>2
  <2>5. N \in 0 .. N  BY <1>1
  <2>6. Len(after[N + 1].files) <= N /\ Len(after[N + 1].files) \in Nat
    BY <2>1, <2>5
  <2> QED  BY <1>1, <2>4, <2>6
<1>8. least \in 0 .. N + 1 /\ \A i \in 0 .. least - 1 : ~ended(i)
  <2> DEFINE T == {k \in 0 .. N + 1 : ended(k)}
  <2> HIDE DEF ended
  <2>1. T # {} /\ T \subseteq Nat  BY <1>1, <1>7
  <2>2. Min(T) \in T /\ \A y \in T : Min(T) <= y
    <3> HIDE DEF T
    <3> QED  BY <2>1, MinOfNats
  <2>3. \A i \in 0 .. Min(T) - 1 : ~ended(i)
    <3> DEFINE m == Min(T)
    <3>1. m \in 0 .. N + 1 /\ \A y \in 0 .. N + 1 : ended(y) => m <= y
      <4> HIDE DEF m
      <4>1. m \in T /\ \A y \in T : m <= y  BY <2>2 DEF m
      <4> QED  BY <4>1
    <3> HIDE DEF m, T
    <3>2. \A i \in 0 .. m - 1 : i \in 0 .. N + 1 /\ ~(m <= i)
      BY <1>1, <3>1
    <3> QED  BY <3>1, <3>2 DEF m
  <2>4. Min(T) \in 0 .. N + 1 /\ ended(Min(T))
    BY <2>2
  <2> HIDE DEF T
  <2> QED  BY <1>5, <2>3, <2>4
<1> HIDE DEF least
<1>9. Listing(u) /\ SameDirectory(s, u)
  <2>1. least \in Loaded
    <3> HIDE DEF Loaded
    <3> QED  BY <1>6, <1>8
  <2> QED  BY <2>1
<1>10. u.cursor \in Nat
  <2>1. CASE least = 0
    BY <1>1, <1>5, <2>1
  <2>2. CASE least # 0
    <3> DEFINE x == after[least - 1]
    <3>1. /\ least \in 1 .. N + 1 /\ least - 1 \in 0 .. N + 1 /\ 0 \in 0 .. least - 1
      BY <1>1, <1>8, <2>2
    <3>2. s.files # << >>
      BY <1>5, <1>8, <3>1
    <3>3. least - 1 \in Loaded
      <4> HIDE DEF Loaded
      <4> QED  BY <1>6, <3>1
    <3>4. Listing(x) /\ Len(x.files) >= Len(s.files)
      BY <3>3
    <3>5. u = NextBatch(x)
      BY <1>5, <3>1
    <3> HIDE DEF x, u, Loaded, ended
    <3>6. u.cursor = Len(x.files) - 1
      BY <3>4, <3>5, NextBatchLists
    <3>7. Len(s.files) \in Nat /\ Len(s.files) # 0 /\ Len(x.files) \in Nat
      BY <1>1, <3>2, <3>4 DEF Listing, State
    <3> QED  BY <3>4, <3>6, <3>7
  <2> QED  BY <2>1, <2>2
<1> HIDE DEF u, Loaded, ended
<1>11. Viewed(u) /\ ~u.active /\ Len(u.files) \in Nat /\ u \in State
  BY <1>1, <1>9, <1>10 DEF Viewed, ViewOf, Fits, SameDirectory, Listing, State
<1>12. t \in State /\ SameView(u, t) /\ t.cursor = u.cursor /\ t.num = Len(u.files)
  BY <1>11, CountIs
<1> HIDE DEF t
<1>13. Viewed(t) /\ ActiveFiles(t) = ActiveFiles(u) /\ ~t.active
  BY <1>10, <1>11, <1>12, ViewStays DEF SameView
<1> QED
  BY <1>2, <1>11, <1>12, <1>13 DEF Counted, ActiveFiles

-----------------------------------------------------------------------------
(* Listing a directory anew *)

(* t reads the same directory, with the same search and the same cursor.       *)
SameSearch(s, t) ==
  /\ t.disk = s.disk /\ t.cwd = s.cwd /\ t.cursor = s.cursor
  /\ t.view = s.view /\ t.active = s.active /\ t.query = s.query /\ t.mode = s.mode

(* The old listing is released.                                              *)
LEMMA ReleaseKeeps ==
  ASSUME NEW s \in State
  PROVE  LET t == Release(s)
         IN  t \in State /\ SameSearch(s, t) /\ t.files = << >> /\ t.fresh
<1> DEFINE x == s.selected # None
<1>1. x \in BOOLEAN /\ TRUE \in BOOLEAN /\ << >> \in Seq(Names)
  OBVIOUS
<1>2. Release(s) = [s EXCEPT !.files = << >>, !.freed = x, !.fresh = TRUE]
  BY DEF Release
<1> HIDE DEF x
<1> QED
  BY <1>1, <1>2 DEF State, SameSearch

SameFiles(s, t) == t.files = s.files /\ t.fresh = s.fresh

WithTotal(s, l, n) == [s EXCEPT !.loaded = l, !.total = n]

(* The counts of a listing are begun.                                        *)
LEMMA TotalIs ==
  ASSUME NEW s \in State, NEW l \in Nat, NEW n \in Nat
  PROVE  LET t == WithTotal(s, l, n)
         IN  /\ t \in State /\ SameSearch(s, t)
             /\ SameFiles(s, t) /\ t.loaded = l /\ t.total = n
  BY DEF State, SameSearch, SameFiles, WithTotal

(* A directory that is the same has the same entries.                        *)
LEMMA SearchedEntries ==
  ASSUME NEW s, NEW t, SameSearch(s, t)
  PROVE  Entries(t) = Entries(s)
  BY DEF SameSearch, Entries

(* reload_directory_lazy begins the listing of the directory.                  *)
LEMMA LazyReloads ==
  ASSUME NEW s \in State, s.cursor \in Nat, ~s.active, s.view = << >>
  PROVE  LET t == ReloadDirectoryLazy(s)
         IN  Viewed(t) /\ ~t.active /\ t.cursor = s.cursor
<1> DEFINE n == Len(Entries(s))
           r == Release(s)
           w == WithTotal(r, 0, n)
           t == AppendLazy(w, Min({n, Batch}))
<1>1. n \in Nat /\ 0 \in Nat
  BY EntriesAreNames
<1>2. ReloadDirectoryLazy(s) = t
  BY DEF ReloadDirectoryLazy, WithTotal
<1>3. r \in State /\ SameSearch(s, r) /\ r.files = << >> /\ r.fresh
  BY ReleaseKeeps
<1> HIDE DEF r, n
<1>4. /\ w \in State /\ SameSearch(r, w) /\ w.files = r.files /\ w.fresh
      /\ w.loaded = 0 /\ w.total = n
  <2>1. /\ w \in State /\ SameSearch(r, w) /\ SameFiles(r, w)
        /\ w.loaded = 0 /\ w.total = n
    BY <1>1, <1>3, TotalIs
  <2> HIDE DEF w
  <2> QED  BY <1>3, <2>1 DEF SameFiles
<1> HIDE DEF w
<1>5. SameSearch(s, w) /\ Entries(w) = Entries(s)
  BY <1>3, <1>4, SearchedEntries DEF SameSearch
<1>6. Listing(w)
  <2>1. w.files = << >> /\ Len(<< >>) = 0 /\ Range(<< >>) = {}
    BY <1>3, <1>4, RangeOfEmpty
  <2>2. Enterable(w)
    BY <2>1 DEF Enterable
  <2>3. IsPrefix(<< >>, Entries(w))
    <3> DEFINE e == Entries(w)
    <3>1. e \in Seq(Names)  BY <1>4, EntriesAreNames
    <3> HIDE DEF e
    <3>2. SubSeq(<< >>, 1, 0) = SubSeq(e, 1, 0)  BY <3>1
    <3> QED  BY <3>1, <3>2 DEF IsPrefix, e
  <2> QED  BY <1>4, <1>5, <2>1, <2>2, <2>3 DEF Listing, n
<1>7. Min({n, Batch}) \in Nat
  BY <1>1, Bounds, MinMaxOfTwo
<1> DEFINE m == Min({n, Batch})
<1> HIDE DEF m
<1>8. Listing(t) /\ SameDirectory(w, t) /\ t.cursor = w.cursor
  BY <1>6, <1>7, AppendLazyLists DEF m
<1> HIDE DEF t
<1>9. t.view = << >> /\ ~t.active /\ t.cursor = s.cursor /\ t \in State
  BY <1>5, <1>8 DEF SameDirectory, SameSearch, Listing
<1> QED
  BY <1>2, <1>8, <1>9, NothingFits DEF Viewed, ViewOf

(* reload_directory with the counts of its callers                             *)
Reloaded(s) ==
  LET r == ReloadDirectory(s)
      n == Len(r.files)
  IN  [r EXCEPT !.num = n, !.loaded = n, !.total = n]

(* The whole directory is listed, and counted.                               *)
LEMMA WhollyReloads ==
  ASSUME NEW s \in State
  PROVE  LET t == Reloaded(s)
         IN  Listing(t) /\ SameSearch(s, t) /\ t.num = Len(t.files)
<1> DEFINE e == Entries(s)
           r == Release(s)
           f == WithFiles(r, e)
           n == Len(f.files)
           w == [f EXCEPT !.num = n, !.loaded = n, !.total = n]
<1>1. e \in Seq(Names) /\ \A m \in Range(e) \cap DirNames : Append(s.cwd, m) \in Paths
  BY EntriesAreNames
<1>2. Reloaded(s) = w
  BY DEF Reloaded, ReloadDirectory, WithFiles
<1>3. r \in State /\ SameSearch(s, r) /\ r.fresh
  BY ReleaseKeeps
<1> HIDE DEF r, e
<1>4. f \in State /\ SameDirectory(r, f) /\ f.files = e /\ f.cursor = r.cursor
  BY <1>1, <1>3, FilesAre
<1> HIDE DEF f
<1>5. n \in Nat
  BY <1>4 DEF State
<1> HIDE DEF n
<1>6. /\ w \in State /\ SameSearch(f, w) /\ w.files = f.files /\ w.fresh = f.fresh
      /\ w.num = n /\ w.loaded = n /\ w.total = n
  BY <1>4, <1>5 DEF State, SameSearch
<1> HIDE DEF w
<1>7. SameSearch(s, w) /\ w.fresh /\ w.files = e
  BY <1>3, <1>4, <1>6 DEF SameSearch, SameDirectory
<1>8. Entries(w) = e
  BY <1>7, SearchedEntries DEF e
<1>9. IsPrefix(e, e)
  BY <1>1, SelfIsPrefix
<1>10. Enterable(w)
  BY <1>1, <1>7 DEF Enterable, SameSearch
<1> QED
  BY <1>2, <1>4, <1>6, <1>7, <1>8, <1>9, <1>10 DEF Listing, n

(* Reading the directory again keeps the query, and ends on the selection.     *)
LEMMA RereadShows ==
  ASSUME NEW s \in State, s.cursor \in Nat, NEW same \in BOOLEAN
  PROVE  LET t == Reread(s, same)
         IN  Viewed(t) /\ Shown(t) /\ Counted(t)
<1> DEFINE c == SearchClear(s)
           l == Reloaded(c)
           q == SetQuery(l, s.query)
           u == IF s.query = None THEN l ELSE ToTop(q)
<1>1. Reread(s, same) = Sync(u, same)
  BY DEF Reread, Reloaded
<1>2. c \in State /\ c.cursor = s.cursor /\ ~c.active /\ c.view = << >>
  BY SearchClearKeeps
<1> HIDE DEF c
<1>3. Listing(l) /\ SameSearch(c, l)
  BY <1>2, WhollyReloads
<1> HIDE DEF l
<1>4. l.cursor \in Nat /\ ~l.active /\ l.view = << >> /\ s.query \in Queries \cup {None}
  BY <1>2, <1>3 DEF SameSearch, State
<1>5. Viewed(q)
  BY <1>3, <1>4, SetQueryViews
<1> HIDE DEF q
<1>6. Viewed(ToTop(q))
  <2>1. q \in State
    BY <1>5 DEF Viewed, Listing
  <2>2. ToTop(q) \in State /\ SameView(q, ToTop(q)) /\ ToTop(q).cursor = 0 /\ 0 \in Nat
    BY <2>1, ToTopKeeps
  <2> QED  BY <1>5, <2>2, ViewStays
<1>7. Viewed(u)
  <2>1. l \in State /\ Fits(l)  BY <1>3, <1>4, NothingFits DEF Listing
  <2> QED  BY <1>3, <1>4, <1>6, <2>1 DEF Viewed, ViewOf
<1> HIDE DEF u
<1> QED
  BY <1>1, <1>7, SyncShows

-----------------------------------------------------------------------------
(* Moving about *)

(* The view is kept when the cursor goes to the top, ...                     *)
LEMMA TopViews ==
  ASSUME NEW s, Viewed(s)
  PROVE  /\ Viewed(ToTop(s)) /\ ToTop(s).active = s.active
         /\ ToTop(s).cursor = 0 /\ ToTop(s).start = 0
         /\ ActiveFiles(ToTop(s)) = ActiveFiles(s)
<1>1. s \in State /\ 0 \in Nat
  BY DEF Viewed, Listing
<1>2. /\ ToTop(s) \in State /\ SameView(s, ToTop(s))
      /\ ToTop(s).cursor = 0 /\ ToTop(s).start = 0
  BY <1>1, ToTopKeeps
<1> QED
  BY <1>1, <1>2, ViewStays DEF SameView

(* ... when the entries are counted, ...                                     *)
LEMMA CountViews ==
  ASSUME NEW s, Viewed(s), NEW n \in Nat
  PROVE  /\ Viewed(WithNum(s, n)) /\ WithNum(s, n).active = s.active
         /\ WithNum(s, n).num = n
         /\ WithNum(s, n).cursor = s.cursor /\ WithNum(s, n).start = s.start
         /\ ActiveFiles(WithNum(s, n)) = ActiveFiles(s)
<1>1. s \in State /\ s.cursor \in Nat
  BY DEF Viewed, Listing
<1>2. /\ WithNum(s, n) \in State /\ SameView(s, WithNum(s, n))
      /\ WithNum(s, n).cursor = s.cursor /\ WithNum(s, n).start = s.start
      /\ WithNum(s, n).num = n
  BY <1>1, CountIs
<1> QED
  BY <1>1, <1>2, ViewStays DEF SameView

(* ... when one is selected, ...                                             *)
LEMMA SelectViews ==
  ASSUME NEW s, Viewed(s), NEW n \in Names \cup {None}
  PROVE  /\ Viewed(Select(s, n)) /\ ActiveFiles(Select(s, n)) = ActiveFiles(s)
         /\ Select(s, n).active = s.active /\ Select(s, n).num = s.num
         /\ Select(s, n).cursor = s.cursor /\ Select(s, n).start = s.start
         /\ Select(s, n).selected = n /\ Select(s, n).freed = FALSE
<1>1. s \in State /\ s.cursor \in Nat
  BY DEF Viewed, Listing
<1>2. /\ Select(s, n) \in State /\ SameView(s, Select(s, n))
      /\ Select(s, n).cursor = s.cursor /\ Select(s, n).start = s.start
      /\ Select(s, n).num = s.num
      /\ Select(s, n).selected = n /\ Select(s, n).freed = FALSE
  BY <1>1, SelectKeeps
<1> QED
  BY <1>1, <1>2, ViewStays DEF SameView

(* The navigations select what the cursor is on.                               *)
LEMMA SelectShows ==
  ASSUME NEW s, Viewed(s), Counted(s), s.cursor < s.num,
         s.start <= s.cursor, s.cursor < s.start + Visible
  PROVE  LET t == Select(s, ActiveFiles(s)[s.cursor + 1])
         IN  Viewed(t) /\ Shown(t) /\ Counted(t)
<1> DEFINE v == ActiveFiles(s)
           n == v[s.cursor + 1]
           t == Select(s, n)
<1>1. s \in State /\ s.cursor \in Nat
  BY DEF Viewed, Listing
<1>2. /\ v \in Seq(Names) /\ Len(v) \in Nat /\ (v = << >> <=> Len(v) = 0)
      /\ \A i \in 1 .. Len(v) : v[i] \in Names
  BY <1>1, ActiveIsSeq
<1>3. s.num = Len(v)
  BY DEF Counted
<1> HIDE DEF v
<1>4. n \in Names /\ v # << >>
  <2>1. s.cursor + 1 \in 1 .. Len(v)  BY <1>1, <1>2, <1>3
  <2> QED  BY <1>2, <2>1
<1> HIDE DEF n
<1>5. /\ Viewed(t) /\ ActiveFiles(t) = v
      /\ t.num = s.num /\ t.cursor = s.cursor /\ t.start = s.start
      /\ t.selected = n /\ t.freed = FALSE
  BY <1>4, SelectViews DEF v
<1> HIDE DEF t
<1> QED
  BY <1>3, <1>4, <1>5 DEF Shown, Counted, t, n, v

(* Both navigations between directories end on the first entry.                *)
LEMMA AtFirstShows ==
  ASSUME NEW s, Viewed(s), ~s.active
  PROVE  LET t == AtFirst(s)
         IN  Viewed(t) /\ Shown(t) /\ Counted(t) /\ ~t.active
<1> DEFINE f == s.files
           n == IF f = << >> THEN None ELSE f[1]
           a == ToTop(s)
           u == WithNum(a, Len(f))
           t == Select(u, n)
<1>1. f \in Seq(Names) /\ Len(f) \in Nat /\ (f = << >> <=> Len(f) = 0)
      /\ \A i \in 1 .. Len(f) : f[i] \in Names
  BY DEF Viewed, Listing, State
<1>2. AtFirst(s) = t
  BY DEF AtFirst, WithNum
<1>3. ActiveFiles(s) = f
  BY DEF ActiveFiles
<1> HIDE DEF f
<1>4. n \in Names \cup {None} /\ (f # << >> => n = f[1]) /\ (f = << >> => n = None)
  <2>1. f # << >> => 1 \in 1 .. Len(f)  BY <1>1
  <2> QED  BY <1>1, <2>1
<1> HIDE DEF n
<1>5. /\ Viewed(a) /\ ActiveFiles(a) = f /\ ~a.active /\ a.cursor = 0 /\ a.start = 0
  BY <1>3, TopViews
<1> HIDE DEF a
<1>6. /\ Viewed(u) /\ ActiveFiles(u) = f /\ ~u.active /\ u.num = Len(f)
      /\ u.cursor = 0 /\ u.start = 0
  BY <1>1, <1>5, CountViews
<1> HIDE DEF u
<1>7. /\ Viewed(t) /\ ActiveFiles(t) = f /\ ~t.active /\ t.num = Len(f)
      /\ t.cursor = 0 /\ t.start = 0 /\ t.selected = n /\ t.freed = FALSE
  <2>1. n \in Names \cup {None} /\ Viewed(u)
    BY <1>4, <1>6
  <2>2. /\ Viewed(t) /\ ActiveFiles(t) = ActiveFiles(u)
        /\ t.active = u.active /\ t.num = u.num
        /\ t.cursor = u.cursor /\ t.start = u.start
        /\ t.selected = n /\ t.freed = FALSE
    BY <2>1, SelectViews
  <2> HIDE DEF t
  <2> QED  BY <1>6, <2>2
<1> HIDE DEF t
<1>8. f # << >> => 0 < Len(f) /\ 0 + 1 = 1
  BY <1>1
<1>9. 0 <= 0 /\ 0 < 0 + Visible
  BY Bounds
<1> QED
  BY <1>2, <1>4, <1>7, <1>8, <1>9 DEF Shown, Counted

(* The view is kept when cursor and window are put at a place, ...           *)
LEMMA AtPlaceViews ==
  ASSUME NEW s, Viewed(s), NEW c \in Nat, NEW st \in Nat
  PROVE  /\ Viewed(AtPlace(s, c, st)) /\ ActiveFiles(AtPlace(s, c, st)) = ActiveFiles(s)
         /\ AtPlace(s, c, st).active = s.active /\ AtPlace(s, c, st).num = s.num
         /\ AtPlace(s, c, st).cursor = c /\ AtPlace(s, c, st).start = st
<1>1. s \in State /\ c \in Int
  BY DEF Viewed, Listing
<1> DEFINE t == AtPlace(s, c, st)
<1>2. t \in State /\ SameView(s, t) /\ t.cursor = c /\ t.start = st /\ t.num = s.num
  BY <1>1, BothMove
<1> HIDE DEF t
<1>3. Viewed(t) /\ ActiveFiles(t) = ActiveFiles(s)
  BY <1>2, ViewStays
<1>4. t.active = s.active
  BY <1>2 DEF SameView
<1> QED
  BY <1>2, <1>3, <1>4 DEF t

(* ... and when fix_cursor corrects them.                                    *)
LEMMA FixViews ==
  ASSUME NEW s, s \in State, Listing(s), s.view = ViewOf(s), Fits(s)
  PROVE  LET t == FixCursor(s)
         IN  /\ Viewed(t) /\ ActiveFiles(t) = ActiveFiles(s)
             /\ t.active = s.active /\ t.num = s.num
             /\ s.num > 0 => /\ t.cursor < t.num
                             /\ t.start <= t.cursor /\ t.cursor < t.start + Visible
<1> DEFINE t == FixCursor(s)
<1>1. /\ t \in State /\ SameView(s, t) /\ t.num = s.num /\ t.cursor \in Nat
      /\ s.num > 0 => /\ t.cursor < s.num
                      /\ t.start <= t.cursor /\ t.cursor < t.start + Visible
  BY FixCursorFits
<1> HIDE DEF t
<1>2. Listing(t) /\ ActiveFiles(t) = ActiveFiles(s) /\ t.view = ViewOf(t) /\ Fits(t)
  BY <1>1, ListingStays DEF SameView, SameListing, ActiveFiles, ViewOf, Fits
<1>3. t.active = s.active
  BY <1>1 DEF SameView
<1> QED
  BY <1>1, <1>2, <1>3 DEF Viewed, t

(* fix_cursor and then the selection of what the cursor is on.               *)
LEMMA FixSelectShows ==
  ASSUME NEW s, Viewed(s), Counted(s), s.num > 0
  PROVE  LET f == FixCursor(s)
             t == Select(f, ActiveFiles(f)[f.cursor + 1])
         IN  Viewed(t) /\ Shown(t) /\ Counted(t)
<1> DEFINE f == FixCursor(s)
<1>1. s \in State /\ Listing(s) /\ s.view = ViewOf(s) /\ Fits(s)
  BY DEF Viewed, Listing
<1>2. /\ Viewed(f) /\ ActiveFiles(f) = ActiveFiles(s) /\ f.num = s.num
      /\ f.cursor < f.num /\ f.start <= f.cursor /\ f.cursor < f.start + Visible
  BY <1>1, FixViews
<1> HIDE DEF f
<1>3. Counted(f)
  BY <1>2 DEF Counted
<1> QED
  BY <1>2, <1>3, SelectShows DEF f

(* Outside a search the view stays empty while more is loaded.               *)
LEMMA LoadMoreViews ==
  ASSUME NEW s, Viewed(s), ~s.active
  PROVE  LET t == LoadMore(s)
         IN  /\ Viewed(t) /\ ~t.active
             /\ t.cursor = s.cursor /\ t.start = s.start
             /\ Len(t.files) >= Len(s.files)
<1> DEFINE t == LoadMoreAt(s, s.start)
<1>1. LoadMore(s) = t /\ Listing(s) /\ s.view = << >> /\ s.cursor \in Nat
  BY DEF LoadMore, Viewed, ViewOf
<1>2. /\ Listing(t) /\ SameDirectory(s, t) /\ t.cursor = s.cursor
      /\ Len(t.files) >= Len(s.files)
  BY <1>1, LoadMoreLists
<1> HIDE DEF t
<1>3. t.view = << >> /\ ~t.active /\ t.start = s.start /\ t \in State
  BY <1>1, <1>2 DEF SameDirectory, Listing
<1> QED
  BY <1>1, <1>2, <1>3, NothingFits DEF Viewed, ViewOf

(* A count that is right is not changed by counting.                         *)
LEMMA CountUnchanged ==
  ASSUME NEW s \in State
  PROVE  WithNum(s, s.num) = s
  BY DEF State, WithNum

(* The cursor keys move to an entry, load on the way, and select what they      *)
(* moved to; in an empty view they change nothing.                             *)
LEMMA UpShows ==
  ASSUME NEW s, Viewed(s), Counted(s)
  PROVE  LET t == NavigateUp(s)
         IN  Viewed(t) /\ Counted(t) /\ (Shown(t) \/ t = s)
<1> DEFINE v == ActiveFiles(s)
           l == IF s.active THEN s ELSE LoadMore(s)
           n == Len(ActiveFiles(l))
           wrap == [l EXCEPT !.num = n, !.cursor = n - 1, !.start = Max({0, n - Visible})]
           back == [s EXCEPT !.cursor = @ - 1, !.start = Min({@, s.cursor - 1}), !.num = Len(v)]
           x == IF s.cursor = 0 THEN wrap ELSE back
<1>1. /\ s \in State /\ s.cursor \in Nat /\ s.start \in Nat
      /\ Len(v) \in Nat /\ (v = << >> <=> Len(v) = 0)
  BY ActiveIsSeq DEF Viewed, Listing, State
<1>2. CASE v = << >>
  <2>1. NavigateUp(s) = WithNum(s, 0)
    BY <1>2 DEF NavigateUp, WithNum
  <2>2. s.num = 0
    BY <1>1, <1>2 DEF Counted
  <2>3. NavigateUp(s) = s
    BY <1>1, <2>1, <2>2, CountUnchanged
  <2> QED  BY <2>3
<1>3. CASE v # << >>
  <2>1. NavigateUp(s) = Select(FixCursor(x), ActiveFiles(FixCursor(x))[FixCursor(x).cursor + 1])
    BY <1>3 DEF NavigateUp
  <2>2. CASE s.cursor = 0
    <3>1. Viewed(l) /\ Len(ActiveFiles(l)) \in Nat /\ Len(ActiveFiles(l)) >= Len(v)
      <4>1. CASE s.active
        BY <1>1, <4>1
      <4>2. CASE ~s.active
        <5>1. Viewed(LoadMore(s)) /\ ~LoadMore(s).active /\ Len(LoadMore(s).files) >= Len(s.files)
          BY <4>2, LoadMoreViews
        <5>2. Len(LoadMore(s).files) \in Nat
          BY <5>1 DEF Viewed, Listing, State
        <5> QED  BY <4>2, <5>1, <5>2 DEF ActiveFiles
      <4> QED  BY <4>1, <4>2
    <3> HIDE DEF l, v
    <3>2. n \in Nat /\ n > 0 /\ n - 1 \in Nat
      BY <1>1, <1>3, <3>1
    <3> DEFINE st == Max({0, n - Visible})
               a == WithNum(l, n)
               w == AtPlace(a, n - 1, st)
    <3>3. st \in Nat
      <4> DEFINE k == n - Visible  zero == 0
      <4>1. k \in Int /\ zero \in Nat  BY <3>2, Bounds
      <4> HIDE DEF k, zero
      <4>2. Max({zero, k}) \in Nat  BY <4>1, NatMinMax
      <4> QED  BY <4>2 DEF k, zero
    <3>4. x = w
      BY <2>2 DEF WithNum, AtPlace, WithCursor, WithStart
    <3> HIDE DEF st
    <3>5. Viewed(a) /\ a.num = n /\ ActiveFiles(a) = ActiveFiles(l)
      BY <3>1, <3>2, CountViews
    <3> HIDE DEF a, x
    <3>6. Viewed(w) /\ w.num = a.num /\ ActiveFiles(w) = ActiveFiles(a)
      <4> DEFINE c == n - 1
      <4>1. c \in Nat  BY <3>2
      <4> HIDE DEF c
      <4>2. /\ Viewed(AtPlace(a, c, st)) /\ AtPlace(a, c, st).num = a.num
            /\ ActiveFiles(AtPlace(a, c, st)) = ActiveFiles(a)
        <5>1. Viewed(a)  BY <3>5
        <5> QED  BY <3>3, <5>1, <4>1, AtPlaceViews
      <4> QED  BY <4>2 DEF c
    <3> HIDE DEF w
    <3>7. Counted(x) /\ Viewed(x) /\ x.num > 0
      BY <3>2, <3>4, <3>5, <3>6 DEF Counted
    <3> QED  BY <2>1, <3>7, FixSelectShows
  <2>3. CASE s.cursor # 0
    <3> DEFINE st == Min({s.start, s.cursor - 1})
               a == AtPlace(s, s.cursor - 1, st)
               w == WithNum(a, Len(v))
    <3>1. s.cursor - 1 \in Nat
      BY <1>1, <2>3
    <3>2. st \in Nat
      BY <1>1, <3>1, MinMaxOfTwo
    <3>3. x = w
      BY <2>3 DEF WithNum, AtPlace, WithCursor, WithStart
    <3> HIDE DEF st, x
    <3>4. Viewed(a) /\ ActiveFiles(a) = v
      BY <3>1, <3>2, AtPlaceViews
    <3> HIDE DEF a, v
    <3>5. Viewed(w) /\ w.num = Len(v) /\ ActiveFiles(w) = v
      BY <1>1, <3>4, CountViews
    <3> HIDE DEF w
    <3>6. Counted(x) /\ Viewed(x) /\ x.num > 0
      BY <1>1, <1>3, <3>3, <3>5 DEF Counted
    <3> QED  BY <2>1, <3>6, FixSelectShows
  <2> QED  BY <2>2, <2>3
<1> QED
  BY <1>2, <1>3

(* ... downwards, where the next batch may be loaded first.                  *)
LEMMA DownShows ==
  ASSUME NEW s, Viewed(s), Counted(s)
  PROVE  LET t == NavigateDown(s)
         IN  Viewed(t) /\ Counted(t) /\ (Shown(t) \/ t = s)
<1> DEFINE v == ActiveFiles(s)
           n == Len(v)
           st == Min({Max({s.start, s.cursor + 2 - Visible}), Max({0, n - Visible})})
           next == AtPlace(s, s.cursor + 1, st)
           w == IF s.cursor >= n - 1 THEN ToTop(s) ELSE next
           x == WithNum(w, n)
           f == FixCursor(x)
           u == IF s.active THEN f ELSE LoadMore(f)
           y == WithNum(u, Len(ActiveFiles(u)))
<1>1. /\ s \in State /\ s.cursor \in Nat /\ s.start \in Nat
      /\ n \in Nat /\ (v = << >> <=> n = 0)
  BY ActiveIsSeq DEF Viewed, Listing, State
<1>2. CASE n = 0
  <2>1. NavigateDown(s) = WithNum(s, 0)
    BY <1>2 DEF NavigateDown, WithNum
  <2>2. s.num = 0
    BY <1>2 DEF Counted
  <2>3. NavigateDown(s) = s
    BY <1>1, <2>1, <2>2, CountUnchanged
  <2> QED  BY <2>3
<1>3. CASE n # 0
  <2>1. NavigateDown(s) = Select(y, ActiveFiles(u)[f.cursor + 1])
    BY <1>3 DEF NavigateDown, WithNum, AtPlace, WithCursor, WithStart
  <2>2. st \in Nat
    <3> DEFINE hi == Max({s.start, s.cursor + 2 - Visible})  lo == Max({0, n - Visible})
    <3> DEFINE c == s.cursor + 2 - Visible  k == n - Visible  zero == 0
    <3> HIDE DEF n
    <3>1. c \in Int /\ k \in Int /\ zero \in Nat
      BY <1>1, Bounds
    <3> HIDE DEF c, k, zero
    <3>2. Max({s.start, c}) \in Nat /\ Max({zero, k}) \in Nat
      BY <1>1, <3>1, NatMinMax
    <3>3. hi \in Nat /\ lo \in Nat
      BY <3>2 DEF c, k, zero
    <3> HIDE DEF hi, lo
    <3>4. Min({hi, lo}) \in Nat
      <4>1. lo \in Int  BY <3>3
      <4> QED  BY <3>3, <4>1, NatMinMax
    <3> QED  BY <3>4 DEF hi, lo
  <2> HIDE DEF st
  <2>3. Viewed(w) /\ ActiveFiles(w) = v /\ w.active = s.active
    <3>1. Viewed(next) /\ ActiveFiles(next) = v /\ next.active = s.active
      <4> DEFINE c == s.cursor + 1
      <4>1. c \in Nat  BY <1>1
      <4> HIDE DEF c
      <4>2. /\ Viewed(AtPlace(s, c, st)) /\ ActiveFiles(AtPlace(s, c, st)) = ActiveFiles(s)
            /\ AtPlace(s, c, st).active = s.active
        BY <2>2, <4>1, AtPlaceViews
      <4> QED  BY <4>2 DEF c
    <3>2. Viewed(ToTop(s)) /\ ActiveFiles(ToTop(s)) = v /\ ToTop(s).active = s.active
      BY TopViews
    <3> HIDE DEF next, v
    <3> QED  BY <3>1, <3>2
  <2> HIDE DEF w, v
  <2>4. Viewed(x) /\ ActiveFiles(x) = v /\ x.num = n /\ x.active = s.active
    BY <1>1, <2>3, CountViews
  <2> HIDE DEF x
  <2>5. x \in State /\ Listing(x) /\ x.view = ViewOf(x) /\ Fits(x) /\ x.num > 0
    BY <1>1, <1>3, <2>4 DEF Viewed, Listing
  <2>6. /\ Viewed(f) /\ ActiveFiles(f) = v /\ f.active = s.active /\ f.num = n
        /\ f.cursor < n /\ f.start <= f.cursor /\ f.cursor < f.start + Visible
    BY <2>4, <2>5, FixViews
  <2> HIDE DEF f
  <2>7. /\ Viewed(u) /\ u.cursor = f.cursor /\ u.start = f.start
        /\ Len(ActiveFiles(u)) \in Nat /\ Len(ActiveFiles(u)) >= n
    <3>1. CASE s.active
      BY <1>1, <2>6, <3>1
    <3>2. CASE ~s.active
      <4>1. /\ Viewed(LoadMore(f)) /\ ~LoadMore(f).active
            /\ LoadMore(f).cursor = f.cursor /\ LoadMore(f).start = f.start
            /\ Len(LoadMore(f).files) >= Len(f.files)
        BY <2>6, <3>2, LoadMoreViews
      <4>2. ActiveFiles(LoadMore(f)) = LoadMore(f).files /\ v = f.files
        BY <2>6, <3>2, <4>1 DEF ActiveFiles
      <4>3. Len(LoadMore(f).files) \in Nat
        BY <4>1 DEF Viewed, Listing, State
      <4> QED  BY <3>2, <4>1, <4>2, <4>3
    <3> QED  BY <3>1, <3>2
  <2> HIDE DEF u
  <2> DEFINE m == Len(ActiveFiles(u))
  <2>8. /\ Viewed(y) /\ ActiveFiles(y) = ActiveFiles(u) /\ y.num = m
        /\ y.cursor = f.cursor /\ y.start = f.start
    BY <2>7, CountViews
  <2> HIDE DEF y
  <2>9. f.cursor \in Nat /\ f.cursor < m
    BY <1>1, <2>6, <2>7 DEF Viewed
  <2>10. Counted(y) /\ y.cursor < y.num /\ y.start <= y.cursor /\ y.cursor < y.start + Visible
    BY <2>6, <2>8, <2>9 DEF Counted
  <2>11. LET t == Select(y, ActiveFiles(y)[y.cursor + 1])
         IN  Viewed(t) /\ Shown(t) /\ Counted(t)
    BY <2>8, <2>10, SelectShows
  <2> QED  BY <2>1, <2>8, <2>11
<1> QED
  BY <1>2, <1>3

WithPath(s, p) == [s EXCEPT !.cwd = p]
WithStack(s, k) == [s EXCEPT !.stack = k]

(* The path and the stack of directories are set.                            *)
LEMMA PathIs ==
  ASSUME NEW s \in State, NEW p \in Paths
  PROVE  LET t == WithPath(s, p)
         IN  /\ t \in State /\ t.cursor = s.cursor /\ t.view = s.view
             /\ s.active \/ ~t.active
  BY DEF State, WithPath

LEMMA StackIs ==
  ASSUME NEW s \in State, NEW k \in Seq(DirNames)
  PROVE  LET t == WithStack(s, k)
         IN  /\ t \in State /\ SameView(s, t) /\ t.cursor = s.cursor
             /\ t.cwd = s.cwd /\ t.stack = k
  BY DEF State, SameView, SameListing, WithStack

(* The stack without its top.                                                *)
LEMMA FrontOfStack ==
  ASSUME NEW S, NEW k \in Seq(S), k # << >>
  PROVE  Front(k) \in Seq(S)
<1>1. 1 \in 1 .. Len(k) + 1 /\ Len(k) - 1 \in 0 .. Len(k)
  OBVIOUS
<1>2. SubSeq(k, 1, Len(k) - 1) \in Seq(S)
  BY <1>1, SubSeqIsPart
<1> QED
  BY <1>2 DEF Front

(* Another directory is listed from its beginning, without a search.           *)
LEMMA DirectoryViews ==
  ASSUME NEW s \in State, s.cursor \in Nat, NEW p \in Paths, NEW k \in Seq(DirNames)
  PROVE  LET t == ReloadDirectoryLazy(WithPath(WithStack(SearchClear(s), k), p))
         IN  Viewed(t) /\ ~t.active
<1> DEFINE c == SearchClear(s)
           u == WithStack(c, k)
           w == WithPath(u, p)
<1>1. c \in State /\ c.cursor = s.cursor /\ ~c.active /\ c.view = << >>
  BY SearchClearKeeps
<1> HIDE DEF c
<1>2. u \in State /\ SameView(c, u) /\ u.cursor = c.cursor
  BY <1>1, StackIs
<1> HIDE DEF u
<1>3. ~u.active /\ u.view = << >>
  BY <1>1, <1>2 DEF SameView
<1>4. /\ w \in State /\ w.cursor = u.cursor /\ w.view = u.view
      /\ u.active \/ ~w.active
  BY <1>2, PathIs
<1> HIDE DEF w
<1>5. w \in State /\ w.cursor \in Nat /\ ~w.active /\ w.view = << >>
  BY <1>1, <1>2, <1>3, <1>4
<1>6. Viewed(ReloadDirectoryLazy(w)) /\ ~ReloadDirectoryLazy(w).active
  BY <1>5, LazyReloads
<1> QED
  BY <1>6 DEF w, u, c

(* A stack that is put back.                                                 *)
LEMMA StackUnchanged ==
  ASSUME NEW s \in State
  PROVE  WithStack(s, s.stack) = s
  BY DEF State, WithStack

(* navigate_left, with the search for the directory it came from                *)
LEMMA LeftShows ==
  ASSUME NEW s, Viewed(s)
  PROVE  LET t == NavigateLeft(s)
         IN  Viewed(t) /\ Shown(t) /\ Counted(t) /\ ~t.active
<1> DEFINE c == SearchClear(s)
           up == IF s.cwd = << >> THEN c
                 ELSE ReloadDirectoryLazy([c EXCEPT !.cwd = Front(s.cwd)])
           z == WithStack(up, Front(s.stack))
           x == IF s.stack = << >> THEN up ELSE FindLazy(z, Last(s.stack))
<1>1. s \in State /\ s.cursor \in Nat /\ Listing(s) /\ s.cwd \in Paths /\ s.stack \in Seq(DirNames)
  BY DEF Viewed, Listing, State
<1>2. NavigateLeft(s) = AtFirst(x)
  BY DEF NavigateLeft, WithStack
<1>3. Viewed(up) /\ ~up.active
  <2>1. CASE s.cwd = << >>
    BY <1>1, <2>1, ClearViews
  <2>2. CASE s.cwd # << >>
    <3>1. Front(s.cwd) \in Paths
      BY <1>1, <2>2, BrowserAssumption
    <3>2. c \in State
      BY <1>1, SearchClearKeeps
    <3> DEFINE p == Front(s.cwd)  k == c.stack
    <3>3. k \in Seq(DirNames) /\ WithStack(c, k) = c
      BY <3>2, StackUnchanged DEF State
    <3>4. up = ReloadDirectoryLazy(WithPath(c, p))
      BY <2>2 DEF WithPath
    <3> HIDE DEF p, k, up
    <3>5. /\ Viewed(ReloadDirectoryLazy(WithPath(WithStack(c, k), p)))
          /\ ~ReloadDirectoryLazy(WithPath(WithStack(c, k), p)).active
      <4>1. p \in Paths  BY <3>1 DEF p
      <4> QED  BY <1>1, <3>3, <4>1, DirectoryViews
    <3> QED  BY <3>3, <3>4, <3>5
  <2> QED  BY <2>1, <2>2
<1> HIDE DEF up
<1>4. Viewed(x) /\ ~x.active
  <2>1. CASE s.stack = << >>
    BY <1>3, <2>1
  <2>2. CASE s.stack # << >>
    <3> DEFINE k == Front(s.stack)
    <3>1. k \in Seq(DirNames)
      BY <1>1, <2>2, FrontOfStack
    <3> HIDE DEF k
    <3>2. up \in State /\ up.cursor \in Nat
      BY <1>3 DEF Viewed, Listing
    <3>3. /\ WithStack(up, k) \in State /\ SameView(up, WithStack(up, k))
          /\ WithStack(up, k).cursor = up.cursor
      BY <3>1, <3>2, StackIs
    <3>4. z = WithStack(up, k)
      BY DEF k
    <3> HIDE DEF z
    <3>5. Viewed(z) /\ ~z.active
      BY <1>3, <3>2, <3>3, <3>4, ViewStays DEF SameView
    <3> DEFINE last == Last(s.stack)
    <3>6. x = FindLazy(z, last)
      BY <2>2
    <3> HIDE DEF last, x
    <3>7. Viewed(FindLazy(z, last)) /\ ~FindLazy(z, last).active
      BY <3>5, FindLazyFinds
    <3> QED  BY <3>6, <3>7
  <2> QED  BY <2>1, <2>2
<1> HIDE DEF x
<1> QED
  BY <1>2, <1>4, AtFirstShows

(* navigate_right goes into a directory that is listed.                        *)
LEMMA RightShows ==
  ASSUME NEW s, Viewed(s), Counted(s)
  PROVE  LET t == NavigateRight(s)
         IN  Viewed(t) /\ Counted(t) /\ (Shown(t) \/ t = s)
<1> DEFINE v == ActiveFiles(s)
           n == v[s.cursor + 1]
<1>1. CASE s.cursor + 1 \notin DOMAIN v \/ n \notin DirNames
  <2>1. NavigateRight(s) = s
    BY <1>1 DEF NavigateRight
  <2> QED  BY <2>1
<1>2. CASE s.cursor + 1 \in DOMAIN v /\ n \in DirNames
  <2> DEFINE c == SearchClear(s)
             k == Append(c.stack, n)
             p == Append(c.cwd, n)
             r == ReloadDirectoryLazy(WithPath(WithStack(c, k), p))
  <2>1. /\ s \in State /\ s.cursor \in Nat /\ Enterable(s) /\ s.files \in Seq(Names)
        /\ s.view = ViewOf(s)
    BY DEF Viewed, Listing, State
  <2>2. NavigateRight(s) = AtFirst(r)
    <3>1. [c EXCEPT !.stack = Append(@, n), !.cwd = Append(@, n)] = WithPath(WithStack(c, k), p)
      BY DEF WithPath, WithStack
    <3>2. NavigateRight(s) = AtFirst(ReloadDirectoryLazy(
             [c EXCEPT !.stack = Append(@, n), !.cwd = Append(@, n)]))
      BY <1>2 DEF NavigateRight
    <3> QED  BY <3>1, <3>2
  <2>3. n \in Range(s.files)
    <3>1. v \in Seq(Range(s.files))
      <4>1. CASE s.active
        <5>1. Matches(s.files, s.query, s.mode) \in Seq(Range(s.files))
          BY <2>1, MatchesAreListed
        <5> QED  BY <2>1, <4>1, <5>1 DEF ViewOf, ActiveFiles
      <4>2. CASE ~s.active
        <5>1. v = s.files  BY <4>2 DEF ActiveFiles
        <5>2. s.files \in Seq(Range(s.files))  BY <2>1, SeqMembers
        <5> QED  BY <5>1, <5>2
      <4> QED  BY <4>1, <4>2
    <3> HIDE DEF v
    <3> QED  BY <1>2, <3>1
  <2> HIDE DEF n, v
  <2>4. c \in State /\ c.cwd = s.cwd
    BY <2>1, SearchClearKeeps DEF SameListing
  <2> HIDE DEF c
  <2>5. k \in Seq(DirNames) /\ p \in Paths
    <3>1. c.stack \in Seq(DirNames)  BY <2>4 DEF State
    <3>2. k \in Seq(DirNames)  BY <1>2, <3>1
    <3>3. p \in Paths  BY <1>2, <2>1, <2>3, <2>4 DEF Enterable
    <3> QED  BY <3>2, <3>3
  <2> HIDE DEF k, p
  <2>6. Viewed(r) /\ ~r.active
    BY <2>1, <2>5, DirectoryViews DEF c
  <2> HIDE DEF r
  <2> QED  BY <2>2, <2>6, AtFirstShows
<1> QED
  BY <1>1, <1>2

(* plugins_apply_cd: what is shown is in the directory asked for.              *)
LEMMA ChangeShows ==
  ASSUME NEW s \in State, s.cursor \in Nat, NEW p \in Paths, NEW same \in BOOLEAN
  PROVE  LET t == ChangeDirectory(s, p, same)
         IN  Viewed(t) /\ Shown(t) /\ Counted(t) /\ ~t.active
<1> DEFINE c == SearchClear(s)
           k == << >>
           r == ReloadDirectoryLazy(WithPath(WithStack(c, k), p))
<1>1. ChangeDirectory(s, p, same) = Sync(ToTop(r), same)
  BY DEF ChangeDirectory, WithPath, WithStack
<1>2. k \in Seq(DirNames)
  OBVIOUS
<1> HIDE DEF k
<1>3. Viewed(r) /\ ~r.active
  BY <1>2, DirectoryViews
<1> HIDE DEF r
<1>4. Viewed(ToTop(r)) /\ ToTop(r).active = r.active
  BY <1>3, TopViews
<1> DEFINE u == ToTop(r)
<1> HIDE DEF u
<1>5. Viewed(u) /\ ~u.active
  BY <1>3, <1>4 DEF u
<1>6. Viewed(Sync(u, same)) /\ Shown(Sync(u, same)) /\ Counted(Sync(u, same))
      /\ Sync(u, same).active = u.active
  BY <1>5, SyncShows
<1> QED
  BY <1>1, <1>5, <1>6 DEF u

(* The cursor is put on an entry, and that is selected.                      *)
LEMMA MoveShows ==
  ASSUME NEW s, Viewed(s), NEW i \in Int, NEW same \in BOOLEAN
  PROVE  LET t == MoveTo(s, i, same)
         IN  Viewed(t) /\ Shown(t) /\ Counted(t) /\ t.active = s.active
<1> DEFINE c == WithCursor(s, i)
           f == FixCursor(c)
<1>1. s \in State /\ Listing(s) /\ s.view = ViewOf(s) /\ Fits(s)
  BY DEF Viewed, Listing
<1>2. MoveTo(s, i, same) = Sync(f, same)
  BY DEF MoveTo, WithCursor
<1>3. c \in State /\ SameView(s, c)
  BY <1>1, CursorMoves
<1> HIDE DEF c
<1>4. Listing(c) /\ c.view = ViewOf(c) /\ Fits(c) /\ c.active = s.active
  BY <1>1, <1>3, ListingStays DEF SameView, SameListing, ViewOf, Fits
<1>5. Viewed(f) /\ f.active = c.active
  BY <1>3, <1>4, FixViews
<1> HIDE DEF f
<1>6. Viewed(Sync(f, same)) /\ Shown(Sync(f, same)) /\ Counted(Sync(f, same))
      /\ Sync(f, same).active = f.active
  BY <1>5, SyncShows
<1> QED
  BY <1>2, <1>4, <1>5, <1>6

-----------------------------------------------------------------------------
(* The disk *)

WithDisk(s, d) == [s EXCEPT !.disk = d]

(* The disk is another one.                                                  *)
LEMMA DiskIs ==
  ASSUME NEW s \in State, NEW d \in Disks
  PROVE  LET t == WithDisk(s, d)
         IN  /\ t \in State /\ t.cursor = s.cursor
  BY DEF State, WithDisk

(* An entry more or less leaves each directory a listing of names, and the      *)
(* directories in it in reach.                                                *)
LEMMA ChangedIsDisk ==
  ASSUME b \in State, NEW p \in Paths, NEW d \in Changed(p)
  PROVE  d \in Disks
<1> DEFINE old == b.disk[p]
           fits == {m \in Names \ Range(old) : m \in DirNames => Append(p, m) \in Paths}
<1>1. /\ b.disk \in Disks /\ b.disk \in [Paths -> Seq(Names)] /\ old \in Seq(Names)
      /\ \A q \in Paths : \A n \in Range(b.disk[q]) \cap DirNames : Append(q, n) \in Paths
  BY DEF State, Disks
<1>2. PICK new : /\ d = [b.disk EXCEPT ![p] = new]
                 /\ \/ \E i \in DOMAIN old : new = RemoveAt(old, i)
                    \/ \E i \in 1 .. Len(old) + 1, n \in fits : new = InsertAt(old, i, n)
  BY DEF Changed
<1> HIDE DEF old
<1>3. /\ new \in Seq(Names)
      /\ \A n \in Range(new) \cap DirNames : Append(p, n) \in Paths
  <2>1. CASE \E i \in DOMAIN old : new = RemoveAt(old, i)
    <3>1. PICK i \in 1 .. Len(old) : new = RemoveAt(old, i)
      BY <1>1, <2>1
    <3>2. new \in Seq(Names) /\ Range(new) \subseteq Range(old)
      BY <1>1, <3>1, RemoveStays
    <3> QED  BY <1>1, <3>2 DEF old
  <2>2. CASE \E i \in 1 .. Len(old) + 1, n \in fits : new = InsertAt(old, i, n)
    <3>1. PICK i \in 1 .. Len(old) + 1, n \in fits : new = InsertAt(old, i, n)
      BY <2>2
    <3>2. n \in Names /\ (n \in DirNames => Append(p, n) \in Paths)
      BY <3>1
    <3>3. new \in Seq(Names) /\ Range(new) \subseteq Range(old) \cup {n}
      BY <1>1, <3>1, <3>2, InsertStays
    <3> QED  BY <1>1, <3>2, <3>3 DEF old
  <2> QED  BY <1>2, <2>1, <2>2
<1>4. d \in [Paths -> Seq(Names)]
  BY <1>1, <1>2, <1>3
<1>5. ASSUME NEW q \in Paths, NEW n \in Range(d[q]) \cap DirNames PROVE Append(q, n) \in Paths
  <2>1. CASE q = p
    BY <1>1, <1>2, <1>3, <1>5, <2>1
  <2>2. CASE q # p
    BY <1>1, <1>2, <1>5, <2>2
  <2> QED  BY <2>1, <2>2
<1> QED
  BY <1>4, <1>5 DEF Disks

(* What a file operation leaves is a disk.                                   *)
LEMMA OutcomesAreDisks ==
  ASSUME b \in State, NEW d \in Outcomes
  PROVE  d \in Disks
<1>1. b.disk \in Disks /\ b.cwd \in Paths
  BY DEF State
<1>2. d = b.disk \/ d \in Changed(b.cwd)
  BY DEF Outcomes
<1> QED
  BY <1>1, <1>2, ChangedIsDisk

-----------------------------------------------------------------------------
(* The requests *)

(* The slots, in the order of the loop.                                      *)
LEMMA KindsAre ==
  Range(Kinds) = {"cd", "select_index", "select", "clear_search", "set_search",
                  "parent_dir", "enter_dir", "open_path", "preview",
                  "open_selected", "fileop", "search_mode", "reload"}
<1>1. DOMAIN Kinds = 1 .. 13
  BY DEF Kinds
<1>2. 1 .. 13 = {1, 2, 3, 4, 5, 6, 7, 8, 9, 10, 11, 12, 13}
  OBVIOUS
<1>3. Range(Kinds) = {Kinds[i] : i \in {1, 2, 3, 4, 5, 6, 7, 8, 9, 10, 11, 12, 13}}
  BY <1>1, <1>2 DEF Range
<1>4. /\ Kinds[1] = "cd" /\ Kinds[2] = "select_index" /\ Kinds[3] = "select"
      /\ Kinds[4] = "clear_search" /\ Kinds[5] = "set_search" /\ Kinds[6] = "parent_dir"
      /\ Kinds[7] = "enter_dir" /\ Kinds[8] = "open_path" /\ Kinds[9] = "preview"
      /\ Kinds[10] = "open_selected" /\ Kinds[11] = "fileop" /\ Kinds[12] = "search_mode"
      /\ Kinds[13] = "reload"
  BY DEF Kinds
<1> QED
  BY <1>3, <1>4

(* A slot is emptied when its request is taken.                              *)
LEMMA TakeServes ==
  ASSUME Requests(req), NEW k \in Range(Kinds), Take(k)
  PROVE  /\ Requests(req)' /\ Arg(k) \in req[k]
         /\ phase = "loop" /\ UNCHANGED << phase, saved, quitting, calls >>
<1>1. req' = [req EXCEPT ![k] = {}] /\ req[k] # {}
      /\ phase = "loop" /\ UNCHANGED << phase, saved, quitting, calls >>
  BY DEF Take
<1>2. Arg(k) \in req[k]
  BY <1>1 DEF Arg
<1>3. DOMAIN req' = Range(Kinds) /\ \A i \in Range(Kinds) : req'[i] \subseteq req[i]
  BY <1>1 DEF Requests
<1>4. "set_search" \in Range(Kinds) /\ "search_mode" \in Range(Kinds)
  BY KindsAre
<1>5. Requests(req')
  BY <1>3, <1>4 DEF Requests
<1> QED
  BY <1>1, <1>2, <1>5 DEF Requests

(* What a handler ends in is shown, or it changed nothing.                     *)
LEMMA ShowKeeps ==
  ASSUME InView, NEW s, Show(s), Viewed(s), Counted(s), Shown(s) \/ s = b
  PROVE  InView'
<1>1. b' = s /\ unsynced' = (unsynced /\ s = b) /\ unsynced \in BOOLEAN
  BY DEF Show, InView
<1>2. Viewed(b') /\ Counted(b') /\ unsynced' \in BOOLEAN
  BY <1>1
<1>3. ~unsynced' => Shown(b')
  BY <1>1 DEF InView
<1> QED
  BY <1>2, <1>3 DEF InView, Viewed, Counted, Shown, Listing, Enterable, ViewOf, Fits, Entries, ActiveFiles

(* A request for a directory lists it, if it is one.                            *)
LEMMA GoShows ==
  ASSUME InView, NEW p, NEW same \in BOOLEAN,
         Show(IF IsDirectory(b.disk, p) THEN ChangeDirectory(b, p, same) ELSE b)
  PROVE  InView'
<1>1. b \in State /\ b.cursor \in Nat /\ Viewed(b) /\ Counted(b)
  BY DEF InView, Viewed, Listing
<1>2. CASE IsDirectory(b.disk, p)
  <2>1. p \in Paths  BY <1>2 DEF IsDirectory
  <2>2. LET s == ChangeDirectory(b, p, same) IN Viewed(s) /\ Shown(s) /\ Counted(s)
    BY <1>1, <2>1, ChangeShows
  <2>3. Show(ChangeDirectory(b, p, same))  BY <1>2
  <2> QED  BY <2>2, <2>3, ShowKeeps
<1>3. CASE ~ IsDirectory(b.disk, p)
  <2>1. Show(b)  BY <1>3
  <2> QED  BY <1>1, <2>1, ShowKeeps
<1> QED
  BY <1>2, <1>3

(* A part of the handler ends in a view, and the rest shows it.                 *)
LEMMA SyncKeeps ==
  ASSUME InView, NEW s, Viewed(s), NEW same \in BOOLEAN, Show(Sync(s, same))
  PROVE  InView'
<1>1. Viewed(Sync(s, same)) /\ Shown(Sync(s, same)) /\ Counted(Sync(s, same))
  BY SyncShows
<1> QED
  BY <1>1, ShowKeeps

(* ... from its top.                                                          *)
LEMMA TopSyncKeeps ==
  ASSUME InView, NEW s, Viewed(s), NEW same \in BOOLEAN, Show(Sync(ToTop(s), same))
  PROVE  InView'
  BY TopViews, SyncKeeps

(* The directory is read again.                                               *)
LEMMA RereadKeeps ==
  ASSUME InView, NEW s \in State, s.cursor \in Nat, NEW same \in BOOLEAN,
         Show(Reread(s, same))
  PROVE  InView'
<1>1. Viewed(Reread(s, same)) /\ Shown(Reread(s, same)) /\ Counted(Reread(s, same))
  BY RereadShows
<1> QED
  BY <1>1, ShowKeeps

(* The cursor is put on an entry.                                             *)
LEMMA MoveKeeps ==
  ASSUME InView, NEW s, Viewed(s), NEW i \in Int, NEW same \in BOOLEAN,
         Show(MoveTo(s, i, same))
  PROVE  InView'
<1>1. Viewed(MoveTo(s, i, same)) /\ Shown(MoveTo(s, i, same)) /\ Counted(MoveTo(s, i, same))
  BY MoveShows
<1> QED
  BY <1>1, ShowKeeps

(* The four cursor keys.                                                     *)
LEMMA NavigateKeeps ==
  ASSUME InView,
         NEW s \in {NavigateUp(b), NavigateDown(b), NavigateLeft(b), NavigateRight(b)}, Show(s)
  PROVE  InView'
<1>1. Viewed(b) /\ Counted(b)
  BY DEF InView
<1>2. Viewed(s) /\ Counted(s) /\ (Shown(s) \/ s = b)
  <2>1. CASE s = NavigateUp(b)     BY <1>1, <2>1, UpShows
  <2>2. CASE s = NavigateDown(b)   BY <1>1, <2>2, DownShows
  <2>3. CASE s = NavigateLeft(b)   BY <1>1, <2>3, LeftShows
  <2>4. CASE s = NavigateRight(b)  BY <1>1, <2>4, RightShows
  <2> QED  BY <2>1, <2>2, <2>3, <2>4
<1> QED
  BY <1>2, ShowKeeps

(* A field that is about neither the view nor the selection.                    *)
WithSelectAll(s, x) == [s EXCEPT !.selectAll = x]
WithOverride(s, x) == [s EXCEPT !.override = x]
WithMode(s, m) == [s EXCEPT !.mode = m]

(* t is s to a reader of the view and the selection.                           *)
SameSelection(s, t) ==
  /\ t.cursor = s.cursor /\ t.start = s.start /\ t.num = s.num
  /\ t.selected = s.selected /\ t.freed = s.freed

(* Each of these sets one of them.                                           *)
LEMMA SelectAllIs ==
  ASSUME NEW s \in State, NEW x \in BOOLEAN
  PROVE  LET t == WithSelectAll(s, x)
         IN  t \in State /\ SameView(s, t) /\ SameSelection(s, t)
  BY DEF State, SameView, SameListing, SameSelection, WithSelectAll

LEMMA OverrideIs ==
  ASSUME NEW s \in State, NEW x \in BOOLEAN
  PROVE  LET t == WithOverride(s, x)
         IN  t \in State /\ SameView(s, t) /\ SameSelection(s, t)
  BY DEF State, SameView, SameListing, SameSelection, WithOverride

LEMMA ModeIs ==
  ASSUME NEW s \in State, NEW m \in Modes
  PROVE  LET t == WithMode(s, m)
         IN  /\ t \in State /\ SameListing(s, t) /\ SameSelection(s, t)
             /\ t.view = s.view /\ t.active = s.active /\ t.query = s.query
  BY DEF State, SameListing, SameSelection, WithMode

(* What is shown stays shown.                                                *)
LEMMA SelectionStays ==
  ASSUME NEW s, NEW t, Shown(s), ActiveFiles(t) = ActiveFiles(s), SameSelection(s, t)
  PROVE  Shown(t)
<1> DEFINE v == ActiveFiles(s)
<1>1. ~t.freed /\ t.cursor = s.cursor /\ t.start = s.start /\ t.selected = s.selected
  BY DEF Shown, SameSelection
<1> QED
  BY <1>1 DEF Shown

(* A handler that touches neither is no matter.                              *)
LEMMA SameSelectionKeeps ==
  ASSUME InView, NEW t, Viewed(t), ActiveFiles(t) = ActiveFiles(b), SameSelection(b, t),
         b' = t, UNCHANGED unsynced
  PROVE  InView'
<1>1. Counted(t)
  BY DEF InView, Counted, SameSelection
<1>2. Shown(b) => Shown(t)
  BY SelectionStays
<1>3. Viewed(b') /\ Counted(b') /\ unsynced' \in BOOLEAN /\ (~unsynced' => Shown(b'))
  BY <1>1, <1>2 DEF InView
<1> QED
  BY <1>3 DEF InView, Viewed, Counted, Shown, Listing, Enterable, ViewOf, Fits, Entries, ActiveFiles

(* A directory changes under its listing.                                      *)
Stale(s, d, x) == [s EXCEPT !.disk = d, !.fresh = x]

(* The view and the listing are what they were.                              *)
LEMMA StaleViews ==
  ASSUME NEW s, Viewed(s), NEW d \in Disks, NEW x \in BOOLEAN,
         x => s.fresh /\ Entries(WithDisk(s, d)) = Entries(s)
  PROVE  LET t == Stale(s, d, x)
         IN  Viewed(t) /\ ActiveFiles(t) = ActiveFiles(s) /\ SameSelection(s, t)
<1> DEFINE t == Stale(s, d, x)
           u == WithDisk(s, d)
<1>1. s \in State
  BY DEF Viewed, Listing
<1>2. /\ t \in State /\ t.disk = d /\ t.cwd = s.cwd /\ t.files = s.files
      /\ t.loaded = s.loaded /\ t.total = s.total /\ (t.fresh => x)
      /\ t.view = s.view /\ t.query = s.query /\ t.mode = s.mode /\ t.cap = s.cap
      /\ SameSelection(s, t)
  BY <1>1 DEF Stale, State, SameSelection
<1>3. ViewOf(t) = ViewOf(s) /\ ActiveFiles(t) = ActiveFiles(s)
  <2>1. t.active = s.active  BY <1>1 DEF Stale, State
  <2> HIDE DEF t
  <2> QED  BY <1>2, <2>1 DEF ViewOf, ActiveFiles
<1>4. u.disk = d /\ u.cwd = s.cwd
  BY <1>1 DEF State, WithDisk
<1> HIDE DEF t, u
<1>5. Entries(t) = Entries(u)
  BY <1>2, <1>4 DEF Entries
<1>6. Listing(t)
  <2>1. t.fresh => IsPrefix(t.files, Entries(t)) /\ t.total = Len(Entries(t))
    BY <1>2, <1>5 DEF Viewed, Listing, u
  <2>2. Enterable(t)
    BY <1>2 DEF Viewed, Listing, Enterable
  <2> QED  BY <1>2, <2>1, <2>2 DEF Listing, Viewed
<1>7. t.cursor \in Nat /\ t.view = ViewOf(t) /\ Fits(t)
  BY <1>2, <1>3 DEF SameSelection, Viewed, Fits
<1> QED
  BY <1>2, <1>3, <1>6, <1>7 DEF Viewed, t

-----------------------------------------------------------------------------
(* The actions *)

(* select_index moves the cursor, if there is such an entry.                 *)
LEMMA ServeSelectIndexShows ==
  ASSUME InView, ServeSelectIndex
  PROVE  InView'
<1> DEFINE i == Arg("select_index")
<1>1. PICK same \in BOOLEAN :
        Show(IF i \in 0 .. Len(ActiveFiles(b)) - 1 THEN MoveTo(b, i, same) ELSE b)
  BY DEF ServeSelectIndex
<1>2. b \in State /\ Viewed(b) /\ Counted(b)
  BY DEF InView, Viewed, Listing
<1>3. Len(ActiveFiles(b)) \in Nat
  BY <1>2, ActiveIsSeq
<1> HIDE DEF i
<1>4. CASE i \in 0 .. Len(ActiveFiles(b)) - 1
  <2>1. i \in Int /\ Show(MoveTo(b, i, same))  BY <1>1, <1>3, <1>4
  <2> QED  BY <1>2, <2>1, MoveKeeps
<1>5. CASE i \notin 0 .. Len(ActiveFiles(b)) - 1
  <2>1. Show(b)  BY <1>1, <1>5
  <2> QED  BY <1>2, <2>1, ShowKeeps
<1> QED
  BY <1>4, <1>5

(* select moves it to a name, or to where the lookup ended.                  *)
LEMMA ServeSelectShows ==
  ASSUME InView, ServeSelect
  PROVE  InView'
<1> DEFINE n == Arg("select")
           s == IF b.active THEN b ELSE FindLazy(b, n)
           i == IndexIn(ActiveFiles(s), n)
<1>1. PICK same \in BOOLEAN :
        IF i # -1 THEN Show(MoveTo(s, i, same))
        ELSE b' = s /\ unsynced' = (unsynced \/ s # b)
  BY DEF ServeSelect
<1>2. Viewed(b) /\ Counted(b)
  BY DEF InView
<1> HIDE DEF n
<1>3. Viewed(s) /\ Counted(s)
  BY <1>2, FindLazyFinds
<1> HIDE DEF s
<1>4. i \in Int
  <2>1. s \in State  BY <1>3 DEF Viewed, Listing
  <2>2. ActiveFiles(s) \in Seq(Names) /\ Len(ActiveFiles(s)) \in Nat  BY <2>1, ActiveIsSeq
  <2>3. i \in -1 .. Len(ActiveFiles(s)) - 1  BY <2>2, IndexIsPlace
  <2> QED  BY <2>2, <2>3
<1> HIDE DEF i
<1>5. CASE i # -1
  BY <1>1, <1>3, <1>4, <1>5, MoveKeeps
<1>6. CASE i = -1
  <2>1. b' = s /\ unsynced' = (unsynced \/ s # b)  BY <1>1, <1>6
  <2>2. Viewed(b') /\ Counted(b') /\ unsynced' \in BOOLEAN
    BY <1>3, <2>1 DEF InView
  <2>3. ~unsynced' => Shown(b')
    BY <2>1 DEF InView
  <2> QED
    BY <2>2, <2>3 DEF InView, Viewed, Counted, Shown, Listing, Enterable, ViewOf, Fits, Entries,
                      ActiveFiles
<1> QED
  BY <1>5, <1>6

(* clear_search, set_search and the mode of the search begin at the top.     *)
LEMMA ServeClearSearchShows ==
  ASSUME InView, ServeClearSearch
  PROVE  InView'
<1>1. PICK same \in BOOLEAN : Show(Sync(ToTop(SearchClear(b)), same))
  BY DEF ServeClearSearch
<1>2. Listing(b) /\ b.cursor \in Nat
  BY DEF InView, Viewed
<1>3. Viewed(SearchClear(b))
  BY <1>2, ClearViews
<1> QED
  BY <1>1, <1>3, TopSyncKeeps

(* A query replaces the one before.                                           *)
LEMMA QueryKeeps ==
  ASSUME InView, NEW s, Viewed(s), NEW q \in Queries \cup {None}, NEW same \in BOOLEAN,
         Show(Sync(ToTop(SetQuery(s, q)), same))
  PROVE  InView'
<1>1. Viewed(SetQuery(s, q))
  BY SetQueryViews DEF Viewed
<1> QED
  BY <1>1, TopSyncKeeps

(* Select All is not part of the view.                                       *)
LEMMA SelectAllViews ==
  ASSUME NEW s, Viewed(s), NEW x \in BOOLEAN
  PROVE  LET t == WithSelectAll(s, x)
         IN  Viewed(t) /\ ActiveFiles(t) = ActiveFiles(s) /\ SameSelection(s, t)
<1>1. s \in State /\ s.cursor \in Nat
  BY DEF Viewed, Listing
<1> DEFINE t == WithSelectAll(s, x)
<1>2. t \in State /\ SameView(s, t) /\ SameSelection(s, t)
  BY <1>1, SelectAllIs
<1> HIDE DEF t
<1>3. t.cursor \in Nat
  BY <1>1, <1>2 DEF SameSelection
<1> QED
  BY <1>2, <1>3, ViewStays DEF t

LEMMA ServeSetSearchShows ==
  ASSUME InView, Requests(req), ServeSetSearch
  PROVE  InView'
<1> DEFINE q == Arg("set_search")
           s == WithSelectAll(b, FALSE)
<1>1. "set_search" \in Range(Kinds) /\ Take("set_search")
  BY KindsAre DEF ServeSetSearch
<1>2. q \in Queries \cup {None}
  BY <1>1, TakeServes DEF Requests
<1>3. PICK same \in BOOLEAN : Show(Sync(ToTop(SetQuery(s, q)), same))
  BY DEF ServeSetSearch, WithSelectAll
<1> HIDE DEF q
<1>4. Viewed(s)
  BY SelectAllViews DEF InView
<1> HIDE DEF s
<1> QED
  BY <1>2, <1>3, <1>4, QueryKeeps

(* preview sets the override only.                                           *)
LEMMA ServePreviewShows ==
  ASSUME InView, ServePreview
  PROVE  InView'
<1> DEFINE x == b.override \/ Exists(b.disk, Arg("preview"))
           t == WithOverride(b, x)
<1>1. b \in State /\ Viewed(b) /\ b.cursor \in Nat
  BY DEF InView, Viewed, Listing
<1>2. b' = t /\ UNCHANGED unsynced
  BY DEF ServePreview, WithOverride
<1>3. x \in BOOLEAN
  BY <1>1 DEF State, Exists
<1> HIDE DEF x
<1>4. t \in State /\ SameView(b, t) /\ SameSelection(b, t)
  BY <1>1, <1>3, OverrideIs
<1> HIDE DEF t
<1>5. t.cursor \in Nat
  BY <1>1, <1>4 DEF SameSelection
<1>6. Viewed(t) /\ ActiveFiles(t) = ActiveFiles(b)
  BY <1>1, <1>4, <1>5, ViewStays
<1> QED
  BY <1>2, <1>4, <1>6, SameSelectionKeeps

LEMMA ServeSearchModeShows ==
  ASSUME InView, Requests(req), ServeSearchMode
  PROVE  InView'
<1> DEFINE m == Arg("search_mode")
           s == WithMode(b, m)
<1>1. "search_mode" \in Range(Kinds) /\ Take("search_mode")
  BY KindsAre DEF ServeSearchMode
<1>2. m \in Modes
  BY <1>1, TakeServes DEF Requests
<1>3. PICK same \in BOOLEAN :
        IF b.active THEN Show(Sync(ToTop(Rebuild(s)), same))
        ELSE b' = s /\ UNCHANGED unsynced
  BY DEF ServeSearchMode, WithMode
<1>4. b \in State /\ Listing(b) /\ b.cursor \in Nat /\ b.view = ViewOf(b)
  BY DEF InView, Viewed, Listing
<1> HIDE DEF m
<1>5. /\ s \in State /\ SameListing(b, s) /\ SameSelection(b, s)
      /\ s.view = b.view /\ s.query = b.query
  BY <1>2, <1>4, ModeIs
<1>6. s.active = b.active
  BY <1>2, <1>4, ModeIs
<1> HIDE DEF s
<1>7. Listing(s) /\ s.cursor \in Nat
  BY <1>4, <1>5, ListingStays DEF SameSelection
<1>8. CASE b.active
  <2>1. Viewed(Rebuild(s))
    BY <1>6, <1>7, <1>8, RebuildViews
  <2> QED  BY <1>3, <1>8, <2>1, TopSyncKeeps
<1>9. CASE ~b.active
  <2>1. s.view = << >> /\ Fits(s)
    BY <1>4, <1>5, <1>9, NothingFits DEF ViewOf
  <2>2. Viewed(s) /\ ActiveFiles(s) = ActiveFiles(b)
    BY <1>4, <1>5, <1>6, <1>7, <1>9, <2>1 DEF Viewed, ViewOf, ActiveFiles, SameListing
  <2> QED  BY <1>3, <1>5, <1>9, <2>2, SameSelectionKeeps
<1> QED
  BY <1>8, <1>9

(* A file operation and a reload read the directory again.                   *)
LEMMA ServeFileopShows ==
  ASSUME InView, ServeFileop
  PROVE  InView'
<1>1. b \in State /\ b.cursor \in Nat
  BY DEF InView, Viewed, Listing
<1>2. CASE UNCHANGED << b, changes, unsynced >>
  <2>1. Viewed(b') /\ Counted(b') /\ unsynced' \in BOOLEAN /\ (~unsynced' => Shown(b'))
    BY <1>2 DEF InView
  <2> QED
    BY <2>1 DEF InView, Viewed, Counted, Shown, Listing, Enterable, ViewOf, Fits, Entries, ActiveFiles
<1>3. CASE \E d \in Outcomes, same \in BOOLEAN :
             Spend(d) /\ Show(Reread(ToTop([b EXCEPT !.disk = d]), same))
  <2>1. PICK d \in Outcomes, same \in BOOLEAN :
          Show(Reread(ToTop([b EXCEPT !.disk = d]), same))
    BY <1>3
  <2>2. d \in Disks
    BY <1>1, OutcomesAreDisks
  <2> DEFINE u == WithDisk(b, d)
  <2>3. Show(Reread(ToTop(u), same))
    BY <2>1 DEF WithDisk
  <2>4. u \in State
    BY <1>1, <2>2, DiskIs
  <2> HIDE DEF u
  <2>5. ToTop(u) \in State /\ ToTop(u).cursor = 0
    BY <2>4, ToTopKeeps
  <2>6. ToTop(u).cursor \in Nat
    BY <2>5
  <2> QED  BY <2>3, <2>5, <2>6, RereadKeeps
<1> QED
  BY <1>2, <1>3 DEF ServeFileop

LEMMA ServeReloadShows ==
  ASSUME InView, ServeReload
  PROVE  InView'
<1>1. PICK same \in BOOLEAN : Show(Reread(ToTop(b), same))
  BY DEF ServeReload
<1>2. b \in State
  BY DEF InView, Viewed, Listing
<1>3. ToTop(b) \in State /\ ToTop(b).cursor = 0 /\ 0 \in Nat
  BY <1>2, ToTopKeeps
<1> QED
  BY <1>1, <1>3, RereadKeeps

(* Whatever request is served.                                               *)
LEMMA ServeShows ==
  ASSUME InView, Requests(req), Serve
  PROVE  InView'
<1>1. CASE ServeCd
  BY <1>1, GoShows DEF ServeCd
<1>2. CASE ServeOpenPath
  BY <1>2, GoShows DEF ServeOpenPath
<1>3. CASE ServeParentDir
  BY <1>3, NavigateKeeps DEF ServeParentDir
<1>4. CASE ServeEnterDir
  BY <1>4, NavigateKeeps DEF ServeEnterDir
<1>5. CASE ServeOpenSelected
  BY <1>5, NavigateKeeps DEF ServeOpenSelected
<1> QED
  BY <1>1, <1>2, <1>3, <1>4, <1>5, ServeSelectIndexShows, ServeSelectShows,
     ServeClearSearchShows, ServeSetSearchShows, ServePreviewShows, ServeFileopShows,
     ServeSearchModeShows, ServeReloadShows DEF Serve

(* A file operation is counted when it changed the disk.                       *)
LEMMA SpendCounts ==
  ASSUME InLoop, NEW d \in Outcomes, Spend(d)
  PROVE  changes' \in 0 .. MaxChanges
<1>1. MaxChanges \in Nat /\ changes \in 0 .. MaxChanges
  BY BrowserAssumption DEF InLoop
<1>2. d = b.disk \/ changes < MaxChanges
  BY DEF Outcomes
<1> QED
  BY <1>1, <1>2 DEF Spend

(* A request is taken and served.                                            *)
LEMMA ServeKeeps ==
  ASSUME BrowserInv, Serve
  PROVE  BrowserInv'
<1>1. PICK k \in Range(Kinds) : Take(k)
  BY KindsAre DEF Serve, ServeCd, ServeSelectIndex, ServeSelect, ServeClearSearch,
       ServeSetSearch, ServeParentDir, ServeEnterDir, ServeOpenPath, ServePreview,
       ServeOpenSelected, ServeFileop, ServeSearchMode, ServeReload
<1>2. Requests(req)' /\ phase = "loop" /\ UNCHANGED << phase, saved, quitting, calls >>
  BY <1>1, TakeServes DEF BrowserInv
<1>3. InView'
  BY ServeShows DEF BrowserInv
<1>4. changes' \in 0 .. MaxChanges
  <2>1. changes' = changes \/ \E d \in Outcomes : Spend(d)
    BY DEF Serve, ServeCd, ServeSelectIndex, ServeSelect, ServeClearSearch,
       ServeSetSearch, ServeParentDir, ServeEnterDir, ServeOpenPath, ServePreview,
       ServeOpenSelected, ServeFileop, ServeSearchMode, ServeReload
  <2>2. CASE changes' = changes
    BY <2>2 DEF BrowserInv, InLoop
  <2>3. CASE \E d \in Outcomes : Spend(d)
    BY <2>3, SpendCounts DEF BrowserInv
  <2> QED  BY <2>1, <2>2, <2>3
<1>5. InLoop'
  BY <1>2, <1>4 DEF BrowserInv, InLoop
<1> QED
  BY <1>2, <1>3, <1>5 DEF BrowserInv

(* A request fills its slot.                                                   *)
LEMMA RequestKeeps ==
  ASSUME BrowserInv, Request
  PROVE  BrowserInv'
<1>1. PICK c \in Calls : req' = [req EXCEPT ![c.kind] = {c.arg}]
  BY DEF Request
<1>2. /\ c.kind \in Range(Kinds)
      /\ c.kind = "set_search" => c.arg \in Queries \cup {None}
      /\ c.kind = "search_mode" => c.arg \in Modes
  BY BrowserAssumption
<1>3. DOMAIN req' = Range(Kinds)
      /\ \A k \in Range(Kinds) : req'[k] = IF k = c.kind THEN {c.arg} ELSE req[k]
  BY <1>1, <1>2 DEF BrowserInv, Requests
<1>4. "set_search" \in Range(Kinds) /\ "search_mode" \in Range(Kinds)
  BY KindsAre
<1>5. \A k \in Range(Kinds) : \A x, y \in req'[k] : x = y
  <2> SUFFICES ASSUME NEW k \in Range(Kinds) PROVE \A x, y \in req'[k] : x = y
    OBVIOUS
  <2>1. CASE k = c.kind   BY <1>3, <2>1
  <2>2. CASE k # c.kind   BY <1>3, <2>2 DEF BrowserInv, Requests
  <2> QED  BY <2>1, <2>2
<1>6. req'["set_search"] \subseteq Queries \cup {None} /\ req'["search_mode"] \subseteq Modes
  <2>1. CASE c.kind = "set_search"
    BY <1>2, <1>3, <1>4, <2>1 DEF BrowserInv, Requests
  <2>2. CASE c.kind # "set_search"
    BY <1>2, <1>3, <1>4, <2>2 DEF BrowserInv, Requests
  <2> QED  BY <2>1, <2>2
<1>7. Requests(req)'
  BY <1>3, <1>5, <1>6 DEF Requests
<1>8. UNCHANGED << phase, b, saved, quitting, changes, unsynced >>
      /\ calls' = calls + 1 /\ calls < MaxCalls
  BY DEF Request
<1>9. InLoop'
  <2>1. MaxCalls \in Nat /\ calls \in 0 .. MaxCalls  BY BrowserAssumption DEF BrowserInv, InLoop
  <2>2. calls' \in 0 .. MaxCalls  BY <1>8, <2>1
  <2> QED  BY <1>8, <2>2 DEF BrowserInv, InLoop
<1>10. InView'
  <2>1. b' = b /\ unsynced' = unsynced  BY <1>8
  <2> QED
    BY <2>1 DEF BrowserInv, InView, Viewed, Counted, Shown, Listing, Enterable, ViewOf, Fits, Entries,
                ActiveFiles
<1> QED
  BY <1>7, <1>9, <1>10 DEF BrowserInv

(* The loop begins where on_load wanted it to.                                 *)
LEMMA StartLoopKeeps ==
  ASSUME BrowserInv, StartLoop
  PROVE  BrowserInv'
<1> DEFINE p == CHOOSE p \in req["cd"] : TRUE
           cd == IF \E q \in req["cd"] : IsDirectory(b.disk, q)
                 THEN {ChangeDirectory(b, p, same) : same \in BOOLEAN}
                 ELSE {b}
<1>1. PICK s \in cd : b' = IF req["reload"] = {} THEN s ELSE Reloaded(s)
  BY DEF StartLoop, Reloaded
<1>2. /\ phase = "load" /\ phase' = "loop" /\ unsynced' = (req["reload"] # {})
      /\ req' = [req EXCEPT !["cd"] = {}, !["reload"] = {}]
      /\ UNCHANGED << saved, quitting, calls, changes >>
  BY DEF StartLoop
<1>3. /\ b \in State /\ b.cursor \in Nat /\ Viewed(b) /\ Counted(b) /\ Shown(b) /\ ~b.active
  BY <1>2 DEF BrowserInv, InView, InLoop, Viewed, Listing
<1>4. Viewed(s) /\ Counted(s) /\ Shown(s) /\ ~s.active
  <2>1. CASE \E q \in req["cd"] : IsDirectory(b.disk, q)
    <3>1. "cd" \in Range(Kinds)  BY KindsAre
    <3>2. PICK q \in req["cd"] : IsDirectory(b.disk, q)  BY <2>1
    <3>3. p \in req["cd"]  BY <3>2
    <3>4. p = q  BY <3>1, <3>2, <3>3 DEF BrowserInv, Requests
    <3>5. p \in Paths  BY <3>2, <3>4 DEF IsDirectory
    <3>6. PICK same \in BOOLEAN : s = ChangeDirectory(b, p, same)  BY <2>1
    <3> HIDE DEF p, cd
    <3> QED  BY <1>3, <3>5, <3>6, ChangeShows
  <2>2. CASE ~ \E q \in req["cd"] : IsDirectory(b.disk, q)
    BY <1>3, <2>2
  <2> QED  BY <2>1, <2>2
<1> HIDE DEF p, cd
<1>5. Viewed(b') /\ Counted(b') /\ (~unsynced' => Shown(b'))
  <2>1. CASE req["reload"] = {}
    BY <1>1, <1>4, <2>1
  <2>2. CASE req["reload"] # {}
    <3> DEFINE t == Reloaded(s)
    <3>1. s \in State /\ s.view = << >> /\ s.cursor \in Nat
      BY <1>4 DEF Viewed, Listing, ViewOf
    <3>2. Listing(t) /\ SameSearch(s, t) /\ t.num = Len(t.files)
      BY <3>1, WhollyReloads
    <3>3. b' = t
      BY <1>1, <2>2
    <3> HIDE DEF t
    <3>4. t.view = << >> /\ ~t.active /\ t \in State /\ t.cursor \in Nat
      BY <1>4, <3>1, <3>2 DEF SameSearch, Listing
    <3>5. Viewed(t) /\ Counted(t)
      BY <3>2, <3>4, NothingFits DEF Viewed, ViewOf, Counted, ActiveFiles
    <3> QED  BY <1>2, <2>2, <3>3, <3>5
  <2> QED  BY <2>1, <2>2
<1>6. InView'
  <2>1. unsynced' \in BOOLEAN  BY <1>2
  <2> QED
    BY <1>5, <2>1 DEF InView, Viewed, Counted, Shown, Listing, Enterable, ViewOf, Fits, Entries,
                      ActiveFiles
<1>7. Requests(req)'
  <2>1. /\ "set_search" \in Range(Kinds) /\ "search_mode" \in Range(Kinds)
    BY KindsAre
  <2>2. DOMAIN req' = Range(Kinds) /\ \A k \in Range(Kinds) : req'[k] \subseteq req[k]
    BY <1>2 DEF BrowserInv, Requests
  <2> QED  BY <2>1, <2>2 DEF BrowserInv, Requests
<1>8. InLoop'
  BY <1>2 DEF BrowserInv, InLoop
<1> QED
  BY <1>6, <1>7, <1>8 DEF BrowserInv

(* Steps that touch neither the browser nor the slots.                       *)
LEMMA UnchangedStays ==
  ASSUME BrowserInv, UNCHANGED << b, req, unsynced >>
  PROVE  InView' /\ Requests(req)'
<1>1. b' = b /\ unsynced' = unsynced /\ req' = req
  OBVIOUS
<1>2. InView'
  BY <1>1 DEF BrowserInv, InView, Viewed, Counted, Shown, Listing, Enterable, ViewOf, Fits, Entries,
              ActiveFiles
<1>3. Requests(req)'
  BY <1>1 DEF BrowserInv, Requests
<1> QED
  BY <1>2, <1>3

LEMMA RequestsStay ==
  ASSUME BrowserInv, UNCHANGED req
  PROVE  Requests(req)'
  BY DEF BrowserInv, Requests

(* Directories change under the listing that is shown.                         *)
LEMMA StaleKeeps ==
  ASSUME InView, NEW d \in Disks, NEW x \in BOOLEAN,
         x => b.fresh /\ Entries(WithDisk(b, d)) = Entries(b),
         b' = Stale(b, d, x), UNCHANGED unsynced
  PROVE  InView'
<1> DEFINE t == Stale(b, d, x)
<1>1. Viewed(t) /\ ActiveFiles(t) = ActiveFiles(b) /\ SameSelection(b, t)
  BY StaleViews DEF InView
<1> HIDE DEF t
<1>2. b' = t
  BY DEF t
<1> QED
  BY <1>1, <1>2, SameSelectionKeeps

(* Another program, and a script that saves, change the directory.           *)
LEMMA DiskChangeKeeps ==
  ASSUME BrowserInv, DiskChange
  PROVE  BrowserInv'
<1>1. PICK p \in Paths : \E d \in Changed(p) :
        LET s == [b EXCEPT !.disk = d]
        IN  b' = [s EXCEPT !.fresh = @ /\ Entries(s) = Entries(b)]
  BY DEF DiskChange
<1>2. PICK d \in Changed(p) :
        LET s == [b EXCEPT !.disk = d]
        IN  b' = [s EXCEPT !.fresh = @ /\ Entries(s) = Entries(b)]
  BY <1>1
<1>3. b \in State /\ b.fresh \in BOOLEAN
  BY DEF BrowserInv, InView, Viewed, Listing, State
<1> DEFINE x == b.fresh /\ Entries(WithDisk(b, d)) = Entries(b)
<1>4. d \in Disks
  BY <1>3, ChangedIsDisk
<1>5. b' = Stale(b, d, x)
  <2> DEFINE s == WithDisk(b, d)
  <2>1. b' = [s EXCEPT !.fresh = s.fresh /\ Entries(s) = Entries(b)]
    BY <1>2 DEF WithDisk
  <2>2. s.fresh = b.fresh
    BY <1>3 DEF WithDisk, State
  <2>3. b' = [s EXCEPT !.fresh = x]
    BY <2>1, <2>2
  <2> HIDE DEF x
  <2> QED  BY <2>3 DEF Stale, WithDisk
<1>6. x \in BOOLEAN /\ (x => b.fresh /\ Entries(WithDisk(b, d)) = Entries(b))
  BY <1>3
<1>7. UNCHANGED << phase, saved, req, quitting, calls, unsynced >>
      /\ phase # "load" /\ changes' = changes + 1 /\ changes < MaxChanges
  BY DEF DiskChange
<1> HIDE DEF x
<1>8. InView'
  BY <1>4, <1>5, <1>6, <1>7, StaleKeeps DEF BrowserInv
<1>9. InLoop'
  <2>1. changes' \in 0 .. MaxChanges  BY <1>7, BrowserAssumption DEF BrowserInv, InLoop
  <2> QED  BY <1>7, <2>1 DEF BrowserInv, InLoop
<1> QED
  BY <1>7, <1>8, <1>9, RequestsStay DEF BrowserInv

LEMMA EditorSavesAsKeeps ==
  ASSUME BrowserInv, EditorSavesAs
  PROVE  BrowserInv'
<1>1. PICK n \in Names \ DirNames :
        /\ \E d \in Changed(b.cwd) \cup {b.disk} :
             b' = [b EXCEPT !.disk = d, !.fresh = @ /\ d = b.disk]
        /\ req' = [req EXCEPT !["reload"] = {"yes"}, !["select"] = {n}]
  BY DEF EditorSavesAs
<1>2. PICK d \in Changed(b.cwd) \cup {b.disk} :
        b' = [b EXCEPT !.disk = d, !.fresh = @ /\ d = b.disk]
  BY <1>1
<1>3. b \in State /\ b.fresh \in BOOLEAN /\ b.cwd \in Paths /\ b.disk \in Disks
  BY DEF BrowserInv, InView, Viewed, Listing, State
<1> DEFINE x == b.fresh /\ d = b.disk
<1>4. d \in Disks
  BY <1>3, ChangedIsDisk
<1>5. b' = Stale(b, d, x)
  BY <1>2 DEF Stale
<1>6. x \in BOOLEAN /\ (x => b.fresh /\ Entries(WithDisk(b, d)) = Entries(b))
  <2>1. d = b.disk => Entries(WithDisk(b, d)) = Entries(b)
    BY <1>3 DEF WithDisk, Entries, State
  <2> QED  BY <1>3, <2>1
<1> HIDE DEF x
<1>7. UNCHANGED << phase, saved, unsynced, quitting, calls >>
      /\ phase = "loop" /\ changes' = changes + 1 /\ changes < MaxChanges
  BY DEF EditorSavesAs, Idle
<1>8. InView'
  BY <1>4, <1>5, <1>6, <1>7, StaleKeeps DEF BrowserInv
<1>9. InLoop'
  <2>1. changes' \in 0 .. MaxChanges  BY <1>7, BrowserAssumption DEF BrowserInv, InLoop
  <2> QED  BY <1>7, <2>1 DEF BrowserInv, InLoop
<1>10. Requests(req)'
  <2>1. /\ "set_search" \in Range(Kinds) /\ "search_mode" \in Range(Kinds)
    BY KindsAre
  <2>2. DOMAIN req' = Range(Kinds)
        /\ \A k \in Range(Kinds) : req'[k] = {"yes"} \/ req'[k] = {n} \/ req'[k] = req[k]
    BY <1>1 DEF BrowserInv, Requests
  <2>3. req'["set_search"] = req["set_search"] /\ req'["search_mode"] = req["search_mode"]
    BY <1>1, <2>1 DEF BrowserInv, Requests
  <2> QED  BY <2>2, <2>3 DEF BrowserInv, Requests
<1> QED
  BY <1>8, <1>9, <1>10 DEF BrowserInv

(* A key that works on files reads the directory again.                      *)
LEMMA FileKeyKeeps ==
  ASSUME BrowserInv, FileKey
  PROVE  BrowserInv'
<1>1. PICK d \in Outcomes, same \in BOOLEAN, s \in {b, ToTop(b)} :
        Spend(d) /\ Show(Reread([s EXCEPT !.disk = d], same))
  BY DEF FileKey
<1>2. b \in State /\ b.cursor \in Nat
  BY DEF BrowserInv, InView, Viewed, Listing
<1>3. s \in State /\ s.cursor \in Nat
  <2>1. ToTop(b) \in State /\ ToTop(b).cursor = 0 /\ 0 \in Nat  BY <1>2, ToTopKeeps
  <2> QED  BY <1>2, <2>1
<1>4. d \in Disks
  BY <1>2, OutcomesAreDisks
<1> DEFINE u == WithDisk(s, d)
<1>5. Show(Reread(u, same))
  BY <1>1 DEF WithDisk
<1>6. u \in State /\ u.cursor \in Nat
  BY <1>3, <1>4, DiskIs
<1> HIDE DEF u
<1>7. InView'
  BY <1>5, <1>6, RereadKeeps DEF BrowserInv
<1>8. UNCHANGED << phase, saved, req, quitting, calls >> /\ phase = "loop"
  BY DEF FileKey, Idle, NoRequest
<1>9. InLoop'
  <2>1. changes' \in 0 .. MaxChanges  BY <1>1, SpendCounts DEF BrowserInv
  <2> QED  BY <1>8, <2>1 DEF BrowserInv, InLoop
<1> QED
  BY <1>7, <1>8, <1>9, RequestsStay DEF BrowserInv

(* The other keys, the resize and the way into the prompt.                   *)
LEMMA KeysKeep ==
  ASSUME BrowserInv, MoveKey \/ SelectAllKey \/ Resize \/ SearchKey
  PROVE  BrowserInv'
<1>1. UNCHANGED << req, quitting, calls, changes >> /\ phase = "loop"
      /\ phase' \in {"loop", "prompt"}
  BY DEF MoveKey, SelectAllKey, Resize, SearchKey, Idle, NoRequest
<1>2. b \in State /\ Viewed(b) /\ b.cursor \in Nat /\ InView
      /\ b.query \in Queries \cup {None} /\ b.selected \in Names \cup {None}
  BY DEF BrowserInv, InView, Viewed, Listing, State
<1>3. saved' \in Names \cup {None}
  <2>1. CASE SearchKey
    <3>1. saved' \in IF b.freed THEN Names \cup {None} ELSE {b.selected}
      BY <2>1 DEF SearchKey
    <3> QED  BY <1>2, <3>1
  <2>2. CASE saved' = saved
    BY <2>2 DEF BrowserInv, InLoop
  <2> QED  BY <2>1, <2>2 DEF MoveKey, SelectAllKey, Resize
<1>4. InView'
  <2>1. CASE MoveKey
    BY <1>2, <2>1, NavigateKeeps DEF MoveKey
  <2>2. CASE SelectAllKey
    <3> DEFINE x == ~b.selectAll
               t == WithSelectAll(b, x)
    <3>1. b' = t /\ UNCHANGED unsynced
      BY <2>2 DEF SelectAllKey, WithSelectAll
    <3>2. x \in BOOLEAN
      OBVIOUS
    <3> HIDE DEF x
    <3>3. Viewed(t) /\ ActiveFiles(t) = ActiveFiles(b) /\ SameSelection(b, t)
      BY <1>2, <3>2, SelectAllViews
    <3> HIDE DEF t
    <3> QED  BY <1>2, <3>1, <3>3, SameSelectionKeeps
  <2>3. CASE Resize
    BY <1>2, <2>3, SyncKeeps DEF Resize
  <2>4. CASE SearchKey
    BY <1>2, <2>4, QueryKeeps DEF SearchKey
  <2> QED  BY <2>1, <2>2, <2>3, <2>4
<1>5. InLoop'
  BY <1>1, <1>3 DEF BrowserInv, InLoop
<1> QED
  BY <1>1, <1>4, <1>5, RequestsStay DEF BrowserInv

(* The prompt shows the query's matches, or what was selected before it.         *)
LEMMA PromptLoadsShows ==
  ASSUME InView, PromptLoads
  PROVE  InView'
<1> DEFINE l == LoadMoreAt(b, b.loaded)
           w == WithNum(l, b.num)
<1>1. PICK s \in {b, w}, same \in BOOLEAN : Show(Sync(Rebuild(s), same))
  BY DEF PromptLoads, WithNum
<1>2. Listing(b) /\ b \in State /\ b.cursor \in Nat /\ b.num \in Nat /\ b.active
  BY DEF InView, Viewed, Listing, State, PromptLoads
<1>3. Listing(l) /\ SameDirectory(b, l) /\ l.cursor = b.cursor
  BY <1>2, LoadMoreLists
<1> HIDE DEF l
<1>4. l \in State
  BY <1>3 DEF Listing
<1>5. w \in State /\ SameView(l, w) /\ w.cursor = l.cursor
  BY <1>2, <1>4, CountIs
<1> HIDE DEF w
<1>6. Listing(w) /\ w.active /\ w.cursor \in Nat
  BY <1>2, <1>3, <1>5, ListingStays DEF SameView, SameDirectory
<1>7. Listing(s) /\ s.active /\ s.cursor \in Nat
  BY <1>2, <1>6
<1>8. Viewed(Rebuild(s))
  BY <1>7, RebuildViews
<1> QED
  BY <1>1, <1>8, SyncKeeps

(* The keys of the prompt move in the view, change the query, or leave.      *)
LEMMA PromptMovesShows ==
  ASSUME InView, PromptMoves
  PROVE  InView'
<1>1. PICK step \in {-Max({1, Visible}), -1, 1, Max({1, Visible})}, same \in BOOLEAN :
        Show(MoveTo(b, (b.cursor + step) % Len(b.view), same))
  BY DEF PromptMoves
<1>2. Viewed(b) /\ b.cursor \in Nat /\ b.view # << >> /\ b.view \in Seq(Names)
  BY DEF InView, Viewed, Listing, State, PromptMoves
<1>3. step \in Int
  <2>1. Max({1, Visible}) \in Nat
    <3>1. 1 \in Nat /\ Visible \in Int  BY Bounds
    <3> QED  BY <3>1, NatMinMax
  <2> QED  BY <2>1
<1> DEFINE n == Len(b.view)
           i == (b.cursor + step) % n
<1>4. n \in Nat /\ n > 0
  BY <1>2
<1> HIDE DEF n
<1>5. i \in Int
  BY <1>2, <1>3, <1>4
<1>6. Show(MoveTo(b, i, same))
  BY <1>1 DEF n
<1> HIDE DEF i
<1> QED
  BY <1>2, <1>5, <1>6, MoveKeeps

LEMMA PromptTypesShows ==
  ASSUME InView, PromptTypes
  PROVE  InView'
<1> DEFINE s == WithSelectAll(b, FALSE)
<1>1. PICK q \in (Queries \cup {None}) \ {b.query}, same \in BOOLEAN :
        Show(Sync(ToTop(SetQuery(s, q)), same))
  BY DEF PromptTypes, WithSelectAll
<1>2. Viewed(s)
  BY SelectAllViews DEF InView
<1> HIDE DEF s
<1> QED
  BY <1>1, <1>2, QueryKeeps

LEMMA PromptEscShows ==
  ASSUME InView, PromptEsc
  PROVE  InView'
<1> DEFINE c == SearchClear(b)
           n == WithNum(c, Len(b.files))
           s == ToTop(n)
           f == FindLazy(s, saved)
           i == IndexIn(f.files, saved)
           t == CASE saved = None -> s
                  [] i # -1 -> [f EXCEPT !.cursor = i]
                  [] OTHER -> f
<1>1. PICK same \in BOOLEAN : Show(Sync(t, same))
  BY DEF PromptEsc, WithNum
<1>2. Listing(b) /\ b.cursor \in Nat /\ Len(b.files) \in Nat
  BY DEF InView, Viewed, Listing, State
<1>3. Viewed(c) /\ ~c.active
  BY <1>2, ClearViews
<1> HIDE DEF c
<1>4. Viewed(n) /\ n.active = c.active
  BY <1>2, <1>3, CountViews
<1> HIDE DEF n
<1>5. Viewed(s) /\ s.active = n.active
  BY <1>4, TopViews
<1>6. Viewed(s) /\ ~s.active
  BY <1>3, <1>4, <1>5
<1> HIDE DEF s
<1>7. Viewed(f)
  BY <1>6, FindLazyFinds
<1> HIDE DEF f
<1>8. f \in State /\ f.files \in Seq(Names) /\ Len(f.files) \in Nat
  BY <1>7 DEF Viewed, Listing, State
<1>9. i \in -1 .. Len(f.files) - 1
  BY <1>8, IndexIsPlace
<1> HIDE DEF i
<1>10. i # -1 => Viewed(WithCursor(f, i))
  <2> SUFFICES ASSUME i # -1 PROVE Viewed(WithCursor(f, i))
    OBVIOUS
  <2>1. i \in Nat /\ i \in Int  BY <1>8, <1>9
  <2>2. /\ WithCursor(f, i) \in State /\ SameView(f, WithCursor(f, i))
        /\ WithCursor(f, i).cursor = i
    BY <1>8, <2>1, CursorMoves
  <2> QED  BY <1>7, <2>1, <2>2, ViewStays
<1>11. Viewed(t)
  <2>1. t = s \/ (i # -1 /\ t = WithCursor(f, i)) \/ t = f
    BY DEF WithCursor
  <2> HIDE DEF t
  <2> QED  BY <1>6, <1>7, <1>10, <2>1
<1> HIDE DEF t
<1> QED
  BY <1>1, <1>11, SyncKeeps

LEMMA PromptEnterShows ==
  ASSUME InView, PromptEnter
  PROVE  InView'
<1>1. PICK same \in BOOLEAN :
        Show(IF b.query = None THEN Sync(SearchClear(b), same) ELSE b)
  BY DEF PromptEnter
<1>2. Listing(b) /\ b.cursor \in Nat /\ Viewed(b) /\ Counted(b)
  BY DEF InView, Viewed
<1>3. CASE b.query = None
  <2>1. Viewed(SearchClear(b))  BY <1>2, ClearViews
  <2>2. Show(Sync(SearchClear(b), same))  BY <1>1, <1>3
  <2> QED  BY <2>1, <2>2, SyncKeeps
<1>4. CASE b.query # None
  <2>1. Show(b)  BY <1>1, <1>4
  <2> QED  BY <1>2, <2>1, ShowKeeps
<1> QED
  BY <1>3, <1>4

(* Whatever happens in the prompt.                                           *)
LEMMA PromptKeeps ==
  ASSUME BrowserInv, PromptLoads \/ PromptMoves \/ PromptTypes \/ PromptEsc \/ PromptEnter
  PROVE  BrowserInv'
<1>1. /\ UNCHANGED << req, quitting, calls, changes >>
      /\ phase' \in {"loop", "prompt"} /\ saved' \in {saved, None}
  BY DEF PromptLoads, PromptMoves, PromptTypes, PromptEsc, PromptEnter, Prompting, Back
<1>2. InView'
  BY PromptLoadsShows, PromptMovesShows, PromptTypesShows, PromptEscShows, PromptEnterShows
     DEF BrowserInv
<1>3. InLoop'
  BY <1>1 DEF BrowserInv, InLoop
<1> QED
  BY <1>1, <1>2, <1>3, RequestsStay DEF BrowserInv

-----------------------------------------------------------------------------
(* The theorems *)

(* The first listing has the first entry selected.                           *)
LEMMA BrowserInit_Inv ==
  ASSUME BrowserInit
  PROVE  BrowserInv
<1> DEFINE s == [disk |-> Disk0, cwd |-> << >>, files |-> << >>, loaded |-> 0, total |-> 0,
            cursor |-> 0, start |-> 0, num |-> 0, selected |-> None, freed |-> FALSE,
            active |-> FALSE, query |-> None, mode |-> "fuzzy", view |-> << >>,
            cap |-> ViewCap, selectAll |-> FALSE, override |-> FALSE, stack |-> << >>, fresh |-> TRUE]
           r == ReloadDirectoryLazy(s)
<1>1. /\ phase = "load" /\ b = Sync(r, TRUE) /\ saved = None
      /\ req = [k \in Range(Kinds) |-> {}] /\ quitting = FALSE
      /\ calls = 0 /\ changes = 0 /\ unsynced = FALSE
  BY DEF BrowserInit
<1>2. s \in State /\ s.cursor \in Nat /\ ~s.active /\ s.view = << >>
  <2>1. Disk0 \in Disks /\ << >> \in Paths
    BY BrowserAssumption DEF Disks
  <2>2. << >> \in Seq(Names) /\ << >> \in Seq(DirNames) /\ "fuzzy" \in Modes
        /\ ViewCap \in Caps
    BY Bounds DEF Modes, Caps
  <2> QED  BY <2>1, <2>2 DEF State
<1> HIDE DEF s
<1>3. Viewed(r) /\ ~r.active
  BY <1>2, LazyReloads
<1> HIDE DEF r
<1>4. Viewed(b) /\ Shown(b) /\ Counted(b) /\ b.active = r.active
  BY <1>1, <1>3, SyncShows
<1>5. InView
  BY <1>1, <1>4 DEF InView
<1>6. Requests(req)
  <2>1. "set_search" \in Range(Kinds) /\ "search_mode" \in Range(Kinds)
    BY KindsAre
  <2> QED  BY <1>1, <2>1 DEF Requests
<1>7. InLoop
  <2>1. MaxCalls \in Nat /\ MaxChanges \in Nat  BY BrowserAssumption
  <2>2. ~b.active /\ ~unsynced  BY <1>1, <1>3, <1>4
  <2>3. quitting \in BOOLEAN /\ saved \in Names \cup {None} /\ phase = "load"
    BY <1>1
  <2>4. calls \in 0 .. MaxCalls /\ changes \in 0 .. MaxChanges
    BY <1>1, <2>1
  <2> QED  BY <2>2, <2>3, <2>4 DEF InLoop
<1> QED
  BY <1>5, <1>6, <1>7 DEF BrowserInv

(* Each step keeps the invariant.                                            *)
LEMMA BrowserNext_Inv ==
  ASSUME BrowserInv, [BrowserNext]_browserVars
  PROVE  BrowserInv'
<1>1. CASE RequestQuit
  <2>1. UNCHANGED << phase, b, saved, req, changes, unsynced >>
        /\ quitting' = TRUE /\ calls' = calls + 1 /\ calls < MaxCalls
    BY <1>1 DEF RequestQuit
  <2>2. calls' \in 0 .. MaxCalls
    BY <2>1, BrowserAssumption DEF BrowserInv, InLoop
  <2>3. InLoop'
    BY <2>1, <2>2 DEF BrowserInv, InLoop
  <2> QED  BY <2>1, <2>3, UnchangedStays DEF BrowserInv
<1>2. CASE Quit
  <2>1. UNCHANGED << b, saved, req, quitting, calls, changes, unsynced >> /\ phase' = "stopped"
    BY <1>2 DEF Quit
  <2>2. InLoop'
    BY <2>1 DEF BrowserInv, InLoop
  <2> QED  BY <2>1, <2>2, UnchangedStays DEF BrowserInv
<1>3. CASE UNCHANGED browserVars
  <2>1. UNCHANGED << phase, b, saved, req, quitting, calls, changes, unsynced >>
    BY <1>3 DEF browserVars
  <2>2. InLoop'
    BY <2>1 DEF BrowserInv, InLoop
  <2> QED  BY <2>1, <2>2, UnchangedStays DEF BrowserInv
<1>4. CASE BrowserStopped \/ BrowserIsBroken
  BY <1>3, <1>4 DEF BrowserStopped, BrowserIsBroken
<1> QED
  BY <1>1, <1>2, <1>3, <1>4, RequestKeeps, StartLoopKeeps, ServeKeeps, KeysKeep, FileKeyKeeps,
     EditorSavesAsKeeps, DiskChangeKeeps, PromptKeeps DEF BrowserNext

(* What the handlers keep, for every listing, batch, query and disk: the state  *)
(* is one the code can read, the view and the listing belong together, and      *)
(* unless a sync is outstanding the selection is what the cursor is on.         *)
THEOREM BrowserInvariant == BrowserSpec => []BrowserInv
<1>1. BrowserInit => BrowserInv
  BY BrowserInit_Inv
<1>2. BrowserInv /\ [BrowserNext]_browserVars => BrowserInv'
  BY BrowserNext_Inv
<1> QED
  BY <1>1, <1>2, PTL DEF BrowserSpec

(* The state of the browser (AppState and the request slots) stays in its       *)
(* types: the cursor, the window and the counts are never negative.             *)
THEOREM BrowserTyped == BrowserSpec => []BrowserTypeOK
<1>1. BrowserInv => BrowserTypeOK
  <2> SUFFICES ASSUME BrowserInv PROVE BrowserTypeOK
    OBVIOUS
  <2>1. b \in State /\ b.cursor \in Nat
    BY DEF BrowserInv, InView, Viewed, Listing
  <2>2. /\ b.disk \in [Paths -> Seq(Names)] /\ b.cwd \in Paths
        /\ {b.files, b.view} \subseteq Seq(Names) /\ b.stack \in Seq(DirNames)
        /\ {b.loaded, b.total, b.cursor, b.start, b.num, b.cap} \subseteq Nat
        /\ b.selected \in Names \cup {None}
        /\ b.query \in Queries \cup {None} /\ b.mode \in Modes
    BY <2>1 DEF State, Disks, Caps
  <2>3. {b.freed, b.active, b.selectAll, b.override, b.fresh} \subseteq BOOLEAN
    BY <2>1 DEF State
  <2>4. \A k \in Range(Kinds) : Cardinality(req[k]) <= 1
    BY AtMostOneCounts DEF BrowserInv, Requests
  <2> QED  BY <2>2, <2>3, <2>4 DEF BrowserTypeOK, BrowserInv, InView, InLoop
<1> QED
  BY <1>1, BrowserInvariant, PTL

(* Through lazy loading, searches, reloads and navigation, what is selected is  *)
(* the live name of the entry under the cursor, which is in the window, unless  *)
(* a search wrote behind its buffer (sync_selection_from_active and the         *)
(* navigations).                                                                *)
THEOREM SelectionFollowsCursor == BrowserSpec => []SelectionIsUnderCursor
<1>1. BrowserInv => SelectionIsUnderCursor
  BY DEF BrowserInv, InView, Counted, Shown, SelectionIsUnderCursor
<1> QED
  BY <1>1, BrowserInvariant, PTL

(* The batches put together the listing of a directory that stays as it was,    *)
(* and the search view is the matches among the entries that are loaded: it     *)
(* never outlives its listing.  It fits into its buffer after every fuzzy       *)
(* search and, whatever was searched before, after every exact or regex one     *)
(* with no more matches than the buffer was made for; beyond that it may be     *)
(* written behind it (append_files_to_vec_lazy, search_rebuild, Vector_add).    *)
THEOREM ViewIsOfTheListing == BrowserSpec => []ViewShowsTheListing
<1>1. BrowserInv => ViewShowsTheListing
  <2> SUFFICES ASSUME BrowserInv PROVE ViewShowsTheListing
    OBVIOUS
  <2>1. ASSUME Overruns(b) PROVE b.mode # "fuzzy" /\ Len(b.view) > ViewCap
    <3>1. Fits(b) /\ b \in State
      BY DEF BrowserInv, InView, Viewed, Listing
    <3>2. /\ b.cap \in Nat /\ b.cap >= ViewCap /\ Len(b.view) \in Nat /\ Len(b.view) > b.cap
          /\ ViewCap \in Nat
      BY <2>1, <3>1, Bounds DEF State, Caps, Overruns
    <3>3. b.mode # "fuzzy"
      BY <3>1, <3>2 DEF Fits
    <3> QED  BY <3>2, <3>3
  <2>2. ASSUME ~Overruns(b)
        PROVE  /\ b.loaded = Len(b.files)
               /\ b.fresh => IsPrefix(b.files, Entries(b)) /\ b.total = Len(Entries(b))
               /\ b.view = IF b.active THEN Matches(b.files, b.query, b.mode) ELSE << >>
    BY <2>2 DEF BrowserInv, InView, Viewed, ViewOf, Listing
  <2> QED
    BY <2>1, <2>2 DEF ViewShowsTheListing
<1> QED
  BY <1>1, BrowserInvariant, PTL

-----------------------------------------------------------------------------
(* The archive readers *)

MemberRec == [type : Types, size : Nat, meta : Nat, data : Nat]
ReaderRec == [valid : BOOLEAN, offset : Int, remaining : Nat, index : Nat,
              eof : BOOLEAN, freed : BOOLEAN]
StreamRec == [of : 0 .. Total, offset : Nat, length : Nat, at : Nat, used : Nat]
Single == archive.kind \in {"gz", "7z"}
Places == [i \in 1 .. Total |-> DataAt(i)]
Sizes == [i \in 1 .. Total |-> Stored(Members[i])]

-----------------------------------------------------------------------------
(* The inductive invariant *)

(* An entry that was returned is a member.                                     *)
EntryIsMember == found = "entry" => current >= 1

(* What a valid reader holds is of the current member.                         *)
ReaderIsOfEntry ==
  /\ Tar /\ ~reader.valid => reader.remaining = 0
  /\ Tar /\ reader.valid =>
       /\ current >= 1
       /\ reader.offset \in {-1, Places[current]}
       /\ reader.remaining = Sizes[current]
  /\ archive.kind = "zip" /\ reader.valid =>
       /\ current >= 1
       /\ reader.offset = MemberStart[current]
       /\ reader.remaining = Sizes[current]

(* Readers that go by index are at the member after the current one.           *)
IndexFollows == ~Tar => reader.index = current + 1

(* A held stream is a window on its member's data, and is inside of it; the    *)
(* stream of a filter is where the filter is, which nobody else moves.         *)
WindowIsOfMember ==
  HoldsStream =>
    IF ReadsOn THEN stream.at = position /\ position <= FileEnd
    ELSE /\ stream.offset = Places[stream.of]
         /\ stream.length <= Sizes[stream.of]
         /\ stream.at <= stream.length
FilterIsUnread == ReadsOn /\ ~HoldsStream /\ ~reader.freed => position = 0

(* As long as no data was read from a TAR, and its headers have the sizes, its *)
(* stream is at the data of the entry that may still be skipped, or at the     *)
(* next header.                                                                *)
TarIsInPlace ==
  Tar /\ Undisturbed =>
    IF reader.eof THEN reader.remaining = 0
    ELSE position = IF reader.valid THEN Places[current] ELSE MemberStart[current + 1]
EndIsTheLast ==
  Undisturbed => /\ reader.eof => current = Total
                 /\ Single /\ ~reader.valid => current = Total

(* The extraction never goes back: an entry fails once.                        *)
ExtractionAdvances ==
  /\ client = "caller" => failures = 0
  /\ client = "extract" =>
       /\ stream = NoStream
       /\ failures <= current
       /\ found = "entry" => failures < current
       /\ Tar /\ current >= 1 => position >= Places[current]

(* What every reading of the next entry leaves true.                           *)
EntryInv == /\ EntryIsMember /\ ReaderIsOfEntry /\ IndexFollows
            /\ TarIsInPlace /\ EndIsTheLast /\ EveryEntryIsReturned

ArchiveInv == /\ ArchiveTypeOK /\ EntryInv
              /\ WindowIsOfMember /\ FilterIsUnread /\ ExtractionAdvances
              /\ DataIsOfTheEntry

-----------------------------------------------------------------------------
(* The layout of an archive *)

(* The sizes of a member's parts; the data is inside of the member.            *)
LEMMA MemberSizes ==
  ASSUME archive \in Archives, NEW m \in MemberRec
  PROVE  /\ Padding(m.meta) \in Nat /\ Padding(Length(m)) \in Nat
         /\ Padding(Stored(m)) \in Nat /\ Stored(m) \in Nat
         /\ Length(m) \in Nat /\ Lead(m) \in Nat /\ Extent(m) \in Nat
         /\ Extent(m) >= Lead(m) + Length(m)
         /\ Tar => /\ Lead(m) >= TarBlock
                   /\ Extent(m) = Lead(m) + Length(m) + Padding(Length(m))
                   /\ m.meta = 0 => Lead(m) = TarBlock
                   /\ m.meta > 0 => Lead(m) = TarBlock + m.meta + Padding(m.meta) + TarBlock
<1>1. TarBlock \in Nat /\ TarBlock > 0
  BY ArchiveAssumption
<1>2. ASSUME NEW n \in Nat PROVE Padding(n) \in Nat
  <2>1. n % TarBlock \in 0 .. TarBlock - 1  BY <1>1
  <2>2. TarBlock - (n % TarBlock) \in Nat  BY <1>1, <2>1
  <2>3. (TarBlock - (n % TarBlock)) % TarBlock \in 0 .. TarBlock - 1  BY <1>1, <2>2
  <2> QED  BY <2>3 DEF Padding
<1>3. Stored(m) \in Nat /\ Length(m) \in Nat /\ m.meta \in Nat
  BY DEF Stored, Length, MemberRec
<1>4. Padding(m.meta) \in Nat /\ Padding(Stored(m)) \in Nat /\ Padding(Length(m)) \in Nat
  BY <1>2, <1>3
<1>5. CASE Tar
  <2> DEFINE p == Padding(m.meta)  q == Padding(Length(m))  n == Length(m)
  <2>1. /\ Extent(m) = Lead(m) + (n + q)
        /\ Lead(m) = (IF m.meta > 0 THEN TarBlock + (m.meta + p) ELSE 0) + TarBlock
    <3>1. Extent(m) = Lead(m) + (n + q)  BY <1>5 DEF Extent, Padded
    <3>2. Lead(m) = (IF m.meta > 0 THEN TarBlock + Padded(m.meta) ELSE 0) + TarBlock
      BY <1>5 DEF Lead, Tar, TarKinds
    <3> QED  BY <3>1, <3>2 DEF Padded
  <2>2. p \in Nat /\ q \in Nat /\ n \in Nat /\ m.meta \in Nat  BY <1>3, <1>4
  <2> HIDE DEF p, q, n
  <2>3. Lead(m) \in Nat /\ Lead(m) >= TarBlock  BY <1>1, <2>1, <2>2
  <2>4. Extent(m) \in Nat /\ Extent(m) = Lead(m) + n + q  BY <2>1, <2>2, <2>3
  <2>5. m.meta > 0 => Lead(m) = TarBlock + m.meta + p + TarBlock  BY <1>1, <2>1, <2>2
  <2>6. m.meta = 0 => Lead(m) = TarBlock  BY <1>1, <2>1, <2>2
  <2>7. Extent(m) >= Lead(m) + n  BY <2>2, <2>3, <2>4
  <2> QED  BY <1>3, <1>4, <2>2, <2>3, <2>4, <2>5, <2>6, <2>7 DEF p, q, n
<1>6. CASE ~Tar
  <2>1. Lead(m) \in {0, 1}  BY <1>6 DEF Lead
  <2>2. Extent(m) = Lead(m) + Length(m)  BY <1>6 DEF Extent
  <2> QED  BY <1>3, <1>4, <1>6, <2>1, <2>2
<1> QED
  BY <1>5, <1>6

(* An archive has members, and the recursion that places them exists.          *)
LEMMA Placed ==
  ASSUME archive \in Archives
  PROVE  /\ Total \in Nat /\ Members \in Seq(MemberRec)
         /\ \A i \in 1 .. Total : Members[i] \in MemberRec
         /\ MemberStart \in [1 .. Total + 1 -> Nat]
         /\ MemberStart[1] = 0
         /\ \A i \in 1 .. Total : MemberStart[i + 1] = MemberStart[i] + Extent(Members[i])
<1>1. Members \in Seq(MemberRec)
  BY ArchiveAssumption DEF Members, MemberRec
<1>2. Total \in Nat /\ \A i \in 1 .. Total : Members[i] \in MemberRec
  BY <1>1 DEF Total
<1> DEFINE Eq(f) == f = [i \in 1 .. Total + 1 |->
                           IF i = 1 THEN 0 ELSE f[i - 1] + Extent(Members[i - 1])]
           step == [z \in Nat \X (2 .. Total + 1) |-> z[1] + Extent(Members[z[2] - 1])]
<1>3. ASSUME NEW i \in 2 .. Total + 1 PROVE Extent(Members[i - 1]) \in Nat
  <2>1. i - 1 \in 1 .. Total  BY <1>2
  <2>2. Members[i - 1] \in MemberRec  BY <1>2, <2>1
  <2> QED  BY <2>2, MemberSizes
<1>4. step \in [Nat \X (1 + 1 .. Total + 1) -> Nat]
  <2>1. 1 + 1 = 2  OBVIOUS
  <2> QED  BY <1>3, <2>1
<1>5. PICK f \in [1 .. Total + 1 -> Nat] :
        f[1] = 0 /\ \A k \in 1 + 1 .. Total + 1 : f[k] = step[<< f[k - 1], k >>]
  <2> HIDE DEF step
  <2>1. 1 \in Int /\ Total + 1 \in Int /\ 1 <= Total + 1 /\ 0 \in Nat  BY <1>2
  <2>2. Recursions(1, Total + 1, Nat, 0, step) # {}  BY <1>4, <2>1, RecursionExists
  <2> QED  BY <2>2 DEF Recursions
<1>6. ASSUME NEW k \in 2 .. Total + 1 PROVE f[k] = f[k - 1] + Extent(Members[k - 1])
  <2>1. k - 1 \in 1 .. Total + 1 /\ f[k - 1] \in Nat /\ k \in 1 + 1 .. Total + 1  BY <1>2
  <2>2. step[<< f[k - 1], k >>] = f[k - 1] + Extent(Members[k - 1])  BY <2>1
  <2> HIDE DEF step
  <2> QED  BY <1>5, <2>1, <2>2
<1>7. Eq(f)
  <2> HIDE DEF step
  <2> SUFFICES ASSUME NEW i \in 1 .. Total + 1
               PROVE  f[i] = IF i = 1 THEN 0 ELSE f[i - 1] + Extent(Members[i - 1])
    OBVIOUS
  <2>1. CASE i = 1  BY <1>5, <2>1
  <2>2. CASE i # 1
    <3>1. i \in 2 .. Total + 1  BY <1>2, <2>2
    <3> QED  BY <1>6, <2>2, <3>1
  <2> QED  BY <2>1, <2>2
<1> HIDE DEF Eq, step
<1>8. Eq(MemberStart)
  <2>1. MemberStart = CHOOSE g : Eq(g)  BY DEF MemberStart, Eq
  <2> QED  BY <1>7, <2>1
<1>9. /\ DOMAIN MemberStart = 1 .. Total + 1
      /\ \A i \in 1 .. Total + 1 :
           MemberStart[i] = IF i = 1 THEN 0 ELSE MemberStart[i - 1] + Extent(Members[i - 1])
  BY <1>8 DEF Eq
<1>10. MemberStart[1] = 0
  BY <1>2, <1>9
<1>11. ASSUME NEW i \in 1 .. Total PROVE MemberStart[i + 1] = MemberStart[i] + Extent(Members[i])
  <2>1. i + 1 \in 1 .. Total + 1 /\ i + 1 # 1 /\ (i + 1) - 1 = i  BY <1>2
  <2> QED  BY <1>9, <2>1
<1> DEFINE Known == {d \in 0 .. Total : MemberStart[d + 1] \in Nat}
<1>12. 0 .. Total \subseteq Known
  <2>1. 0 \in Known  BY <1>2, <1>10
  <2>2. ASSUME NEW d \in 0 .. Total - 1, d \in Known PROVE d + 1 \in Known
    <3>1. d + 1 \in 1 .. Total /\ MemberStart[d + 1] \in Nat  BY <1>2, <2>2
    <3>2. Extent(Members[d + 1]) \in Nat  BY <1>2, <3>1, MemberSizes
    <3>3. MemberStart[(d + 1) + 1] = MemberStart[d + 1] + Extent(Members[d + 1])  BY <1>11, <3>1
    <3>4. MemberStart[(d + 1) + 1] \in Nat  BY <3>1, <3>2, <3>3
    <3>5. d + 1 \in 0 .. Total  BY <1>2, <3>1
    <3> QED  BY <3>4, <3>5
  <2> HIDE DEF Known
  <2> QED  BY <1>2, <2>1, <2>2, IntervalInduction
<1>13. \A i \in 1 .. Total + 1 : MemberStart[i] \in Nat
  <2> SUFFICES ASSUME NEW i \in 1 .. Total + 1 PROVE MemberStart[i] \in Nat  OBVIOUS
  <2>1. i - 1 \in 0 .. Total /\ (i - 1) + 1 = i  BY <1>2
  <2>2. i - 1 \in Known
    <3> HIDE DEF Known
    <3> QED  BY <1>12, <2>1
  <2> QED  BY <2>1, <2>2
<1>14. MemberStart \in [1 .. Total + 1 -> Nat]
  <2>1. MemberStart = [i \in 1 .. Total + 1 |-> MemberStart[i]]  BY <1>8, <1>9 DEF Eq
  <2> QED  BY <1>13, <2>1
<1> QED
  BY <1>1, <1>2, <1>10, <1>11, <1>14

(* Members follow one another, and each one's data is its own.                 *)
LEMMA MembersFollow ==
  ASSUME archive \in Archives
  PROVE  /\ \A i, j \in 1 .. Total + 1 : i <= j => MemberStart[i] <= MemberStart[j]
         /\ \A i \in 1 .. Total :
              /\ DataAt(i) \in Nat /\ DataAt(i) = MemberStart[i] + Lead(Members[i])
              /\ DataAt(i) + Length(Members[i]) <= MemberStart[i + 1]
         /\ FileEnd \in Nat /\ FileEnd >= MemberStart[Total + 1]
<1>1. /\ Total \in Nat /\ MemberStart \in [1 .. Total + 1 -> Nat]
      /\ \A i \in 1 .. Total : Members[i] \in MemberRec
      /\ \A i \in 1 .. Total : MemberStart[i + 1] = MemberStart[i] + Extent(Members[i])
  BY Placed
<1>2. ASSUME NEW i \in 1 .. Total
      PROVE  /\ Extent(Members[i]) \in Nat /\ Lead(Members[i]) \in Nat
             /\ Length(Members[i]) \in Nat
             /\ Extent(Members[i]) >= Lead(Members[i]) + Length(Members[i])
  <2>1. Members[i] \in MemberRec  BY <1>1
  <2> QED  BY <2>1, MemberSizes
<1>3. ASSUME NEW i \in 1 .. Total + 1, NEW j \in 1 .. Total + 1, i <= j
      PROVE  MemberStart[i] <= MemberStart[j]
  <2> DEFINE Above == {d \in 0 .. Total + 1 - i : MemberStart[i] <= MemberStart[i + d]}
  <2>1. Total + 1 - i \in Nat  BY <1>1
  <2>2. 0 \in Above  BY <1>1, <2>1
  <2>3. ASSUME NEW d \in 0 .. (Total + 1 - i) - 1, d \in Above PROVE d + 1 \in Above
    <3>1. i + d \in 1 .. Total /\ d + 1 \in 0 .. Total + 1 - i /\ (i + d) + 1 = i + (d + 1)
      BY <1>1
    <3>2. i + d \in 1 .. Total + 1 /\ (i + d) + 1 \in 1 .. Total + 1  BY <1>1, <3>1
    <3>3. MemberStart[i] \in Nat /\ MemberStart[i + d] \in Nat  BY <1>1, <3>2
    <3>4. MemberStart[(i + d) + 1] = MemberStart[i + d] + Extent(Members[i + d])  BY <1>1, <3>1
    <3>5. MemberStart[i] <= MemberStart[i + d]  BY <2>3
    <3>6. Extent(Members[i + d]) \in Nat  BY <1>2, <3>1
    <3>7. MemberStart[i] <= MemberStart[(i + d) + 1]  BY <3>3, <3>4, <3>5, <3>6
    <3>8. MemberStart[i] <= MemberStart[i + (d + 1)]  BY <3>1, <3>7
    <3> QED  BY <3>1, <3>8
  <2>4. 0 .. Total + 1 - i \subseteq Above
    <3> HIDE DEF Above
    <3> QED  BY <2>1, <2>2, <2>3, IntervalInduction
  <2>5. j - i \in 0 .. Total + 1 - i /\ i + (j - i) = j  BY <1>1, <1>3
  <2>6. j - i \in Above
    <3> HIDE DEF Above
    <3> QED  BY <2>4, <2>5
  <2> QED  BY <2>5, <2>6
<1>4. ASSUME NEW i \in 1 .. Total
      PROVE  /\ DataAt(i) \in Nat /\ DataAt(i) = MemberStart[i] + Lead(Members[i])
             /\ DataAt(i) + Length(Members[i]) <= MemberStart[i + 1]
  <2>1. i \in 1 .. Total + 1 /\ MemberStart[i] \in Nat  BY <1>1
  <2>2. MemberStart[i + 1] = MemberStart[i] + Extent(Members[i])  BY <1>1
  <2> QED  BY <1>2, <2>1, <2>2 DEF DataAt
<1>5. FileEnd \in Nat /\ FileEnd >= MemberStart[Total + 1]
  <2>1. MemberStart[Total + 1] \in Nat /\ TarBlock \in Nat  BY <1>1, ArchiveAssumption
  <2> QED  BY <2>1 DEF FileEnd
<1> QED
  BY <1>3, <1>4, <1>5

(* A unit of a member's data is that member's, and of no other.                *)
LEMMA UnitIsOfMember ==
  ASSUME archive \in Archives, NEW i \in 1 .. Total, NEW k \in Nat,
         k < Length(Members[i])
  PROVE  UnitAt(DataAt(i) + k) = Unit(i, k + 1)
<1> DEFINE p == DataAt(i) + k
           Owner(j) == DataAt(j) <= p /\ p < DataAt(j) + Length(Members[j])
           owners == {j \in 1 .. Total : Owner(j)}
<1>1. /\ Total \in Nat /\ \A j \in 1 .. Total + 1 : MemberStart[j] \in Nat
      /\ \A j \in 1 .. Total : Members[j] \in MemberRec
  BY Placed
<1>2. \A j \in 1 .. Total : /\ DataAt(j) \in Nat /\ Length(Members[j]) \in Nat
                            /\ DataAt(j) >= MemberStart[j]
                            /\ DataAt(j) + Length(Members[j]) <= MemberStart[j + 1]
  <2> SUFFICES ASSUME NEW j \in 1 .. Total
               PROVE  /\ DataAt(j) \in Nat /\ Length(Members[j]) \in Nat
                      /\ DataAt(j) >= MemberStart[j]
                      /\ DataAt(j) + Length(Members[j]) <= MemberStart[j + 1]
    OBVIOUS
  <2>1. Length(Members[j]) \in Nat /\ Lead(Members[j]) \in Nat  BY <1>1, MemberSizes
  <2>2. /\ DataAt(j) \in Nat /\ DataAt(j) = MemberStart[j] + Lead(Members[j])
        /\ DataAt(j) + Length(Members[j]) <= MemberStart[j + 1]
    BY MembersFollow
  <2>3. MemberStart[j] \in Nat  BY <1>1
  <2> QED  BY <2>1, <2>2, <2>3
<1>3. \A j, l \in 1 .. Total + 1 : j <= l => MemberStart[j] <= MemberStart[l]
  BY MembersFollow
<1>4. p \in Nat /\ Owner(i)
  BY <1>2
<1>5. ASSUME NEW j \in 1 .. Total, Owner(j) PROVE j = i
  <2>1. CASE j < i
    <3>1. j + 1 \in 1 .. Total + 1 /\ i \in 1 .. Total + 1 /\ j + 1 <= i  BY <1>1, <2>1
    <3>2. MemberStart[j + 1] <= MemberStart[i]  BY <1>3, <3>1
    <3>3. MemberStart[j + 1] \in Nat /\ MemberStart[i] \in Nat  BY <1>1, <3>1
    <3> QED  BY <1>2, <1>4, <1>5, <3>2, <3>3
  <2>2. CASE i < j
    <3>1. i + 1 \in 1 .. Total + 1 /\ j \in 1 .. Total + 1 /\ i + 1 <= j  BY <1>1, <2>2
    <3>2. MemberStart[i + 1] <= MemberStart[j]  BY <1>3, <3>1
    <3>3. MemberStart[i + 1] \in Nat /\ MemberStart[j] \in Nat  BY <1>1, <3>1
    <3> QED  BY <1>2, <1>4, <1>5, <3>2, <3>3
  <2> QED  BY <1>1, <2>1, <2>2
<1>6. owners = {i}
  BY <1>4, <1>5
<1>7. UnitAt(p) = IF owners = {} THEN NotData
                  ELSE LET j == CHOOSE x \in owners : TRUE IN Unit(j, p - DataAt(j) + 1)
  BY DEF UnitAt
<1>8. DataAt(i) \in Nat
  BY <1>2
<1>9. p - DataAt(i) + 1 = k + 1
  BY <1>8
<1> HIDE DEF owners, p
<1>10. (CHOOSE x \in owners : TRUE) = i
  BY <1>6
<1>11. UnitAt(p) = Unit(i, p - DataAt(i) + 1)
  BY <1>6, <1>7, <1>10
<1> QED
  BY <1>9, <1>11 DEF p

(* A run of units from the k-th of a member's data.                            *)
LEMMA UnitsAreOfMember ==
  ASSUME archive \in Archives, NEW i \in 1 .. Total, NEW k \in Nat, NEW n \in Nat,
         k + n <= Length(Members[i])
  PROVE  /\ Units(DataAt(i) + k, n) = [j \in 1 .. n |-> Unit(i, k + j)]
         /\ Len(Units(DataAt(i) + k, n)) = n
<1>1. DataAt(i) \in Nat /\ Length(Members[i]) \in Nat
  <2>1. Members[i] \in MemberRec  BY Placed
  <2> QED  BY <2>1, MemberSizes, MembersFollow
<1>2. ASSUME NEW j \in 1 .. n PROVE UnitAt(DataAt(i) + k + j - 1) = Unit(i, k + j)
  <2> DEFINE l == k + j - 1
  <2>1. l \in Nat /\ l < Length(Members[i]) /\ l + 1 = k + j  BY <1>1
  <2>2. DataAt(i) + k + j - 1 = DataAt(i) + l  BY <1>1
  <2> HIDE DEF l
  <2>3. UnitAt(DataAt(i) + l) = Unit(i, l + 1)  BY <2>1, UnitIsOfMember
  <2> QED  BY <2>1, <2>2, <2>3
<1>3. Units(DataAt(i) + k, n) = [j \in 1 .. n |-> Unit(i, k + j)]
  BY <1>2 DEF Units
<1>4. Len([j \in 1 .. n |-> Unit(i, k + j)]) = n
  OBVIOUS
<1> QED
  BY <1>3, <1>4

(* What the reader takes for a member's data is a part of it: all of it when   *)
(* the size is in the member's own header, as it is outside of TAR.            *)
LEMMA StoredIsPart ==
  ASSUME archive \in Archives, NEW i \in 1 .. Total
  PROVE  /\ Stored(Members[i]) <= Length(Members[i])
         /\ ~Tar \/ Undisturbed => Stored(Members[i]) = Length(Members[i])
<1> DEFINE m == Members[i]
<1>1. m \in MemberRec
  BY Placed
<1>2. \/ m.data = m.size
      \/ archive.kind \in TarKinds /\ m.meta > 0 /\ m.size < m.data
  BY ArchiveAssumption DEF Members, Total
<1>3. Undisturbed => m.data = m.size
  BY DEF Undisturbed, SizesAreInHeaders
<1>4. m.size \in Nat /\ m.data \in Nat
  BY <1>1 DEF MemberRec
<1> HIDE DEF m
<1>5. Stored(m) <= Length(m)
  BY <1>2, <1>4 DEF Stored, Length
<1>6. ~Tar \/ Undisturbed => Stored(m) = Length(m)
  BY <1>2, <1>3, <1>4 DEF Stored, Length, Tar
<1> QED
  BY <1>5, <1>6 DEF m

-----------------------------------------------------------------------------
(* Headers of a TAR *)

(* A skip fails or goes over the data and its padding; inside of the file it   *)
(* does not fail.                                                              *)
LEMMA SkipGoesOver ==
  ASSUME archive \in Archives, NEW p \in Nat, NEW m \in MemberRec, NEW n \in Nat,
         n = m.meta \/ n = Stored(m)
  PROVE  /\ Padding(n) \in Nat
         /\ SkipPaddedFrom(p, n) \in {-1, p + n + Padding(n)}
         /\ p + n + Padding(n) <= FileEnd => SkipPaddedFrom(p, n) = p + n + Padding(n)
<1> DEFINE q == Padding(n)
<1>1. q \in Nat /\ FileEnd \in Nat
  BY MemberSizes, MembersFollow
<1>2. SkipPaddedFrom(p, n) = LET r == SkipFrom(p, n) IN IF r < 0 THEN -1 ELSE SkipFrom(r, q)
  BY DEF SkipPaddedFrom
<1> HIDE DEF q
<1>3. SkipFrom(p, n) \in {-1, p + n} /\ SkipFrom(p + n, q) \in {-1, p + n + q}
  BY DEF SkipFrom
<1>4. p + n + q <= FileEnd => SkipFrom(p, n) = p + n /\ SkipFrom(p + n, q) = p + n + q
  BY <1>1 DEF SkipFrom
<1>5. SkipPaddedFrom(p, n) \in {-1, p + n + q}
  BY <1>1, <1>2, <1>3
<1>6. p + n + q <= FileEnd => SkipPaddedFrom(p, n) = p + n + q
  BY <1>1, <1>2, <1>4
<1> QED
  BY <1>1, <1>5, <1>6 DEF q

(* Where the parts of a TAR's members are: the headers, the metadata before    *)
(* them, and the data of one before the next.                                  *)
LEMMA TarLayout ==
  ASSUME archive \in Archives, Tar
  PROVE  /\ TarBlock \in Nat /\ TarBlock > 0
         /\ FileEnd = MemberStart[Total + 1] + 2 * TarBlock
         /\ \A i \in 1 .. Total :
              /\ MemberStart[i] \in Nat /\ DataAt(i) \in Nat /\ MemberStart[i + 1] \in Nat
              /\ MemberStart[i] + TarBlock <= DataAt(i)
              /\ DataAt(i) + Length(Members[i]) + Padding(Length(Members[i]))
                   = MemberStart[i + 1]
              /\ DataAt(i) <= MemberStart[i + 1]
              /\ MemberStart[i + 1] <= MemberStart[Total + 1]
              /\ Members[i].meta = 0 => DataAt(i) - TarBlock = MemberStart[i]
              /\ Members[i].meta > 0 =>
                   /\ MemberStart[i] + TarBlock + Members[i].meta + Padding(Members[i].meta)
                        = DataAt(i) - TarBlock
                   /\ DataAt(i) - TarBlock > MemberStart[i]
<1>1. TarBlock \in Nat /\ TarBlock > 0
  BY ArchiveAssumption
<1>2. FileEnd = MemberStart[Total + 1] + 2 * TarBlock
  BY DEF FileEnd
<1>3. ASSUME NEW i \in 1 .. Total
      PROVE  /\ MemberStart[i] \in Nat /\ DataAt(i) \in Nat /\ MemberStart[i + 1] \in Nat
             /\ MemberStart[i] + TarBlock <= DataAt(i)
             /\ DataAt(i) + Length(Members[i]) + Padding(Length(Members[i]))
                  = MemberStart[i + 1]
             /\ DataAt(i) <= MemberStart[i + 1]
             /\ MemberStart[i + 1] <= MemberStart[Total + 1]
             /\ Members[i].meta = 0 => DataAt(i) - TarBlock = MemberStart[i]
             /\ Members[i].meta > 0 =>
                  /\ MemberStart[i] + TarBlock + Members[i].meta + Padding(Members[i].meta)
                       = DataAt(i) - TarBlock
                  /\ DataAt(i) - TarBlock > MemberStart[i]
  <2> DEFINE m == Members[i]  s == MemberStart[i]  t == MemberStart[i + 1]
             d == DataAt(i)  l == Lead(m)  n == Length(m)  q == Padding(n)
             g == Padding(m.meta)  e == Extent(m)
  <2>1. /\ Total \in Nat /\ m \in MemberRec /\ s \in Nat /\ t \in Nat
        /\ t = s + e
    <3>1. i \in 1 .. Total + 1 /\ i + 1 \in 1 .. Total + 1  BY Placed
    <3> QED  BY <3>1, Placed
  <2>2. d \in Nat /\ d = s + l
    BY MembersFollow
  <2>3. t <= MemberStart[Total + 1]
    <3>1. i + 1 \in 1 .. Total + 1 /\ Total + 1 \in 1 .. Total + 1 /\ i + 1 <= Total + 1
      BY <2>1
    <3> QED  BY <3>1, MembersFollow
  <2>4. m.meta \in Nat
    BY <2>1 DEF MemberRec
  <2>5. /\ g \in Nat /\ q \in Nat /\ n \in Nat /\ l \in Nat
        /\ l >= TarBlock /\ e = l + n + q
        /\ m.meta = 0 => l = TarBlock
        /\ m.meta > 0 => l = TarBlock + m.meta + g + TarBlock
    <3> HIDE DEF m
    <3> QED  BY <2>1, MemberSizes
  <2> HIDE DEF m, s, t, d, l, n, q, g, e
  <2>6. s + TarBlock <= d /\ d + n + q = t /\ d <= t
    BY <1>1, <2>1, <2>2, <2>5
  <2>7. m.meta = 0 => d - TarBlock = s
    BY <1>1, <2>1, <2>2, <2>5
  <2>8. m.meta > 0 => s + TarBlock + m.meta + g = d - TarBlock /\ d - TarBlock > s
    BY <1>1, <2>1, <2>2, <2>4, <2>5
  <2> QED  BY <2>1, <2>2, <2>3, <2>6, <2>7, <2>8 DEF m, s, t, d, l, n, q, g, e
<1> QED
  BY <1>1, <1>2, <1>3

IsMetaStart(p) == \E i \in 1 .. Total : p = MemberStart[i] /\ Members[i].meta > 0
IsHeaderStart(p) == \E i \in 1 .. Total : p = DataAt(i) - TarBlock
IsZeroBlock(p) == p \in {MemberStart[Total + 1], MemberStart[Total + 1] + TarBlock}

(* The five things a header read can see exclude one another.                  *)
LEMMA HeaderCases ==
  ASSUME archive \in Archives, Tar, NEW p \in Nat
  PROVE  /\ HeaderAt(p) = "end" <=> p >= FileEnd
         /\ HeaderAt(p) = "zero" <=> IsZeroBlock(p)
         /\ HeaderAt(p) = "meta" <=> IsMetaStart(p)
         /\ HeaderAt(p) = "header" <=> IsHeaderStart(p)
         /\ HeaderAt(p) \in {"end", "short", "zero", "meta", "header", "junk"}
<1> DEFINE G1 == p >= FileEnd
           G2 == p < FileEnd /\ p + TarBlock > FileEnd
           last == MemberStart[Total + 1]
<1>1. /\ TarBlock \in Nat /\ TarBlock > 0 /\ last \in Nat
      /\ FileEnd = last + 2 * TarBlock /\ Total \in Nat
  BY TarLayout, Placed
<1>2. IsZeroBlock(p) <=> p = last \/ p = last + TarBlock
  BY DEF IsZeroBlock
<1>3. ASSUME IsMetaStart(p) PROVE p + TarBlock <= last
  <2>1. PICK i \in 1 .. Total : p = MemberStart[i] /\ Members[i].meta > 0
    BY <1>3 DEF IsMetaStart
  <2>2. /\ MemberStart[i] + TarBlock <= DataAt(i) /\ DataAt(i) <= MemberStart[i + 1]
        /\ MemberStart[i + 1] <= last
        /\ DataAt(i) \in Nat /\ MemberStart[i + 1] \in Nat
    BY TarLayout
  <2> HIDE DEF last
  <2> QED  BY <1>1, <2>1, <2>2
<1>4. ASSUME IsHeaderStart(p) PROVE p + TarBlock <= last
  <2>1. PICK i \in 1 .. Total : p = DataAt(i) - TarBlock
    BY <1>4 DEF IsHeaderStart
  <2>2. /\ DataAt(i) <= MemberStart[i + 1] /\ MemberStart[i + 1] <= last
        /\ DataAt(i) \in Nat /\ MemberStart[i + 1] \in Nat
    BY TarLayout
  <2> HIDE DEF last
  <2> QED  BY <1>1, <2>1, <2>2
<1>5. ~(IsMetaStart(p) /\ IsHeaderStart(p))
  <2> SUFFICES ASSUME IsMetaStart(p), IsHeaderStart(p) PROVE FALSE  OBVIOUS
  <2>1. PICK i \in 1 .. Total : p = MemberStart[i] /\ Members[i].meta > 0
    BY DEF IsMetaStart
  <2>2. PICK j \in 1 .. Total : p = DataAt(j) - TarBlock
    BY DEF IsHeaderStart
  <2>3. /\ DataAt(i) - TarBlock > MemberStart[i] /\ DataAt(i) \in Nat
        /\ MemberStart[i] \in Nat
    BY <2>1, TarLayout
  <2>4. MemberStart[j] + TarBlock <= DataAt(j) /\ DataAt(j) \in Nat /\ MemberStart[j] \in Nat
        /\ DataAt(j) <= MemberStart[j + 1] /\ MemberStart[j + 1] \in Nat
    BY TarLayout
  <2>5. CASE i = j  BY <1>1, <2>1, <2>2, <2>3, <2>5
  <2>6. CASE i < j
    <3>1. i + 1 \in 1 .. Total + 1 /\ j \in 1 .. Total + 1 /\ i + 1 <= j  BY <1>1, <2>6
    <3>2. MemberStart[i + 1] <= MemberStart[j]  BY <3>1, MembersFollow
    <3>3. DataAt(i) <= MemberStart[i + 1] /\ MemberStart[i + 1] \in Nat  BY TarLayout
    <3>4. p = MemberStart[i] /\ p >= MemberStart[j]  BY <1>1, <2>1, <2>2, <2>4
    <3> QED  BY <1>1, <2>3, <2>4, <3>2, <3>3, <3>4
  <2>7. CASE j < i
    <3>1. j + 1 \in 1 .. Total + 1 /\ i \in 1 .. Total + 1 /\ j + 1 <= i  BY <1>1, <2>7
    <3>2. MemberStart[j + 1] <= MemberStart[i]  BY <3>1, MembersFollow
    <3> QED  BY <1>1, <2>1, <2>2, <2>3, <2>4, <3>2
  <2> QED  BY <1>1, <2>5, <2>6, <2>7
<1>6. HeaderAt(p) = CASE G1 -> "end" [] G2 -> "short" [] IsZeroBlock(p) -> "zero"
                      [] IsMetaStart(p) -> "meta" [] IsHeaderStart(p) -> "header"
                      [] OTHER -> "junk"
  BY DEF HeaderAt, IsZeroBlock, IsMetaStart, IsHeaderStart
<1>7. /\ ~(G1 /\ G2) /\ ~(G1 /\ IsZeroBlock(p)) /\ ~(G1 /\ IsMetaStart(p))
      /\ ~(G1 /\ IsHeaderStart(p)) /\ ~(G2 /\ IsZeroBlock(p)) /\ ~(G2 /\ IsMetaStart(p))
      /\ ~(G2 /\ IsHeaderStart(p)) /\ ~(IsZeroBlock(p) /\ IsMetaStart(p))
      /\ ~(IsZeroBlock(p) /\ IsHeaderStart(p))
  BY <1>1, <1>2, <1>3, <1>4
<1>8. G1 <=> p >= FileEnd
  OBVIOUS
<1> HIDE DEF G1, G2
<1> QED
  BY <1>5, <1>6, <1>7, <1>8

(* The metadata before a member leads to its header, and a header is its own;  *)
(* behind the last member are zeros.                                           *)
LEMMA HeadersInPlace ==
  ASSUME archive \in Archives, Tar
  PROVE  /\ \A i \in 1 .. Total : /\ AfterMeta(MemberStart[i]) = DataAt(i) - TarBlock
                                  /\ HeaderAt(DataAt(i) - TarBlock) = "header"
         /\ AfterMeta(MemberStart[Total + 1]) = MemberStart[Total + 1]
         /\ HeaderAt(MemberStart[Total + 1]) = "zero"
<1>1. TarBlock \in Nat /\ TarBlock > 0 /\ Total \in Nat /\ MemberStart[Total + 1] \in Nat
  BY TarLayout, Placed
<1>2. HeaderAt(MemberStart[Total + 1]) = "zero"
  BY <1>1, HeaderCases DEF IsZeroBlock
<1>3. AfterMeta(MemberStart[Total + 1]) = MemberStart[Total + 1]
  BY <1>2 DEF AfterMeta
<1>4. ASSUME NEW i \in 1 .. Total
      PROVE  /\ AfterMeta(MemberStart[i]) = DataAt(i) - TarBlock
             /\ HeaderAt(DataAt(i) - TarBlock) = "header"
  <2> DEFINE s == MemberStart[i]  h == DataAt(i) - TarBlock
  <2>1. /\ s \in Nat /\ DataAt(i) \in Nat /\ MemberStart[i + 1] \in Nat
        /\ s + TarBlock <= DataAt(i) /\ DataAt(i) <= MemberStart[i + 1]
        /\ MemberStart[i + 1] <= MemberStart[Total + 1]
        /\ FileEnd = MemberStart[Total + 1] + 2 * TarBlock
        /\ Members[i].meta = 0 => DataAt(i) - TarBlock = s
        /\ Members[i].meta > 0 =>
             s + TarBlock + Members[i].meta + Padding(Members[i].meta) = DataAt(i) - TarBlock
    BY TarLayout
  <2>2. h \in Nat  BY <1>1, <2>1
  <2>3. IsHeaderStart(h)  BY DEF IsHeaderStart
  <2>4. HeaderAt(h) = "header"
    <3> HIDE DEF h
    <3> QED  BY <2>2, <2>3, HeaderCases
  <2>5. Members[i] \in MemberRec /\ Members[i].meta \in Nat
    <3>1. Members[i] \in MemberRec  BY Placed
    <3> QED  BY <3>1 DEF MemberRec
  <2>6. CASE Members[i].meta = 0
    <3>1. s = h  BY <2>1, <2>6
    <3>2. HeaderAt(s) # "meta"  BY <2>4, <3>1
    <3> QED  BY <2>4, <3>1, <3>2 DEF AfterMeta
  <2>7. CASE Members[i].meta > 0
    <3>1. IsMetaStart(s)  BY <2>7 DEF IsMetaStart
    <3>2. HeaderAt(s) = "meta"
      <4> HIDE DEF s
      <4> QED  BY <2>1, <3>1, HeaderCases
    <3> DEFINE P(j) == MemberStart[i] = MemberStart[j]
               k == CHOOSE j \in 1 .. Total : P(j)
    <3>3. k \in 1 .. Total /\ P(k)  OBVIOUS
    <3>4. k = i
      <4>1. CASE k < i
        <5>1. k + 1 \in 1 .. Total + 1 /\ i \in 1 .. Total + 1 /\ k + 1 <= i
          BY <1>1, <3>3, <4>1
        <5>2. MemberStart[k + 1] <= MemberStart[i]  BY <5>1, MembersFollow
        <5>3. /\ MemberStart[k] + TarBlock <= DataAt(k) /\ DataAt(k) <= MemberStart[k + 1]
              /\ DataAt(k) \in Nat /\ MemberStart[k + 1] \in Nat /\ MemberStart[k] \in Nat
          BY <3>3, TarLayout
        <5> QED  BY <1>1, <2>1, <3>3, <5>2, <5>3
      <4>2. CASE i < k
        <5>1. i + 1 \in 1 .. Total + 1 /\ k \in 1 .. Total + 1 /\ i + 1 <= k
          BY <1>1, <3>3, <4>2
        <5>2. MemberStart[i + 1] <= MemberStart[k]  BY <5>1, MembersFollow
        <5> QED  BY <1>1, <2>1, <3>3, <5>2
      <4> QED  BY <1>1, <3>3, <4>1, <4>2
    <3>5. AfterMeta(s) = SkipPaddedFrom(s + TarBlock, Members[k].meta)
      BY <3>2 DEF AfterMeta
    <3> HIDE DEF k
    <3> DEFINE m == Members[i]
    <3>6. AfterMeta(s) = SkipPaddedFrom(s + TarBlock, m.meta)
      BY <3>4, <3>5
    <3>7. s + TarBlock \in Nat  BY <1>1, <2>1
    <3>8. /\ Padding(m.meta) \in Nat
          /\ s + TarBlock + m.meta + Padding(m.meta) <= FileEnd =>
               SkipPaddedFrom(s + TarBlock, m.meta) = s + TarBlock + m.meta + Padding(m.meta)
      <4> DEFINE p == s + TarBlock
      <4>1. p \in Nat /\ m \in MemberRec /\ m.meta \in Nat  BY <2>5, <3>7
      <4> HIDE DEF p, m
      <4> QED  BY <4>1, SkipGoesOver DEF p
    <3>9. s + TarBlock + m.meta + Padding(m.meta) = DataAt(i) - TarBlock  BY <2>1, <2>7
    <3>10. DataAt(i) - TarBlock <= FileEnd  BY <1>1, <2>1
    <3> HIDE DEF m
    <3> QED  BY <2>4, <3>6, <3>8, <3>9, <3>10
  <2> QED  BY <2>5, <2>6, <2>7
<1> QED
  BY <1>2, <1>3, <1>4

(* Metadata is passed forward.                                                 *)
LEMMA MetaGoesForward ==
  ASSUME archive \in Archives, Tar, NEW p \in Nat
  PROVE  AfterMeta(p) \in Nat /\ AfterMeta(p) >= p
<1>1. CASE HeaderAt(p) # "meta"
  BY <1>1 DEF AfterMeta
<1>2. CASE HeaderAt(p) = "meta"
  <2>1. PICK i \in 1 .. Total : p = MemberStart[i]
    BY <1>2, HeaderCases DEF IsMetaStart
  <2>2. AfterMeta(p) = DataAt(i) - TarBlock
    BY <2>1, HeadersInPlace
  <2>3. /\ TarBlock \in Nat /\ MemberStart[i] \in Nat /\ DataAt(i) \in Nat
        /\ MemberStart[i] + TarBlock <= DataAt(i)
    BY TarLayout
  <2> QED  BY <2>1, <2>2, <2>3
<1> QED
  BY <1>1, <1>2

(* The reader at the data of member i.                                         *)
AtEntry(r, i) ==
  /\ r.valid /\ r.offset \in {-1, DataAt(i)} /\ r.remaining = Stored(Members[i])
SameRest(r, s) == r.index = s.index /\ r.eof = s.eof /\ r.freed = s.freed

(* Reading an entry finds a header that is not before p, and leaves the stream *)
(* at that member's data; or it finds none, and the entry stays as it was.     *)
LEMMA TarReads ==
  ASSUME archive \in Archives, Tar, NEW p \in Nat, NEW r \in ReaderRec,
         TarReadEntry(p, r)
  PROVE  /\ position' \in Nat /\ reader' \in ReaderRec
         /\ \/ /\ found' = "entry"
               /\ \E i \in 1 .. Total :
                    /\ p <= DataAt(i) - TarBlock /\ position' = DataAt(i)
                    /\ current' = i /\ orderly' = (orderly /\ i = current + 1)
                    /\ AtEntry(reader', i) /\ SameRest(reader', r)
            \/ /\ found' \in {"done", "error"}
               /\ UNCHANGED <<current, orderly>>
               /\ reader' = r \/ reader' = [r EXCEPT !.eof = TRUE]
               /\ position' >= p \/ position' >= FileEnd
<1>1. TarBlock \in Nat /\ TarBlock > 0 /\ FileEnd \in Nat
  BY TarLayout, MembersFollow
<1>2. CASE r.eof
  BY <1>2 DEF TarReadEntry, NoEntry, ReaderRec
<1>3. CASE ~r.eof
  <2> DEFINE h == AfterMeta(p)  after == Smaller(h + TarBlock, FileEnd)
  <2>1. h \in Nat /\ h >= p
    BY MetaGoesForward
  <2>2. after \in Nat /\ (after >= p \/ after >= FileEnd)
    <3> HIDE DEF h
    <3> QED  BY <1>1, <2>1 DEF Smaller
  <2>3. \/ /\ HeaderAt(h) = "header"
           /\ \E i \in 1 .. Total :
                /\ h = DataAt(i) - TarBlock
                /\ ReturnEntry(i)
                /\ reader' = [r EXCEPT
                     !.valid = TRUE,
                     !.offset = IF archive.kind = "tarxz" THEN -1 ELSE h + TarBlock,
                     !.remaining = Stored(Members[i])]
           /\ position' = h + TarBlock
        \/ /\ HeaderAt(h) \in {"zero", "end", "junk"}
           /\ NoEntry("done", IF HeaderAt(h) = "end" THEN h ELSE after)
           /\ reader' = [r EXCEPT !.eof = TRUE]
        \/ /\ HeaderAt(h) \in {"junk", "short"}
           /\ NoEntry("error", after)
           /\ reader' = r
    BY <1>3 DEF TarReadEntry
  <2> HIDE DEF h, after
  <2>4. ASSUME NEW i \in 1 .. Total, h = DataAt(i) - TarBlock, ReturnEntry(i),
               reader' = [r EXCEPT
                     !.valid = TRUE,
                     !.offset = IF archive.kind = "tarxz" THEN -1 ELSE h + TarBlock,
                     !.remaining = Stored(Members[i])],
               position' = h + TarBlock
        PROVE  /\ position' \in Nat /\ reader' \in ReaderRec
               /\ found' = "entry"
               /\ \E j \in 1 .. Total :
                    /\ p <= DataAt(j) - TarBlock /\ position' = DataAt(j)
                    /\ current' = j /\ orderly' = (orderly /\ j = current + 1)
                    /\ AtEntry(reader', j) /\ SameRest(reader', r)
    <3>1. DataAt(i) \in Nat /\ h + TarBlock = DataAt(i)
      BY <1>1, <2>1, <2>4, MembersFollow
    <3>2. Stored(Members[i]) \in Nat
      <4>1. Members[i] \in MemberRec  BY Placed
      <4> QED  BY <4>1, MemberSizes
    <3> DEFINE o == IF archive.kind = "tarxz" THEN -1 ELSE h + TarBlock
               n == Stored(Members[i])
    <3>3. o \in Int /\ o \in {-1, DataAt(i)} /\ n \in Nat
      BY <3>1, <3>2
    <3>4. reader' = [r EXCEPT !.valid = TRUE, !.offset = o, !.remaining = n]
      BY <2>4
    <3> HIDE DEF o, n
    <3>5. reader' \in ReaderRec
      BY <3>3, <3>4 DEF ReaderRec
    <3>6. reader'.valid = TRUE /\ reader'.offset = o /\ reader'.remaining = n
      BY <3>4 DEF ReaderRec
    <3>7. SameRest(reader', r)
      BY <3>4 DEF ReaderRec, SameRest
    <3>8. AtEntry(reader', i)
      BY <3>3, <3>6 DEF AtEntry, n
    <3>9. p <= DataAt(i) - TarBlock /\ position' = DataAt(i)
      BY <2>1, <2>4, <3>1
    <3>10. found' = "entry" /\ current' = i /\ orderly' = (orderly /\ i = current + 1)
      BY <2>4 DEF ReturnEntry
    <3> QED  BY <3>1, <3>5, <3>7, <3>8, <3>9, <3>10
  <2>5. ASSUME NoEntry("done", IF HeaderAt(h) = "end" THEN h ELSE after),
               reader' = [r EXCEPT !.eof = TRUE]
        PROVE  /\ position' \in Nat /\ reader' \in ReaderRec
               /\ found' = "done" /\ UNCHANGED <<current, orderly>>
               /\ position' >= p \/ position' >= FileEnd
    <3>1. reader' \in ReaderRec  BY <2>5 DEF ReaderRec
    <3> QED  BY <2>1, <2>2, <2>5, <3>1 DEF NoEntry
  <2>6. ASSUME NoEntry("error", after), reader' = r
        PROVE  /\ position' \in Nat /\ reader' \in ReaderRec
               /\ found' = "error" /\ UNCHANGED <<current, orderly>>
               /\ position' >= p \/ position' >= FileEnd
    BY <2>2, <2>6 DEF NoEntry
  <2>7. CASE \E i \in 1 .. Total :
                /\ h = DataAt(i) - TarBlock
                /\ ReturnEntry(i)
                /\ reader' = [r EXCEPT
                     !.valid = TRUE,
                     !.offset = IF archive.kind = "tarxz" THEN -1 ELSE h + TarBlock,
                     !.remaining = Stored(Members[i])]
                /\ position' = h + TarBlock
    BY <2>4, <2>7
  <2>8. CASE /\ NoEntry("done", IF HeaderAt(h) = "end" THEN h ELSE after)
             /\ reader' = [r EXCEPT !.eof = TRUE]
    BY <2>5, <2>8
  <2>9. CASE NoEntry("error", after) /\ reader' = r
    BY <2>6, <2>9
  <2> QED  BY <2>3, <2>7, <2>8, <2>9
<1> QED
  BY <1>2, <1>3

(* From the header after a member, reading returns the next one; after the     *)
(* last it says it is done.                                                    *)
LEMMA TarReadsInPlace ==
  ASSUME archive \in Archives, Tar, NEW c \in 0 .. Total, NEW r \in ReaderRec, ~r.eof,
         TarReadEntry(MemberStart[c + 1], r)
  PROVE  IF c < Total
         THEN /\ found' = "entry" /\ current' = c + 1 /\ position' = DataAt(c + 1)
              /\ orderly' = (orderly /\ c + 1 = current + 1)
              /\ AtEntry(reader', c + 1) /\ SameRest(reader', r)
         ELSE /\ found' = "done" /\ UNCHANGED <<current, orderly>>
              /\ reader' = [r EXCEPT !.eof = TRUE]
<1> DEFINE p == MemberStart[c + 1]  h == AfterMeta(p)
<1>1. TarBlock \in Nat /\ TarBlock > 0 /\ Total \in Nat
  BY TarLayout, Placed
<1>2. \/ /\ HeaderAt(h) = "header"
         /\ \E i \in 1 .. Total :
              /\ h = DataAt(i) - TarBlock
              /\ ReturnEntry(i)
              /\ reader' = [r EXCEPT
                   !.valid = TRUE,
                   !.offset = IF archive.kind = "tarxz" THEN -1 ELSE h + TarBlock,
                   !.remaining = Stored(Members[i])]
         /\ position' = h + TarBlock
      \/ /\ HeaderAt(h) \in {"zero", "end", "junk"}
         /\ NoEntry("done", IF HeaderAt(h) = "end" THEN h
                            ELSE Smaller(h + TarBlock, FileEnd))
         /\ reader' = [r EXCEPT !.eof = TRUE]
      \/ /\ HeaderAt(h) \in {"junk", "short"}
         /\ NoEntry("error", Smaller(h + TarBlock, FileEnd))
         /\ reader' = r
  BY DEF TarReadEntry
<1>3. CASE c < Total
  <2>1. c + 1 \in 1 .. Total
    BY <1>1, <1>3
  <2>2. h = DataAt(c + 1) - TarBlock /\ HeaderAt(h) = "header"
    BY <2>1, HeadersInPlace
  <2> HIDE DEF h
  <2>3. PICK i \in 1 .. Total :
              /\ h = DataAt(i) - TarBlock
              /\ ReturnEntry(i)
              /\ reader' = [r EXCEPT
                   !.valid = TRUE,
                   !.offset = IF archive.kind = "tarxz" THEN -1 ELSE h + TarBlock,
                   !.remaining = Stored(Members[i])]
              /\ position' = h + TarBlock
    BY <1>2, <2>2
  <2>4. i = c + 1
    <3>1. DataAt(i) \in Nat /\ DataAt(c + 1) \in Nat  BY <2>1, MembersFollow
    <3>2. DataAt(i) = DataAt(c + 1)  BY <1>1, <2>2, <2>3, <3>1
    <3>3. ASSUME NEW j \in 1 .. Total, NEW k \in 1 .. Total, j < k
          PROVE  DataAt(j) # DataAt(k)
      <4>1. j + 1 \in 1 .. Total + 1 /\ k \in 1 .. Total + 1 /\ j + 1 <= k  BY <1>1, <3>3
      <4>2. MemberStart[j + 1] <= MemberStart[k]  BY <4>1, MembersFollow
      <4>3. DataAt(j) <= MemberStart[j + 1] /\ DataAt(j) \in Nat /\ MemberStart[j + 1] \in Nat
        BY TarLayout
      <4>4. MemberStart[k] + TarBlock <= DataAt(k) /\ DataAt(k) \in Nat /\ MemberStart[k] \in Nat
        BY TarLayout
      <4> QED  BY <1>1, <4>2, <4>3, <4>4
    <3>4. ~(i < c + 1) /\ ~(c + 1 < i)
      BY <2>1, <3>2, <3>3
    <3> QED  BY <1>1, <2>1, <3>4
  <2>5. DataAt(c + 1) \in Nat /\ h + TarBlock = DataAt(c + 1)
    <3>1. DataAt(c + 1) \in Nat  BY <2>1, MembersFollow
    <3> QED  BY <1>1, <2>2, <3>1
  <2> DEFINE o == IF archive.kind = "tarxz" THEN -1 ELSE h + TarBlock
             n == Stored(Members[c + 1])
  <2>6. reader' = [r EXCEPT !.valid = TRUE, !.offset = o, !.remaining = n]
    BY <2>3, <2>4
  <2>7. o \in {-1, DataAt(c + 1)}
    BY <2>5
  <2> HIDE DEF o, n
  <2>8. reader'.valid = TRUE /\ reader'.offset = o /\ reader'.remaining = n
    BY <2>6 DEF ReaderRec
  <2>9. SameRest(reader', r)
    BY <2>6 DEF ReaderRec, SameRest
  <2>10. AtEntry(reader', c + 1)
    BY <2>7, <2>8 DEF AtEntry, n
  <2>11. /\ found' = "entry" /\ current' = c + 1
         /\ orderly' = (orderly /\ c + 1 = current + 1)
    BY <2>3, <2>4 DEF ReturnEntry
  <2> QED  BY <1>3, <2>3, <2>5, <2>9, <2>10, <2>11
<1>4. CASE ~(c < Total)
  <2>1. c + 1 = Total + 1
    BY <1>1, <1>4
  <2>2. h = p /\ HeaderAt(h) = "zero"
    BY <2>1, HeadersInPlace
  <2> HIDE DEF h, p
  <2>3. /\ NoEntry("done", Smaller(h + TarBlock, FileEnd))
        /\ reader' = [r EXCEPT !.eof = TRUE]
    BY <1>2, <2>2
  <2> QED  BY <1>4, <2>3 DEF NoEntry
<1> QED
  BY <1>3, <1>4

-----------------------------------------------------------------------------
(* What calls do to the reader *)

(* The layout is that of the archive, which no call changes.                   *)
LEMMA LayoutIsKept ==
  ASSUME archive' = archive
  PROVE  /\ Total' = Total /\ Members' = Members /\ MemberStart' = MemberStart
         /\ Places' = Places /\ Sizes' = Sizes /\ FileEnd' = FileEnd
         /\ Tar' = Tar /\ ReadsOn' = ReadsOn /\ Single' = Single
<1>1. Total' = Total /\ Members' = Members
  BY DEF Total, Members
<1>2. Tar' = Tar /\ ReadsOn' = ReadsOn /\ Single' = Single
  BY DEF Tar, ReadsOn, Single
<1>3. MemberStart' = MemberStart
  BY DEF MemberStart, Total, Members, Extent, Lead, Tar
<1>4. Places' = Places
  BY <1>3 DEF Places, DataAt, Total, Members, Lead, Tar
<1>5. Sizes' = Sizes
  BY DEF Sizes, Total, Members
<1>6. FileEnd' = FileEnd
  BY <1>3 DEF FileEnd, Total, Members, Tar
<1> QED
  BY <1>1, <1>2, <1>3, <1>4, <1>5, <1>6

(* Only a read of a TAR's data disturbs it.                                     *)
LEMMA DisturbedStays ==
  ASSUME archive' = archive, moved' = moved
  PROVE  Undisturbed' = Undisturbed
<1>1. SizesAreInHeaders' = SizesAreInHeaders
  BY DEF SizesAreInHeaders, Total, Members
<1> QED
  BY <1>1 DEF Undisturbed

(* The types of what it changes, and how it advances.                           *)
NextTypes ==
  /\ position' \in Nat /\ reader' \in ReaderRec /\ current' \in 0 .. Total
  /\ found' \in {"entry", "done", "error"} /\ orderly' \in BOOLEAN
  /\ reader'.freed = reader.freed
  /\ ReadsOn => position' = position
Behind == Tar /\ current >= 1 => position >= Places[current]
NextAdvances ==
  Behind => /\ Behind' /\ current' >= current
            /\ found' = "entry" => current' > current

(* The types of what the reader's calls work on.                               *)
LEMMA ReaderTypes ==
  ASSUME ArchiveTypeOK
  PROVE  /\ archive \in Archives /\ position \in Nat /\ reader \in ReaderRec
         /\ current \in 0 .. Total /\ orderly \in BOOLEAN /\ moved \in BOOLEAN
         /\ Total \in Nat /\ FileEnd \in Nat
         /\ \A i \in 1 .. Total : /\ Places[i] = DataAt(i) /\ Places[i] \in Nat
                                  /\ Sizes[i] = Stored(Members[i]) /\ Sizes[i] \in Nat
                                  /\ MemberStart[i + 1] \in Nat
                                  /\ Places[i] + Sizes[i] <= MemberStart[i + 1]
                                  /\ MemberStart[i + 1] <= FileEnd
<1>1. /\ archive \in Archives /\ position \in Nat /\ reader \in ReaderRec
      /\ current \in 0 .. Total /\ orderly \in BOOLEAN /\ moved \in BOOLEAN
  BY DEF ArchiveTypeOK, ReaderRec
<1>2. Total \in Nat /\ FileEnd \in Nat /\ FileEnd >= MemberStart[Total + 1]
  BY <1>1, Placed, MembersFollow
<1>3. ASSUME NEW i \in 1 .. Total
      PROVE  /\ Places[i] = DataAt(i) /\ Places[i] \in Nat
             /\ Sizes[i] = Stored(Members[i]) /\ Sizes[i] \in Nat
             /\ MemberStart[i + 1] \in Nat
             /\ Places[i] + Sizes[i] <= MemberStart[i + 1]
             /\ MemberStart[i + 1] <= FileEnd
  <2>1. DataAt(i) \in Nat /\ DataAt(i) + Length(Members[i]) <= MemberStart[i + 1]
    BY <1>1, MembersFollow
  <2>2. Members[i] \in MemberRec
    BY <1>1, Placed
  <2>3. /\ Stored(Members[i]) \in Nat /\ Length(Members[i]) \in Nat
        /\ Stored(Members[i]) <= Length(Members[i])
    BY <1>1, <2>2, MemberSizes, StoredIsPart
  <2>4. i + 1 \in 1 .. Total + 1 /\ Total + 1 \in 1 .. Total + 1 /\ i + 1 <= Total + 1
    BY <1>2
  <2>5. /\ MemberStart[i + 1] \in Nat /\ MemberStart[Total + 1] \in Nat
        /\ MemberStart[i + 1] <= MemberStart[Total + 1]
    BY <1>1, <2>4, Placed, MembersFollow
  <2>6. Places[i] = DataAt(i) /\ Sizes[i] = Stored(Members[i])
    BY DEF Places, Sizes
  <2> QED  BY <1>2, <2>1, <2>3, <2>5, <2>6
<1> QED
  BY <1>1, <1>2, <1>3

(* Reading a TAR's next entry from where the skip ended.                       *)
LEMMA TarReadKeeps ==
  ASSUME ArchiveTypeOK, EntryInv, Tar, archive' = archive, moved' = moved,
         NEW p \in Nat, p >= position, NEW r \in ReaderRec, SameRest(r, reader),
         r.remaining = 0,
         r.valid => reader.valid /\ r.offset = reader.offset /\ r.remaining = reader.remaining,
         Undisturbed /\ ~reader.eof => p = MemberStart[current + 1],
         TarReadEntry(p, r)
  PROVE  NextTypes /\ EntryInv' /\ NextAdvances
<1>1. /\ archive \in Archives /\ position \in Nat /\ reader \in ReaderRec
      /\ current \in 0 .. Total /\ orderly \in BOOLEAN /\ moved \in BOOLEAN
      /\ Total \in Nat /\ FileEnd \in Nat
      /\ \A i \in 1 .. Total : /\ Places[i] = DataAt(i) /\ Places[i] \in Nat
                               /\ Sizes[i] = Stored(Members[i]) /\ Sizes[i] \in Nat
                               /\ MemberStart[i + 1] \in Nat
                               /\ Places[i] + Sizes[i] <= MemberStart[i + 1]
                               /\ MemberStart[i + 1] <= FileEnd
  BY ReaderTypes
<1>2. /\ Total' = Total /\ MemberStart' = MemberStart /\ Places' = Places /\ Sizes' = Sizes
      /\ Tar' = Tar /\ Single' = Single
  BY LayoutIsKept
<1>3. ~ReadsOn /\ ~Single /\ archive.kind # "zip"
  BY DEF Tar, TarKinds, ReadsOn, Single
<1>4. /\ position' \in Nat /\ reader' \in ReaderRec
      /\ \/ /\ found' = "entry"
            /\ \E i \in 1 .. Total :
                 /\ p <= DataAt(i) - TarBlock /\ position' = DataAt(i)
                 /\ current' = i /\ orderly' = (orderly /\ i = current + 1)
                 /\ AtEntry(reader', i) /\ SameRest(reader', r)
         \/ /\ found' \in {"done", "error"}
            /\ UNCHANGED <<current, orderly>>
            /\ reader' = r \/ reader' = [r EXCEPT !.eof = TRUE]
            /\ position' >= p \/ position' >= FileEnd
  BY <1>1, TarReads
<1>5. ASSUME Undisturbed, ~reader.eof
      PROVE  IF current < Total
             THEN /\ found' = "entry" /\ current' = current + 1
                  /\ position' = DataAt(current + 1)
                  /\ orderly' = (orderly /\ current + 1 = current + 1)
                  /\ AtEntry(reader', current + 1) /\ SameRest(reader', r)
             ELSE /\ found' = "done" /\ UNCHANGED <<current, orderly>>
                  /\ reader' = [r EXCEPT !.eof = TRUE]
  <2>1. ~r.eof /\ TarReadEntry(MemberStart[current + 1], r)
    BY <1>5 DEF SameRest
  <2> QED  BY <1>1, <2>1, TarReadsInPlace
<1>6. ASSUME Undisturbed, reader.eof
      PROVE  found' = "done" /\ UNCHANGED <<current, orderly>> /\ reader' = r
  BY <1>6 DEF SameRest, TarReadEntry, NoEntry
<1>7. TarBlock \in Nat /\ TarBlock > 0 /\ Undisturbed' = Undisturbed
  BY <1>1, ArchiveAssumption, DisturbedStays
<1>8. CASE found' = "entry"
  <2>1. PICK i \in 1 .. Total :
                 /\ p <= DataAt(i) - TarBlock /\ position' = DataAt(i)
                 /\ current' = i /\ orderly' = (orderly /\ i = current + 1)
                 /\ AtEntry(reader', i) /\ SameRest(reader', r)
    BY <1>4, <1>8
  <2>2. NextTypes
    BY <1>1, <1>3, <1>4, <1>8, <2>1 DEF NextTypes, SameRest
  <2>3. EntryIsMember'
    BY <2>1 DEF EntryIsMember
  <2>4. ReaderIsOfEntry'
    <3>1. /\ reader'.valid /\ reader'.offset \in {-1, Places[i]}
          /\ reader'.remaining = Sizes[i]
      BY <1>1, <2>1 DEF AtEntry
    <3>2. archive'.kind # "zip"  BY <1>3
    <3> QED  BY <1>2, <2>1, <3>1, <3>2 DEF ReaderIsOfEntry
  <2>5. IndexFollows'
    BY <1>2 DEF IndexFollows
  <2>6. TarIsInPlace' /\ EndIsTheLast' /\ EveryEntryIsReturned'
    <3>1. CASE ~Undisturbed
      BY <1>7, <3>1 DEF TarIsInPlace, EndIsTheLast, EveryEntryIsReturned
    <3>2. CASE Undisturbed
      <4>1. ~reader.eof /\ current < Total /\ current' = current + 1
        BY <1>5, <1>6, <1>8, <3>2
      <4>2. reader'.valid /\ ~reader'.eof /\ position' = Places[current']
        BY <1>1, <2>1, <4>1 DEF AtEntry, SameRest
      <4>3. orderly'
        BY <1>5, <3>2, <4>1 DEF EntryInv, EveryEntryIsReturned, AllReturned
      <4>4. ~Single'
        BY <1>2, <1>3
      <4> QED  BY <1>2, <1>7, <1>8, <4>2, <4>3, <4>4
               DEF TarIsInPlace, EndIsTheLast, EveryEntryIsReturned, AllReturned
    <3> QED  BY <3>1, <3>2
  <2>7. NextAdvances
    <3> SUFFICES ASSUME Behind
                 PROVE  Behind' /\ current' >= current /\ current' > current
      BY DEF NextAdvances
    <3>1. Behind'
      BY <1>1, <1>2, <2>1 DEF Behind
    <3>2. i > current
      <4>1. CASE current = 0  BY <4>1
      <4>2. CASE current >= 1
        <5>1. position >= Places[current] /\ current \in 1 .. Total
          BY <1>1, <4>2 DEF Behind
        <5>2. ASSUME i <= current PROVE FALSE
          <6>1. DataAt(i) <= DataAt(current)
            <7>1. CASE i = current  BY <1>1, <5>1, <7>1
            <7>2. CASE i < current
              <8>1. i + 1 \in 1 .. Total + 1 /\ current \in 1 .. Total + 1 /\ i + 1 <= current
                BY <1>1, <7>2
              <8>2. MemberStart[i + 1] <= MemberStart[current]
                BY <1>1, <8>1, MembersFollow
              <8>3. /\ DataAt(i) <= MemberStart[i + 1] /\ DataAt(i) \in Nat
                    /\ MemberStart[i + 1] \in Nat
                BY <1>1, TarLayout
              <8>4. /\ MemberStart[current] + TarBlock <= DataAt(current)
                    /\ DataAt(current) \in Nat /\ MemberStart[current] \in Nat
                BY <1>1, <5>1, TarLayout
              <8> QED  BY <1>7, <8>2, <8>3, <8>4
            <7> QED  BY <1>1, <5>2, <7>1, <7>2
          <6>2. p >= DataAt(current)
            BY <1>1, <5>1
          <6> QED  BY <1>1, <1>7, <2>1, <5>1, <6>1, <6>2
        <5> QED  BY <1>1, <5>2
      <4> QED  BY <1>1, <4>1, <4>2
    <3> QED  BY <1>1, <2>1, <3>1, <3>2
  <2> QED  BY <2>2, <2>3, <2>4, <2>5, <2>6, <2>7 DEF EntryInv
<1>9. CASE found' # "entry"
  <2>1. /\ found' \in {"done", "error"}
        /\ current' = current /\ orderly' = orderly
        /\ reader' = r \/ reader' = [r EXCEPT !.eof = TRUE]
        /\ position' >= p \/ position' >= FileEnd
    BY <1>4, <1>9
  <2>2. /\ reader'.valid = r.valid /\ reader'.offset = r.offset
        /\ reader'.remaining = r.remaining /\ reader'.freed = r.freed
    BY <2>1 DEF ReaderRec
  <2>3. NextTypes
    BY <1>1, <1>3, <1>4, <2>1, <2>2 DEF NextTypes, SameRest
  <2>4. EntryIsMember'
    BY <2>1 DEF EntryIsMember
  <2>5. ReaderIsOfEntry'
    <3>1. archive'.kind # "zip"  BY <1>3
    <3>2. reader'.valid =>
            /\ current >= 1 /\ reader'.offset \in {-1, Places[current]}
            /\ reader'.remaining = Sizes[current]
      BY <2>2 DEF EntryInv, ReaderIsOfEntry
    <3>3. reader'.remaining = 0
      BY <2>2
    <3> QED  BY <1>2, <2>1, <3>1, <3>2, <3>3 DEF ReaderIsOfEntry
  <2>6. IndexFollows'
    BY <1>2 DEF IndexFollows
  <2>7. TarIsInPlace' /\ EndIsTheLast' /\ EveryEntryIsReturned'
    <3>1. CASE ~Undisturbed
      BY <1>7, <3>1 DEF TarIsInPlace, EndIsTheLast, EveryEntryIsReturned
    <3>2. CASE Undisturbed
      <4>1. found' = "done" /\ current = Total /\ reader'.eof
        <5>1. CASE reader.eof
          <6>1. r.eof  BY <5>1 DEF SameRest
          <6>2. found' = "done" /\ reader' = r  BY <1>6, <3>2, <5>1
          <6>3. current = Total  BY <3>2, <5>1 DEF EntryInv, EndIsTheLast
          <6> QED  BY <6>1, <6>2, <6>3
        <5>2. CASE ~reader.eof
          <6>1. ~(current < Total)  BY <1>5, <1>9, <3>2, <5>2
          <6>2. found' = "done" /\ reader' = [r EXCEPT !.eof = TRUE]
            BY <1>5, <3>2, <5>2, <6>1
          <6>3. reader'.eof  BY <6>2 DEF ReaderRec
          <6> QED  BY <1>1, <6>1, <6>2, <6>3
        <5> QED  BY <5>1, <5>2
      <4>2. reader'.remaining = 0
        BY <2>2
      <4>3. orderly
        BY <3>2 DEF EntryInv, EveryEntryIsReturned, AllReturned
      <4> QED  BY <1>2, <1>7, <2>1, <4>1, <4>2, <4>3
               DEF TarIsInPlace, EndIsTheLast, EveryEntryIsReturned, AllReturned
    <3> QED  BY <3>1, <3>2
  <2>8. NextAdvances
    <3> SUFFICES ASSUME Behind PROVE Behind' /\ current' >= current
      BY <1>9 DEF NextAdvances
    <3>1. CASE current = 0
      BY <1>1, <2>1, <3>1 DEF Behind
    <3>2. CASE current >= 1
      <4>1. position >= Places[current] /\ current \in 1 .. Total
        BY <1>1, <3>2 DEF Behind
      <4>2. Places[current] \in Nat /\ Places[current] <= FileEnd
        <5>1. /\ Places[current] \in Nat /\ Sizes[current] \in Nat
              /\ MemberStart[current + 1] \in Nat
              /\ Places[current] + Sizes[current] <= MemberStart[current + 1]
              /\ MemberStart[current + 1] <= FileEnd
          BY <1>1, <4>1
        <5> QED  BY <1>1, <5>1
      <4>3. position' >= Places[current]
        BY <1>1, <1>4, <2>1, <4>1, <4>2
      <4> QED  BY <1>1, <1>2, <2>1, <4>3 DEF Behind
    <3> QED  BY <1>1, <3>1, <3>2
  <2> QED  BY <2>3, <2>4, <2>5, <2>6, <2>7, <2>8 DEF EntryInv
<1> QED
  BY <1>8, <1>9

(* arc_tar_next: the skip of a valid entry's data ends at the next header.     *)
LEMMA TarNextKeeps ==
  ASSUME ArchiveTypeOK, EntryInv, Tar, archive' = archive, moved' = moved, TarNext
  PROVE  NextTypes /\ EntryInv' /\ NextAdvances
<1>1. /\ archive \in Archives /\ position \in Nat /\ reader \in ReaderRec
      /\ current \in 0 .. Total /\ orderly \in BOOLEAN /\ moved \in BOOLEAN
      /\ Total \in Nat /\ FileEnd \in Nat
      /\ \A i \in 1 .. Total : /\ Places[i] = DataAt(i) /\ Places[i] \in Nat
                               /\ Sizes[i] = Stored(Members[i]) /\ Sizes[i] \in Nat
                               /\ MemberStart[i + 1] \in Nat
                               /\ Places[i] + Sizes[i] <= MemberStart[i + 1]
                               /\ MemberStart[i + 1] <= FileEnd
  BY ReaderTypes
<1>2. /\ Total' = Total /\ MemberStart' = MemberStart /\ Places' = Places /\ Sizes' = Sizes
      /\ Tar' = Tar /\ Single' = Single
  BY LayoutIsKept
<1>3. ~ReadsOn /\ ~Single /\ archive.kind # "zip"
  BY DEF Tar, TarKinds, ReadsOn, Single
<1>4. Undisturbed => IF reader.eof THEN reader.remaining = 0
                     ELSE position = IF reader.valid THEN Places[current]
                                     ELSE MemberStart[current + 1]
  BY DEF EntryInv, TarIsInPlace
<1>7. Undisturbed' = Undisturbed
  BY <1>1, DisturbedStays
<1>5. CASE reader.valid /\ reader.remaining > 0
  <2> DEFINE n == reader.remaining  p == SkipPaddedFrom(position, n)
  <2>1. current \in 1 .. Total /\ n = Sizes[current] /\ n = Stored(Members[current])
    <3>1. current >= 1 /\ n = Sizes[current]
      BY <1>5 DEF EntryInv, ReaderIsOfEntry
    <3> QED  BY <1>1, <3>1
  <2>2. Members[current] \in MemberRec /\ n \in Nat
    BY <1>1, <2>1, Placed DEF ReaderRec
  <2> DEFINE q == Padding(n)
  <2>3. /\ q \in Nat /\ p \in {-1, position + n + q}
        /\ position + n + q <= FileEnd => p = position + n + q
    <3> DEFINE m == Members[current]
    <3>1. m \in MemberRec /\ n = Stored(m)  BY <2>1, <2>2
    <3> HIDE DEF m, n
    <3> QED  BY <1>1, <2>2, <3>1, SkipGoesOver
  <2>4. Undisturbed => ~reader.eof /\ position = Places[current]
    BY <1>4, <1>5
  <2>5. /\ Places[current] \in Nat /\ MemberStart[current + 1] <= FileEnd
        /\ MemberStart[current + 1] \in Nat /\ Places[current] <= MemberStart[current + 1]
        /\ Undisturbed => Places[current] + n + q = MemberStart[current + 1]
    <3>1. /\ DataAt(current) + Length(Members[current]) + Padding(Length(Members[current]))
               = MemberStart[current + 1]
          /\ DataAt(current) <= MemberStart[current + 1]
      BY <1>1, <2>1, TarLayout
    <3>2. Undisturbed => Stored(Members[current]) = Length(Members[current])
      BY <1>1, <2>1, StoredIsPart
    <3>3. Undisturbed => Places[current] + n + q = MemberStart[current + 1]
      BY <1>1, <2>1, <3>1, <3>2
    <3> HIDE DEF n, q
    <3> QED  BY <1>1, <2>1, <3>1, <3>3
  <2>6. Undisturbed => p = MemberStart[current + 1] /\ p >= 0
    <3> HIDE DEF n, p, q
    <3> QED  BY <2>3, <2>4, <2>5
  <2>7. CASE p < 0
    <3>1. NoEntry("error", FileEnd) /\ reader' = reader
      BY <1>5, <2>7 DEF TarNext
    <3>2. ~Undisturbed
      <4> HIDE DEF p, n, q
      <4>1. p < 0 => ~(p >= 0)  BY <1>1, <2>2, <2>3
      <4> QED  BY <2>6, <2>7, <4>1
    <3>3. /\ found' = "error" /\ position' = FileEnd
          /\ current' = current /\ orderly' = orderly
      BY <3>1 DEF NoEntry
    <3>4. NextTypes
      BY <1>1, <1>3, <3>1, <3>3 DEF NextTypes
    <3>5. EntryIsMember'
      BY <3>3 DEF EntryIsMember
    <3>6. ReaderIsOfEntry'
      BY <1>2, <1>3, <3>1, <3>3 DEF EntryInv, ReaderIsOfEntry
    <3>7. IndexFollows' /\ TarIsInPlace' /\ EndIsTheLast' /\ EveryEntryIsReturned'
      BY <1>2, <1>7, <3>2 DEF IndexFollows, TarIsInPlace, EndIsTheLast, EveryEntryIsReturned
    <3>8. NextAdvances
      <4> SUFFICES ASSUME Behind PROVE Behind' /\ current' >= current
        BY <3>3 DEF NextAdvances
      <4>1. FileEnd >= Places[current]
        <5> HIDE DEF n, q
        <5> QED  BY <1>1, <2>2, <2>3, <2>5
      <4> QED  BY <1>1, <1>2, <3>3, <4>1 DEF Behind
    <3> QED  BY <3>4, <3>5, <3>6, <3>7, <3>8 DEF EntryInv
  <2>8. CASE ~(p < 0)
    <3> DEFINE r == [reader EXCEPT !.remaining = 0, !.valid = FALSE]
    <3>1. TarReadEntry(p, r)
      BY <1>5, <2>8 DEF TarNext
    <3>2. r \in ReaderRec /\ r.remaining = 0 /\ r.valid = FALSE
      BY <1>1 DEF ReaderRec
    <3>3. SameRest(r, reader)
      BY <1>1 DEF ReaderRec, SameRest
    <3>4. p \in Nat /\ p >= position
      <4> HIDE DEF p, n, q
      <4> QED  BY <1>1, <2>2, <2>3, <2>8
    <3> HIDE DEF p, r
    <3>5. Undisturbed /\ ~reader.eof => p = MemberStart[current + 1]
      BY <2>6
    <3> QED  BY <3>1, <3>2, <3>3, <3>4, <3>5, TarReadKeeps
  <2> QED  BY <2>7, <2>8
<1>6. CASE ~(reader.valid /\ reader.remaining > 0)
  <2>1. TarReadEntry(position, reader)
    BY <1>6 DEF TarNext
  <2>2. reader.remaining = 0
    <3>1. reader.remaining \in Nat  BY <1>1 DEF ReaderRec
    <3>2. ~reader.valid => reader.remaining = 0  BY DEF EntryInv, ReaderIsOfEntry
    <3> QED  BY <1>6, <3>1, <3>2
  <2>3. Undisturbed /\ ~reader.eof => position = MemberStart[current + 1]
    <3>0. SUFFICES ASSUME Undisturbed, ~reader.eof PROVE position = MemberStart[current + 1]
      OBVIOUS
    <3>1. CASE ~reader.valid  BY <1>4, <3>0, <3>1
    <3>2. CASE reader.valid
      <4>1. current >= 1 /\ Sizes[current] = 0
        BY <2>2, <3>2 DEF EntryInv, ReaderIsOfEntry
      <4>2. current \in 1 .. Total  BY <1>1, <4>1
      <4>3. Stored(Members[current]) = 0  BY <1>1, <4>1, <4>2
      <4>4. TarBlock \in Nat /\ TarBlock > 0  BY ArchiveAssumption
      <4>5. Padding(0) = 0
        <5>1. 0 % TarBlock = 0  BY <4>4
        <5>2. TarBlock % TarBlock = 0  BY <4>4
        <5> QED  BY <4>4, <5>1, <5>2 DEF Padding
      <4>6. DataAt(current) + 0 + 0 = MemberStart[current + 1]
        <5>1. DataAt(current) + Length(Members[current]) + Padding(Length(Members[current]))
                = MemberStart[current + 1]
          BY <1>1, <4>2, TarLayout
        <5>2. Stored(Members[current]) = Length(Members[current])
          BY <1>1, <3>0, <4>2, StoredIsPart
        <5> QED  BY <4>3, <4>5, <5>1, <5>2
      <4>7. position = Places[current] /\ Places[current] = DataAt(current)
            /\ Places[current] \in Nat
        BY <1>1, <1>4, <3>0, <3>2, <4>2
      <4> QED  BY <4>6, <4>7
    <3> QED  BY <3>1, <3>2
  <2>4. SameRest(reader, reader)
    BY DEF SameRest
  <2>5. position >= position
    BY <1>1
  <2>6. reader.valid => /\ reader.valid /\ reader.offset = reader.offset
                        /\ reader.remaining = reader.remaining
    OBVIOUS
  <2> QED  BY <1>1, <2>1, <2>2, <2>3, <2>4, <2>5, <2>6, TarReadKeeps
<1> QED
  BY <1>5, <1>6

(* The readers that go by index: the next is the one after the current.        *)
LEMMA IndexNextKeeps ==
  ASSUME ArchiveTypeOK, EntryInv, ~Tar, archive' = archive, moved' = moved,
         \/ ZipNext /\ archive.kind = "zip"
         \/ ZipStreamNext /\ archive.kind = "zipstream"
         \/ OneNext /\ Single
  PROVE  NextTypes /\ EntryInv' /\ NextAdvances
<1>1. /\ archive \in Archives /\ position \in Nat /\ reader \in ReaderRec
      /\ current \in 0 .. Total /\ orderly \in BOOLEAN /\ moved \in BOOLEAN
      /\ Total \in Nat /\ FileEnd \in Nat
      /\ \A i \in 1 .. Total : /\ Places[i] = DataAt(i) /\ Places[i] \in Nat
                               /\ Sizes[i] = Stored(Members[i]) /\ Sizes[i] \in Nat
                               /\ MemberStart[i + 1] \in Nat
                               /\ Places[i] + Sizes[i] <= MemberStart[i + 1]
                               /\ MemberStart[i + 1] <= FileEnd
  BY ReaderTypes
<1>2. /\ Total' = Total /\ MemberStart' = MemberStart /\ Places' = Places /\ Sizes' = Sizes
      /\ Tar' = Tar /\ Single' = Single
  BY LayoutIsKept
<1>3. /\ reader.index = current + 1
      /\ Undisturbed' = Undisturbed
      /\ Undisturbed => /\ orderly
                        /\ reader.eof => current = Total
                        /\ Single /\ ~reader.valid => current = Total
      /\ archive.kind = "zip" /\ reader.valid =>
           /\ current >= 1 /\ reader.offset = MemberStart[current]
           /\ reader.remaining = Sizes[current]
  <2>1. Undisturbed' = Undisturbed  BY <1>1, DisturbedStays
  <2> QED
    BY <2>1 DEF EntryInv, IndexFollows, EndIsTheLast, EveryEntryIsReturned, AllReturned,
                ReaderIsOfEntry
<1>4. Single => Total = 1
  BY <1>1, ArchiveAssumption DEF Single, Total, Members
<1>5. CASE /\ found' = "done" /\ current' = current /\ orderly' = orderly
           /\ position' = position
           /\ reader' = reader \/ reader' = [reader EXCEPT !.eof = TRUE]
           /\ Undisturbed => current = Total
  <2>1. /\ reader' \in ReaderRec /\ reader'.valid = reader.valid
        /\ reader'.offset = reader.offset /\ reader'.remaining = reader.remaining
        /\ reader'.index = reader.index /\ reader'.freed = reader.freed
    BY <1>1, <1>5 DEF ReaderRec
  <2>2. NextTypes
    BY <1>1, <1>5, <2>1 DEF NextTypes
  <2>3. ReaderIsOfEntry'
    BY <1>2, <1>3, <1>5, <2>1 DEF ReaderIsOfEntry
  <2>4. EntryIsMember' /\ IndexFollows'
    BY <1>2, <1>3, <1>5, <2>1 DEF EntryIsMember, IndexFollows
  <2>5. TarIsInPlace' /\ EndIsTheLast' /\ EveryEntryIsReturned'
    BY <1>2, <1>3, <1>5 DEF TarIsInPlace, EndIsTheLast, EveryEntryIsReturned, AllReturned
  <2>6. NextAdvances
    BY <1>1, <1>2, <1>5 DEF NextAdvances, Behind
  <2> QED  BY <2>2, <2>3, <2>4, <2>5, <2>6 DEF EntryInv
<1>6. CASE /\ found' = "entry" /\ current' = current + 1 /\ current < Total
           /\ orderly' = (orderly /\ current' = current + 1)
           /\ position' \in Nat
           /\ ReadsOn => position' = position
           /\ reader' \in ReaderRec /\ reader'.index = current + 2
           /\ reader'.freed = reader.freed /\ reader'.eof = reader.eof
           /\ archive.kind = "zip" =>
                /\ reader'.offset = MemberStart[current']
                /\ reader'.remaining = Sizes[current']
           /\ Single => reader'.valid = reader.valid
  <2>1. current' \in 1 .. Total
    BY <1>1, <1>6
  <2>2. NextTypes
    BY <1>1, <1>6, <2>1 DEF NextTypes
  <2>3. ReaderIsOfEntry'
    BY <1>2, <1>6, <2>1 DEF ReaderIsOfEntry
  <2>4. EntryIsMember' /\ IndexFollows'
    <3>1. reader'.index = current' + 1  BY <1>1, <1>6
    <3> QED  BY <1>2, <2>1, <3>1 DEF EntryIsMember, IndexFollows
  <2>5. TarIsInPlace' /\ EndIsTheLast' /\ EveryEntryIsReturned'
    <3>1. ASSUME Undisturbed PROVE ~reader'.eof /\ orderly'
      <4>1. current # Total  BY <1>1, <1>6
      <4>2. ~reader.eof  BY <1>3, <3>1, <4>1
      <4> QED  BY <1>3, <1>6, <3>1, <4>2
    <3>2. Single => current' = Total
      BY <1>1, <1>4, <2>1
    <3> QED  BY <1>2, <1>3, <1>6, <3>1, <3>2
             DEF TarIsInPlace, EndIsTheLast, EveryEntryIsReturned, AllReturned
  <2>6. NextAdvances
    BY <1>1, <1>2, <1>6 DEF NextAdvances, Behind
  <2> QED  BY <2>2, <2>3, <2>4, <2>5, <2>6 DEF EntryInv
<1>7. ASSUME NEW i, i = reader.index, i <= Total, NEW o \in Nat, NEW p \in Nat, Listed(i, o, p),
             archive.kind = "zip" => o = MemberStart[i], ~ReadsOn, ~Single
      PROVE  /\ found' = "entry" /\ current' = current + 1 /\ current < Total
             /\ orderly' = (orderly /\ current' = current + 1)
             /\ position' \in Nat
             /\ ReadsOn => position' = position
             /\ reader' \in ReaderRec /\ reader'.index = current + 2
             /\ reader'.freed = reader.freed /\ reader'.eof = reader.eof
             /\ archive.kind = "zip" =>
                  /\ reader'.offset = MemberStart[current']
                  /\ reader'.remaining = Sizes[current']
             /\ Single => reader'.valid = reader.valid
  <2>1. i = current + 1 /\ i \in 1 .. Total /\ current < Total
    BY <1>1, <1>3, <1>7
  <2>2. /\ found' = "entry" /\ current' = i /\ orderly' = (orderly /\ i = current + 1)
        /\ position' = p
    BY <1>7 DEF Listed, ReturnEntry
  <2> DEFINE n == Members[i].size
  <2>3. reader' = [reader EXCEPT !.valid = TRUE, !.offset = o, !.remaining = n, !.index = i + 1]
    BY <1>7 DEF Listed
  <2>4. n \in Nat /\ n = Sizes[i]
    <3>1. Members[i] \in MemberRec  BY <1>1, <2>1, Placed
    <3>2. Members[i].type # "hardlink"
      BY <1>1, <2>1, ArchiveAssumption DEF Tar, Members, Total
    <3>3. Stored(Members[i]) = n  BY <3>2 DEF Stored
    <3> QED  BY <1>1, <2>1, <3>1, <3>3 DEF MemberRec
  <2>5. i + 1 \in Nat /\ i + 1 = current + 2
    BY <1>1, <2>1
  <2> DEFINE j == i + 1
  <2>6. reader' \in ReaderRec
    <3>1. reader' = [reader EXCEPT !.valid = TRUE, !.offset = o, !.remaining = n, !.index = j]
      BY <2>3
    <3>2. n \in Nat /\ j \in Nat /\ o \in Int  BY <1>7, <2>4, <2>5
    <3>3. reader \in ReaderRec  BY <1>1
    <3> HIDE DEF n, j
    <3> QED  BY <3>1, <3>2, <3>3 DEF ReaderRec
  <2> HIDE DEF n
  <2>7. /\ reader'.offset = o /\ reader'.remaining = n /\ reader'.index = i + 1
        /\ reader'.freed = reader.freed /\ reader'.eof = reader.eof
    BY <1>1, <2>3 DEF ReaderRec
  <2> QED  BY <1>7, <2>1, <2>2, <2>4, <2>5, <2>6, <2>7
<1>8. ~ReadsOn \/ Single
  BY DEF ReadsOn, Single
<1>9. CASE ZipNext /\ archive.kind = "zip"
  <2>1. ~Single /\ ~ReadsOn  BY <1>9 DEF Single, ReadsOn
  <2>2. CASE reader.eof \/ reader.index > Total
    <3>1. NoEntry("done", position) /\ reader' = [reader EXCEPT !.eof = TRUE]
      BY <1>9, <2>2 DEF ZipNext
    <3>2. Undisturbed => current = Total
      BY <1>1, <1>3, <2>2
    <3> QED  BY <1>5, <3>1, <3>2 DEF NoEntry
  <2>3. CASE ~(reader.eof \/ reader.index > Total)
    <3> DEFINE i == reader.index  o == MemberStart[i]
    <3>1. Listed(i, o, position)
      BY <1>9, <2>3 DEF ZipNext
    <3>2. i \in 1 .. Total + 1 /\ i <= Total
      BY <1>1, <1>3, <2>3
    <3>3. o \in Nat
      BY <1>1, <3>2, Placed
    <3> HIDE DEF i, o
    <3>4. i = reader.index /\ o = MemberStart[i]
      BY DEF i, o
    <3> QED  BY <1>1, <1>6, <1>7, <2>1, <3>1, <3>2, <3>3, <3>4
  <2> QED  BY <2>2, <2>3
<1>10. CASE ZipStreamNext /\ archive.kind = "zipstream"
  <2>1. ~Single /\ ~ReadsOn /\ archive.kind # "zip"  BY <1>10 DEF Single, ReadsOn
  <2>2. CASE reader.eof \/ reader.index > Total
    <3>1. NoEntry("done", position) /\ reader' = [reader EXCEPT !.eof = TRUE]
      BY <1>10, <2>2 DEF ZipStreamNext
    <3>2. Undisturbed => current = Total
      BY <1>1, <1>3, <2>2
    <3> QED  BY <1>5, <3>1, <3>2 DEF NoEntry
  <2>3. CASE ~(reader.eof \/ reader.index > Total)
    <3> DEFINE i == reader.index  o == DataAt(i)
    <3>1. Listed(i, o, o)
      BY <1>10, <2>3 DEF ZipStreamNext
    <3>2. i \in 1 .. Total /\ i <= Total
      BY <1>1, <1>3, <2>3
    <3>3. o \in Nat
      BY <1>1, <3>2
    <3> HIDE DEF i, o
    <3>4. i = reader.index
      BY DEF i
    <3> QED  BY <1>1, <1>6, <1>7, <2>1, <3>1, <3>2, <3>3, <3>4
  <2> QED  BY <2>2, <2>3
<1>11. CASE OneNext /\ Single
  <2>1. archive.kind # "zip"  BY <1>11 DEF Single
  <2>2. CASE ~reader.valid \/ reader.index > 1
    <3>1. NoEntry("done", position) /\ reader' = reader
      BY <1>11, <2>2 DEF OneNext
    <3>2. Undisturbed => current = Total
      BY <1>1, <1>3, <1>4, <1>11, <2>2
    <3> QED  BY <1>5, <3>1, <3>2 DEF NoEntry
  <2>3. CASE ~(~reader.valid \/ reader.index > 1)
    <3>1. /\ ReturnEntry(1) /\ reader' = [reader EXCEPT !.index = 2]
          /\ position' = position
      BY <1>11, <2>3 DEF OneNext
    <3>2. current = 0 /\ Total = 1
      BY <1>1, <1>3, <1>4, <1>11, <2>3
    <3>3. /\ reader' \in ReaderRec /\ reader'.index = 2 /\ reader'.freed = reader.freed
          /\ reader'.eof = reader.eof /\ reader'.valid = reader.valid
      BY <1>1, <3>1 DEF ReaderRec
    <3>4. /\ found' = "entry" /\ current' = current + 1
          /\ orderly' = (orderly /\ current' = current + 1)
      BY <3>1, <3>2 DEF ReturnEntry
    <3> QED  BY <1>1, <1>6, <2>1, <3>1, <3>2, <3>3, <3>4
  <2> QED  BY <2>2, <2>3
<1> QED
  BY <1>9, <1>10, <1>11

(* arc_next, whatever the format.                                              *)
LEMMA ArcNextKeeps ==
  ASSUME ArchiveTypeOK, EntryInv, archive' = archive, moved' = moved, ArcNext
  PROVE  NextTypes /\ EntryInv' /\ NextAdvances
<1>1. archive.kind \in ArchiveKinds
  BY ArchiveAssumption DEF ArchiveTypeOK
<1>2. CASE Tar
  <2>1. archive.kind # "zip" /\ archive.kind # "zipstream"
    BY <1>2 DEF Tar, TarKinds
  <2>2. TarNext
    BY <1>2, <2>1 DEF ArcNext
  <2> QED  BY <1>2, <2>2, TarNextKeeps
<1>3. CASE ~Tar
  <2>1. \/ ZipNext /\ archive.kind = "zip"
        \/ ZipStreamNext /\ archive.kind = "zipstream"
        \/ OneNext /\ Single
    <3>1. archive.kind \in {"zip", "zipstream"} \/ Single
      BY <1>1, <1>3 DEF ArchiveKinds, Tar, Single
    <3>2. CASE archive.kind = "zip"  BY <1>3, <3>2 DEF ArcNext
    <3>3. CASE archive.kind = "zipstream"  BY <1>3, <3>3 DEF ArcNext
    <3>4. CASE Single
      <4>1. archive.kind # "zip" /\ archive.kind # "zipstream"  BY <3>4 DEF Single
      <4>2. OneNext  BY <1>3, <4>1 DEF ArcNext
      <4> QED  BY <3>4, <4>2
    <3> QED  BY <3>1, <3>2, <3>3, <3>4
  <2> QED  BY <1>3, <2>1, IndexNextKeeps
<1> QED
  BY <1>2, <1>3

(* Calls that leave the entry alone, and a TAR's position unless they read.    *)
LEMMA EntryStays ==
  ASSUME EntryInv, archive' = archive, current' = current, orderly' = orderly,
         found' = found \/ found' = "handled",
         reader'.valid = reader.valid, reader'.offset = reader.offset,
         reader'.remaining = reader.remaining, reader'.index = reader.index,
         reader'.eof = reader.eof,
         \/ moved' = moved /\ position' = position
         \/ moved' = moved /\ ~Tar
         \/ moved' = TRUE
  PROVE  EntryInv'
<1>1. /\ Total' = Total /\ MemberStart' = MemberStart /\ Places' = Places /\ Sizes' = Sizes
      /\ Tar' = Tar /\ Single' = Single
  BY LayoutIsKept
<1>2. EntryIsMember'
  BY DEF EntryInv, EntryIsMember
<1>3. ReaderIsOfEntry' /\ IndexFollows'
  BY <1>1 DEF EntryInv, ReaderIsOfEntry, IndexFollows
<1>4. CASE moved' = TRUE
  <2>1. TarIsInPlace' /\ EndIsTheLast' /\ EveryEntryIsReturned'
    BY <1>4 DEF TarIsInPlace, EndIsTheLast, EveryEntryIsReturned, Undisturbed
  <2> QED  BY <1>2, <1>3, <2>1 DEF EntryInv
<1>5. CASE moved' = moved /\ (position' = position \/ ~Tar)
  <2>0. Undisturbed' = Undisturbed
    BY <1>5, DisturbedStays
  <2>1. TarIsInPlace'
    BY <1>1, <1>5, <2>0 DEF EntryInv, TarIsInPlace
  <2>2. EndIsTheLast' /\ EveryEntryIsReturned'
    BY <1>1, <1>5, <2>0 DEF EntryInv, EndIsTheLast, EveryEntryIsReturned, AllReturned
  <2> QED  BY <1>2, <1>3, <2>1, <2>2 DEF EntryInv
<1> QED
  BY <1>4, <1>5

(* Skipping the data of the entry that was returned.                           *)
SkipEffect ==
  LET p == IF Tar THEN SkipPaddedFrom(position, reader.remaining) ELSE position
  IN IF p < 0 THEN position' = FileEnd /\ UNCHANGED reader
     ELSE /\ position' = p
          /\ reader' = [reader EXCEPT !.remaining = 0, !.valid = FALSE]

LEMMA SkipKeeps ==
  ASSUME ArchiveTypeOK, EntryInv, found = "entry", SkipEffect,
         archive' = archive, current' = current, orderly' = orderly, moved' = moved,
         found' = found \/ found' = "handled"
  PROVE  /\ EntryInv' /\ position' \in Nat /\ reader' \in ReaderRec
         /\ reader'.freed = reader.freed
         /\ ReadsOn => position' = position
         /\ Behind => Behind'
<1>1. /\ archive \in Archives /\ position \in Nat /\ reader \in ReaderRec
      /\ current \in 0 .. Total /\ orderly \in BOOLEAN /\ moved \in BOOLEAN
      /\ Total \in Nat /\ FileEnd \in Nat
      /\ \A i \in 1 .. Total : /\ Places[i] = DataAt(i) /\ Places[i] \in Nat
                               /\ Sizes[i] = Stored(Members[i]) /\ Sizes[i] \in Nat
                               /\ MemberStart[i + 1] \in Nat
                               /\ Places[i] + Sizes[i] <= MemberStart[i + 1]
                               /\ MemberStart[i + 1] <= FileEnd
  BY ReaderTypes
<1>2. /\ Total' = Total /\ MemberStart' = MemberStart /\ Places' = Places /\ Sizes' = Sizes
      /\ Tar' = Tar /\ Single' = Single /\ Undisturbed' = Undisturbed
  <2>1. Undisturbed' = Undisturbed  BY <1>1, DisturbedStays
  <2> QED  BY <2>1, LayoutIsKept
<1>3. current \in 1 .. Total
  BY <1>1 DEF EntryInv, EntryIsMember
<1>4. Single => current = Total
  <2>1. Single => Total = 1
    BY <1>1, ArchiveAssumption DEF Single, Total, Members
  <2> QED  BY <1>1, <1>3, <2>1
<1> DEFINE n == reader.remaining
           p == IF Tar THEN SkipPaddedFrom(position, n) ELSE position
           r == [reader EXCEPT !.remaining = 0, !.valid = FALSE]
<1>5. IF p < 0 THEN position' = FileEnd /\ reader' = reader ELSE position' = p /\ reader' = r
  BY DEF SkipEffect
<1>6. /\ r \in ReaderRec /\ r.remaining = 0 /\ r.valid = FALSE
      /\ r.index = reader.index /\ r.eof = reader.eof /\ r.freed = reader.freed
  BY <1>1 DEF ReaderRec
<1>7. Tar => /\ p \in Nat \cup {-1} /\ (p >= 0 => p >= position)
             /\ Undisturbed /\ ~reader.eof => p = MemberStart[current + 1]
             /\ p < 0 => ~ReadsOn
  <2> SUFFICES ASSUME Tar
               PROVE  /\ p \in Nat \cup {-1} /\ (p >= 0 => p >= position)
                      /\ Undisturbed /\ ~reader.eof => p = MemberStart[current + 1]
                      /\ p < 0 => ~ReadsOn
    OBVIOUS
  <2>1. ~ReadsOn  BY DEF ReadsOn, Tar, TarKinds
  <2>2. Members[current] \in MemberRec  BY <1>1, <1>3, Placed
  <2>3. CASE reader.valid
    <3>1. n = Sizes[current] /\ n = Stored(Members[current])
      BY <1>1, <1>3, <2>3 DEF EntryInv, ReaderIsOfEntry
    <3> DEFINE q == Padding(n)  m == Members[current]
    <3>2. n \in Nat  BY <1>1 DEF ReaderRec
    <3>3. /\ q \in Nat /\ p \in {-1, position + n + q}
          /\ position + n + q <= FileEnd => p = position + n + q
      <4>1. m \in MemberRec /\ n = Stored(m)  BY <2>2, <3>1
      <4> HIDE DEF m, n
      <4>2. p = SkipPaddedFrom(position, n)  OBVIOUS
      <4> HIDE DEF p
      <4> QED  BY <1>1, <3>2, <4>1, <4>2, SkipGoesOver
    <3>4. Undisturbed /\ ~reader.eof => position = Places[current]
      BY <2>3 DEF EntryInv, TarIsInPlace
    <3>5. /\ Undisturbed => Places[current] + n + q = MemberStart[current + 1]
          /\ MemberStart[current + 1] <= FileEnd /\ MemberStart[current + 1] \in Nat
      <4>1. DataAt(current) + Length(Members[current]) + Padding(Length(Members[current]))
              = MemberStart[current + 1]
        BY <1>1, <1>3, TarLayout
      <4>2. Undisturbed => Stored(Members[current]) = Length(Members[current])
        BY <1>1, <1>3, StoredIsPart
      <4>3. Undisturbed => Places[current] + n + q = MemberStart[current + 1]
        BY <1>1, <1>3, <3>1, <4>1, <4>2
      <4> HIDE DEF n, q
      <4> QED  BY <1>1, <1>3, <4>3
    <3> HIDE DEF n, p, q
    <3> QED  BY <1>1, <2>1, <3>2, <3>3, <3>4, <3>5
  <2>4. CASE ~reader.valid
    <3>1. n = 0  BY <2>4 DEF EntryInv, ReaderIsOfEntry
    <3>2. TarBlock \in Nat /\ TarBlock > 0  BY ArchiveAssumption
    <3>3. Padding(0) = 0
      <4>1. 0 % TarBlock = 0  BY <3>2
      <4>2. TarBlock % TarBlock = 0  BY <3>2
      <4> QED  BY <3>2, <4>1, <4>2 DEF Padding
    <3>4. p \in {-1, position} /\ (position <= FileEnd => p = position)
      <4>1. SkipFrom(position, 0) \in {-1, position}
        BY <1>1 DEF SkipFrom
      <4>2. position <= FileEnd => SkipFrom(position, 0) = position
        BY <1>1 DEF SkipFrom
      <4>3. p = IF SkipFrom(position, 0) < 0 THEN -1
                ELSE SkipFrom(SkipFrom(position, 0), Padding(0))
        BY <3>1 DEF SkipPaddedFrom
      <4> HIDE DEF p
      <4> QED  BY <1>1, <3>3, <4>1, <4>2, <4>3
    <3>5. Undisturbed /\ ~reader.eof => position = MemberStart[current + 1]
      BY <2>4 DEF EntryInv, TarIsInPlace
    <3>6. MemberStart[current + 1] <= FileEnd
      BY <1>1, <1>3
    <3> HIDE DEF n, p
    <3> QED  BY <1>1, <2>1, <3>4, <3>5, <3>6
  <2> QED  BY <2>3, <2>4
<1>8. ~Tar => p = position
  OBVIOUS
<1> HIDE DEF p, r
<1>9. CASE p < 0
  <2>1. Tar  BY <1>1, <1>8, <1>9
  <2>2. position' = FileEnd /\ reader' = reader  BY <1>5, <1>9
  <2>3. Undisturbed => reader.eof
    <3>1. MemberStart[current + 1] \in Nat  BY <1>1, <1>3
    <3>2. MemberStart[current + 1] # p
      <4> DEFINE t == MemberStart[current + 1]
      <4>1. t \in Nat  BY <3>1
      <4> HIDE DEF t
      <4>2. t # p  BY <1>9, <4>1
      <4> QED  BY <4>2 DEF t
    <3> QED  BY <1>7, <2>1, <3>2
  <2>4. EntryIsMember' /\ ReaderIsOfEntry' /\ IndexFollows'
    BY <1>2, <2>2 DEF EntryInv, EntryIsMember, ReaderIsOfEntry, IndexFollows
  <2>5. TarIsInPlace' /\ EndIsTheLast' /\ EveryEntryIsReturned'
    <3>1. TarIsInPlace'
      BY <1>2, <2>2, <2>3 DEF EntryInv, TarIsInPlace
    <3>2. EndIsTheLast' /\ EveryEntryIsReturned'
      BY <1>2, <2>2 DEF EntryInv, EndIsTheLast, EveryEntryIsReturned, AllReturned
    <3> QED  BY <3>1, <3>2
  <2>6. Behind'
    <3>1. Places[current] <= FileEnd
      <4>1. /\ Places[current] \in Nat /\ Sizes[current] \in Nat
            /\ MemberStart[current + 1] \in Nat
            /\ Places[current] + Sizes[current] <= MemberStart[current + 1]
            /\ MemberStart[current + 1] <= FileEnd
        BY <1>1, <1>3
      <4> QED  BY <1>1, <4>1
    <3> QED  BY <1>1, <1>2, <1>3, <2>2, <3>1 DEF Behind
  <2>7. ~ReadsOn
    BY <1>7, <1>9, <2>1
  <2> QED  BY <1>1, <2>2, <2>4, <2>5, <2>6, <2>7 DEF EntryInv
<1>10. CASE ~(p < 0)
  <2>1. position' = p /\ reader' = r /\ p \in Nat /\ p >= position
    BY <1>1, <1>5, <1>7, <1>8, <1>10
  <2>2. /\ reader'.remaining = 0 /\ reader'.valid = FALSE /\ reader' \in ReaderRec
        /\ reader'.index = reader.index /\ reader'.eof = reader.eof
        /\ reader'.freed = reader.freed
    BY <1>6, <2>1
  <2>3. EntryIsMember' /\ ReaderIsOfEntry' /\ IndexFollows'
    BY <1>2, <2>2 DEF EntryInv, EntryIsMember, ReaderIsOfEntry, IndexFollows
  <2>4. TarIsInPlace'
    BY <1>2, <1>7, <2>1, <2>2 DEF EntryInv, TarIsInPlace
  <2>5. EndIsTheLast' /\ EveryEntryIsReturned'
    BY <1>2, <1>4, <2>2 DEF EntryInv, EndIsTheLast, EveryEntryIsReturned, AllReturned
  <2>6. ReadsOn => position' = position
    <3>1. ReadsOn => ~Tar  BY DEF ReadsOn, Tar, TarKinds
    <3> QED  BY <1>8, <2>1, <3>1
  <2>7. Behind => Behind'
    <3>1. Places[current] \in Nat  BY <1>1, <1>3
    <3> QED  BY <1>1, <1>2, <1>3, <2>1, <3>1 DEF Behind
  <2> QED  BY <2>1, <2>2, <2>3, <2>4, <2>5, <2>6, <2>7 DEF EntryInv
<1> QED
  BY <1>9, <1>10

-----------------------------------------------------------------------------
(* Data streams *)

(* In the readers of one file the data starts the stream, and is all of it.    *)
LEMMA SingleIsAll ==
  ASSUME archive \in Archives, Single
  PROVE  /\ Total = 1 /\ DataAt(1) = 0 /\ FileEnd = Stored(Members[1])
         /\ Stored(Members[1]) = Members[1].size /\ Members[1].size \in Nat
<1>1. Total = 1
  BY ArchiveAssumption DEF Single, Total, Members
<1>2. ~Tar /\ archive.kind \notin {"zip", "zipstream"}
  BY DEF Single, Tar, TarKinds
<1>3. Members[1] \in MemberRec /\ MemberStart[1] = 0
      /\ MemberStart[1 + 1] = MemberStart[1] + Extent(Members[1])
  BY <1>1, Placed
<1>4. Lead(Members[1]) = 0 /\ Extent(Members[1]) = 0 + Stored(Members[1])
  <2>1. Lead(Members[1]) = 0 /\ Extent(Members[1]) = Lead(Members[1]) + Length(Members[1])
    BY <1>2 DEF Lead, Extent
  <2>2. Stored(Members[1]) = Length(Members[1])
    BY <1>1, <1>2, StoredIsPart
  <2> QED  BY <2>1, <2>2
<1>5. Members[1].type # "hardlink" /\ Members[1].size \in Nat
  <2>1. Members[1].type # "hardlink"
    BY <1>1, <1>2, ArchiveAssumption DEF Tar, Members, Total
  <2> QED  BY <1>3, <2>1 DEF MemberRec
<1>6. Stored(Members[1]) = Members[1].size
  BY <1>5 DEF Stored
<1>7. DataAt(1) = 0
  BY <1>3, <1>4 DEF DataAt
<1>8. FileEnd = MemberStart[Total + 1] + 0
  BY <1>2 DEF FileEnd
<1>9. FileEnd = Stored(Members[1])
  <2>1. Total + 1 = 1 + 1  BY <1>1
  <2>2. FileEnd = MemberStart[1 + 1] + 0  BY <1>8, <2>1
  <2> HIDE DEF MemberStart
  <2> QED  BY <1>3, <1>4, <1>5, <1>6, <2>2
<1> QED
  BY <1>1, <1>5, <1>6, <1>7, <1>9

(* The window that opening the current entry's data gives.                     *)
LEMMA OpenedIsOfEntry ==
  ASSUME ArchiveTypeOK, EntryInv, found = "entry", OpenedData # NoStream
  PROVE  /\ current \in 1 .. Total /\ OpenedData \in StreamRec
         /\ OpenedData.of = current /\ OpenedData.at = 0
         /\ IF ReadsOn THEN OpenedData.offset = 0
            ELSE /\ OpenedData.offset = Places[current]
                 /\ OpenedData.length <= Sizes[current]
<1>1. /\ archive \in Archives /\ position \in Nat /\ reader \in ReaderRec
      /\ current \in 0 .. Total /\ orderly \in BOOLEAN /\ moved \in BOOLEAN
      /\ Total \in Nat /\ FileEnd \in Nat
      /\ \A i \in 1 .. Total : /\ Places[i] = DataAt(i) /\ Places[i] \in Nat
                               /\ Sizes[i] = Stored(Members[i]) /\ Sizes[i] \in Nat
                               /\ MemberStart[i + 1] \in Nat
                               /\ Places[i] + Sizes[i] <= MemberStart[i + 1]
                               /\ MemberStart[i + 1] <= FileEnd
  BY ReaderTypes
<1>2. current \in 1 .. Total
  BY <1>1 DEF EntryInv, EntryIsMember
<1>3. ASSUME NEW o \in Nat, NEW n \in Nat
      PROVE  /\ Window(o, n) \in StreamRec /\ Window(o, n).of = current
             /\ Window(o, n).at = 0 /\ Window(o, n).offset = o /\ Window(o, n).length = n
  BY <1>1 DEF Window, StreamRec
<1>4. reader.valid
  BY DEF OpenedData
<1>5. archive.kind \in ArchiveKinds
  BY <1>1, ArchiveAssumption
<1>6. CASE Tar
  <2>1. archive.kind # "zip" /\ archive.kind # "zipstream" /\ ~ReadsOn
    BY <1>6 DEF Tar, TarKinds, ReadsOn
  <2>2. OpenedData = IF reader.remaining = 0 \/ reader.offset < 0 THEN NoStream
                     ELSE Window(reader.offset, reader.remaining)
    BY <1>4, <1>6, <2>1 DEF OpenedData
  <2> DEFINE o == reader.offset  n == reader.remaining
  <2>3. OpenedData = Window(o, n) /\ ~(o < 0)
    BY <2>2
  <2>4. o \in {-1, Places[current]} /\ n = Sizes[current]
    BY <1>4, <1>6 DEF EntryInv, ReaderIsOfEntry
  <2> HIDE DEF o, n
  <2>5. o = Places[current] /\ o \in Nat /\ n \in Nat
    BY <1>1, <1>2, <2>3, <2>4
  <2>6. /\ Window(o, n) \in StreamRec /\ Window(o, n).of = current
        /\ Window(o, n).at = 0 /\ Window(o, n).offset = o /\ Window(o, n).length = n
    BY <1>3, <2>5
  <2> QED  BY <1>2, <2>1, <2>3, <2>4, <2>5, <2>6
<1>7. CASE archive.kind = "zip"
  <2>1. ~Tar /\ ~ReadsOn
    BY <1>7 DEF Tar, TarKinds, ReadsOn
  <2>2. OpenedData = IF reader.remaining = 0 THEN NoStream
                     ELSE Window(reader.offset + 1, reader.remaining)
    BY <1>4, <1>7, <2>1 DEF OpenedData
  <2> DEFINE o == reader.offset + 1  n == reader.remaining
  <2>3. OpenedData = Window(o, n)
    BY <2>2
  <2>4. reader.offset = MemberStart[current] /\ n = Sizes[current]
    BY <1>4, <1>7 DEF EntryInv, ReaderIsOfEntry
  <2>5. DataAt(current) = MemberStart[current] + 1
    <3>1. Lead(Members[current]) = 1  BY <1>7, <2>1 DEF Lead
    <3> QED  BY <3>1 DEF DataAt
  <2>6. o = Places[current]
    BY <1>1, <1>2, <2>4, <2>5
  <2> HIDE DEF o, n
  <2>7. o \in Nat /\ n \in Nat
    BY <1>1, <1>2, <2>4, <2>6
  <2>8. /\ Window(o, n) \in StreamRec /\ Window(o, n).of = current
        /\ Window(o, n).at = 0 /\ Window(o, n).offset = o /\ Window(o, n).length = n
    BY <1>3, <2>7
  <2> QED  BY <1>2, <2>1, <2>3, <2>4, <2>6, <2>7, <2>8
<1>8. CASE archive.kind = "zipstream"
  <2>1. ~Tar  BY <1>8 DEF Tar, TarKinds
  <2> QED  BY <1>4, <1>8, <2>1 DEF OpenedData
<1>9. CASE Single
  <2>1. ~Tar /\ archive.kind # "zip" /\ archive.kind # "zipstream"
    BY <1>9 DEF Tar, TarKinds, Single
  <2> DEFINE n == Members[1].size
  <2>2. OpenedData = Window(0, n)
    BY <1>4, <2>1 DEF OpenedData
  <2>3. current = 1 /\ n \in Nat /\ Places[current] = 0 /\ Sizes[current] = n
    <3>1. Total = 1 /\ DataAt(1) = 0 /\ Stored(Members[1]) = n /\ n \in Nat
      BY <1>1, <1>9, SingleIsAll
    <3>2. current = 1  BY <1>2, <3>1
    <3> QED  BY <1>1, <1>2, <3>1, <3>2
  <2> HIDE DEF n
  <2>4. /\ Window(0, n) \in StreamRec /\ Window(0, n).of = current
        /\ Window(0, n).at = 0 /\ Window(0, n).offset = 0 /\ Window(0, n).length = n
    BY <1>3, <2>3
  <2> QED  BY <1>2, <2>2, <2>3, <2>4
<1> QED
  BY <1>5, <1>6, <1>7, <1>8, <1>9 DEF ArchiveKinds, Tar, Single

(* The state of a step, when the rest of it is given by names.                 *)
LEMMA TypesOf ==
  ASSUME ArchiveTypeOK, archive' = archive, position' \in Nat, reader' \in ReaderRec,
         current' \in 0 .. Total, stream' \in StreamRec, Len(given') <= MaxRead,
         found' \in {"nothing", "entry", "handled", "done", "error"},
         moved' \in BOOLEAN, orderly' \in BOOLEAN, client' = client,
         extracted' \subseteq 1 .. Total, failures' \in 0 .. Total,
         outcome' \in {"running", "extracted", "failed"}
  PROVE  ArchiveTypeOK'
<1>1. Total' = Total
  BY LayoutIsKept
<1>2. StreamRec = [of : 0 .. Total, offset : Nat, length : Nat, at : Nat, used : Nat]
      /\ ReaderRec = [valid : BOOLEAN, offset : Int, remaining : Nat, index : Nat,
                      eof : BOOLEAN, freed : BOOLEAN]
  BY DEF StreamRec, ReaderRec
<1>3. {moved', orderly'} \subseteq BOOLEAN
  OBVIOUS
<1> QED
  BY <1>1, <1>2, <1>3 DEF ArchiveTypeOK

(* The parts of the invariant that are about a stream, when nothing that they  *)
(* mention changes.                                                            *)
LEMMA StreamStays ==
  ASSUME WindowIsOfMember, FilterIsUnread, DataIsOfTheEntry, archive' = archive,
         stream' = stream, given' = given \/ given' = << >>,
         reader'.freed = reader.freed, ReadsOn => position' = position
  PROVE  WindowIsOfMember' /\ FilterIsUnread' /\ DataIsOfTheEntry'
<1>1. /\ MemberStart' = MemberStart /\ Places' = Places /\ Sizes' = Sizes
      /\ FileEnd' = FileEnd /\ ReadsOn' = ReadsOn
  BY LayoutIsKept
<1>2. WindowIsOfMember' /\ FilterIsUnread'
  BY <1>1 DEF WindowIsOfMember, FilterIsUnread, HoldsStream
<1>3. DataIsOfTheEntry'
  BY DEF DataIsOfTheEntry
<1> QED
  BY <1>2, <1>3

(* What the invariant says of the types, for the steps of the calls.           *)
LEMMA AllTypes ==
  ASSUME ArchiveInv
  PROVE  /\ ArchiveTypeOK /\ EntryInv
         /\ archive \in Archives /\ position \in Nat /\ reader \in ReaderRec
         /\ current \in 0 .. Total /\ stream \in StreamRec /\ Len(given) <= MaxRead
         /\ found \in {"nothing", "entry", "handled", "done", "error"}
         /\ moved \in BOOLEAN /\ orderly \in BOOLEAN /\ client \in {"caller", "extract"}
         /\ extracted \subseteq 1 .. Total /\ failures \in 0 .. Total
         /\ outcome \in {"running", "extracted", "failed"}
         /\ Total \in Nat /\ FileEnd \in Nat /\ MaxRead \in Nat /\ Len(<< >>) <= MaxRead
  BY ReaderTypes, ArchiveAssumption DEF ArchiveInv, ArchiveTypeOK, ReaderRec, StreamRec

(* A read returns the units of the window's member from the stream's place.    *)
LEMMA ReadDataKeeps ==
  ASSUME ArchiveInv, client = "caller", NEW n \in 1 .. MaxRead, ReadData(n),
         UNCHANGED <<client, extracted, failures, outcome>>
  PROVE  ArchiveInv'
<1>1. /\ ArchiveTypeOK /\ EntryInv
      /\ archive \in Archives /\ position \in Nat /\ reader \in ReaderRec
      /\ current \in 0 .. Total /\ stream \in StreamRec /\ Len(given) <= MaxRead
      /\ found \in {"nothing", "entry", "handled", "done", "error"}
      /\ moved \in BOOLEAN /\ orderly \in BOOLEAN /\ client \in {"caller", "extract"}
      /\ extracted \subseteq 1 .. Total /\ failures \in 0 .. Total
      /\ outcome \in {"running", "extracted", "failed"}
      /\ Total \in Nat /\ FileEnd \in Nat /\ MaxRead \in Nat /\ Len(<< >>) <= MaxRead
  BY AllTypes
<1>2. /\ MemberStart' = MemberStart /\ Places' = Places /\ Sizes' = Sizes
      /\ FileEnd' = FileEnd /\ ReadsOn' = ReadsOn /\ Tar' = Tar
  <2>1. archive' = archive  BY DEF ReadData
  <2> QED  BY <2>1, LayoutIsKept
<1> DEFINE from == IF ReadsOn THEN position ELSE ReadFrom(stream)
           m == IF ReadsOn THEN Smaller(n, FileEnd - position) ELSE Allowed(stream, n)
<1>3. /\ HoldsStream
      /\ UNCHANGED <<archive, reader, current, orderly, found>>
      /\ IF m <= 0 \/ ~(Seekable \/ ReadsOn)
         THEN given' = << >> /\ UNCHANGED <<position, stream, moved>>
         ELSE /\ given' = Units(from, m)
              /\ position' = from + m
              /\ stream' = [stream EXCEPT !.at = @ + m, !.used = @ + m]
              /\ moved' = (moved \/ Tar)
  BY DEF ReadData
<1>4. ExtractionAdvances'
  BY <1>3 DEF ArchiveInv, ExtractionAdvances
<1>5. CASE m <= 0 \/ ~(Seekable \/ ReadsOn)
  <2>1. given' = << >> /\ UNCHANGED <<position, stream, moved>>
    BY <1>3, <1>5
  <2>2. ArchiveTypeOK'
    BY <1>1, <1>3, <2>1, TypesOf
  <2>3. EntryInv'
    BY <1>1, <1>3, <2>1, EntryStays
  <2>4. WindowIsOfMember' /\ FilterIsUnread' /\ DataIsOfTheEntry'
    BY <1>3, <2>1, StreamStays DEF ArchiveInv
  <2> QED  BY <1>4, <2>2, <2>3, <2>4 DEF ArchiveInv
<1>6. CASE ~(m <= 0 \/ ~(Seekable \/ ReadsOn))
  <2> DEFINE i == stream.of  at == stream.at  used == stream.used
  <2>1. i \in 1 .. Total /\ at \in Nat /\ used \in Nat /\ stream.length \in Nat
    BY <1>1, <1>3 DEF HoldsStream, StreamRec
  <2>2. /\ Places[i] = DataAt(i) /\ Places[i] \in Nat
        /\ Sizes[i] = Stored(Members[i]) /\ Sizes[i] \in Nat
    BY <1>1, <2>1, ReaderTypes
  <2>3. IF ReadsOn THEN at = position /\ position <= FileEnd
        ELSE stream.offset = Places[i] /\ stream.length <= Sizes[i] /\ at <= stream.length
    BY <1>3 DEF ArchiveInv, WindowIsOfMember
  <2>4. ReadsOn => DataAt(i) = 0 /\ FileEnd = Stored(Members[i])
    <3> SUFFICES ASSUME ReadsOn PROVE DataAt(i) = 0 /\ FileEnd = Stored(Members[i])
      OBVIOUS
    <3>1. Single  BY DEF Single, ReadsOn
    <3>2. i = 1  BY <1>1, <2>1, <3>1, SingleIsAll
    <3> QED  BY <1>1, <3>1, <3>2, SingleIsAll
  <2>5. /\ m \in Nat /\ m >= 1 /\ m <= n /\ from = DataAt(i) + at
        /\ at + m <= Stored(Members[i])
        /\ ReadsOn => at + m = position + m /\ position + m <= FileEnd
        /\ ~ReadsOn => at + m <= stream.length
    <3>1. CASE ReadsOn
      <4>1. m = Smaller(n, FileEnd - position) /\ from = position /\ m > 0
        <5>1. Smaller(n, FileEnd - position) \in Int  BY <1>1 DEF Smaller
        <5> QED  BY <1>1, <1>6, <3>1, <5>1
      <4>2. m \in Nat /\ m >= 1 /\ m <= n /\ m <= FileEnd - position
        BY <1>1, <4>1 DEF Smaller
      <4> HIDE DEF m, from, i, at
      <4> QED  BY <1>1, <2>1, <2>2, <2>3, <2>4, <3>1, <4>1, <4>2
    <3>2. CASE ~ReadsOn
      <4> DEFINE a == stream.length - used  rest == stream.length - at
      <4>1. a \in Int /\ rest \in Int  BY <2>1
      <4>2. m = Smaller(n, Smaller(a, rest)) /\ from = stream.offset + at
        BY <3>2 DEF Allowed, ReadFrom
      <4>3. m \in Int /\ m <= n /\ m <= rest
        <5> HIDE DEF m, a, rest
        <5> QED  BY <1>1, <4>1, <4>2 DEF Smaller
      <4>4. m >= 1
        <5> HIDE DEF m
        <5> QED  BY <1>6, <4>3
      <4>5. stream.length <= Stored(Members[i]) /\ stream.offset = DataAt(i)
        BY <2>2, <2>3, <3>2
      <4> HIDE DEF m, from, i, at, used
      <4> QED  BY <2>1, <2>2, <3>2, <4>2, <4>3, <4>4, <4>5
    <3> QED  BY <3>1, <3>2
  <2>6. /\ given' = Units(DataAt(i) + at, m) /\ position' = DataAt(i) + at + m
        /\ stream' = [stream EXCEPT !.at = @ + m, !.used = @ + m]
        /\ moved' = (moved \/ Tar)
    BY <1>3, <1>6, <2>5
  <2> HIDE DEF m, from
  <2>7. given' = [j \in 1 .. m |-> Unit(i, at + j)] /\ Len(given') = m
    <3> HIDE DEF i, at
    <3>1. at + m <= Stored(Members[i]) /\ m \in Nat  BY <2>5
    <3>2. /\ Stored(Members[i]) <= Length(Members[i]) /\ Members[i] \in MemberRec
      BY <1>1, <2>1, Placed, StoredIsPart
    <3>3. Stored(Members[i]) \in Nat /\ Length(Members[i]) \in Nat
      BY <1>1, <3>2, MemberSizes
    <3>4. at + m <= Length(Members[i])
      BY <2>1, <3>1, <3>2, <3>3
    <3> QED  BY <1>1, <2>1, <2>6, <3>1, <3>4, UnitsAreOfMember
  <2>8. /\ stream' \in StreamRec /\ stream'.of = i /\ stream'.at = at + m
        /\ stream'.offset = stream.offset /\ stream'.length = stream.length
    <3> DEFINE a == at + m  u == used + m
    <3>1. a \in Nat /\ u \in Nat  BY <2>1, <2>5
    <3>2. stream' = [stream EXCEPT !.at = a, !.used = u]  BY <2>6
    <3> HIDE DEF a, u
    <3>3. /\ stream' \in StreamRec /\ stream'.of = i /\ stream'.at = a
          /\ stream'.offset = stream.offset /\ stream'.length = stream.length
      BY <1>1, <3>1, <3>2 DEF StreamRec
    <3> QED  BY <3>3 DEF a
  <2>9. ArchiveTypeOK'
    <3>1. position' \in Nat
      <4> HIDE DEF i, at
      <4> QED  BY <2>1, <2>2, <2>5, <2>6
    <3>2. Len(given') <= MaxRead  BY <1>1, <2>5, <2>7
    <3>3. moved' \in BOOLEAN  BY <1>1, <2>6 DEF Tar
    <3>4. /\ reader' \in ReaderRec /\ current' \in 0 .. Total
          /\ found' \in {"nothing", "entry", "handled", "done", "error"}
          /\ orderly' \in BOOLEAN
      BY <1>1, <1>3
    <3> QED  BY <1>1, <1>3, <2>8, <3>1, <3>2, <3>3, <3>4, TypesOf
  <2>10. EntryInv'
    <3>1. moved' = TRUE \/ (moved' = moved /\ ~Tar)
      BY <1>1, <2>6 DEF Tar
    <3> QED  BY <1>1, <1>3, <3>1, EntryStays
  <2>11. WindowIsOfMember'
    <3>1. CASE ReadsOn
      <4>1. DataAt(i) = 0  BY <2>4, <3>1
      <4>2. position' = at + m
        <5> HIDE DEF i, at
        <5> QED  BY <2>1, <2>5, <2>6, <4>1
      <4>3. position' <= FileEnd  BY <2>5, <3>1, <4>2
      <4> QED  BY <1>2, <2>8, <3>1, <4>2, <4>3 DEF WindowIsOfMember
    <3>2. CASE ~ReadsOn
      <4>1. at + m <= stream.length /\ stream.offset = Places[i] /\ stream.length <= Sizes[i]
        BY <2>3, <2>5, <3>2
      <4> HIDE DEF i, at
      <4> QED  BY <1>2, <2>8, <3>2, <4>1 DEF WindowIsOfMember
    <3> QED  BY <3>1, <3>2
  <2>12. FilterIsUnread'
    BY <1>3, <2>8 DEF FilterIsUnread, HoldsStream
  <2>13. DataIsOfTheEntry'
    <3>1. \A j \in 1 .. m : (at + m) - m + j = at + j
      BY <2>1, <2>5
    <3>2. given' = [j \in 1 .. Len(given') |->
                      Unit(stream'.of, stream'.at - Len(given') + j)]
      <4> HIDE DEF i, at
      <4> QED  BY <2>7, <2>8, <3>1
    <3> QED  BY <3>2 DEF DataIsOfTheEntry
  <2> QED  BY <1>4, <2>9, <2>10, <2>11, <2>12, <2>13 DEF ArchiveInv
<1> QED
  BY <1>5, <1>6

(* A seek stays inside of the window.                                          *)
LEMMA SeekDataKeeps ==
  ASSUME ArchiveInv, client = "caller", NEW p \in 0 .. stream.length, SeekData(p),
         UNCHANGED <<client, extracted, failures, outcome>>
  PROVE  ArchiveInv'
<1>1. /\ ArchiveTypeOK /\ EntryInv
      /\ archive \in Archives /\ position \in Nat /\ reader \in ReaderRec
      /\ current \in 0 .. Total /\ stream \in StreamRec /\ Len(given) <= MaxRead
      /\ found \in {"nothing", "entry", "handled", "done", "error"}
      /\ moved \in BOOLEAN /\ orderly \in BOOLEAN /\ client \in {"caller", "extract"}
      /\ extracted \subseteq 1 .. Total /\ failures \in 0 .. Total
      /\ outcome \in {"running", "extracted", "failed"}
      /\ Total \in Nat /\ FileEnd \in Nat /\ MaxRead \in Nat /\ Len(<< >>) <= MaxRead
  BY AllTypes
<1>2. /\ HoldsStream /\ ~ReadsOn /\ p <= stream.length
      /\ stream' = [stream EXCEPT !.at = p] /\ given' = << >>
      /\ UNCHANGED <<archive, position, reader, current, orderly, found, moved>>
  BY DEF SeekData
<1>3. /\ stream' \in StreamRec /\ stream'.of = stream.of /\ stream'.at = p
      /\ stream'.offset = stream.offset /\ stream'.length = stream.length
  <2>1. p \in Nat  BY <1>1 DEF StreamRec
  <2> QED  BY <1>1, <1>2, <2>1 DEF StreamRec
<1>4. ArchiveTypeOK'
  BY <1>1, <1>2, <1>3, TypesOf
<1>5. EntryInv'
  BY <1>1, <1>2, EntryStays
<1>6. WindowIsOfMember' /\ FilterIsUnread'
  <2>1. MemberStart' = MemberStart /\ Places' = Places /\ Sizes' = Sizes /\ ReadsOn' = ReadsOn
    BY <1>2, LayoutIsKept
  <2>2. WindowIsOfMember'
    BY <1>2, <1>3, <2>1 DEF ArchiveInv, WindowIsOfMember, HoldsStream
  <2>3. FilterIsUnread'
    BY <1>2, <2>1 DEF FilterIsUnread
  <2> QED  BY <2>2, <2>3
<1>7. DataIsOfTheEntry' /\ ExtractionAdvances'
  <2>1. DataIsOfTheEntry'  BY <1>2 DEF DataIsOfTheEntry
  <2>2. ExtractionAdvances'  BY <1>2 DEF ArchiveInv, ExtractionAdvances
  <2> QED  BY <2>1, <2>2
<1> QED
  BY <1>4, <1>5, <1>6, <1>7 DEF ArchiveInv

(* After a close no window is held, and a filter that was read is gone.        *)
LEMMA CloseDataKeeps ==
  ASSUME ArchiveInv, client = "caller", CloseData,
         UNCHANGED <<client, extracted, failures, outcome>>
  PROVE  ArchiveInv'
<1>1. /\ ArchiveTypeOK /\ EntryInv
      /\ archive \in Archives /\ position \in Nat /\ reader \in ReaderRec
      /\ current \in 0 .. Total /\ stream \in StreamRec /\ Len(given) <= MaxRead
      /\ found \in {"nothing", "entry", "handled", "done", "error"}
      /\ moved \in BOOLEAN /\ orderly \in BOOLEAN /\ client \in {"caller", "extract"}
      /\ extracted \subseteq 1 .. Total /\ failures \in 0 .. Total
      /\ outcome \in {"running", "extracted", "failed"}
      /\ Total \in Nat /\ FileEnd \in Nat /\ MaxRead \in Nat /\ Len(<< >>) <= MaxRead
  BY AllTypes
<1>2. /\ stream' = NoStream /\ given' = << >> /\ reader' = [reader EXCEPT !.freed = ReadsOn]
      /\ UNCHANGED <<archive, position, current, orderly, found, moved>>
  BY DEF CloseData
<1>3. /\ reader' \in ReaderRec /\ reader'.valid = reader.valid
      /\ reader'.offset = reader.offset /\ reader'.remaining = reader.remaining
      /\ reader'.index = reader.index /\ reader'.eof = reader.eof
      /\ reader'.freed = ReadsOn
  <2>1. ReadsOn \in BOOLEAN  BY DEF ReadsOn
  <2> QED  BY <1>1, <1>2, <2>1 DEF ReaderRec
<1>4. NoStream \in StreamRec /\ NoStream.of = 0
  BY <1>1 DEF NoStream, StreamRec
<1>5. ArchiveTypeOK'
  BY <1>1, <1>2, <1>3, <1>4, TypesOf
<1>6. EntryInv'
  BY <1>1, <1>2, <1>3, EntryStays
<1>7. WindowIsOfMember' /\ FilterIsUnread'
  <2>1. ReadsOn' = ReadsOn
    BY <1>2, LayoutIsKept
  <2>2. ~HoldsStream'
    BY <1>2, <1>4 DEF HoldsStream
  <2>3. WindowIsOfMember'
    BY <2>2 DEF WindowIsOfMember
  <2>4. FilterIsUnread'
    BY <1>3, <2>1 DEF FilterIsUnread
  <2> QED  BY <2>3, <2>4
<1>8. DataIsOfTheEntry' /\ ExtractionAdvances'
  <2>1. DataIsOfTheEntry'  BY <1>2 DEF DataIsOfTheEntry
  <2>2. ExtractionAdvances'  BY <1>2 DEF ArchiveInv, ExtractionAdvances
  <2> QED  BY <2>1, <2>2
<1> QED
  BY <1>5, <1>6, <1>7, <1>8 DEF ArchiveInv

(* arc_next between reads of a data stream: it may move the shared stream, and *)
(* the window still knows its place.                                           *)
LEMMA CallNextKeeps ==
  ASSUME ArchiveInv, client = "caller", CallNext,
         UNCHANGED <<client, extracted, failures, outcome>>
  PROVE  ArchiveInv'
<1>1. /\ ArchiveTypeOK /\ EntryInv
      /\ archive \in Archives /\ position \in Nat /\ reader \in ReaderRec
      /\ current \in 0 .. Total /\ stream \in StreamRec /\ Len(given) <= MaxRead
      /\ found \in {"nothing", "entry", "handled", "done", "error"}
      /\ moved \in BOOLEAN /\ orderly \in BOOLEAN /\ client \in {"caller", "extract"}
      /\ extracted \subseteq 1 .. Total /\ failures \in 0 .. Total
      /\ outcome \in {"running", "extracted", "failed"}
      /\ Total \in Nat /\ FileEnd \in Nat /\ MaxRead \in Nat /\ Len(<< >>) <= MaxRead
  BY AllTypes
<1>2. ArcNext /\ given' = << >> /\ archive' = archive /\ stream' = stream /\ moved' = moved
  BY DEF CallNext
<1>3. NextTypes /\ EntryInv'
  BY <1>1, <1>2, ArcNextKeeps
<1>4. ArchiveTypeOK'
  <2>1. found' \in {"nothing", "entry", "handled", "done", "error"}
    BY <1>3 DEF NextTypes
  <2> QED  BY <1>1, <1>2, <1>3, <2>1, TypesOf DEF NextTypes
<1>5. WindowIsOfMember' /\ FilterIsUnread' /\ DataIsOfTheEntry'
  BY <1>2, <1>3, StreamStays DEF ArchiveInv, NextTypes
<1>6. ExtractionAdvances'
  BY DEF ArchiveInv, ExtractionAdvances
<1> QED
  BY <1>3, <1>4, <1>5, <1>6 DEF ArchiveInv

(* Opening the entry's data gives a window on the current member.              *)
LEMMA CallOpenDataKeeps ==
  ASSUME ArchiveInv, client = "caller", CallOpenData,
         UNCHANGED <<client, extracted, failures, outcome>>
  PROVE  ArchiveInv'
<1>1. /\ ArchiveTypeOK /\ EntryInv
      /\ archive \in Archives /\ position \in Nat /\ reader \in ReaderRec
      /\ current \in 0 .. Total /\ stream \in StreamRec /\ Len(given) <= MaxRead
      /\ found \in {"nothing", "entry", "handled", "done", "error"}
      /\ moved \in BOOLEAN /\ orderly \in BOOLEAN /\ client \in {"caller", "extract"}
      /\ extracted \subseteq 1 .. Total /\ failures \in 0 .. Total
      /\ outcome \in {"running", "extracted", "failed"}
      /\ Total \in Nat /\ FileEnd \in Nat /\ MaxRead \in Nat /\ Len(<< >>) <= MaxRead
  BY AllTypes
<1>2. /\ found = "entry" /\ ~HoldsStream /\ ~reader.freed
      /\ stream' = OpenedData /\ position' = OpenMoves(OpenedData) /\ given' = << >>
      /\ UNCHANGED <<archive, reader, current, orderly, found, moved>>
  BY DEF CallOpenData
<1>3. NoStream \in StreamRec /\ NoStream.of = 0
  BY <1>1 DEF NoStream, StreamRec
<1>4. /\ MemberStart' = MemberStart /\ Places' = Places /\ Sizes' = Sizes
      /\ FileEnd' = FileEnd /\ ReadsOn' = ReadsOn /\ Tar' = Tar
  BY <1>2, LayoutIsKept
<1>5. ReadsOn => position = 0
  BY <1>2 DEF ArchiveInv, FilterIsUnread
<1>6. /\ OpenedData \in StreamRec
      /\ OpenedData # NoStream =>
           /\ OpenedData.of = current /\ OpenedData.at = 0
           /\ ~ReadsOn => /\ OpenedData.offset = Places[current]
                          /\ OpenedData.length <= Sizes[current]
  BY <1>1, <1>2, <1>3, OpenedIsOfEntry
<1>7. /\ position' \in Nat /\ (ReadsOn => position' = position) /\ (Tar => position' = position)
  <2>1. position' \in {position, OpenedData.offset} /\ (ReadsOn => position' = position)
        /\ (Tar => position' = position)
    BY <1>2 DEF OpenMoves, ReadsOn, Tar, TarKinds
  <2>2. OpenedData.offset \in Nat  BY <1>6 DEF StreamRec
  <2> QED  BY <1>1, <2>1, <2>2
<1>8. ArchiveTypeOK'
  BY <1>1, <1>2, <1>6, <1>7, TypesOf
<1>9. EntryInv'
  <2>1. moved' = moved /\ (position' = position \/ ~Tar)
    BY <1>2, <1>7
  <2> QED  BY <1>1, <1>2, <2>1, EntryStays
<1>10. WindowIsOfMember'
  <2>1. CASE OpenedData = NoStream
    BY <1>2, <1>3, <2>1 DEF WindowIsOfMember, HoldsStream
  <2>2. CASE OpenedData # NoStream
    <3>1. CASE ReadsOn
      BY <1>1, <1>2, <1>4, <1>5, <1>6, <1>7, <2>2, <3>1 DEF WindowIsOfMember
    <3>2. CASE ~ReadsOn
      <4>1. OpenedData.length \in Nat  BY <1>6 DEF StreamRec
      <4> QED  BY <1>2, <1>4, <1>6, <2>2, <3>2, <4>1 DEF WindowIsOfMember
    <3> QED  BY <3>1, <3>2
  <2> QED  BY <2>1, <2>2
<1>11. FilterIsUnread'
  BY <1>4, <1>5, <1>7 DEF FilterIsUnread
<1>12. DataIsOfTheEntry' /\ ExtractionAdvances'
  <2>1. DataIsOfTheEntry'  BY <1>2 DEF DataIsOfTheEntry
  <2>2. ExtractionAdvances'  BY DEF ArchiveInv, ExtractionAdvances
  <2> QED  BY <2>1, <2>2
<1> QED
  BY <1>8, <1>9, <1>10, <1>11, <1>12 DEF ArchiveInv

(* arc_skip_data.                                                              *)
LEMMA CallSkipDataKeeps ==
  ASSUME ArchiveInv, client = "caller", CallSkipData,
         UNCHANGED <<client, extracted, failures, outcome>>
  PROVE  ArchiveInv'
<1>1. /\ ArchiveTypeOK /\ EntryInv
      /\ archive \in Archives /\ position \in Nat /\ reader \in ReaderRec
      /\ current \in 0 .. Total /\ stream \in StreamRec /\ Len(given) <= MaxRead
      /\ found \in {"nothing", "entry", "handled", "done", "error"}
      /\ moved \in BOOLEAN /\ orderly \in BOOLEAN /\ client \in {"caller", "extract"}
      /\ extracted \subseteq 1 .. Total /\ failures \in 0 .. Total
      /\ outcome \in {"running", "extracted", "failed"}
      /\ Total \in Nat /\ FileEnd \in Nat /\ MaxRead \in Nat /\ Len(<< >>) <= MaxRead
  BY AllTypes
<1>2. /\ found = "entry" /\ given' = << >>
      /\ UNCHANGED <<archive, current, orderly, stream, found, moved>>
      /\ SkipEffect
  BY DEF CallSkipData, SkipEffect
<1>3. /\ EntryInv' /\ position' \in Nat /\ reader' \in ReaderRec
      /\ reader'.freed = reader.freed
      /\ ReadsOn => position' = position
  BY <1>1, <1>2, SkipKeeps
<1>4. ArchiveTypeOK'
  BY <1>1, <1>2, <1>3, TypesOf
<1>5. WindowIsOfMember' /\ FilterIsUnread' /\ DataIsOfTheEntry'
  BY <1>2, <1>3, StreamStays DEF ArchiveInv
<1>6. ExtractionAdvances'
  BY DEF ArchiveInv, ExtractionAdvances
<1> QED
  BY <1>3, <1>4, <1>5, <1>6 DEF ArchiveInv

-----------------------------------------------------------------------------
(* The extraction loop *)

(* What the copy of an entry's data does to the reader and to the counts.      *)
LEMMA CopyKeeps ==
  ASSUME ArchiveInv, client = "extract", found = "entry", CopyData,
         archive' = archive, current' = current, orderly' = orderly, found' = "handled"
  PROVE  /\ EntryInv' /\ position' \in Nat /\ reader' \in ReaderRec
         /\ moved' \in BOOLEAN
         /\ FilterIsUnread' \/ stream' # stream
         /\ Behind => Behind'
         /\ extracted' \subseteq 1 .. Total /\ failures' \in {failures, failures + 1}
<1>1. /\ ArchiveTypeOK /\ EntryInv
      /\ archive \in Archives /\ position \in Nat /\ reader \in ReaderRec
      /\ current \in 0 .. Total /\ stream \in StreamRec /\ Len(given) <= MaxRead
      /\ found \in {"nothing", "entry", "handled", "done", "error"}
      /\ moved \in BOOLEAN /\ orderly \in BOOLEAN /\ client \in {"caller", "extract"}
      /\ extracted \subseteq 1 .. Total /\ failures \in 0 .. Total
      /\ outcome \in {"running", "extracted", "failed"}
      /\ Total \in Nat /\ FileEnd \in Nat /\ MaxRead \in Nat /\ Len(<< >>) <= MaxRead
  BY AllTypes
<1>2. /\ MemberStart' = MemberStart /\ Places' = Places /\ Sizes' = Sizes
      /\ FileEnd' = FileEnd /\ ReadsOn' = ReadsOn /\ Tar' = Tar
  BY LayoutIsKept
<1>3. current \in 1 .. Total
  BY <1>1 DEF EntryInv, EntryIsMember
<1> DEFINE w == OpenedData
           n == IF ReadsOn THEN FileEnd - position ELSE w.length
<1>4. IF w = NoStream \/ ~(Seekable \/ ReadsOn)
      THEN /\ failures' = failures + 1
           /\ UNCHANGED <<position, reader, moved, extracted>>
      ELSE /\ position' = (IF ReadsOn THEN position ELSE w.offset) + n
           /\ reader' = [reader EXCEPT !.freed = ReadsOn]
           /\ moved' = (moved \/ Tar)
           /\ extracted' \subseteq extracted \cup {current}
           /\ UNCHANGED failures
  BY DEF CopyData
<1>5. CASE w = NoStream \/ ~(Seekable \/ ReadsOn)
  <2>1. failures' = failures + 1 /\ UNCHANGED <<position, reader, moved, extracted>>
    BY <1>4, <1>5
  <2>2. EntryInv'
    BY <1>1, <2>1, EntryStays
  <2>3. FilterIsUnread' \/ stream' # stream
    BY <1>2, <2>1 DEF ArchiveInv, FilterIsUnread, HoldsStream
  <2>4. Behind => Behind'
    BY <1>2, <2>1 DEF Behind
  <2> QED  BY <1>1, <2>1, <2>2, <2>3, <2>4
<1>6. CASE ~(w = NoStream \/ ~(Seekable \/ ReadsOn))
  <2>1. /\ position' = (IF ReadsOn THEN position ELSE w.offset) + n
        /\ reader' = [reader EXCEPT !.freed = ReadsOn]
        /\ moved' = (moved \/ Tar)
        /\ extracted' \subseteq extracted \cup {current}
        /\ UNCHANGED failures
    BY <1>4, <1>6
  <2>2. /\ w \in StreamRec
        /\ IF ReadsOn THEN w.offset = 0
           ELSE w.offset = Places[current] /\ w.length <= Sizes[current]
    BY <1>1, <1>6, OpenedIsOfEntry
  <2>3. w.offset \in Nat /\ w.length \in Nat
    BY <2>2 DEF StreamRec
  <2>4. position' \in Nat /\ (ReadsOn \/ position' >= Places[current])
    <3>1. CASE ReadsOn
      <4>1. position' = position + (FileEnd - position)  BY <2>1, <3>1
      <4> QED  BY <1>1, <3>1, <4>1
    <3>2. CASE ~ReadsOn
      <4>1. position' = w.offset + w.length  BY <2>1, <3>2
      <4>2. w.offset = Places[current]  BY <2>2, <3>2
      <4> HIDE DEF w
      <4> QED  BY <2>3, <4>1, <4>2
    <3> QED  BY <3>1, <3>2
  <2> HIDE DEF w, n
  <2>5. /\ reader' \in ReaderRec /\ reader'.valid = reader.valid
        /\ reader'.offset = reader.offset /\ reader'.remaining = reader.remaining
        /\ reader'.index = reader.index /\ reader'.eof = reader.eof
        /\ reader'.freed = ReadsOn
    <3>1. ReadsOn \in BOOLEAN  BY DEF ReadsOn
    <3> QED  BY <1>1, <2>1, <3>1 DEF ReaderRec
  <2>6. EntryInv'
    <3>1. moved' = TRUE \/ (moved' = moved /\ ~Tar)
      BY <1>1, <2>1 DEF Tar
    <3> QED  BY <1>1, <2>5, <3>1, EntryStays
  <2>7. FilterIsUnread'
    BY <1>2, <2>5 DEF FilterIsUnread
  <2>8. Behind => Behind'
    <3>1. Tar => ~ReadsOn  BY DEF Tar, TarKinds, ReadsOn
    <3> QED  BY <1>2, <2>4, <3>1 DEF Behind
  <2>9. moved' \in BOOLEAN
    BY <1>1, <2>1 DEF Tar
  <2> QED  BY <1>1, <1>3, <2>1, <2>4, <2>5, <2>6, <2>7, <2>8, <2>9
<1> QED
  BY <1>5, <1>6

(* arc_extract_entry, by the entry's type.                                     *)
LEMMA ExtractEntryKeeps ==
  ASSUME ArchiveInv, ExtractEntry
  PROVE  ArchiveInv'
<1>1. /\ ArchiveTypeOK /\ EntryInv
      /\ archive \in Archives /\ position \in Nat /\ reader \in ReaderRec
      /\ current \in 0 .. Total /\ stream \in StreamRec /\ Len(given) <= MaxRead
      /\ found \in {"nothing", "entry", "handled", "done", "error"}
      /\ moved \in BOOLEAN /\ orderly \in BOOLEAN /\ client \in {"caller", "extract"}
      /\ extracted \subseteq 1 .. Total /\ failures \in 0 .. Total
      /\ outcome \in {"running", "extracted", "failed"}
      /\ Total \in Nat /\ FileEnd \in Nat /\ MaxRead \in Nat /\ Len(<< >>) <= MaxRead
  BY AllTypes
<1>2. /\ client = "extract" /\ found = "entry" /\ found' = "handled"
      /\ archive' = archive /\ current' = current /\ orderly' = orderly
      /\ stream' = stream /\ given' = given /\ client' = client /\ outcome' = outcome
  BY DEF ExtractEntry
<1>3. /\ MemberStart' = MemberStart /\ Places' = Places /\ Sizes' = Sizes
      /\ FileEnd' = FileEnd /\ ReadsOn' = ReadsOn /\ Tar' = Tar
  BY <1>2, LayoutIsKept
<1>4. /\ current \in 1 .. Total /\ failures < current /\ stream = NoStream /\ Behind
  BY <1>1, <1>2 DEF ArchiveInv, EntryInv, EntryIsMember, ExtractionAdvances, Behind
<1>5. /\ EntryInv' /\ position' \in Nat /\ reader' \in ReaderRec /\ moved' \in BOOLEAN
      /\ FilterIsUnread'
      /\ Behind => Behind'
      /\ extracted' \subseteq 1 .. Total /\ failures' \in {failures, failures + 1}
  <2>1. CASE CopyData
    BY <1>2, <2>1, CopyKeeps
  <2>2. CASE /\ extracted' = extracted \cup {current}
             /\ UNCHANGED <<position, reader, moved, failures>>
    <3>1. EntryInv'
      BY <1>1, <1>2, <2>2, EntryStays
    <3>2. FilterIsUnread' /\ (Behind => Behind')
      BY <1>2, <1>3, <2>2 DEF ArchiveInv, FilterIsUnread, HoldsStream, Behind
    <3> QED  BY <1>1, <1>4, <2>2, <3>1, <3>2
  <2>3. CASE SkipEffect /\ UNCHANGED <<moved, extracted, failures>>
    <3>1. /\ EntryInv' /\ position' \in Nat /\ reader' \in ReaderRec
          /\ reader'.freed = reader.freed
          /\ ReadsOn => position' = position
          /\ Behind => Behind'
      BY <1>1, <1>2, <2>3, SkipKeeps
    <3>2. FilterIsUnread'
      BY <1>2, <1>3, <3>1 DEF ArchiveInv, FilterIsUnread, HoldsStream
    <3> QED  BY <1>1, <2>3, <3>1, <3>2
  <2> QED  BY <2>1, <2>2, <2>3 DEF ExtractEntry, SkipEffect
<1>6. failures' \in 0 .. Total /\ failures' <= current /\ client # "caller"
  BY <1>1, <1>2, <1>4, <1>5
<1>7. ArchiveTypeOK'
  BY <1>1, <1>2, <1>5, <1>6, TypesOf
<1>8. WindowIsOfMember' /\ DataIsOfTheEntry'
  <2>1. NoStream.of = 0  BY DEF NoStream
  <2>2. WindowIsOfMember'
    BY <1>2, <1>4, <2>1 DEF WindowIsOfMember, HoldsStream
  <2>3. DataIsOfTheEntry'
    BY <1>2 DEF ArchiveInv, DataIsOfTheEntry
  <2> QED  BY <2>2, <2>3
<1>9. ExtractionAdvances'
  <2>1. Tar' /\ current' >= 1 => position' >= Places'[current']
    BY <1>4, <1>5 DEF Behind
  <2> QED  BY <1>2, <1>4, <1>6, <2>1 DEF ExtractionAdvances
<1> QED
  BY <1>5, <1>7, <1>8, <1>9 DEF ArchiveInv

(* The loop goes on to a later entry, or ends.                                 *)
LEMMA ExtractNextKeeps ==
  ASSUME ArchiveInv, ExtractNext
  PROVE  ArchiveInv'
<1>1. /\ ArchiveTypeOK /\ EntryInv
      /\ archive \in Archives /\ position \in Nat /\ reader \in ReaderRec
      /\ current \in 0 .. Total /\ stream \in StreamRec /\ Len(given) <= MaxRead
      /\ found \in {"nothing", "entry", "handled", "done", "error"}
      /\ moved \in BOOLEAN /\ orderly \in BOOLEAN /\ client \in {"caller", "extract"}
      /\ extracted \subseteq 1 .. Total /\ failures \in 0 .. Total
      /\ outcome \in {"running", "extracted", "failed"}
      /\ Total \in Nat /\ FileEnd \in Nat /\ MaxRead \in Nat /\ Len(<< >>) <= MaxRead
  BY AllTypes
<1>2. /\ client = "extract" /\ ArcNext
      /\ outcome' \in {"running", "extracted", "failed"}
      /\ archive' = archive /\ stream' = stream /\ given' = given /\ moved' = moved
      /\ client' = client /\ extracted' = extracted /\ failures' = failures
  BY DEF ExtractNext
<1>3. NextTypes /\ EntryInv' /\ NextAdvances
  BY <1>1, <1>2, ArcNextKeeps
<1>4. stream = NoStream /\ failures <= current /\ Behind
  BY <1>2 DEF ArchiveInv, ExtractionAdvances, Behind
<1>5. /\ position' \in Nat /\ reader' \in ReaderRec /\ current' \in 0 .. Total
      /\ found' \in {"nothing", "entry", "handled", "done", "error"}
      /\ orderly' \in BOOLEAN /\ reader'.freed = reader.freed
      /\ ReadsOn => position' = position
  BY <1>3 DEF NextTypes
<1>6. Behind' /\ current' >= current /\ (found' = "entry" => current' > current)
  BY <1>3, <1>4 DEF NextAdvances
<1>7. ArchiveTypeOK'
  BY <1>1, <1>2, <1>5, TypesOf
<1>8. WindowIsOfMember' /\ FilterIsUnread' /\ DataIsOfTheEntry'
  BY <1>2, <1>5, StreamStays DEF ArchiveInv
<1>9. ExtractionAdvances'
  <2>1. failures' <= current' /\ (found' = "entry" => failures' < current')
    BY <1>1, <1>2, <1>4, <1>5, <1>6
  <2>2. Tar' /\ current' >= 1 => position' >= Places'[current']
    BY <1>6 DEF Behind
  <2> QED  BY <1>2, <1>4, <2>1, <2>2 DEF ExtractionAdvances
<1> QED
  BY <1>3, <1>7, <1>8, <1>9 DEF ArchiveInv

-----------------------------------------------------------------------------
(* The theorems *)

LEMMA InitHoldsArchive == ArchiveInit => ArchiveInv
<1> SUFFICES ASSUME ArchiveInit PROVE ArchiveInv
  OBVIOUS
<1>1. /\ archive \in Archives /\ client \in {"caller", "extract"} /\ position = 0
      /\ reader = Opened /\ current = 0 /\ stream = NoStream /\ given = << >>
      /\ found = "nothing" /\ moved = FALSE /\ orderly = TRUE /\ extracted = {}
      /\ failures = 0 /\ outcome = "running"
  BY DEF ArchiveInit
<1>2. Total \in Nat /\ MemberStart[1] = 0 /\ MaxRead \in Nat
  BY <1>1, Placed, ArchiveAssumption
<1>3. /\ reader.valid = Single /\ reader.offset = 0 /\ reader.remaining = 0
      /\ reader.index = 1 /\ reader.eof = FALSE /\ reader.freed = FALSE
      /\ reader \in ReaderRec
  BY <1>1 DEF Opened, Single, ReaderRec
<1>4. NoStream \in StreamRec /\ NoStream.of = 0
  BY <1>2 DEF NoStream, StreamRec
<1>5. ArchiveTypeOK
  <2>1. Len(given) <= MaxRead  BY <1>1, <1>2
  <2>2. 0 \in 0 .. Total  BY <1>2
  <2> QED  BY <1>1, <1>3, <1>4, <2>1, <2>2 DEF ArchiveTypeOK, ReaderRec, StreamRec
<1>6. EntryIsMember /\ EveryEntryIsReturned /\ DataIsOfTheEntry
  BY <1>1 DEF EntryIsMember, EveryEntryIsReturned, AllReturned, DataIsOfTheEntry
<1>7. WindowIsOfMember /\ FilterIsUnread
  BY <1>1, <1>4 DEF WindowIsOfMember, FilterIsUnread, HoldsStream
<1>8. ReaderIsOfEntry /\ EndIsTheLast
  <2>1. Tar => ~Single  BY DEF Tar, TarKinds, Single
  <2>2. archive.kind = "zip" => ~Single  BY DEF Single
  <2> QED  BY <1>3, <2>1, <2>2 DEF ReaderIsOfEntry, EndIsTheLast
<1>9. IndexFollows /\ ExtractionAdvances
  BY <1>1, <1>3 DEF IndexFollows, ExtractionAdvances
<1>10. TarIsInPlace
  <2>1. Tar => ~Single  BY DEF Tar, TarKinds, Single
  <2>2. current + 1 = 1  BY <1>1
  <2> QED  BY <1>1, <1>2, <1>3, <2>1, <2>2 DEF TarIsInPlace
<1> QED
  BY <1>5, <1>6, <1>7, <1>8, <1>9, <1>10 DEF ArchiveInv, EntryInv

(* Every call and every step of the extraction keeps the invariant.            *)
LEMMA NextHoldsArchive == ArchiveInv /\ [ArchiveNext]_archiveVars => ArchiveInv'
<1> SUFFICES ASSUME ArchiveInv, [ArchiveNext]_archiveVars PROVE ArchiveInv'
  OBVIOUS
<1>1. CASE ReaderCalls
  <2>1. client = "caller" /\ UNCHANGED <<client, extracted, failures, outcome>>
    BY <1>1 DEF ReaderCalls
  <2>2. CASE CallNext  BY <2>1, <2>2, CallNextKeeps
  <2>3. CASE CallOpenData  BY <2>1, <2>3, CallOpenDataKeeps
  <2>4. CASE \E n \in 1 .. MaxRead : ReadData(n)  BY <2>1, <2>4, ReadDataKeeps
  <2>5. CASE \E p \in 0 .. stream.length : SeekData(p)  BY <2>1, <2>5, SeekDataKeeps
  <2>6. CASE CloseData  BY <2>1, <2>6, CloseDataKeeps
  <2>7. CASE CallSkipData  BY <2>1, <2>7, CallSkipDataKeeps
  <2> QED  BY <1>1, <2>2, <2>3, <2>4, <2>5, <2>6, <2>7 DEF ReaderCalls
<1>2. CASE ExtractEntry
  BY <1>2, ExtractEntryKeeps
<1>3. CASE ExtractNext
  BY <1>3, ExtractNextKeeps
<1>4. CASE UNCHANGED archiveVars
  <2>1. /\ archive' = archive /\ position' = position /\ reader' = reader
        /\ current' = current /\ stream' = stream /\ given' = given /\ found' = found
        /\ moved' = moved /\ orderly' = orderly /\ client' = client
        /\ extracted' = extracted /\ failures' = failures /\ outcome' = outcome
    BY <1>4 DEF archiveVars
  <2>2. /\ Total' = Total /\ MemberStart' = MemberStart /\ Places' = Places
        /\ Sizes' = Sizes /\ FileEnd' = FileEnd /\ ReadsOn' = ReadsOn /\ Tar' = Tar
    BY <2>1, LayoutIsKept
  <2>3. ArchiveTypeOK' /\ EntryInv'
    <3>1. /\ ArchiveTypeOK /\ EntryInv /\ position \in Nat /\ reader \in ReaderRec
          /\ current \in 0 .. Total /\ stream \in StreamRec /\ Len(given) <= MaxRead
          /\ found \in {"nothing", "entry", "handled", "done", "error"}
          /\ moved \in BOOLEAN /\ orderly \in BOOLEAN
          /\ extracted \subseteq 1 .. Total /\ failures \in 0 .. Total
          /\ outcome \in {"running", "extracted", "failed"}
      BY AllTypes
    <3>2. ArchiveTypeOK'
      BY <2>1, <3>1, TypesOf
    <3>3. EntryInv'
      BY <2>1, <3>1, EntryStays
    <3> QED  BY <3>2, <3>3
  <2>4. WindowIsOfMember' /\ FilterIsUnread' /\ DataIsOfTheEntry'
    BY <2>1, StreamStays DEF ArchiveInv
  <2>5. ExtractionAdvances'
    BY <2>1, <2>2 DEF ArchiveInv, ExtractionAdvances
  <2> QED  BY <2>3, <2>4, <2>5 DEF ArchiveInv
<1> QED
  BY <1>1, <1>2, <1>3, <1>4 DEF ArchiveNext, ArchiveExtracted

(* The inductive invariant of the archive readers.                             *)
THEOREM ArchiveInvariant == ArchiveSpec => []ArchiveInv
  BY InitHoldsArchive, NextHoldsArchive, PTL DEF ArchiveSpec

(* The reader, the window and the counts of the extraction have their types;   *)
(* no entry fails twice.                                                       *)
THEOREM ArchiveTypes == ArchiveSpec => []ArchiveTypeOK
<1>1. ArchiveInv => ArchiveTypeOK
  BY DEF ArchiveInv
<1> QED
  BY <1>1, ArchiveInvariant, PTL

(* substream_read returns the bytes of the entry it was opened for, wherever   *)
(* arc_next and other calls left the shared stream.                            *)
THEOREM DataIsRight == ArchiveSpec => []DataIsOfTheEntry
<1>1. ArchiveInv => DataIsOfTheEntry
  BY DEF ArchiveInv
<1> QED
  BY <1>1, ArchiveInvariant, PTL

(* arc_next returns every member in order, and ends after the last, unless     *)
(* data of a TAR was read through a window or a member's size is in a pax      *)
(* header.                                                                     *)
THEOREM EntriesAreAllReturned == ArchiveSpec => []EveryEntryIsReturned
<1>1. ArchiveInv => EveryEntryIsReturned
  BY DEF ArchiveInv, EntryInv
<1> QED
  BY <1>1, ArchiveInvariant, PTL
=============================================================================
