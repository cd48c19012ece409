----------------------------- MODULE ScriptHeap -----------------------------
(* Reference counts and the collector of cycles of the CupidScript virtual    *)
(* machine (cs_value_copy, cs_value_release and cs_vm_collect_cycles of       *)
(* lib/cs_vm.c).                                                              *)
(*                                                                            *)
(* Lists and maps are tracked by the collector.  A function stands for the    *)
(* function together with the environment it closes over, both of which are   *)
(* counted but not tracked.  Values without references are left out, and a    *)
(* map may be keyed by them (NoObj) or by an object.                          *)
EXTENDS Integers, FiniteSets, Sequences, SequencesExt, FiniteSetsExt

CONSTANTS
  Objs,      \* the objects
  NoObj,     \* the key of what is not keyed by an object
  MaxHeld,   \* bound on the references the evaluator holds to one object
  MaxItems   \* bound on the items of all objects

ASSUME HeapAssumption ==
  IsFiniteSet(Objs) /\ NoObj \notin Objs /\ MaxHeld \in Nat \ {0} /\ MaxItems \in Nat

VARIABLES
  heap,      \* [kind, ref, out]: what each object is, its count and its items
  held,      \* the references that environments and the C stack hold
  stray,     \* history: an object was released after it was freed
  broken     \* undefined behaviour has happened

heapVars == << heap, held, stray, broken >>

Tracked(h) == {o \in Objs : h.kind[o] \in {"list", "map"}}
Live(h) == {o \in Objs : h.kind[o] # "free"}

HeapInit ==
  /\ heap = [kind |-> [o \in Objs |-> "free"], ref |-> [o \in Objs |-> 0],
             out |-> [o \in Objs |-> << >>]]
  /\ held = [o \in Objs |-> 0]
  /\ stray = FALSE /\ broken = FALSE

-----------------------------------------------------------------------------
(* Counts *)

(* The references of an entry, and of an object, that are not in but *)
RefsOf(e, but) ==
  (IF e.key \in but \cup {NoObj} THEN << >> ELSE << e.key >>)
    \o (IF e.val \in but THEN << >> ELSE << e.val >>)
ItemsOf(h, o, but) == FlattenSeq([i \in DOMAIN h.out[o] |-> RefsOf(h.out[o][i], but)])

(* How often o is a key, and is referred to at all, in the objects of from *)
PlacesOf(h, from) == UNION {{x} \X DOMAIN h.out[x] : x \in from}
KeyUses(h, from, o) == Cardinality({p \in PlacesOf(h, from) : h.out[p[1]][p[2]].key = o})
ValUses(h, from, o) == Cardinality({p \in PlacesOf(h, from) : h.out[p[1]][p[2]].val = o})
References(h, from, o) == KeyUses(h, from, o) + ValUses(h, from, o)

Retain(h, o) == IF o = NoObj THEN h ELSE [h EXCEPT !.ref[o] = @ + 1]

(* cs_value_release of the first one that is still to be released: the last   *)
(* reference frees the object, and its items come next.  stray says whether   *)
(* something freed was released.                                              *)
ReleaseNext(r) ==
  LET o == Head(r.todo)
  IN IF r.h.kind[o] = "free" THEN [r EXCEPT !.todo = Tail(@), !.stray = TRUE]
     ELSE IF r.h.ref[o] > 1 THEN [r EXCEPT !.todo = Tail(@), !.h.ref[o] = @ - 1]
     ELSE [r EXCEPT !.todo = ItemsOf(r.h, o, {}) \o Tail(@),
                    !.h.kind[o] = "free", !.h.ref[o] = 0, !.h.out[o] = << >>]

(* The objects of s released, and whatever they were the last to refer to.    *)
(* There are no more releases than references.                                *)
ReleaseAll(h, s) ==
  LET most == Len(s) + 2 * Cardinality(PlacesOf(h, Objs))
      after[n \in 0 .. most] ==
        IF n = 0 THEN [h |-> h, todo |-> s, stray |-> FALSE]
        ELSE LET r == after[n - 1] IN IF r.todo = << >> THEN r ELSE ReleaseNext(r)
  IN after[most]

(* The step that leaves the heap as r *)
Becomes(r) == heap' = r.h /\ stray' = (stray \/ r.stray)

-----------------------------------------------------------------------------
(* The collector *)

(* The objects that o refers to are all in c *)
RefersInto(h, o, c) ==
  \A i \in DOMAIN h.out[o] : {h.out[o][i].key, h.out[o][i].val} \subseteq c \cup {NoObj}

(* What is reachable from the set s through the objects of through: in all    *)
(* sets that hold s and what their objects of through refer to                *)
Reach(h, through, s) ==
  LET closed == {c \in SUBSET Objs : s \subseteq c /\ \A x \in c \cap through : RefersInto(h, x, c)}
  IN {o \in Objs : \A c \in closed : o \in c}

(* Mutant: an object with any outside reference is marked, but not what   *)
(* it refers to through another one                                           *)
GarbageOneStep(h) ==
  LET anchored == {o \in Tracked(h) : h.ref[o] > References(h, Tracked(h), o)}
  IN Tracked(h) \ (anchored \cup UNION {ToSet(ItemsOf(h, o, {})) : o \in anchored})

(* Mutant: the references held by maps are not subtracted *)
GarbageSkipsMaps(h) ==
  LET lists == {o \in Tracked(h) : h.kind[o] = "list"}
      anchored == {o \in Tracked(h) : h.ref[o] > References(h, lists, o)}
  IN Tracked(h) \ Reach(h, Tracked(h), anchored)

(* Tracked objects that no count from outside the tracked ones keeps alive *)
Garbage(h) ==
  LET anchored == {o \in Tracked(h) : h.ref[o] > References(h, Tracked(h), o)}
  IN Tracked(h) \ Reach(h, Tracked(h), anchored)

(* cs_vm_collect_cycles on the heap h: the garbage is freed, in any order, and *)
(* of its keys and values those are released that are not garbage themselves. *)
(* A key is released even if it is garbage: that does no harm only if it      *)
(* happens before the key itself is freed, and if another reference remains.  *)
CollectFrom(h) ==
  LET garbage == Garbage(h)
      keys == {k \in garbage : KeyUses(h, garbage, k) > 0}
      freed == [h EXCEPT
        !.kind = [o \in Objs |-> IF o \in garbage THEN "free" ELSE h.kind[o]],
        !.ref = [o \in Objs |-> IF o \in garbage THEN 0 ELSE h.ref[o]],
        !.out = [o \in Objs |-> IF o \in garbage THEN << >> ELSE h.out[o]]]
      released(order) == FlattenSeq([i \in DOMAIN order |-> ItemsOf(h, order[i], garbage)])
  IN \/ /\ \A k \in keys : h.ref[k] > KeyUses(h, garbage, k)
        /\ \E order \in SetToSeqs(garbage) : Becomes(ReleaseAll(freed, released(order)))
        /\ UNCHANGED broken
     \/ keys # {} /\ broken' = TRUE /\ UNCHANGED << heap, stray >>

Collect == ~broken /\ CollectFrom(heap) /\ UNCHANGED held

-----------------------------------------------------------------------------
(* The evaluator *)

(* list_new and map_new may run the collector when the object is there; a     *)
(* function is made by N_FUNCLIT or N_FNDEF.                                  *)
NewObject(o, kind) ==
  LET made == [heap EXCEPT !.kind[o] = kind, !.ref[o] = 1]
  IN /\ ~broken /\ heap.kind[o] = "free"
     /\ held' = [held EXCEPT ![o] = 1]
     /\ \/ heap' = made /\ UNCHANGED << stray, broken >>
        \/ kind # "func" /\ CollectFrom(made)

Held == {o \in Objs : held[o] > 0}

(* A value is copied from a variable or read from a container *)
Get(o) ==
  /\ ~broken /\ held[o] < MaxHeld
  /\ o \in Held \/ \E x \in Held : o \in ToSet(ItemsOf(heap, x, {}))
  /\ heap' = Retain(heap, o)
  /\ held' = [held EXCEPT ![o] = @ + 1]
  /\ UNCHANGED << stray, broken >>

(* A variable goes out of scope *)
DropHeld(o) ==
  /\ ~broken /\ o \in Held
  /\ held' = [held EXCEPT ![o] = @ - 1]
  /\ Becomes(ReleaseAll(heap, << o >>))
  /\ UNCHANGED broken

(* A value is stored in a list, a map or a closed-over variable *)
Put(o, e) ==
  /\ ~broken /\ {o, e.val} \subseteq Held
  /\ e.key # NoObj => heap.kind[o] = "map" /\ e.key \in Held
  /\ Cardinality(PlacesOf(heap, Objs)) < MaxItems
  /\ heap' = Retain(Retain([heap EXCEPT !.out[o] = Append(@, e)], e.key), e.val)
  /\ UNCHANGED << held, stray, broken >>

TakeOut(o) ==
  \E i \in DOMAIN heap.out[o] :
    /\ ~broken /\ o \in Held
    /\ Becomes(ReleaseAll([heap EXCEPT !.out[o] = RemoveAt(@, i)], RefsOf(heap.out[o][i], {})))
    /\ UNCHANGED << held, broken >>

HeapIsBroken == broken /\ UNCHANGED heapVars

HeapNext ==
  \/ Collect
  \/ \E o \in Objs :
       \/ \E kind \in {"list", "map", "func"} : NewObject(o, kind)
       \/ Get(o) \/ DropHeld(o) \/ TakeOut(o)
       \/ \E k \in Objs \cup {NoObj}, v \in Objs : Put(o, [key |-> k, val |-> v])
  \/ HeapIsBroken

HeapSpec == HeapInit /\ [][HeapNext]_heapVars

-----------------------------------------------------------------------------
(* Properties *)

(* The type of the heap *)
HeapTypeOK ==
  /\ \A o \in Objs : /\ heap.kind[o] \in {"free", "list", "map", "func"}
                     /\ heap.ref[o] \in Nat /\ held[o] \in 0..MaxHeld
                     /\ \A i \in DOMAIN heap.out[o] : heap.out[o][i].val \in Objs
  /\ stray \in BOOLEAN /\ broken \in BOOLEAN

(* The count of every object is the number of references to it, through every *)
(* copy, release and collection, so what something refers to is never freed   *)
(* and nothing is released after it was freed; the exception, a cycle through *)
(* the key of a map, is undefined (cs_value_release, cs_vm_collect_cycles).   *)
CountsAreExact ==
  ~broken => /\ ~stray
             /\ \A o \in Objs : heap.ref[o] = held[o] + References(heap, Live(heap), o)
             /\ \A o \in Objs : heap.ref[o] > 0 <=> o \in Live(heap)

(* When the collector runs, every list and map is freed that nothing outside  *)
(* the lists and maps keeps alive, and none that the evaluator can reach      *)
(* (cs_vm_collect_cycles).                                                    *)
CollectorIsExact ==
  [][heap' # heap /\ Collect /\ ~broken' =>
       LET functions == Live(heap) \ Tracked(heap)
       IN /\ Tracked(heap)' \subseteq Reach(heap, Objs, Held \cup functions)
          /\ Reach(heap, Objs, Held) \subseteq Live(heap)']_heapVars
=============================================================================
