------------------------------ MODULE ScriptMap ------------------------------
(* The hash map of the CupidScript virtual machine: open addressing, linear    *)
(* probing, growth by doubling, deletion by rebuilding (map_rehash, map_find,  *)
(* map_ensure, map_set_value and map_del_value of lib/cs_vm.c), next to the    *)
(* function it stands for, and the loop over its slots (N_FORIN).              *)
EXTENDS Integers, Sequences, SequencesExt, FiniteSets, FiniteSetsExt

CONSTANTS
  Keys,      \* the keys
  Hash,      \* [Keys -> Nat]: cs_value_hash
  Vals,      \* the values
  FirstCap,  \* the capacity of a new map, 8 in the code
  MaxCap     \* bound on the capacity

ASSUME MapAssumption == /\ Hash \in [Keys -> Nat]
                        /\ {FirstCap, MaxCap} \subseteq Nat \ {0}
                        /\ FirstCap <= MaxCap

VARIABLES
  map,       \* the entries: slot 0 is map[1], an empty one is Empty
  holds,     \* history: the keys and values set and not deleted since
  at         \* the slot a loop over the map reads next, 0: there is no loop

mapVars == << map, holds, at >>

Empty == << >>
Pair(k, v) == << k, v >>

Cap(m) == Len(m)
Used(m) == {i \in 1..Cap(m) : m[i] # Empty}

MapInit == /\ map = [i \in 1..FirstCap |-> Empty]
           /\ holds = [k \in {} |-> 0] /\ at = 0

-----------------------------------------------------------------------------

(* The slot after p probes for the key k *)
Slot(m, k, p) == ((Hash[k] + p) % Cap(m)) + 1

(* The first slot of the probe sequence of k that is empty or holds k *)
Probe(m, k) ==
  LET stops == {p \in 0..Cap(m) - 1 : LET e == m[Slot(m, k, p)] IN e = Empty \/ e[1] = k}
  IN IF stops = {} THEN {} ELSE {Slot(m, k, Min(stops))}

(* map_find: the slot of k, if there is one *)
Find(m, k) == {i \in Probe(m, k) : m[i] # Empty}

(* An entry is stored again, in the first empty slot of its probe sequence *)
Store(m, e) == [m EXCEPT ![CHOOSE i \in Probe(m, e[1]) : TRUE] = e]

(* The entries of m, slot after slot, in a new array of capacity c *)
Restored(m, e) == IF e = Empty THEN m ELSE Store(m, e)
Rebuilt(m, c) == FoldLeft(Restored, [i \in 1..c |-> Empty], m)

(* Mutant: the map grows only once it is full *)
GrownWhenFull(m) ==
  IF Used(m) = 1..Cap(m) THEN Rebuilt(m, 2 * Cap(m)) ELSE m

(* The load factor is kept below 0.7 *)
Grown(m) ==
  IF Cardinality(Used(m)) + 1 > (Cap(m) * 7) \div 10
  THEN Rebuilt(m, 2 * Cap(m)) ELSE m

(* map_set_value; nothing is set when every slot is taken *)
SetIn(m, k, v) ==
  LET g == Grown(m)
  IN IF Probe(g, k) = {} THEN g ELSE Store(g, Pair(k, v))

(* Mutant: deleting empties the slot and leaves the others in place *)
DeleteLeavesHole(m, i) == [m EXCEPT ![i] = Empty]

(* map_del_value: the others are stored again in an array of the same size *)
DeleteAt(m, i) == Rebuilt([m EXCEPT ![i] = Empty], Cap(m))

MapSet ==
  \E k \in Keys, v \in Vals :
    /\ Cap(Grown(map)) <= MaxCap
    /\ map' = SetIn(map, k, v)
    /\ holds' = [x \in DOMAIN holds \cup {k} |-> IF x = k THEN v ELSE holds[x]]
    /\ UNCHANGED at

MapDelete ==
  \E k \in Keys : \E i \in Find(map, k) :
    /\ map' = DeleteAt(map, i)
    /\ holds' = [x \in DOMAIN holds \ {k} |-> holds[x]]
    /\ UNCHANGED at

(* for (k in map): the slots are visited in their order, whatever the body     *)
(* does to the map in the meantime                                            *)
LoopOverMap == at = 0 /\ at' = 1 /\ UNCHANGED << map, holds >>
LoopVisits ==
  /\ at > 0
  /\ LET ahead == {i \in Used(map) : i >= at}
     IN at' = IF ahead = {} THEN 0 ELSE (Min(ahead) + 1) % (Cap(map) + 1)
  /\ UNCHANGED << map, holds >>

MapNext == MapSet \/ MapDelete \/ LoopOverMap \/ LoopVisits

MapSpec == MapInit /\ [][MapNext]_mapVars

-----------------------------------------------------------------------------
(* Properties *)

(* The type of the map, which is never full: a probe always ends (map_find)   *)
MapTypeOK ==
  /\ Cap(map) \in 1..MaxCap
  /\ \A i \in Used(map) : map[i][1] \in Keys /\ map[i][2] \in Vals
  /\ Cap(map) > 1 => Used(map) # 1..Cap(map)
  /\ at \in 0..MaxCap

(* The map is the function its history says it is: every key that was set and *)
(* not deleted since is found with its last value, and no other, in whatever  *)
(* order sets, deletions and growth moved the entries (map_find).             *)
MapIsAFunction ==
  /\ \A k \in Keys : Find(map, k) # {} <=> k \in DOMAIN holds
  /\ \A k \in DOMAIN holds : \A i \in Find(map, k) : map[i] = Pair(k, holds[k])
  /\ Cardinality(Used(map)) = Cardinality(DOMAIN holds)
=============================================================================
