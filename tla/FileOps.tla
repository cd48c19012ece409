------------------------------ MODULE FileOps ------------------------------
(***************************************************************************)
(* File operations of CupidFM: copying, cutting, pasting, deleting,        *)
(* renaming and creating by keys (src/src/app/main.c, src/src/core/utils.c)*)
(* and by plugins, and the one level of undo and redo that goes with them  *)
(* (src/src/core/undo.c).                                                  *)
(*                                                                         *)
(* Moves and copies are shell commands whose exit status nobody looks at;  *)
(* what is cut waits in /tmp/cupidfm_cut_storage_<pid>, which is the file  *)
(* itself after a single cut and a directory after a cut of all; what is   *)
(* deleted waits in /tmp/cupidfm_trash_<pid>.  Other programs may change   *)
(* the directory between two operations.                                   *)
(*                                                                         *)
(* The browser stays in one directory, "cwd", whether it exists or not: a  *)
(* key pressed with nothing in view takes the directory itself.  A path is *)
(* the sequence of its names, and a content is opaque.  A shell can always *)
(* be started, and nobody else writes to the clipboard.                    *)
(***************************************************************************)
EXTENDS Integers, Sequences, FiniteSets, SequencesExt

CONSTANTS
  Names,      (* file names                                              *)
  Contents,   (* contents that files have at first                       *)
  Env,        (* what the world may do: mv, cp and rm -rf fail           *)
              (* "commands_fail", other programs change files "others"   *)
  MaxOps      (* bound: operations in a session                          *)

ASSUME NamesFinite == IsFiniteSet(Names) /\ Names # {}
ASSUME ContentsOpaque == IsFiniteSet(Contents) /\ Contents \cap {"nothing", "dir", "empty"} = {}
ASSUME EnvKnown == Env \subseteq {"commands_fail", "others"}
ASSUME MaxOpsInNat == MaxOps \in Nat

VARIABLES
  disk,     (* what is at each path that exists                          *)
  listed,   (* state.files: the names last read, and if they were        *)
            (* directories                                               *)
  clip,     (* the system's clipboard                                    *)
  copied,   (* copied_filename                                           *)
  undo,     (* undo_state.undo: a kind and pairs of a source and a target *)
  redo,     (* undo_state.redo                                           *)
  budget,   (* operations left                                           *)
  (* Two that only the properties read: *)
  before,   (* the directory as undo, or redo, should make it again;     *)
            (* Unknown if it changed under them                          *)
  exact     (* the operation to undo or redo went as planned: each target *)
            (* was free, each command worked, no parent had to be made,  *)
            (* and no item lies inside another                           *)

browser == <<listed, clip, copied>>
history == <<undo, redo, before, exact>>
vars == <<disk, browser, history, budget>>

Nothing == "nothing"
Dir == "dir"
Empty == "empty"

Store == <<"store">>
Here == <<"cwd">>
Beside == <<"beside">>   (* another name in the parent of the directory     *)
Cwd(n) == <<"cwd", n>>
Roots == {<<>>, <<"trash">>}
(* What is in the directory may have the directory's own name.             *)
FileNames == Names \cup {"cwd"}
(* Paths that a user or a plugin names. *)
Named == {Cwd(n) : n \in Names} \cup {<<"cwd", n, m>> : n, m \in Names}

NoClip == [op |-> "none", multi |-> FALSE, items |-> <<>>]
NoOp == [kind |-> "none", items |-> <<>>]
Unknown == [p \in {<<>>} |-> Nothing]

-----------------------------------------------------------------------------
(* The file system.                                                        *)

At(d, p) == IF p \in DOMAIN d THEN d[p] ELSE Nothing
Below(d, p) == {q \in DOMAIN d : IsPrefix(p, q)}
View(d) == [p \in Below(d, Here) |-> d[p]]
InDir(d, p) == Front(p) \in Roots \/ At(d, Front(p)) = Dir
Blocked(d, p) == \E k \in 1..(Len(p) - 1) : At(d, SubSeq(p, 1, k)) \notin {Nothing, Dir}

Without(d, p) == [q \in DOMAIN d \ Below(d, p) |-> d[q]]
Over(new, d) == [q \in DOMAIN new \cup DOMAIN d |-> IF q \in DOMAIN new THEN new[q] ELSE d[q]]
Put(d, p, what) == Over([q \in {p} |-> what], d)
(* d with all that is below src below dst as well. *)
Grafted(d, src, dst) ==
  LET rest(q) == SubSeq(q, Len(src) + 1, Len(q))
      new == {dst \o rest(q) : q \in Below(d, src)}
  IN  Over([q \in new |-> d[src \o SubSeq(q, Len(dst) + 1, Len(q))]], d)

(* rename(2) can put src at dst. *)
CanReplace(d, src, dst) ==
  /\ At(d, src) # Nothing /\ InDir(d, dst) /\ ~IsPrefix(src, dst)
  /\ \/ At(d, dst) = Nothing
     \/ Dir \notin {At(d, src), At(d, dst)}
     \/ At(d, src) = Dir /\ At(d, dst) = Dir /\ Below(d, dst) = {dst}
Renamed(d, src, dst) == Without(Grafted(d, src, dst), src)

(* The commands mv and cp; mv puts the source into a target that is a      *)
(* directory, and what cp copies to is free.                               *)
Mv(d, src, dst) ==
  LET to == IF At(d, dst) = Dir THEN Append(dst, Last(src)) ELSE dst
  IN  IF CanReplace(d, src, to) THEN Renamed(d, src, to) ELSE d
Cp(d, src, dst, asDir) ==
  IF At(d, src) # Nothing /\ (d[src] = Dir => asDir) /\ InDir(d, dst)
    THEN Grafted(d, src, dst) ELSE d
Outcomes(d, result) == {result} \cup IF "commands_fail" \in Env THEN {d} ELSE {}

(* ensure_parent_dir *)
WithParent(d, p) ==
  IF ~InDir(d, p) /\ At(d, Front(p)) = Nothing /\ InDir(d, Front(p))
    THEN Put(d, Front(p), Dir) ELSE d

(* Mutant: no look at what has the name. *)
UniqueTaken(d, dir, wanted) == {wanted}

(* A free name in dir: the wanted one, or one made up from it.  Bound:     *)
(* none if all are taken.                                                  *)
Unique(d, dir, wanted) ==
  LET free(set) == {n \in set : At(d, Append(dir, n)) = Nothing}
  IN  IF wanted \in free(FileNames) THEN {wanted} ELSE free(Names)

(* reload_directory *)
Listing(d) == [n \in {m \in FileNames : At(d, Cwd(m)) # Nothing} |-> d[Cwd(n)] = Dir]

-----------------------------------------------------------------------------
(* One level of undo.                                                      *)

Attempt(d, isOk, isExact) == [disk |-> d, ok |-> isOk, exact |-> isExact]

MovePath(d, src, dst) ==
  LET made == WithParent(d, dst)
  IN  IF src = dst THEN {Attempt(d, TRUE, TRUE)}
      ELSE IF At(d, dst) # Nothing THEN {Attempt(d, FALSE, FALSE)}
      ELSE {Attempt(e, TRUE, e # made /\ made = d) : e \in Outcomes(made, Mv(made, src, dst))}

RemovePath(d, p) ==
  IF Blocked(d, p) THEN {Attempt(d, FALSE, FALSE)}
  ELSE {Attempt(Without(d, p), TRUE, TRUE)}
         \cup IF At(d, p) = Dir
                THEN {Attempt(e, TRUE, FALSE) : e \in Outcomes(d, Without(d, p)) \ {Without(d, p)}}
                ELSE {}

CopyPath(d, src, dst) ==
  LET made == WithParent(d, dst)
  IN  IF At(d, dst) # Nothing \/ At(d, src) = Nothing THEN {Attempt(d, FALSE, FALSE)}
      ELSE {Attempt(e, TRUE, e # made /\ made = d) :
              e \in Outcomes(made, Cp(made, src, dst, d[src] = Dir))}

(* create_empty_file and create_dir *)
Create(d, p, what) ==
  LET made == WithParent(d, p)
  IN  IF At(made, p) # Nothing THEN {Attempt(made, TRUE, FALSE)}
      ELSE IF InDir(made, p) THEN {Attempt(Put(made, p, what), TRUE, made = d)}
      ELSE {Attempt(made, FALSE, FALSE)}

(* Mutant: the source of a copy is removed. *)
BackwardToSource(kind, d, item) ==
  IF kind \in {"create_file", "create_dir"} THEN RemovePath(d, item.dst)
  ELSE IF kind = "copy" THEN RemovePath(d, item.src)
  ELSE MovePath(d, item.dst, item.src)
Backward(kind, d, item) ==
  IF kind \in {"create_file", "create_dir", "copy"} THEN RemovePath(d, item.dst)
  ELSE MovePath(d, item.dst, item.src)
(* Mutant: a copy is redone as a move. *)
ForwardMoves(kind, d, item) ==
  CASE kind = "create_file" -> Create(d, item.dst, Empty)
    [] kind = "create_dir" -> Create(d, item.dst, Dir)
    [] OTHER -> MovePath(d, item.src, item.dst)
Forward(kind, d, item) ==
  CASE kind = "create_file" -> Create(d, item.dst, Empty)
    [] kind = "create_dir" -> Create(d, item.dst, Dir)
    [] kind = "copy" -> CopyPath(d, item.src, item.dst)
    [] OTHER -> MovePath(d, item.src, item.dst)

(* apply_inverse and apply_forward: item after item, until one fails. *)
Apply(op, Step(_, _, _)) ==
  FoldLeft(LAMBDA ts, item :
             UNION {IF t.ok THEN {[s EXCEPT !.exact = @ /\ t.exact] : s \in Step(op.kind, t.disk, item)}
                    ELSE {t} : t \in ts},
           {Attempt(disk, TRUE, TRUE)}, op.items)
Undone == Apply(undo, Backward)
Redone == Apply(redo, Forward)

(* An attempt that failed keeps the operation, and what it did so far. *)
Failed(t) ==
  /\ ~t.ok
  /\ before' = IF View(t.disk) = View(disk) THEN before ELSE Unknown
  /\ UNCHANGED <<undo, redo, exact, listed>>
Succeeded(t) ==
  /\ t.ok
  /\ before' = IF before = Unknown THEN Unknown ELSE View(disk)
  /\ exact' = (exact /\ t.exact)
  /\ listed' = Listing(t.disk)

Spend == budget > 0 /\ budget' = budget - 1

Undo ==
  /\ Spend /\ undo # NoOp
  /\ \E t \in Undone :
       /\ disk' = t.disk
       /\ \/ Failed(t)
          \/ Succeeded(t) /\ redo' = undo /\ undo' = NoOp
  /\ UNCHANGED <<clip, copied>>
Redo ==
  /\ Spend /\ redo # NoOp
  /\ \E t \in Redone :
       /\ disk' = t.disk
       /\ \/ Failed(t)
          \/ Succeeded(t) /\ undo' = redo /\ redo' = NoOp
  /\ UNCHANGED <<clip, copied>>

-----------------------------------------------------------------------------
(* Operations on several items, one after the other.  What each could come *)
(* to is a set of tries.                                                   *)

Start(d) == [disk |-> d, items |-> <<>>, exact |-> TRUE]
Each(d, Step(_, _), inputs) ==
  FoldLeft(LAMBDA ts, x : UNION {Step(t, x) : t \in ts}, {Start(d)}, inputs)

(* A shell command ran: src and dst go on the list, whatever came of it. *)
Ran(t, src, dst, result) ==
  {[disk |-> d, items |-> Append(t.items, [src |-> src, dst |-> dst]),
    exact |-> t.exact /\ At(t.disk, dst) = Nothing /\ d # t.disk] :
     d \in Outcomes(t.disk, result)}
RanMv(t, src, dst) == Ran(t, src, dst, Mv(t.disk, src, dst))
RanCp(t, src, dst, asDir) == Ran(t, src, dst, Cp(t.disk, src, dst, asDir))

Unnested(items) ==
  LET places(i) == {items[i].src, items[i].dst}
  IN  \A i, j \in 1..Len(items) : i # j =>
        \A p \in places(i), q \in places(j) : ~IsPrefix(p, q)

(* Mutant: redo is not cleared. *)
RecordKeepsRedo(kind, items, wasExact) ==
  /\ undo' = [kind |-> kind, items |-> items] /\ redo' = redo
  /\ before' = View(disk)
  /\ exact' = (wasExact /\ Unnested(items))

(* undo_state_set_owned and undo_state_set_single *)
Record(kind, items, wasExact) ==
  /\ undo' = [kind |-> kind, items |-> items] /\ redo' = NoOp
  /\ before' = View(disk)
  /\ exact' = (wasExact /\ Unnested(items))
RecordOne(kind, src, dst, wasExact) ==
  Record(kind, <<[src |-> src, dst |-> dst]>>, wasExact)
RecordTry(kind, t) ==
  /\ disk' = t.disk
  /\ IF t.items = <<>> THEN UNCHANGED history ELSE Record(kind, t.items, t.exact)

(* The entries in view, in any order: a search narrows what is listed. *)
InView == SetToAllKPermutations(DOMAIN listed) \ {<<>>}
(* What selected_entry stands for: an entry, or the directory itself if a  *)
(* search finds nothing, or nothing is listed.                             *)
Selected == {Cwd(n) : n \in DOMAIN listed} \cup {Here}
NameOf(p) == IF p = Here THEN "" ELSE Last(p)

-----------------------------------------------------------------------------
(* The keys of the browser.                                                *)

(* The clipboard's old format for one item. *)
One(op, p) == [op |-> op, multi |-> FALSE,
               items |-> <<[src |-> p, isDir |-> At(disk, p) = Dir, name |-> Last(p)]>>]

(* copy_to_clipboard; the name is kept even if the entry is gone. *)
CopyKey(p) ==
  /\ Spend
  /\ copied' = NameOf(p)
  /\ clip' = IF At(disk, p) = Nothing THEN clip ELSE One("copy", p)
  /\ UNCHANGED <<disk, listed, history>>

CopyAllKey(shown) ==
  /\ Spend
  /\ clip' = [op |-> "copy", multi |-> TRUE,
              items |-> [i \in DOMAIN shown |->
                [src |-> Cwd(shown[i]), isDir |-> listed[shown[i]], name |-> shown[i]]]]
  /\ copied' = "MULTI"
  /\ UNCHANGED <<disk, listed, history>>

(* cut_and_paste: what is in the storage is overwritten, or takes it in.   *)
CutKey(p) ==
  /\ Spend
  /\ copied' = NameOf(p)
  /\ IF At(disk, p) = Nothing
       THEN UNCHANGED <<disk, clip, history>>
       ELSE /\ clip' = One("cut", p)
            /\ \E t \in RanMv(Start(disk), p, Store) :
                 /\ disk' = t.disk
                 /\ IF At(t.disk, Store) = Nothing THEN UNCHANGED history
                    ELSE Record("move", t.items, t.exact)
  /\ listed' = Listing(disk')

(* A cut of all.  mkdir says EEXIST also if the storage is a file. *)
CutAllKey(shown) ==
  LET d == IF At(disk, Store) = Nothing THEN Put(disk, Store, Dir) ELSE disk
      cut(t, n) == UNION {RanMv(t, Cwd(n), Append(Store, m)) : m \in Unique(t.disk, Store, n)}
  IN  /\ Spend
      /\ \E t \in Each(d, cut, shown) :
           /\ RecordTry("move", t)
           /\ clip' = [op |-> "cut", multi |-> TRUE,
                       items |-> [i \in DOMAIN shown |->
                         [src |-> t.items[i].dst, isDir |-> listed[shown[i]], name |-> shown[i]]]]
           /\ listed' = Listing(t.disk)
      /\ copied' = "MULTI"

(* paste_from_clipboard; without a name the source's is taken. *)
PasteKey ==
  LET wanted(i) == IF clip.multi \/ copied = "" THEN i.name ELSE copied
      from(i) == IF clip.op = "cut" /\ ~clip.multi THEN Store ELSE i.src
      paste(t, i) ==
        UNION {IF clip.op = "cut" THEN RanMv(t, from(i), Cwd(m))
               ELSE RanCp(t, from(i), Cwd(m), i.isDir) : m \in Unique(t.disk, Here, wanted(i))}
  IN  /\ Spend /\ clip # NoClip
      /\ \E t \in Each(disk, paste, clip.items) :
           /\ RecordTry(IF clip.op = "cut" THEN "move" ELSE "copy", t)
           /\ listed' = Listing(t.disk)
      /\ UNCHANGED <<clip, copied>>

(* delete_item *)
Trashed(t, p) ==
  IF At(t.disk, p) = Nothing THEN {t}
  ELSE UNION {RanMv(t, p, <<"trash", m>>) : m \in Unique(t.disk, <<"trash">>, Last(p))}

Deletes(paths) ==
  \E t \in Each(disk, Trashed, paths) :
    RecordTry("delete", t) /\ listed' = Listing(t.disk)

(* Delete, of what is selected or of all in view; the user confirms. *)
DeleteKey(paths) ==
  /\ Spend
  /\ Deletes(paths)
  /\ UNCHANGED <<clip, copied>>

(* rename_item: rename(2) replaces a file that has the new name. *)
RenameKey(src, dst) ==
  /\ Spend
  /\ \/ /\ src = dst /\ At(disk, src) # Nothing
        /\ disk' = disk /\ RecordOne("rename", src, dst, TRUE)
     \/ /\ CanReplace(disk, src, dst)
        /\ disk' = Renamed(disk, src, dst)
        /\ RecordOne("rename", src, dst, At(disk, dst) = Nothing)
  /\ listed' = Listing(disk')
  /\ UNCHANGED <<clip, copied>>

(* create_new_file: fopen(.., "w") empties a file that is there. *)
CreateFileKey(p) ==
  /\ Spend /\ InDir(disk, p) /\ At(disk, p) # Dir
  /\ disk' = Put(disk, p, Empty)
  /\ RecordOne("create_file", Nothing, p, At(disk, p) = Nothing)
  /\ listed' = Listing(disk')
  /\ UNCHANGED <<clip, copied>>

(* create_new_directory *)
CreateDirKey(p) ==
  /\ Spend /\ InDir(disk, p) /\ At(disk, p) = Nothing
  /\ disk' = Put(disk, p, Dir)
  /\ RecordOne("create_dir", Nothing, p, TRUE)
  /\ listed' = Listing(disk')
  /\ UNCHANGED <<clip, copied>>

Keys ==
  \/ \E p \in Selected :
       \/ CopyKey(p) \/ CutKey(p) \/ DeleteKey(<<p>>)
       \/ \E q \in IF p = Here THEN {Here, Beside} ELSE Named : RenameKey(p, q)
  \/ \E shown \in InView :
       \/ CopyAllKey(shown) \/ CutAllKey(shown)
       \/ DeleteKey([i \in DOMAIN shown |-> Cwd(shown[i])])
  \/ \E p \in Named : CreateFileKey(p) \/ CreateDirKey(p)
  \/ PasteKey \/ Undo \/ Redo

-----------------------------------------------------------------------------
(* The operations of plugins, on the paths they give.                      *)

(* mkdir and touch do not touch what is there. *)
PluginCreate(p, kind) ==
  LET made == WithParent(disk, p)
  IN  /\ Spend /\ At(made, p) = Nothing /\ InDir(made, p)
      /\ disk' = Put(made, p, IF kind = "create_dir" THEN Dir ELSE Empty)
      /\ RecordOne(kind, Nothing, p, made = disk)
      /\ listed' = Listing(disk')
      /\ UNCHANGED <<clip, copied>>

(* A rename that fails has made the parent, and nobody is told. *)
PluginRename(src, dst) ==
  LET made == WithParent(disk, dst)
  IN  /\ Spend /\ At(disk, dst) = Nothing
      /\ IF CanReplace(made, src, dst)
           THEN /\ disk' = Renamed(made, src, dst)
                /\ RecordOne("rename", src, dst, made = disk)
                /\ listed' = Listing(disk')
           ELSE /\ made # disk /\ disk' = made
                /\ before' = Unknown
                /\ UNCHANGED <<undo, redo, exact, listed>>
      /\ UNCHANGED <<clip, copied>>

PluginDelete(paths) ==
  /\ Spend
  /\ Deletes(paths)
  /\ UNCHANGED <<clip, copied>>

(* copy and move into dir; sources that are gone and targets that are taken *)
(* are skipped.                                                            *)
PluginTransfer(kind, paths, dir) ==
  LET transfer(t, src) ==
        LET dst == Append(dir, Last(src))
        IN  IF At(t.disk, src) = Nothing \/ At(t.disk, dst) # Nothing THEN {t}
            ELSE IF kind = "move" THEN RanMv(t, src, dst)
            ELSE RanCp(t, src, dst, t.disk[src] = Dir)
  IN  /\ Spend
      /\ At(disk, dir) = Dir
      /\ \E t \in Each(disk, transfer, paths) :
           RecordTry(kind, t) /\ listed' = Listing(t.disk)
      /\ UNCHANGED <<clip, copied>>

(* Bound: at most two paths at a time, of what is in the directory. *)
Some == LET inside == Below(disk, Here) \ {Here}
        IN  {<<p>> : p \in inside} \cup {<<p, q>> : p, q \in inside}

Plugins ==
  \/ \E p \in Named : PluginCreate(p, "create_file") \/ PluginCreate(p, "create_dir")
  \/ \E p, q \in Named : PluginRename(p, q)
  \/ \E paths \in Some :
       \/ PluginDelete(paths)
       \/ \E dir \in {Here} \cup {Cwd(n) : n \in Names} :
            PluginTransfer("copy", paths, dir) \/ PluginTransfer("move", paths, dir)

-----------------------------------------------------------------------------
(* The world, the listing read again, and the end.                         *)

Others ==
  /\ Spend /\ "others" \in Env
  /\ \E p \in Named :
       \/ /\ At(disk, p) = Nothing /\ InDir(disk, p)
          /\ \E what \in {Empty, Dir} : disk' = Put(disk, p, what)
       \/ At(disk, p) # Nothing /\ disk' = Without(disk, p)
       \/ \E q \in Named : CanReplace(disk, p, q) /\ disk' = Renamed(disk, p, q)
  /\ before' = Unknown
  /\ UNCHANGED <<browser, undo, redo, exact>>

Reload ==
  /\ listed' = Listing(disk) /\ listed' # listed
  /\ UNCHANGED <<disk, clip, copied, history, budget>>

(* cleanup_temp_files removes what was cut and what was deleted. *)
Quit ==
  /\ budget > 0 /\ budget' = 0
  /\ disk' = Without(Without(disk, Store), <<"trash">>)
  /\ undo' = NoOp /\ redo' = NoOp /\ before' = Unknown
  /\ UNCHANGED <<browser, exact>>

(* Files at some of the places, below directories where needed. *)
Init ==
  /\ \E place \in [Contents -> Named] :
       /\ \A c, e \in Contents : c # e => ~IsPrefix(place[c], place[e])
       /\ disk = Over([p \in {place[c] : c \in Contents} |-> CHOOSE c \in Contents : place[c] = p],
                      [p \in {Cwd(place[c][2]) : c \in Contents} \cup {Here} |-> Dir])
  /\ listed = Listing(disk)
  /\ clip = NoClip /\ copied = "none"
  /\ undo = NoOp /\ redo = NoOp /\ before = Unknown /\ exact = TRUE
  /\ budget = MaxOps

Next == Keys \/ Plugins \/ Others \/ Reload \/ Quit
Spec == Init /\ [][Next]_vars

-----------------------------------------------------------------------------
(* Properties.                                                             *)

Kinds == {"none", "create_file", "create_dir", "rename", "move", "copy", "delete"}

(* What exists lies in a directory, whatever was moved into what, and the  *)
(* two that undo and redo read are never both pending.                     *)
TypeOK ==
  /\ \A p \in DOMAIN disk : disk[p] \in Contents \cup {Empty, Dir} /\ InDir(disk, p)
  /\ \A n \in DOMAIN listed : n \in FileNames /\ listed[n] \in BOOLEAN
  /\ copied \in FileNames \cup {"none", "MULTI", ""}
  /\ undo.kind \in Kinds /\ redo.kind \in Kinds /\ NoOp \in {undo, redo}
  /\ exact \in BOOLEAN /\ budget \in 0..MaxOps

(* undo.c, with what main.c records: an operation that went as planned, in *)
(* a directory nobody else changed since, can always be undone, and if no  *)
(* command fails the directory is then what it was before.                 *)
CanBeUndone ==
  undo # NoOp /\ before # Unknown /\ exact =>
    /\ \E t \in Undone : t.exact
    /\ \A t \in Undone : t.ok /\ (t.exact => View(t.disk) = before)

(* The same of the operation undone last: it can be repeated, and gives    *)
(* again what it gave the first time.                                      *)
CanBeRedone ==
  redo # NoOp /\ before # Unknown /\ exact =>
    /\ \E t \in Redone : t.exact
    /\ \A t \in Redone : t.ok /\ (t.exact => View(t.disk) = before)

Lost(p) == disk[p] \in Contents /\ \A q \in DOMAIN disk' : disk'[q] # disk[p]
(* An undo of a creation or a copy removes what is at its target by then.  *)
Unmade(p) ==
  /\ undo.kind \in {"create_file", "create_dir", "copy"} /\ undo' # undo
  /\ \E i \in DOMAIN undo.items : IsPrefix(undo.items[i].dst, p)
(* A file's content is not lost, whatever commands fail and whoever else   *)
(* moves files: not from the trash while the program runs; not from the    *)
(* storage unless something else is cut; and not from the directory unless *)
(* a new or a renamed file takes its place, its creation is undone, or     *)
(* others remove it.                                                       *)
ContentsSurvive ==
  [][\A p \in DOMAIN disk : Lost(p) =>
       \/ Quit /\ p[1] \in {"store", "trash"}
       \/ p[1] = "store" /\ clip'.op = "cut" /\ ~clip'.multi /\ undo'.kind = "move"
       \/ undo'.kind \in {"create_file", "rename"} /\ undo'.items[1].dst = p
       \/ p[1] = "cwd" /\ Unmade(p)
       \/ /\ p[1] = "cwd" /\ "others" \in Env /\ At(disk', p) # disk[p]
          /\ undo' = undo /\ listed' = listed]_vars

(* README.md:789-790 "Undo/Redo (Ctrl+Z / Ctrl+Y) - Undo or redo the last  *)
(* file operation.": if nobody else changed the directory, undo succeeds   *)
(* and leaves it as it was.  It does not after a file was created over     *)
(* another one, after a second cut, or after a plugin deleted a file and   *)
(* then its directory.                                                     *)
LastOperationIsUndone ==
  undo # NoOp /\ before # Unknown =>
    \E t \in Undone : t.ok /\ View(t.disk) = before

(* README.md:764-770 "Move selected file or directory", "Delete selected   *)
(* file or directory": no key takes the directory the browser is in.  With *)
(* nothing in view, as when a search finds nothing, cut and delete do, for *)
(* the empty name of what is selected is joined to the directory's path.   *)
DirectoryStays == [][At(disk, Here) = Dir => At(disk', Here) = Dir]_vars
=============================================================================
