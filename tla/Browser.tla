------------------------------- MODULE Browser -------------------------------
(* The directory browser: the lazily loaded listing, the cursor and its       *)
(* window, the search view, going into and out of directories, and the main   *)
(* loop that serves one request of the plugins, or else one key, at a time    *)
(* (app/main.c, app/app_navigation.c, core/search.c, core/utils.c).           *)
(*                                                                            *)
(* The handlers are functions of the record b, composed as the code composes  *)
(* its calls.  state.selected_entry points into the listing: b.freed says     *)
(* that the entry has been released since.  A path is the sequence of its     *)
(* components, the root is << >>.  b.fresh is history: the directory is still *)
(* as it was when its listing was begun.  The keys that act in the preview    *)
(* pane only, the editor and the popups change nothing of this state.         *)
(*                                                                            *)
(* A search with more matches than its buffer has slots may write behind it.  *)
(* What the program does then is undefined, and no behaviour goes on.         *)
EXTENDS Integers, FiniteSets, Sequences, SequencesExt, FiniteSetsExt

CONSTANTS
  Names,       \* names of entries
  DirNames,    \* the names that are directories
  Paths,       \* the paths that may be directories
  Disk0,       \* [Paths -> Seq(Names)]: each directory in the order of readdir
  Queries,     \* the non-empty search queries
  Score,       \* [Queries -> [Names -> Int]]: the rank that cupidfuzzy_score,
               \* and among equals the name, gives an entry, -1: no match
  Hits,        \* [{"exact", "regex"} -> [Queries -> SUBSET Names]]
  Batch,       \* INITIAL_BATCH and the later batches
  Threshold,   \* LOAD_THRESHOLD
  Visible,     \* num_lines - 2
  ViewCap,     \* the capacity search_files is made with: Vector_new(10)
  Calls,       \* the requests [kind, arg] plugins make in this instance
  MaxCalls,    \* bound on the requests made
  MaxChanges   \* bound on the changes of the disk

None == "none"
Modes == {"fuzzy", "exact", "regex"}
Kinds == << "cd", "select_index", "select", "clear_search", "set_search",
            "parent_dir", "enter_dir", "open_path", "preview",
            "open_selected", "fileop", "search_mode", "reload" >>

ASSUME BrowserAssumption ==
  /\ DirNames \subseteq Names
  /\ << >> \in Paths /\ \A p \in Paths \ {<< >>} : Front(p) \in Paths
  /\ Disk0 \in [Paths -> Seq(Names)]
  /\ \A p \in Paths : \A n \in Range(Disk0[p]) \cap DirNames : Append(p, n) \in Paths
  /\ Score \in [Queries -> [Names -> Int]]
  /\ Hits \in [{"exact", "regex"} -> [Queries -> SUBSET Names]]
  /\ {Batch, Visible, ViewCap} \subseteq Nat \ {0}
  /\ {Threshold, MaxCalls, MaxChanges} \subseteq Nat
  /\ \A c \in Calls :
       /\ c.kind \in Range(Kinds)
       /\ c.kind = "set_search" => c.arg \in Queries \cup {None}
       /\ c.kind = "search_mode" => c.arg \in Modes

VARIABLES
  phase,      \* "load" (plugins are loading), "loop", "prompt" or "stopped"
  b,          \* AppState with its window, and the disk it reads
  saved,      \* the selection prompt_fuzzy_search restores on Esc
  req,        \* the request slot of each kind, at most one argument in it
  quitting,   \* quit_requested
  calls, changes,   \* how often plugins asked, and the disk changed
  unsynced    \* history: cursor or listing moved without a sync since

browserVars == << phase, b, saved, req, quitting, calls, changes, unsynced >>

-----------------------------------------------------------------------------
(* The disk *)

Exists(d, p) == \A i \in DOMAIN p : p[i] \in Range(d[SubSeq(p, 1, i - 1)])

IsDirectory(d, p) == p \in Paths /\ Exists(d, p)

(* What readdir finds in the current directory *)
Entries(s) == IF Exists(s.disk, s.cwd) THEN s.disk[s.cwd] ELSE << >>

-----------------------------------------------------------------------------
(* Loading the listing *)

(* append_files_to_vec_lazy: the next n entries, by position *)
AppendLazy(s, n) ==
  LET new == SubSeq(Entries(s), s.loaded + 1,
                    Min({s.loaded + n, Len(Entries(s))}))
  IN  [s EXCEPT !.files = @ \o new, !.loaded = @ + Len(new)]

(* The names of the old listing are released with it *)
Release(s) == [s EXCEPT !.files = << >>, !.freed = s.selected # None, !.fresh = TRUE]

ReloadDirectory(s) == [Release(s) EXCEPT !.files = Entries(s)]

ReloadDirectoryLazy(s) ==
  LET n == Len(Entries(s))
  IN  AppendLazy([Release(s) EXCEPT !.loaded = 0, !.total = n], Min({n, Batch}))

(* load_more_files_if_needed, at the window start the caller passes *)
LoadMoreAt(s, from) ==
  IF (s.total > 0 /\ s.loaded >= s.total)
     \/ ~(from + Visible + Threshold >= s.loaded /\ s.loaded < s.total)
  THEN s
  ELSE LET t == AppendLazy(s, Min({s.total - s.loaded, Batch}))
       IN  [t EXCEPT !.num = Len(t.files)]
LoadMore(s) == LoadMoreAt(s, s.start)

-----------------------------------------------------------------------------
(* The cursor and the search view *)

ActiveFiles(s) == IF s.active THEN s.view ELSE s.files

FixCursor(s) ==
  LET c    == Max({0, Min({s.cursor, s.num - 1})})
      near == IF c < s.start THEN c
              ELSE IF c >= s.start + Visible THEN c - Visible + 1 ELSE s.start
  IN  [s EXCEPT !.cursor = c,
                !.start = IF s.num <= Visible THEN 0
                          ELSE Max({0, Min({near, s.num - Visible})})]

SearchClear(s) ==
  [s EXCEPT !.selectAll = FALSE, !.active = FALSE, !.query = None, !.view = << >>]

(* Vector_add makes room for more entries than the vector counts, not adding *)
(* or counting any; beyond the capacity there is a slot for the final NULL.  *)
VectorAdd(cap, len, add) == IF len + add > cap THEN Max({2 * cap, len + add}) ELSE cap
Overruns(s) == Len(s.view) > s.cap

(* search_rebuild takes the entries that match.  Exact and regex keep the order *)
(* of the listing, fuzzy sorts: better scores are lower.                       *)
IsMatch(n, query, mode) ==
  IF mode = "fuzzy" THEN Score[query][n] >= 0 ELSE n \in Hits[mode][query]
WithMatch(v, n, query, mode) ==
  LET before == {i \in DOMAIN v : mode # "fuzzy" \/ Score[query][v[i]] <= Score[query][n]}
  IN  InsertAt(v, Cardinality(before) + 1, n)
Matches(files, query, mode) ==
  IF query = None THEN << >>
  ELSE FoldLeft(LAMBDA v, n : IF IsMatch(n, query, mode) THEN WithMatch(v, n, query, mode) ELSE v,
                << >>, files)

(* Mutant: fuzzy asks for room as the other two modes do *)
RebuildAsksForOne(s) ==
  LET v == Matches(s.files, s.query, s.mode)
  IN  [s EXCEPT !.view = v, !.cap = VectorAdd(@, 0, Min({Len(v), 1}))]

(* The view counts as empty until it is whole: fuzzy asks for all the room at *)
(* once, exact and regex for a single entry again and again.                  *)
Rebuild(s) ==
  LET v    == Matches(s.files, s.query, s.mode)
      room == IF s.mode = "fuzzy" THEN Len(v) ELSE Min({Len(v), 1})
  IN  [s EXCEPT !.view = v, !.cap = VectorAdd(@, 0, room)]
SetQuery(s, q) == IF q = None THEN SearchClear(s)
                  ELSE Rebuild([s EXCEPT !.query = q, !.active = TRUE])

ToTop(s) == [s EXCEPT !.cursor = 0, !.start = 0]
Select(s, n) == [s EXCEPT !.selected = n, !.freed = FALSE]

(* sync_selection_from_active.  It compares the new name with the old one,   *)
(* which may be released by now: whether they differ is then up to "same".   *)
Sync(s, same) ==
  LET v == ActiveFiles(s)
      t == FixCursor([s EXCEPT !.num = Len(v)])
      n == v[t.cursor + 1]
  IN  IF v = << >> THEN Select(ToTop([s EXCEPT !.num = 0]), None)
      ELSE [Select(t, n) EXCEPT
             !.override = @ /\ (IF s.freed THEN same ELSE s.selected = n)]

(* Mutant: the view is not built anew from the new listing *)
RereadKeepsView(s, same) ==
  LET r == ReloadDirectory(s)
  IN  Sync([r EXCEPT !.num = Len(r.files), !.loaded = Len(r.files), !.total = Len(r.files)], same)

(* search_before_reload, reload_directory and search_after_reload *)
Reread(s, same) ==
  LET r == ReloadDirectory(SearchClear(s))
      l == [r EXCEPT !.num = Len(r.files), !.loaded = Len(r.files), !.total = Len(r.files)]
  IN  Sync(IF s.query = None THEN l ELSE ToTop(SetQuery(l, s.query)), same)

(* find_loaded_index_by_name: 0-based, -1 when there is none *)
IndexIn(seq, n) == SelectInSeq(seq, LAMBDA x : x = n) - 1

(* find_index_by_name_lazy: loads as long as that adds entries, and leaves    *)
(* the cursor on what was the last entry when the last batch was asked for    *)
NextBatch(s) ==
  LET n == Len(s.files)
  IN  LoadMore([s EXCEPT !.num = n, !.cursor = n - 1])

FindLazy(s, n) ==
  LET after[k \in 0 .. Len(Entries(s)) + 1] == IF k = 0 THEN s ELSE NextBatch(after[k - 1])
      ended(k) == \/ IndexIn(after[k].files, n) # -1 \/ after[k].files = << >>
                  \/ k > 0 /\ after[k].files = after[k - 1].files
                  \/ k = 512
      k == CHOOSE j \in DOMAIN after : ended(j) /\ \A i \in 0 .. j - 1 : ~ended(i)
  IN  [after[k] EXCEPT !.num = Len(after[k].files)]

-----------------------------------------------------------------------------
(* Moving about *)

NavigateUp(s) ==
  LET v == ActiveFiles(s)
      wrap == LET t == IF s.active THEN s ELSE LoadMore(s)
                  n == Len(ActiveFiles(t))
              IN  [t EXCEPT !.num = n, !.cursor = n - 1, !.start = Max({0, n - Visible})]
      back == [s EXCEPT !.cursor = @ - 1, !.start = Min({@, s.cursor - 1}), !.num = Len(v)]
      t == FixCursor(IF s.cursor = 0 THEN wrap ELSE back)
  IN  IF v = << >> THEN [s EXCEPT !.num = 0]
      ELSE Select(t, ActiveFiles(t)[t.cursor + 1])

NavigateDown(s) ==
  LET n    == Len(ActiveFiles(s))
      next == [s EXCEPT !.cursor = @ + 1,
                        !.start = Min({Max({@, s.cursor + 2 - Visible}), Max({0, n - Visible})})]
      t    == FixCursor([(IF s.cursor >= n - 1 THEN ToTop(s) ELSE next) EXCEPT !.num = n])
      u    == IF s.active THEN t ELSE LoadMore(t)
  IN  IF n = 0 THEN [s EXCEPT !.num = 0]
      ELSE Select([u EXCEPT !.num = Len(ActiveFiles(u))], ActiveFiles(u)[t.cursor + 1])

(* Mutant: the selection stays behind *)
AtFirstUnselected(s) == [ToTop(s) EXCEPT !.num = Len(s.files)]

(* Both navigations end on the first entry, whatever was found before *)
AtFirst(s) == Select([ToTop(s) EXCEPT !.num = Len(s.files)],
                     IF s.files = << >> THEN None ELSE s.files[1])

NavigateLeft(s) ==
  LET up == IF s.cwd = << >> THEN SearchClear(s)
            ELSE ReloadDirectoryLazy([SearchClear(s) EXCEPT !.cwd = Front(s.cwd)])
  IN  AtFirst(IF s.stack = << >> THEN up
              ELSE FindLazy([up EXCEPT !.stack = Front(s.stack)], Last(s.stack)))

NavigateRight(s) ==
  LET v == ActiveFiles(s)
      n == v[s.cursor + 1]
  IN  IF s.cursor + 1 \notin DOMAIN v \/ n \notin DirNames THEN s
      ELSE AtFirst(ReloadDirectoryLazy(
             [SearchClear(s) EXCEPT !.stack = Append(@, n), !.cwd = Append(@, n)]))

(* A plugin's cd, and open_path of a directory *)
ChangeDirectory(s, p, same) ==
  Sync(ToTop(ReloadDirectoryLazy([SearchClear(s) EXCEPT !.stack = << >>, !.cwd = p])), same)

-----------------------------------------------------------------------------
(* The main loop *)

(* A handler that ends in s; one that does nothing leaves a lost sync lost *)
Show(s) == b' = s /\ unsynced' = (unsynced /\ s = b)

BrowserInit ==
  LET s == [disk |-> Disk0, cwd |-> << >>, files |-> << >>, loaded |-> 0, total |-> 0,
            cursor |-> 0, start |-> 0, num |-> 0, selected |-> None, freed |-> FALSE,
            active |-> FALSE, query |-> None, mode |-> "fuzzy", view |-> << >>,
            cap |-> ViewCap, selectAll |-> FALSE, override |-> FALSE, stack |-> << >>, fresh |-> TRUE]
  IN  /\ phase = "load"
      /\ b = Sync(ReloadDirectoryLazy(s), TRUE)
      /\ saved = None
      /\ req = [k \in Range(Kinds) |-> {}]
      /\ quitting = FALSE
      /\ calls = 0 /\ changes = 0
      /\ unsynced = FALSE

(* What the next action needs of the last: no write behind the view's buffer *)
Intact == ~Overruns(b)

(* A script files a request.  Before the first plugins_update_context the     *)
(* manager knows neither directory nor selection, and refuses those that need *)
(* one; a file operation waits for its slot, any other call overwrites it.    *)
Request ==
  /\ Intact /\ phase \in {"load", "loop"} /\ calls < MaxCalls
  /\ \E c \in Calls :
       /\ c.kind \in {"enter_dir", "open_selected"} => phase = "loop" /\ b.selected # None
       /\ c.kind = "parent_dir" => phase = "loop"
       /\ c.kind = "fileop" => req["fileop"] = {}
       /\ req' = [req EXCEPT ![c.kind] = {c.arg}]
  /\ calls' = calls + 1
  /\ UNCHANGED << phase, b, saved, quitting, changes, unsynced >>

RequestQuit ==
  /\ Intact /\ phase \in {"load", "loop"} /\ calls < MaxCalls
  /\ quitting' = TRUE /\ calls' = calls + 1
  /\ UNCHANGED << phase, b, saved, req, changes, unsynced >>

(* on_load may have asked for a directory and for a reload.  The reload does  *)
(* not sync: state.selected_entry dangles until something else does.          *)
StartLoop ==
  LET cd(s) == IF \E p \in req["cd"] : IsDirectory(s.disk, p)
               THEN {ChangeDirectory(s, CHOOSE p \in req["cd"] : TRUE, same) : same \in BOOLEAN}
               ELSE {s}
      reload(s) == LET r == ReloadDirectory(s)
                       n == Len(r.files)
                   IN  [r EXCEPT !.num = n, !.loaded = n, !.total = n]
  IN  /\ Intact /\ phase = "load" /\ phase' = "loop"
      /\ \E s \in cd(b) : b' = IF req["reload"] = {} THEN s ELSE reload(s)
      /\ unsynced' = (req["reload"] # {})
      /\ req' = [req EXCEPT !["cd"] = {}, !["reload"] = {}]
      /\ UNCHANGED << saved, quitting, calls, changes >>

(* The first slot in the order of the loop is taken, whatever comes of it *)
Take(k) ==
  /\ Intact /\ phase = "loop" /\ ~quitting
  /\ req[k] # {}
  /\ \A i \in DOMAIN Kinds : req[Kinds[i]] # {} => i >= SelectInSeq(Kinds, LAMBDA x : x = k)
  /\ req' = [req EXCEPT ![k] = {}]
  /\ UNCHANGED << phase, saved, quitting, calls >>
Arg(k) == CHOOSE a \in req[k] : TRUE

ServeCd ==
  /\ Take("cd") /\ UNCHANGED changes
  /\ \E same \in BOOLEAN :
       Show(IF IsDirectory(b.disk, Arg("cd")) THEN ChangeDirectory(b, Arg("cd"), same) ELSE b)

MoveTo(s, i, same) == Sync(FixCursor([s EXCEPT !.cursor = i]), same)

ServeSelectIndex ==
  /\ Take("select_index") /\ UNCHANGED changes
  /\ \E same \in BOOLEAN :
       Show(IF Arg("select_index") \in 0 .. Len(ActiveFiles(b)) - 1
            THEN MoveTo(b, Arg("select_index"), same) ELSE b)

(* A name that is not found outside a search leaves the cursor where the      *)
(* lookup moved it, and the selection where it was                            *)
ServeSelect ==
  LET s == IF b.active THEN b ELSE FindLazy(b, Arg("select"))
      i == IndexIn(ActiveFiles(s), Arg("select"))
  IN  /\ Take("select") /\ UNCHANGED changes
      /\ \E same \in BOOLEAN :
           IF i # -1 THEN Show(MoveTo(s, i, same))
           ELSE b' = s /\ unsynced' = (unsynced \/ s # b)

ServeClearSearch ==
  /\ Take("clear_search") /\ UNCHANGED changes
  /\ \E same \in BOOLEAN : Show(Sync(ToTop(SearchClear(b)), same))

ServeSetSearch ==
  /\ Take("set_search") /\ UNCHANGED changes
  /\ \E same \in BOOLEAN :
       Show(Sync(ToTop(SetQuery([b EXCEPT !.selectAll = FALSE], Arg("set_search"))), same))

ServeParentDir == Take("parent_dir") /\ UNCHANGED changes /\ Show(NavigateLeft(b))
ServeEnterDir == Take("enter_dir") /\ UNCHANGED changes /\ Show(NavigateRight(b))

(* A file is opened in the editor *)
ServeOpenPath ==
  /\ Take("open_path") /\ UNCHANGED changes
  /\ \E same \in BOOLEAN :
       Show(IF IsDirectory(b.disk, Arg("open_path"))
            THEN ChangeDirectory(b, Arg("open_path"), same) ELSE b)

ServePreview ==
  /\ Take("preview") /\ UNCHANGED << changes, unsynced >>
  /\ b' = [b EXCEPT !.override = @ \/ Exists(b.disk, Arg("preview"))]

(* open_selected acts on the entry under the cursor, like enter_dir *)
ServeOpenSelected == Take("open_selected") /\ UNCHANGED changes /\ Show(NavigateRight(b))

ServeSearchMode ==
  LET s == [b EXCEPT !.mode = Arg("search_mode")]
  IN  /\ Take("search_mode") /\ UNCHANGED changes
      /\ \E same \in BOOLEAN :
           IF b.active THEN Show(Sync(ToTop(Rebuild(s)), same))
           ELSE b' = s /\ UNCHANGED unsynced

ServeReload ==
  /\ Take("reload") /\ UNCHANGED changes
  /\ \E same \in BOOLEAN : Show(Reread(ToTop(b), same))

(* What an operation in directory p may leave there *)
Changed(p) ==
  LET old == b.disk[p]
  IN  {[b.disk EXCEPT ![p] = new] : new \in
         {RemoveAt(old, i) : i \in DOMAIN old}
         \cup {InsertAt(old, i, n) : i \in 1 .. Len(old) + 1,
                 n \in {m \in Names \ Range(old) : m \in DirNames => Append(p, m) \in Paths}}}

(* What a file operation may have made of the disk: nothing, or something in  *)
(* the current directory                                                      *)
Outcomes == {b.disk} \cup (IF changes < MaxChanges /\ Exists(b.disk, b.cwd)
                           THEN Changed(b.cwd) ELSE {})
Spend(d) == changes' = IF d = b.disk THEN changes ELSE changes + 1

(* A file operation of a plugin: reread from the top when it succeeded *)
ServeFileop ==
  /\ Take("fileop")
  /\ \/ UNCHANGED << b, changes, unsynced >>
     \/ \E d \in Outcomes, same \in BOOLEAN :
          Spend(d) /\ Show(Reread(ToTop([b EXCEPT !.disk = d]), same))

Serve == \/ ServeCd \/ ServeSelectIndex \/ ServeSelect \/ ServeClearSearch
         \/ ServeSetSearch \/ ServeParentDir \/ ServeEnterDir \/ ServeOpenPath
         \/ ServePreview \/ ServeOpenSelected \/ ServeFileop \/ ServeSearchMode
         \/ ServeReload

Quit ==
  /\ Intact /\ phase = "loop" /\ phase' = "stopped"
  /\ UNCHANGED << b, saved, req, quitting, calls, changes, unsynced >>

(* A key is handled only when no request was *)
Idle == /\ Intact /\ phase = "loop" /\ ~quitting /\ \A k \in Range(Kinds) : req[k] = {}
        /\ UNCHANGED << quitting, calls >>
NoRequest == UNCHANGED << req >>

MoveKey ==
  /\ Idle /\ NoRequest /\ UNCHANGED << phase, saved, changes >>
  /\ \E s \in {NavigateUp(b), NavigateDown(b), NavigateLeft(b), NavigateRight(b)} : Show(s)

SelectAllKey ==
  /\ Idle /\ NoRequest /\ UNCHANGED << phase, saved, changes, unsynced >>
  /\ b' = [b EXCEPT !.selectAll = ~@]

(* Paste, cut and delete keep the cursor; undo, redo, rename and the two keys *)
(* that create something go to the top                                        *)
FileKey ==
  /\ Idle /\ NoRequest /\ UNCHANGED << phase, saved >>
  /\ \E d \in Outcomes, same \in BOOLEAN, s \in {b, ToTop(b)} :
       Spend(d) /\ Show(Reread([s EXCEPT !.disk = d], same))

(* redraw_all_windows *)
Resize ==
  /\ Idle /\ NoRequest /\ UNCHANGED << phase, saved, changes >>
  /\ \E same \in BOOLEAN : Show(Sync(b, same))

(* In the editor, opened on the selection, a script saves under the name n:  *)
(* editor_save_as asks for a reload and for n to be selected                  *)
EditorSavesAs ==
  /\ Idle /\ UNCHANGED << phase, saved, unsynced >>
  /\ b.selected \in Names \ DirNames /\ ~b.freed /\ Exists(b.disk, b.cwd)
  /\ changes < MaxChanges /\ changes' = changes + 1
  /\ \E n \in Names \ DirNames :
       /\ \E d \in Changed(b.cwd) \cup {b.disk} :
            /\ n \in Range(d[b.cwd]) /\ Range(b.disk[b.cwd]) \subseteq Range(d[b.cwd])
            /\ Range(d[b.cwd]) \subseteq Range(b.disk[b.cwd]) \cup {n}
            /\ b' = [b EXCEPT !.disk = d, !.fresh = @ /\ d = b.disk]
       /\ req' = [req EXCEPT !["reload"] = {"yes"}, !["select"] = {n}]

(* Another program adds or removes an entry *)
DiskChange ==
  /\ Intact /\ phase \in {"loop", "prompt"}
  /\ changes < MaxChanges /\ changes' = changes + 1
  /\ \E p \in Paths : Exists(b.disk, p) /\ \E d \in Changed(p) :
       LET s == [b EXCEPT !.disk = d]
       IN  b' = [s EXCEPT !.fresh = @ /\ Entries(s) = Entries(b)]
  /\ UNCHANGED << phase, saved, req, quitting, calls, unsynced >>

-----------------------------------------------------------------------------
(* prompt_fuzzy_search: a loop of its own, without plugins *)

SearchKey ==
  /\ Idle /\ NoRequest /\ phase' = "prompt" /\ UNCHANGED changes
  /\ saved' \in IF b.freed THEN Names \cup {None} ELSE {b.selected}
  /\ \E same \in BOOLEAN : Show(Sync(ToTop(SetQuery(b, b.query)), same))

Prompting == Intact /\ phase = "prompt" /\ UNCHANGED << req, quitting, calls, changes >>
Back == Prompting /\ phase' = "loop" /\ saved' = None

(* Idle in the prompt: the next batch, when the last one is 150 ms ago *)
PromptLoads ==
  /\ Prompting /\ b.active /\ UNCHANGED << phase, saved >>
  /\ \E s \in {b, [LoadMoreAt(b, b.loaded) EXCEPT !.num = b.num]}, same \in BOOLEAN :
       Show(Sync(Rebuild(s), same))

PromptMoves ==
  /\ Prompting /\ UNCHANGED << phase, saved >> /\ b.active /\ b.view # << >>
  /\ \E step \in {-Max({1, Visible}), -1, 1, Max({1, Visible})}, same \in BOOLEAN :
       Show(MoveTo(b, (b.cursor + step) % Len(b.view), same))

PromptTypes ==
  /\ Prompting /\ UNCHANGED << phase, saved >>
  /\ \E q \in (Queries \cup {None}) \ {b.query}, same \in BOOLEAN :
       Show(Sync(ToTop(SetQuery([b EXCEPT !.selectAll = FALSE], q)), same))

(* Esc goes back to the selection from before, loading as far as it must *)
PromptEsc ==
  LET s == ToTop([SearchClear(b) EXCEPT !.num = Len(b.files)])
      f == FindLazy(s, saved)
      i == IndexIn(f.files, saved)
  IN  /\ Back
      /\ \E same \in BOOLEAN :
           Show(Sync(CASE saved = None -> s
                       [] i # -1 -> [f EXCEPT !.cursor = i]
                       [] OTHER -> f, same))

PromptEnter ==
  /\ Back
  /\ \E same \in BOOLEAN :
       Show(IF b.query = None THEN Sync(SearchClear(b), same) ELSE b)

(* The view was written behind its buffer *)
BrowserIsBroken == Overruns(b) /\ UNCHANGED browserVars

BrowserStopped == phase = "stopped" /\ UNCHANGED browserVars

BrowserNext ==
  \/ Request \/ RequestQuit \/ StartLoop \/ Serve \/ Quit
  \/ MoveKey \/ SelectAllKey \/ FileKey \/ EditorSavesAs \/ Resize \/ DiskChange
  \/ SearchKey \/ PromptLoads \/ PromptMoves \/ PromptTypes \/ PromptEsc \/ PromptEnter
  \/ BrowserStopped \/ BrowserIsBroken

BrowserSpec == BrowserInit /\ [][BrowserNext]_browserVars

-----------------------------------------------------------------------------
(* Properties *)

(* The browser's state: core/../app_state.h and the request slots. *)
BrowserTypeOK ==
  /\ phase \in {"load", "loop", "prompt", "stopped"}
  /\ b.disk \in [Paths -> Seq(Names)] /\ b.cwd \in Paths
  /\ {b.files, b.view} \subseteq Seq(Names) /\ b.stack \in Seq(DirNames)
  /\ {b.loaded, b.total, b.cursor, b.start, b.num, b.cap} \subseteq Nat
  /\ {b.selected, saved} \subseteq Names \cup {None}
  /\ b.query \in Queries \cup {None} /\ b.mode \in Modes
  /\ {b.freed, b.active, b.selectAll, b.override, b.fresh, quitting, unsynced} \subseteq BOOLEAN
  /\ \A k \in Range(Kinds) : Cardinality(req[k]) <= 1
  /\ calls \in 0 .. MaxCalls /\ changes \in 0 .. MaxChanges

(* What is shown as selected, what the file keys act on and what plugins are  *)
(* told is the live name of the entry under the cursor, and the cursor is in  *)
(* the window: through lazy loading, searches, reloads and navigation.  The   *)
(* exceptions are a select by name that found nothing, and a reload asked for *)
(* in on_load: until the next sync the two may differ; and a view written     *)
(* behind its buffer may hold anything.                                       *)
SelectionIsUnderCursor ==
  ~unsynced /\ ~Overruns(b) =>
    LET v == ActiveFiles(b)
    IN  /\ ~b.freed /\ b.num = Len(v)
        /\ IF v = << >> THEN b.selected = None /\ b.cursor = 0
           ELSE /\ b.cursor < Len(v) /\ b.selected = v[b.cursor + 1]
                /\ b.start <= b.cursor /\ b.cursor < b.start + Visible

(* Batches skip by position: while the directory is as it was, they put       *)
(* together its listing, no entry twice and none left out.  The search view   *)
(* is the matches of the query among the entries loaded: it keeps pointers to *)
(* entries, so one that outlives its listing would name released entries, and *)
(* one not rebuilt would miss loaded ones.  And it fits into its buffer after *)
(* every fuzzy search, and after every other one with no more matches than    *)
(* the buffer was made for, whatever was searched and loaded before.  Exact   *)
(* and regex searches with more matches do write behind it; what is there     *)
(* then, nobody can say.                                                      *)
ViewShowsTheListing ==
  /\ Overruns(b) => b.mode # "fuzzy" /\ Len(b.view) > ViewCap
  /\ ~Overruns(b) =>
       /\ b.loaded = Len(b.files)
       /\ b.fresh => /\ IsPrefix(b.files, Entries(b))
                     /\ b.total = Len(Entries(b))
       /\ b.view = IF b.active THEN Matches(b.files, b.query, b.mode) ELSE << >>
=============================================================================
