# CupidFM: formal verification

TLA+ models of [CupidFM](../src/README.md), a file manager for the terminal with a
built-in editor and plugins, their TLC configurations, and TLAPS proofs.
`PROJECT.json` lists the components, runs, mutants, hazards, theorems, and for every
definition the source lines it translates. Paths below are relative to the repository.

- [1. The system](#1-the-system)
- [2. Plan](#2-plan)
- [3. The models](#3-the-models)
- [4. The runs](#4-the-runs)
- [5. The proofs](#5-the-proofs)
- [6. Where code and documentation disagree](#6-where-code-and-documentation-disagree)
- [7. What is not modelled](#7-what-is-not-modelled)

## 1. The system

One UI thread runs everything (`src/app/main.c`): it polls the keyboard every 100 ms,
calls plugins, carries out what they request, and draws. A second thread computes
directory sizes; a third scrolls a banner. The editor and every prompt are loops of
their own inside the UI thread.

| Component | State | Operations | Must be right |
|---|---|---|---|
| **Directory-size cache** (`src/fs/files.c` 95–360, 1800–2170) | entries by path, a job list, `dir_size_mutex` and a condition variable, stop flag, worker thread | request and display (UI), pop, walk, push progress, publish (worker), stop and join (UI) | no request lost or computed twice, no lost wakeup, a final size is final, the two reads of one display agree, quitting ends and frees nothing in use |
| **Editor session** (`files.c` 430–700, 1170–1600, 2695–4013) | text, cursor, two dirty flags and a clear request, close and reload requests, undo and redo stacks, file handle, read-only flag | keys; the plugin API; callbacks `on_key`, `on_editor_change`, `on_cursor_move`, `on_editor_save` | unsaved text is never given up unasked, undo is a line of versions, a requested close happens |
| **Editor text** (`files.c` 700–1087, 2658–3742) | lines, cursor, selection, drag, clipboard | insert, delete, cut, copy, paste, upper case, words, mouse | each key does to the text what it says, and nothing is touched outside of it |
| **File operations** (`src/core/utils.c`, `src/core/undo.c`, `src/fs/clipboard.c`, `main.c` 610–860 and 1072–1590) | files, the cut storage and the trash in `/tmp`, the clipboard file, one operation to undo and one to redo | copy, cut, paste, delete, rename, create by key and by plugin; undo, redo | undo restores, no file is lost |
| **Browser and main loop** (`src/core/search.c`, `src/app/app_navigation.c`, `src/ui/browser_ui.c`, `main.c` 345–1050) | entries read so far, search view (a second vector of the same entries), cursor and window, selected entry (a pointer into an entry), directory stack, one slot per kind of plugin request, quit flag | navigate, load more, search, reload, select; serve one request per iteration in a fixed order | the selected entry is the one under the cursor, the view never outlives the listing |
| **Plugin manager** (`src/core/plugins.c`, `plugin_ui.c`, `plugins_api.c`) | scripts, hooks and handlers by event, key bindings, the last context, one modal dialog | load, register, raise events, dispatch keys, ask, shut down | every event reaches everyone, nothing that was freed is called, every dialog is answered |
| **CupidScript** (`lib/cs_vm.c`, `cs_event_loop.c`, `cs_stdlib.c`, `cs_net.c`) | C stack of the evaluator, stack trace, yield list, pending throw; promises, tasks, timers, sockets; counted objects; hash maps | statements, calls, defer, try, yield, await; retain, release, collect; set and delete | cleaning up runs, calls nest, a promise can still be settled, counts are exact, a map is a function |
| **Archives** (`cupidarchive/src/`) | a stream over a file, filters, readers of one shared stream, extraction directory | next, open data, skip, read, extract | data is of the entry, every entry is returned |
| **Configuration and cache** (`src/core/config.c`, `lib/cupidconf.c`, `plugins_api.c` 147–609 and 2107–2351) | key bindings, `~/.cupidfmrc`, `~/.cupidfm/cache.kv` | read at launch, get and set from scripts | what was stored is found |
| **Vector, VecStack** (`src/ds/`) | arrays that grow by doubling | add, set length, push, pop | capacity and length agree |
| MIME, syntax colours, banner, console, drawing | – | – | pure functions or output |

How they interact: the display asks the size cache twice per frame under a lock; keys and
plugin requests call the file operations, which reload the browser's list; the editor is
opened from three places in the loop (`main.c` 552, 603, 1063) and calls plugins, which call
back into the editor through `plugins_editor_api.c` in the middle of an iteration.

What makes it hard: two threads over one cache; callbacks that change globals of which the
caller holds copies; shell commands whose failure is not noticed; a clipboard and temporary
storage that outlive the operation that filled them; other programs in the same
directory; lists that are freed while something still points into them; scripts that
re-enter their machine from natives and callbacks; and one stream under several readers.
`PROJECT.json` lists these hazards line by line.

## 2. Plan

The order was: the size cache (the only shared memory), the editor's session, its
text, file operations; then the browser with the main loop's requests, the plugin manager,
the script machine in three modules, the archive readers, and the stored settings. The proofs
followed in the same order; section 5 lists them. What is left with TLC:

| Left | Why |
|---|---|
| `CanBeUndone`, `CanBeRedone` of `FileOps` | they say what a whole attempt gives, from any disk the operation may have left; each kind of operation would need the inverse of its fold over sets of outcomes |
| liveness | needs fairness and `ENABLED` |

The abstract specifications are those of parts that promise something to another part:
`DirSizeService`, `EditorHistory` and `FlatText`.

## 3. The models

### DirSizeCache, DirSizeService

| Model | Code |
|---|---|
| `status`, `size`, `progress`, `jobEnqueued` | `DirSizeEntry` in the list `dir_size_cache_head` |
| `jobs` | `dir_size_job_head` … `dir_size_job_tail` |
| `running`, `initialized` | `dir_size_thread_running`, `dir_size_thread_initialized` |
| `worker` with `job`, `total`, `visited`, `result` | the worker's program counter and locals |
| `ui` with `focus`, `lastPath`, `settled`, `idle`, `shown` | the UI thread's, and what the preview pane shows (`draw_preview_window_path`): nothing yet, a bare "waiting" or "calculating", the size so far, or the result |

Everything that runs under `dir_size_mutex` is one action; between two critical sections
the other thread may do anything. A wait is the value `"waiting"` of `worker`; a signal
moves it on, and a spurious wakeup is a step of its own. The walk meets files
in any number up to `MaxItems` and of any of `ItemSizes`, or aborts. `Faults` chooses whether
the allocations and `pthread_create` may fail.

`DirSizeService` is what the user interface may assume: a directory is asked about at most
once, questions are answered in order, an answer is never revised. `DirSizeCache` implements
it with the entry that is being walked still counted as asked.

### Editor, EditorHistory

`pc` says where the UI thread is: at the prompt for a key, in one of the callbacks, in a
confirmation, or outside. A callback is a sequence of API calls: while `pc` is in it, every
API action is enabled. `cursor`/`apiCursor` and `dirty`/`apiDirty` are
pairs of a local and a global of the same meaning; their disagreement is the point of the
model. `undo` and `redo` are the snapshot stacks. Contents and positions are opaque.
`Env` chooses what may go wrong: a file cannot be opened, a write fails, a plugin edits
in `on_key` and still lets the key pass.

`EditorHistory` is a line of versions with a place on it: edits cut off the future, undo and
redo move, the oldest versions fall off. It maps to `undo \o <<buffer>> \o Reverse(redo)`.
Its `keyed` is `pc = "dispatch"`: a key can edit and move, and only what is no key can
amend the version on the screen. Without it a lost version would pass for an amended one.

### EditorText, FlatText

The text is a sequence of lines, the cursor a line and a column, the selection an anchor and
an end. All keys are actions. A position outside of the text makes the next access
undefined behaviour, which the model gives as any result. `FlatText` knows one flat sequence
of characters with a caret and an optional selection and promises nothing once the caret or
the selection is outside; it names the only steps that get there.

What the runs taught: a cut of a line keeps its column although the next line may be
shorter; Backspace, plugin edits and a cut of a line leave the selection where it was,
so that a later cut can put the cursor on a line that does not exist (`files.c` 3475–3526); a
plugin that edits within a callback leaves the loop's cursor behind (`files.c` 2932, 3651); a
paste replaces an empty selection at its place and not at the cursor; a mouse button
released outside leaves the drag on.

### FileOps

| Model | Code |
|---|---|
| `disk` | what exists: the directory (`"cwd"`, or `"beside"` once renamed) with what is in it, `/tmp/cupidfm_cut_storage_<pid>` (`"store"`) and `/tmp/cupidfm_trash_<pid>` (`"trash"`): a function from paths to contents |
| `listed` | `state.files` as last read |
| `clip`, `copied` | the clipboard's text in either format, `copied_filename` |
| `undo`, `redo` | `UndoState` |
| `before`, `exact` | only for the properties: the view to go back to, and whether the operation went as planned |

Each key and each plugin operation is one action, with every shell command it runs in turn.
With nothing in view, as when a search finds nothing, `selected_entry` is the empty name, which
the keys' guards let pass and which `path_join` makes the directory itself: `Selected` has the
entries and `Here`. A list of items is a fold over sets of possible outcomes, so that a command that
fails silently in the middle is one of them. `mv`, `cp` and the system calls are external and
modelled by what they do to a tree, including that `mv` puts its source into a target
that is a directory. Other programs act between two operations.

What the runs taught, besides section 6: a second cut before the paste overwrites the first,
or, if that was a directory, moves into it and may overwrite a file of the same
name in there; a multi-item undo that stops halfway can never be completed, because its
first item now finds its target taken; undo works through the items in the order in
which they were done, so a file deleted together with its directory cannot be restored; a
plugin's `touch` or `rename` makes a missing parent directory, which undo leaves
behind; quitting deletes what was cut and not pasted; a key without a selection takes the
directory the browser is in, and the browser goes on in one that no longer exists.

### Browser

| Model | Code |
|---|---|
| `b` | `AppState` with its window: `files`, `view` (`search_files`) and `cap` (the slots of its buffer), `cursor`, `start`, `num` (the `CursorAndSlice`), `selected` and `freed` (`selected_entry`, and whether what it points to was released), `loaded` and `total` (lazy loading), `query`, `mode`, `active`, `selectAll`, `stack`; and the disk it reads |
| `saved` | the selection that `prompt_fuzzy_search` restores on Esc |
| `req`, `quitting` | the request fields of `PluginManager` |
| `phase` | plugins loading, the loop, the search prompt, the end |
| `unsynced` | only for the properties: the cursor or the listing moved without `sync_selection_from_active` |

The navigation, search and loading functions are operators from a browser to a browser with the names of
the C functions; actions compose them as `main.c` does. A request is served before any key, one per
round, in the order of `Kinds`. The directory may change between two actions. `VectorAdd` is what
`Vector_add` does to a capacity. The exact and the regex search ask it for one entry although none is
counted, so their buffer keeps the size of `Vector_new(10)` or of the largest fuzzy search; with more
matches they write behind it (`Overruns`). What the program does then is undefined, so the model stops
there and the properties promise nothing for it; `ViewShowsTheListing` says after which searches it can be.
Scores and matches of a query are given by constants: matching is not what the properties are about, the
order and the membership of the view are.

### Plugins

`run` is where the one thread is: between two hooks, in a handler, at a dialog. While
`run.vm` is a script, it may call any native. `pm` holds the manager's lists; `vms` is whether
a machine runs or was freed. A call into a freed machine, or a read through an entry of a list
that has moved since, is `"undefined"`. What `EventReachesEveryone` compares with is `owed`, the
calls computed when the event was raised.

### Script, ScriptHeap, ScriptMap

`Script` has the evaluator's C stack as `frames`. A block that may go on picks any statement,
so that the program is arbitrary; `done` is the completion (`exec_result`) just returned. A call
by name, a call through a pipe, a method, a constructor through a pipe, an async call, the
host's `cs_call` and a `require` differ in what they push on the stack trace, in whose list
yields go to, and in what becomes of a throw: that is what is modelled of them. An await runs
the scheduler inside its frame: due timers, then one task, then the sockets.

`ScriptHeap` is objects with a kind, a count and items, the references held by environments and the C
stack, and the collector of `cs_vm_collect_cycles` (trial deletion over the tracked lists and maps). A
release that frees an object releases its items next: `ReleaseAll` runs `ReleaseNext`, one
`cs_value_release`, until nothing is left, which takes no more steps than there are references. What the
collector marks with its stack is given as what it marks, the least set that is closed under references
(`Reach`); the order in which it frees the rest is open. `ScriptMap` is the open-addressing table with
linear probing, growth at 70% and deletion by rebuilding, next to the function it stands for.

### Archive

`archive` is the archive as its members; `position` the position of the one stream; `reader`, `stream`
the reader's and a data stream's fields. A unit of the stream is a block's fraction: `UnitAt(p)` says of
which member it is. `client` is either a caller that makes the calls in any order, or the loop of
`arc_extract_to_path`. Whether a stream can seek and tell depends on the format, and is what makes them
differ. `Length` is the data a member has in the file, `Stored` the size the reader takes it to have: the
one in the member's own header, also when a pax header before it gives another, which is parsed and not
used. Only a TAR has such members, and hard links, which have no data; a single compressed file and a 7z,
whose reader gives one entry, have one member.

### Settings

`kb` is `g_kb`, `rc` and `cache` the two files, `tmp` the file beside the second. Texts of keys
are pairs of form and content, since what goes wrong is that a form is written which is not
read; cache lines are sequences of characters because escaping, splitting at the tab and
cutting at the buffer's length are what a value goes through; it is tagged with its type (`s:`). The
user edits the configuration, the program is killed, the disk is full, and the cache cannot be
opened, at any time. Keys are short enough for
their line to be read up to the tab (`KeysFit`); values may be of any length.

## 4. The runs

| Run | Shows | Bounds |
|---|---|---|
| `dirsize_safety` | `PendingIsOwed`, `OneJobPerPath`: a pending entry is in exactly one place; `NoLostWakeup`; `StoppedIsQuiet`: teardown meets no live worker; `ScreenAgrees`; `ReadyIsFinal`; `ProgressAdvances`; `ImplementsService` | 2 directories, walks of 2 files of 2 sizes around the threshold, all failures |
| `dirsize_live` | `WaitingIsRewarded`, `RequestIsServed`, `StopCompletes` | walks of 1 file, no failures |
| `editor_safety` | `UnsavedIsDirty`, `HistoryFits`, `NoSilentDiscard`, `ImplementsHistory` | see `MCEditor_safety.cfg`: 2 contents, 2 files, opens may fail |
| `editor_live` | `CloseIsHandled` | 2 contents, 1 file, every failure |
| `editor_doc_savefail`, `editor_doc_quit` | disagreements, section 6 | 2 contents, 1 file |
| `editor_text` | `CutPasteRestores`, `ImplementsFlatText` | texts of 2 characters in 3 lines, a pasted snippet of one line end |
| `fileops` | `CanBeUndone`, `CanBeRedone`: what went as planned can always be undone and redone; `ContentsSurvive`: the ways to lose a file are those named | 3 names, 1 file in any place, 3 operations, every failure, other programs |
| `fileops_doc_undo`, `fileops_doc_selection` | disagreements, section 6 | 3 names, 1 file, no failures |
| `parts` | browser: `SelectionIsUnderCursor`, `ViewShowsTheListing`; plugins: `CallsReachLiveScripts`, `EventReachesEveryone`, `DialogIsAnswered`; script: `CleanupRuns`, `CallsNest`, `PromisesHaveOwners`, `CountsAreExact`, `CollectorIsExact`, `MapIsAFunction`; archives: `DataIsOfTheEntry`, `EveryEntryIsReturned`; settings: `StoredIsFound` | see `MCParts.cfg` and below |
| `archive_doc_extract` | disagreement, section 6 | every archive of `MCArchive` |

`parts` checks seven groups of modules in one run. They share no variable; a behaviour chooses one
at its start and the others keep one initial state, so the states are the sum of the parts',
about 1,030,000, and no property of one part is weakened by the others.

The safety runs also check the `TypeOK` of their module. For every property there is a mutant in
`PROJECT.json`: a changed definition of the model, as a bug in that code would change it,
under which TLC finds the property violated.

Why the bounds are enough. *Directories*: the cache treats paths alike and one worker serves them, so the
interference of two requests is the most that one entry can notice; two files per walk give a progress
push between, and their sizes cross the threshold on the first or on the second. *Contents*: the session
only asks whether two contents are the same; two contents and stacks of one or two already fill, overflow
and cut off the history. *Text*: keys touch at most two neighbouring lines, and three lines have a first,
an inner and a last one. *Operations*: cut, paste and undo is the longest chain that one redo depends on,
and the invariants look one undo or redo further. Three names leave a free one beside a source and a
target. The directory itself can be cut into the storage and pasted into nothing, or renamed to the one
name beside it. *Browser*: a listing of two batches of two, a window of two rows, a directory in a directory,
and two calls of plugins with one change of the disk, which is what a stale selection needs; a view made
for two matches, where the code has ten, so that searches of one, two and three are below, at and above
it and a fuzzy search may make room for the next exact one. *Plugins*: two scripts, a list of handlers
that must grow with the second, two natives and two rounds. *Script*: seven frames hold a call within a
try within a call within an await, four statements a deferred one, a throw and the two that clean up; two
promises wait for one another; one socket with two operations. *Heap*: three objects have every cycle
that goes through a list, a map and a function. *Map*: the first capacity is scaled from 8 to 2 so that
four keys grow the table twice; their probe sequences meet and wrap around. *Archive*: a block of two
units has members below, at and above a block, and a size of 3 in a pax header is 0 or 1 in the member's
own. *Settings*: three changes are a value, what disturbs it, and the write that follows; a line of ten
characters cuts one of the two values, in the middle of an escape. What the bounds leave open the proofs
close, where there is one.

Symmetry is used for directories, names, contents and paths, in runs without liveness.

**Fairness.** `DirSizeCache!FairSpec`: weak fairness of the worker's steps (the
operating system's scheduler; it holds no lock while it walks, and each walk ends), and of
the display steps of the UI thread, which the main loop takes every 100 ms.
The user need not press anything; `WaitingIsRewarded` is about a user who does
nothing for the request delay. `Editor!FairSpec`: weak fairness of the loop's own steps,
because the loop wakes every 10 ms without a key and callbacks return. No fairness is
assumed of keys, of plugins' calls, or of answers to confirmations.

## 5. The proofs

TLAPS proves the following for every value of the constants that satisfies the assumptions
in the modules.

| Theorem | Of | Says |
|---|---|---|
| `DirSizeCache_proofs!TypeCorrect` | `TypeOK` | types, for any directories and sizes |
| `DirSizeCache_proofs!RequestsAreOwed`, `JobsAreUnique` | `PendingIsOwed`, `OneJobPerPath` | no request is lost or measured twice |
| `DirSizeCache_proofs!WakeupsArrive`, `TeardownIsQuiet` | `NoLostWakeup`, `StoppedIsQuiet` | the worker wakes when it must, and has left before anything is freed |
| `DirSizeCache_proofs!ScreenConsistency` | `ScreenAgrees` | two reads, one picture |
| `DirSizeCache_proofs!Finality`, `Monotony` | `ReadyIsFinal`, `ProgressAdvances` | what a step may not do |
| `DirSizeCache_proofs!Implementation` | `ImplementsService` | the refinement |
| `Editor_proofs!TypeCorrect` | `TypeOK` | in a session there is always a text and a path |
| `Editor_proofs!UndoBounded` | `HistoryFits` | the bound on undo and redo together |
| `Editor_proofs!DirtyTracksUnsaved`, `NothingDiscardedUnasked` | `UnsavedIsDirty`, `NoSilentDiscard` | no silent loss of text, if writes succeed and an edit in `on_key` comes with a handled key |
| `Editor_proofs!UndoIsATimeline` | `ImplementsHistory` | the refinement, with no assumption on files or plugins |
| `EditorText_proofs!TextTyped` | `TypeOK` | the text stays a text, whatever undefined behaviour does to it |
| `EditorText_proofs!CutAndPaste` | `CutPasteRestores` | cutting and pasting back restores texts of any size |
| `EditorText_proofs!FlatTextImplemented` | `ImplementsFlatText` | the refinement: lines, columns and a selection are one text with a caret |
| `Plugins_proofs!PluginsTyped` | – | lists, requests and dialogs keep their types, a menu its window |
| `Plugins_proofs!LiveCalls` | `CallsReachLiveScripts` | nothing freed is called, but for the two cases named |
| `Plugins_proofs!EventDelivery` | `EventReachesEveryone` | every event reaches every hook and handler |
| `Plugins_proofs!DialogsAnswered` | `DialogIsAnswered` | dialogs are answered once, in order, within the round |
| `Script_proofs!ScriptTyped` | – | the host is at the bottom of the stack, no promise is referred to that was not made |
| `Script_proofs!CallsAreNested` | `CallsNest` | yields and stack trace follow the calls |
| `Script_proofs!PromisesAreOwned` | `PromisesHaveOwners` | exactly one owner for each promise that is not lost |
| `Script_proofs!CleaningUp` | `CleanupRuns` | no defer and no `finally` is skipped, but in the ways named |
| `Browser_proofs!BrowserTyped` | – | cursor, window and counts are never negative, a slot holds one request |
| `Browser_proofs!SelectionFollowsCursor` | `SelectionIsUnderCursor` | the selection is the live name under the cursor, but for the cases named: until the next sync in two of them, and after a search that wrote behind its buffer |
| `Browser_proofs!ViewIsOfTheListing` | `ViewShowsTheListing` | the batches put the listing together, the view is of what is loaded, and it fits its buffer but for exact and regex searches with more matches than the buffer was made for |
| `Script_proofs!MapTyped`, `MapFindsWhatWasSet` | –, `MapIsAFunction` | the table always has a free slot, and is a function |
| `Script_proofs!HeapTyped`, `CountsExact` | –, `CountsAreExact` | counts are the references there are, nothing is freed too early or twice, for any graph of objects |
| `Script_proofs!CollectorExact` | `CollectorIsExact` | the collector frees what nothing keeps alive and nothing that can be reached |
| `Browser_proofs!ArchiveTypes` | – | positions, windows and counts of an extraction keep their types |
| `Browser_proofs!DataIsRight` | `DataIsOfTheEntry` | what is read is of the entry it was opened for, at the place the window is at |
| `Browser_proofs!EntriesAreAllReturned` | `EveryEntryIsReturned` | no member is left out or returned twice, but in a TAR whose data was read, or with a size in a pax header |
| `FileOps_proofs!FileOpsTypes` | `TypeOK` | what exists lies in a directory, undo and redo are never both pending |
| `FileOps_proofs!NoContentIsLost` | `ContentsSurvive` | no step loses a file's content but in the ways named |
| `Plugins_proofs!SettingsTypes` | – | bindings are codes, lines are of known fields and keys |
| `Plugins_proofs!StoredIsFoundAgain` | `StoredIsFound` | what was stored is found, for keys and values of any characters and lengths |

*DirSizeCache.* The four safety theorems are by one inductive invariant. `PendingIsOwed` and
`OneJobPerPath` are not inductive alone: that publishing finds its entry still pending
needs that the path in the worker's hands is not queued a second time, which needs that
`job_enqueued` is set exactly for the queued and the current path, and all of it
needs that during the teardown the worker has ended. `NoLostWakeup` needs that a waiting
worker has tested the queue under the mutex. The action properties and the refinement follow
from this invariant step by step. `ScreenConsistency` adds what the second read of a
display may rely on from its first.

*Editor.* The assumption `Reliable` (`Env` without failed writes and without edits on passed
keys) is what the first two disagreements of section 6 violate; without it the two theorems that
use it are false. Their invariant says, for each place of the thread, which of the two
dirty flags and the clear request knows of the unsaved text: flags are merged at the top of
an iteration, and in between a callback may leave the knowledge in the global alone.
`UndoBounded` rests on undo and redo exchanging snapshots one for one.

*EditorText.* `TextTyped` goes through every key and every result that undefined behaviour
may have. `CutAndPaste` is about the operators: the lines joined by line ends and split
again are the lines (`Parts(Flat(ls)) = ls`, by induction on their number), what is copied and what
a cut leaves are parts of the flat text at the same two places, and inserting the one into
the other at the first place is the flat text again. It is stated for the text of every
reachable state, and for that text followed by itself.

`FlatTextImplemented` maps a place (line and column) to its offset in the flat text. Offsets
of the places of a text are exactly 0 to its length, and a place is found again by counting the line ends
before its offset (`CoordinatesOfPlace`); so the order of places is the order of offsets, and what a key
does to lines can be compared with what it does to the flat text, key by key: a range deleted
(`DeletedFlat`), inserted (`InsertedFlat`), copied (`CopiedFlat`), put in upper case
(`UppercasedFlat`), a line cut (`LineCut`). All of this is about places inside the text. Whether
cursor and selection are inside is part of the mapping (`Sound`): a step that leaves
them outside maps to the step by which `FlatText` goes adrift, and these are only the steps it names.

*Plugins.* `PluginsInv` says for every place of the thread which script runs in it and what is
still to come. Every call that is owed is that of a hook or handler ahead of the place that the loop
over the list has reached, although the list grows under it (`OwedInv`); what is in the list of
plugins is alive, so that only what was registered before a failed load can be dead
(`LiveInv`); and what was asked is what was answered, but for the one dialog in the slot, which
is answered before the round goes on (`DialogInv`). `EventReachesEveryone` and
`DialogIsAnswered` are read off at the places where nothing is ahead.

*Browser.* The handlers are operators from a browser to a browser, so the proof is one lemma per
operator and short ones for the actions. What they promise each other differs: `Listing`
(what is loaded is as long as `loaded` says, and a prefix of a directory that did not change
since), `Viewed` (the view is of it), `Counted` and `Shown` (the count, the selection and the
window fit what is shown). `reload_directory` gives only the first, the search functions the second, and
`sync_selection_from_active` or the end of a navigation the last two. Neither property is inductive
alone: that the cursor keys do nothing in an empty view needs `Counted`; that the reload after
`on_load` may skip the view needs that no search is active before the loop; that a directory can
be entered needs that what is listed was there. `FindLazyFinds` is the one lemma about a loop:
`find_index_by_name_lazy` ends because it stops when a batch adds nothing, and no more than the
directory can be added; it leaves the cursor on an entry because it gives up on an empty
listing before it moves it.

A search gives its view only `Viewed`; that the view fits its buffer (`Intact`) is asked by every action
before it starts, and where it does not, `ViewIsOfTheListing` says only which searches did it. For this
the invariant has that the buffer is never smaller than it was made (`ViewCap`) and that a fuzzy view
fits it.

*Script.* `ScriptInv` has three parts. In `ControlInv` a call knows the call below it to which yields go
back, and a host call, a module or a try knows to what depth it may cut the stack trace, which is never
less than the number of calls still running below it. This is what makes `CallsNest` inductive: a
throw leaves entries on the stack trace, and a catch or the host cuts away no more than those.
`LoopInv` types the event loop. `OwnInv` counts the owners of a promise; each step moves an owner
from one place to another, so the proof is about counting in sequences (`Tally` in
`DataLemmas`): of a concatenation, of an item removed, of a task that goes from the queue to the
stack. `CleaningUp` needs from `ControlInv` only the shape of the stack.

*ScriptMap.* `MapInv` says that every entry is found by probing from its hash without
meeting an empty slot, that no key is there twice, and that after a change at most 70 %, and so never
all, of the slots are taken. Growth and deletion store the entries in a new array, slot after
slot: the proof is an induction over the slots, along which the new array holds what was in those
already visited, each entry where a probe finds it.

*ScriptHeap* (in `Script_proofs`). `HeapInv` is that the counts are exact (`Exact`): each is what is held
plus what all items refer to, it is positive exactly for what is not free, and what is free has no items.
The counts are not exact while something is released, and `Releasing` is what holds instead: they are
exact if what is still to be released is counted too. One `cs_value_release` keeps it and leaves fewer
things to release or fewer items (`ReleaseStep`), so that `ReleaseAll` ends with nothing to release
(`AllReleased`) and meets nothing that is free (`ReleasedIs`). What is garbage is held by nobody and
referred to by garbage only (`GarbageIs`), so the references of the garbage to the rest are just what the
counts of the rest are too high by once the garbage is gone (`CollectedItems`, `CollectedIs`).
`CollectorIsExact` follows with `Reach` as the least closed set: what is reached from what is held or
from a function is closed under references and has every list and map that is marked (`KeptIsReached`);
what is live after the collection is closed and has what is held (`ReachedIsLive`). The counting is of
pairs of an object and a position (`References`), which changes by the items of one object when one
object changes (`OneChanges`).

*FileOps.* `FilesInv` is the inductive invariant: what exists is a tree of paths (`Tree`) in which the
browser's own directory is an entry like others, and whatever the clipboard, undo and redo name are paths
(`Clips`, `Ops`). Without it neither property is inductive: that a `mv` to a free name loses nothing
needs that nothing lies below a free name (`NothingBelow`), and so that directories are above all that
exists. `Kept(d, e, but)` says that `e` has every content of `d`, but for those at the places `but`; it
holds of every command (`MvIs`, `CpIs`, `RenamedIsATree`, where a subtree is carried along by `Carried`),
whether it works or fails, and is carried through a whole operation along its items (`CutIs`, `PasteIs`,
`TrashIs`, `TransferIs`), and through those of undo and redo (`UndoneMoves`, `RedoneIs`). An undo that
removes what was made is the exception, and there a third part of the invariant matters: the targets of
one copy or creation share their directory (`Together`), so that `remove_path_any` fails for the first of
them or for none, and an undo that failed has removed nothing (`UndoneMakings`).

*Archive* (in `Browser_proofs`). `DataIsOfTheEntry` and `EveryEntryIsReturned` are conjuncts of one
inductive invariant (`ArchiveInv`), since neither holds without knowing where the shared stream is
relative to the reader's entry. The entry is a member, and the reader stands in its data or behind it
(`EntryIsMember`, `ReaderIsOfEntry`); the next index follows the entry returned last (`IndexFollows`); a
TAR nobody read through a window, and with no size in a pax header, is where its headers say
(`TarIsInPlace`), and the end comes behind the last member (`EndIsTheLast`). An open window is within the
data of one member (`WindowIsOfMember`), a filter is read from its start (`FilterIsUnread`), and the loop
of the extraction returns to `arc_next` with what it opened closed (`ExtractionAdvances`). That a unit of
the stream is of one member only is by induction over the members, which lie one after another.

*Settings* (in `Plugins_proofs`, since both are what plugins see of the manager). The values are followed
through the file: escaping leaves no tab (`EscapeReads`), so a line is split where its key ends
(`BeginningOfLine`); reading a line cuts it once and not again (`LineIs`); reading takes off the tag and
undoes escaping, by induction over the characters. `RewrittenIs` is what `fm.cache_set` promises: the key
has the new value and all others theirs, whichever lines are dropped, kept or appended, by induction over
the lines (`DroppedIs`). The invariant (`SettingsInv`) adds to the property what a session that is not
over owes it: the file that is being written has every key as the cache will be known to have it, but for
the keys that are lost with it (`WritesCache`), and as long as a code is one that reloads, memory and
file have it whenever each is the one that counts (`CodeIsKept`): a launch reads it from the file, a
write takes it from memory, and only in between the file may be empty.

*DataLemmas.* The prover cannot instantiate an induction scheme over predicates. Induction here is over
*sets* of numbers, and rests on one first-order fact of the library, that strict inclusion is
well-founded on finite sets; from it follow induction up to a bound, that a function defined by
recursion on numbers or by a fold from the left exists and obeys its equation, and what the
proofs above need of `Max`, `Min`, `Range` and counting.

Assumptions on the constants beyond their types, each in the module that declares them: a line end is not
a character and upper case maps characters to characters (`EditorText`); no script is called `"nobody"`,
the name for none (`Plugins`); contents of files are none of the three words for nothing, a directory and
an empty file (`FileOps`); the paths are closed under going up, and down into what is listed, and a
request carries an argument of its kind (`Browser`); the first capacity of a table is within the bound on
its growth (`ScriptMap`); the objects are finitely many and something can be held (`ScriptHeap`); only a
TAR has hard links and members whose header gives another size than their data has, and formats of a
single member have one (`Archive`); names of fields and the characters of keys and values are strings, a
text of the configuration has a number in it, and a key fits its line (`Settings`). The bounds themselves
(`MaxFrames`, `MaxText`, `MaxApi`, …) are any numbers.

Only model-checked: all liveness (`WaitingIsRewarded`, `RequestIsServed`, `StopCompletes`,
`CloseIsHandled`), because fairness and `ENABLED` are out of the prover's reach; `PartsTypeOK`, of which the
theorems above prove every part, each in its own specification; and `CanBeUndone` and `CanBeRedone` of
`FileOps`, which ask that an attempt exists and what it gives, item by item, from any disk that the
operation may have met.

## 6. Where code and documentation disagree

With a run that shows it:

1. A save whose write fails clears the dirty flags and raises `on_editor_save`, which
   `CUPIDFM_CUPIDSCRIPT_API.md:842` excludes (`editor_doc_savefail`).
2. A plugin that edits on a key and lets it pass is not seen by the quit key, against
   the comment at `src/fs/files.c:3176` (`editor_doc_quit`).
3. Creating a file over an existing one empties it, and undo removes it, against
   `README.md:789–790` (`fileops_doc_undo`). The same property fails after a second cut, after
   a plugin deletes a file and then its directory (`CUPIDFM_CUPIDSCRIPT_API.md:1239–1241`
   calls deletions undoable), and after a plugin moves a directory into itself.
4. `arc_extract_to_path` returns 0 although members of a TAR were never reached
   (`archive_doc_extract`): reading an entry's data moves the stream that `arc_next` then skips
   from (`arc_tar.c:721`), and the loop at `arc_extract.c:489` takes an error of `arc_next` for
   the end. `cupidarchive/src/arc_reader.h:133–139` says "Extract all entries", 0 on success. A
   TAR with files of 512, 100 and 700 bytes is extracted as its first file.
5. Cut, delete and rename with nothing in view take the directory the browser is in
   (`fileops_doc_selection`): `selected_entry` is `""`, not NULL, so that the guards at `main.c` 1190,
   1382 and 1476 let it pass, and `path_join` (`utils.c` 279–280) gives the directory. `README.md`
   764–770 speaks of the selected file or directory.

Seen while modelling, without a run of their own:

- `CUPIDFM_CUPIDSCRIPT_API.md:1122`: `editor_insert_text`, `editor_replace_text` and `editor_delete_range` do not
  look at the read-only flag (`files.c` 1264 ff.).
- `CUPIDFM_CUPIDSCRIPT_API.md:769`: cut, paste, undo, redo and upper case raise no `on_editor_change`.
- `CUPIDFM_CUPIDSCRIPT_API.md:757`: nothing calls `plugins_editor_notify_open` (`plugins.c:763`).
- `CUPIDFM_CUPIDSCRIPT_API.md:895`: the mouse moves the cursor without `on_cursor_move` at `files.c:3146`.
- `CUPIDFM_CUPIDSCRIPT_API.md:993`: after a failed open the editor still counts as active (`files.c:2706`).
- `files.c` 2887, 3230, 3766: after a failed reopen a NULL handle is closed.
- `files.c` 1919–1938, 2087–2180: `display_file_info`, which would show an invented size growing to 1 TiB
  while none is known, is called by nothing; the preview and the quick-info popup show none.

*Settings* (`Settings`)
- `main.c:197`: a configuration with exactly one invalid line takes the path of a missing file,
  because `load_config_file` returns its number of errors and 1 for both. The file is written
  anew without the line, the user's comments and unknown lines, against `README.md:340` ("instead of
  overwriting your config") and the comment at `config.c:196`. The example `key_exit=27` of
  `README.md` is such a line: numbers are not parsed.
- `config.c:359`: F13 and above, `#`, `;`, and every code that has no name are written in a
  form that is not read again. The plugins' parser reads F1 to F63.
- `plugins_api.c:2343`: nobody asks whether the new cache was written; a full disk replaces the
  cache by its beginning and `fm.cache_set` returns true. A value whose line is longer than 2047
  characters is cut at the next reading.
- `plugins_api.c` 2292: a cache that exists and cannot be opened counts as empty; it is replaced by
  one with the new key only, and `fm.cache_set` returns true.
- `config.c:125`: the configuration is truncated in place; a session killed while it is written
  leaves an empty file, which loads without an error.
- `plugins_api.c:147`: `key_help` and `edit_uppercase` cannot be read or set by scripts. The loop uses a
  copy of the bindings made at launch (`main.c:229`): keys set by scripts work after a restart.

*Browser* (`Browser`)
- An exact or regex search with more than ten matches writes behind its buffer: `search_rebuild` sets the
  length to 0 and asks `Vector_add` for one more entry each time (`search.c` 136, 150, 168), which makes no room
  beyond `Vector_new(10)` (`main.c:268`, `vector.c` 51–61) or what the largest fuzzy search made. The
  fuzzy search asks for all entries at once (`search.c` 179–185).
- `fm.select` of a name that is not found leaves the cursor on the last entry loaded and the
  selection on another; `fm.enter_dir` and `fm.open_selected` then act on that one
  (`CUPIDFM_CUPIDSCRIPT_API.md:1208–1211`).
- A reload asked for in `on_load` leaves `selected_entry` dangling until the next sync, and a sync
  reads the released old name after every reload.
- `app_navigation.c` 136–148: the search for the directory just left is undone by `cursor = 0`.
- `set_search_mode` keeps Select All on although the view is another one.
- `files.c:1604`: Save As asks for the new file to be selected and for a reload; the loop
  selects first, and the reload puts the cursor on the first entry.

*Plugins* (`Plugins`)
- Setting or clearing the selected paths drops every `fm.on` handler and mark.
- A script that fails to load after it registered something is freed, and its registrations stay.
- `plugins.c:403`: after a handler's error the list's entry is read, which `fm.on` may have moved.

*Script* (`Script`, `ScriptHeap`)
- An abrupt completion of a deferred statement skips those that remain
  (`CUPIDFM_CUPIDSCRIPT_API.md:246`, "always called before returning").
- A runtime error in the body of `try` skips both `catch` and `finally`; one in `catch` does not
  skip `finally`.
- Yields inside methods, constructors and async tasks go to the list of the innermost plain
  call; generators are eager (`CUPIDFM_CUPIDSCRIPT_API.md:203`, "Lazy value sequences").
- A throw that crosses `cs_call`, a `require` or a native's callback becomes an error nobody can catch.
- Closing a socket, or one answer on a socket with two operations, removes all its operations: the
  other promises are never settled. An operation whose promise the script has settled
  stays until it times out.
- `timeout(p, ms)` does not time out, `await_any` awaits its first item.
- The collector releases the keys of garbage maps although they are garbage themselves: a
  cycle through a key is released twice.
- `instruction_count` is reset by a nested `run` or `require`; a `for` over a map that its body
  rehashes may skip or repeat keys; binding parameters that fails releases the environment twice.

*Archives* (`Archive`)
- The size in a pax header is parsed and not used: `tar_read_entry` takes the size from the member's own header
  (`arc_tar.c:602`), and the next header is looked for inside of the data. `cupidarchive/README.md:193` says
  "Overrides file size (supports large files)", `arc_tar.h:12` "large sizes".
- Data of members of a compressed TAR can never be read: its window seeks a filter, which cannot.
- A ZIP read as a stream has no data; empty files and hard links fail to extract.
- The data of a single compressed file is the reader's own stream, which the caller and
  `arc_close` both close.
- A window counts what is read again after a seek back, and ends too early.

## 7. What is not modelled

- Failed allocations outside of the size cache, path truncation at `MAX_PATH_LENGTH`,
  terminal resizing, drawing, and the console's popup inside the editor.
- In `DirSizeCache`, the quick-info popup (`main.c` 1603–1625), which only reads what the preview asked for,
  in the same two steps, and does not ask itself (`get_directory_size_peek`).
- In `Editor`, what an edit does to the text; in `EditorText`, undo, redo and reload, which
  restore earlier states. The position that `on_editor_change` reports is stale while it
  runs; `EditorText` covers this as plugin edits at any place of the text.
- In `FileOps`, other programs acting within one operation (between a test for a free name and its use),
  commands that stop halfway, a shell that cannot be started, permissions, and changes of directory;
  plugins that name the browser's own directory. Up to two paths are given to a plugin operation at a
  time.
- In `Browser`, drawing, paths that are too long, the console, help and the file information.
- In `Plugins`, the callbacks of `fm.each_selected`, `fm.exec`, failing allocations, and what a
  dialog draws. What the editor tells plugins is in `Editor`.
- In `Script`, the lexer and the parser, what expressions compute, natives that only convert data,
  HTTP and TLS. The heap and the maps are models of their own: a script is any sequence of what
  it can do to them.
- In `Archive`, the bytes of a header beyond type and size, decompression, data descriptors, sparse
  files, data that look like a header where one is looked for, limits of extraction and path rules; the
  64 KB that the deflate reader reads ahead.
- In `Settings`, a configuration that cannot be read, a second instance of the program, cache values
  that are not strings, keys longer than a line, and the lines of the configuration that are
  comments or unknown.
- `Vector`, `VecStack`: used as sequences.
- MIME types, syntax colours, banner and console: pure functions or output.
- `Editor`'s, `Plugins`'s and `Script`'s interplay in one state space: a plugin is any sequence of
  API calls in the first two, and the host is any caller in the third.
