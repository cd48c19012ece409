---------------------------- MODULE DirSizeCache ----------------------------
(***************************************************************************)
(* The background directory-size cache of src/src/fs/files.c: the UI       *)
(* thread asks for the size of a directory, a worker thread walks the      *)
(* directory and publishes the total, and the UI thread stops the worker   *)
(* on exit.                                                                *)
(*                                                                         *)
(* Every access to the cache is made under dir_size_mutex, so a critical   *)
(* section is one action.  The worker keeps the mutex from publishing a    *)
(* result through the test at the top of its loop to the next pop or wait; *)
(* that is one action too.                                                 *)
(*                                                                         *)
(* The display is the preview pane, draw_preview_window_path of            *)
(* src/src/ui/browser_ui.c.  display_file_info (files.c) would show a      *)
(* made-up growing estimate instead; nothing in the program calls it.      *)
(***************************************************************************)
EXTENDS Integers, Sequences

CONSTANTS
  Paths,      (* directories the user can look at                          *)
  NoPath,     (* no directory                                              *)
  ItemSizes,  (* sizes of the files met during a walk                      *)
  MaxItems,   (* bound: files met in one walk                              *)
  MaxSize,    (* MAX_SIZE_THRESHOLD, in the unit of ItemSizes              *)
  Faults      (* what may fail: "malloc" (of an entry or of a job),        *)
              (* "thread" (pthread_create)                                 *)

ASSUME SizesAreNatural == ItemSizes \subseteq Nat
ASSUME BoundsAreNatural == MaxItems \in Nat /\ MaxSize \in Nat
ASSUME NoPathIsNoPath == NoPath \notin Paths
ASSUME FaultsAreKnown == Faults \subseteq {"malloc", "thread"}

(* The negative results of get_directory_size (files.h). *)
ERROR             == -1
TOO_LARGE         == -2
VIRTUAL_FS        == -3
PENDING           == -4
PERMISSION_DENIED == -5

Aborts  == {VIRTUAL_FS, PERMISSION_DENIED}
Results == Nat \cup {ERROR, TOO_LARGE} \cup Aborts

VARIABLES
  status,       (* of the entry of a path: "none" when there is no entry   *)
  size,         (* DirSizeEntry.size                                       *)
  progress,     (* DirSizeEntry.progress                                   *)
  jobEnqueued,  (* the paths whose entry has job_enqueued set               *)
  jobs,         (* the list from dir_size_job_head to dir_size_job_tail    *)
  running,      (* dir_size_thread_running                                 *)
  initialized,  (* dir_size_thread_initialized                             *)
  worker,       (* where the worker thread is                              *)
  job,          (* the worker's local copy of the path it works on         *)
  total,        (* the worker's running total                              *)
  visited,      (* files met in this walk                                  *)
  result,       (* what compute_directory_size_full_progress returned      *)
  ui,           (* where the UI thread is                                  *)
  focus,        (* the directory the UI displays                           *)
  lastPath,     (* last_preview_size_path of draw_preview_window_path      *)
  settled,      (* lastPath has been displayed for the request delay       *)
  idle,         (* the user has pressed no key for the request delay       *)
  shown,        (* what the UI last displayed for each directory: nothing  *)
                (* yet "blank", a bare "waiting" or "calculating", the     *)
                (* size "so_far", or a "final" result                      *)
  shownVal      (* and the size so far or the result it displayed          *)

entryVars  == <<status, size, progress, jobEnqueued>>
threadVars == <<running, initialized>>
walkVars   == <<job, total, visited, result>>
userVars   == <<focus, lastPath, settled, idle>>
screen     == <<shown, shownVal>>
vars == <<entryVars, jobs, threadVars, worker, walkVars, ui, userVars, screen>>

Init ==
  /\ status = [p \in Paths |-> "none"]
  /\ size = [p \in Paths |-> PENDING]
  /\ progress = [p \in Paths |-> 0]
  /\ jobEnqueued = {}
  /\ jobs = <<>>
  /\ running = FALSE /\ initialized = FALSE
  /\ worker = "none"
  /\ job = NoPath /\ total = 0 /\ visited = 0 /\ result = 0
  /\ ui = "boot"
  /\ focus \in Paths /\ lastPath = NoPath
  /\ settled = FALSE /\ idle = TRUE
  /\ shown = [p \in Paths |-> "blank"] /\ shownVal = [p \in Paths |-> 0]

-----------------------------------------------------------------------------
(* Pieces of the UI thread's critical sections.                            *)

(* ensure_dir_size_worker: the thread is created once; a failure is        *)
(* retried by the next call.                                               *)
EnsureWorker ==
  \/ /\ initialized
     /\ UNCHANGED <<running, initialized, worker>>
  \/ /\ ~initialized
     /\ running' = TRUE /\ initialized' = TRUE
     /\ worker' = "created"
  \/ /\ ~initialized /\ "thread" \in Faults
     /\ running' = FALSE
     /\ UNCHANGED <<initialized, worker>>

(* pthread_cond_signal and pthread_cond_broadcast: the worker is the only  *)
(* thread that waits.                                                      *)
Woken(w) == IF w = "waiting" THEN "woken" ELSE w

(* dir_size_cache_clear_locked *)
ClearCache ==
  /\ status' = [p \in Paths |-> "none"]
  /\ size' = [p \in Paths |-> PENDING]
  /\ progress' = [p \in Paths |-> 0]
  /\ jobEnqueued' = {}
  /\ jobs' = <<>>

(* The caller's reading of an entry: its size once READY. *)
Lookup(p) == IF status[p] = "ready" THEN size[p] ELSE PENDING

(* What the display of the focused directory becomes. *)
Show(kind, val) ==
  /\ shown' = [shown EXCEPT ![focus] = kind]
  /\ shownVal' = [shownVal EXCEPT ![focus] = val]

(* A new entry at the head of the cache, and its job at the tail of the    *)
(* queue; the job may fail to be allocated, the entry stays then.          *)
NewEntry(p) ==
  /\ status' = [status EXCEPT ![p] = "pending"]
  /\ size' = [size EXCEPT ![p] = PENDING]
  /\ progress' = [progress EXCEPT ![p] = 0]

EnqueueJobUnsignalled(p) ==  \* mutant: no pthread_cond_signal
  /\ jobEnqueued' = jobEnqueued \cup {p}
  /\ jobs' = Append(jobs, p)
  /\ UNCHANGED worker

EnqueueJob(p) ==
  /\ jobEnqueued' = jobEnqueued \cup {p}
  /\ jobs' = Append(jobs, p)
  /\ worker' = Woken(worker)

EnqueueJobFails ==
  /\ "malloc" \in Faults
  /\ UNCHANGED <<jobEnqueued, jobs, worker>>

-----------------------------------------------------------------------------
(* The UI thread.                                                          *)

(* main calls dir_size_cache_start before its loop. *)
Boot ==
  /\ ui = "boot"
  /\ EnsureWorker
  /\ ui' = "loop"
  /\ UNCHANGED <<entryVars, jobs, walkVars, userVars, screen>>

(* draw_preview_window_path: the display of a newly focused path restarts  *)
(* the delay, then dir_size_cache_start runs, in a critical section of its *)
(* own before the one of the lookup.                                       *)
DisplayStarts ==
  /\ ui = "loop"
  /\ lastPath' = focus
  /\ settled' = (settled /\ lastPath = focus)
  /\ EnsureWorker
  /\ ui' = "lookup"
  /\ UNCHANGED <<entryVars, jobs, walkVars, focus, idle, screen>>

(* dir_size_get_result: an entry is there.  A PENDING answer makes the     *)
(* caller ask for the progress, in another critical section.               *)
DisplayFound ==
  /\ ui = "lookup"
  /\ status[focus] # "none"
  /\ IF Lookup(focus) = PENDING
       THEN ui' = "progress" /\ UNCHANGED screen
       ELSE ui' = "loop" /\ Show("final", Lookup(focus))
  /\ UNCHANGED <<entryVars, jobs, threadVars, worker, walkVars, userVars>>

(* dir_size_get_result: no entry, and the caller or the user's activity    *)
(* forbids a request.                                                      *)
DisplayHeldBack ==
  /\ ui = "lookup"
  /\ status[focus] = "none"
  /\ ~(settled /\ idle)
  /\ ui' = "progress"
  /\ UNCHANGED <<entryVars, jobs, threadVars, worker, walkVars, userVars, screen>>

RequestsAgain(found) ==  \* mutants: a request although an entry was found
  /\ ui = "lookup"
  /\ status[focus] \in found
  /\ settled /\ idle
  /\ NewEntry(focus)
  /\ EnqueueJob(focus) \/ EnqueueJobFails
  /\ ui' = "progress"
  /\ UNCHANGED <<threadVars, walkVars, userVars, screen>>

DisplayRequestsPending == RequestsAgain({"none", "pending"})
DisplayRequestsReady   == RequestsAgain({"none", "ready"})

(* dir_size_get_result: no entry, a request is allowed. *)
DisplayRequests ==
  /\ ui = "lookup"
  /\ status[focus] = "none"
  /\ settled /\ idle
  /\ NewEntry(focus)
  /\ EnqueueJob(focus) \/ EnqueueJobFails
  /\ ui' = "progress"
  /\ UNCHANGED <<threadVars, walkVars, userVars, screen>>

(* The entry cannot be allocated: get_directory_size answers -1. *)
DisplayFails ==
  /\ ui = "lookup"
  /\ "malloc" \in Faults
  /\ status[focus] = "none"
  /\ settled /\ idle
  /\ ui' = "loop"
  /\ Show("final", ERROR)
  /\ UNCHANGED <<entryVars, jobs, threadVars, worker, walkVars, userVars>>

(* The size so far of a PENDING answer, by dir_size_get_progress; without  *)
(* one, the preview says whether it may ask (allow_enqueue).               *)
DisplayProgress ==
  /\ ui = "progress"
  /\ ui' = "loop"
  /\ IF status[focus] = "pending" /\ progress[focus] > 0
       THEN Show("so_far", progress[focus])
       ELSE Show(IF settled /\ idle THEN "calculating" ELSE "waiting", 0)
  /\ UNCHANGED <<entryVars, jobs, threadVars, worker, walkVars, userVars>>

(* dir_size_note_user_activity: a key, which may move the selection. *)
UserActs ==
  /\ ui = "loop"
  /\ idle' = FALSE
  /\ focus' \in Paths
  /\ UNCHANGED <<entryVars, jobs, threadVars, worker, walkVars, ui, lastPath,
                 settled, screen>>

(* A plugin moves the selection without a key. *)
PluginSelects ==
  /\ ui = "loop"
  /\ focus' \in Paths \ {focus}
  /\ UNCHANGED <<entryVars, jobs, threadVars, worker, walkVars, ui, lastPath,
                 settled, idle, screen>>

(* The request delay elapses for both timers, or for the display's only.   *)
DelayElapses ==
  /\ ui = "loop"
  /\ \/ idle' = TRUE /\ settled' = (lastPath # NoPath)
     \/ settled' = (lastPath # NoPath) /\ UNCHANGED idle
  /\ UNCHANGED <<entryVars, jobs, threadVars, worker, walkVars, ui, focus,
                 lastPath, screen>>

StopUnsignalled ==  \* mutant: no pthread_cond_broadcast
  /\ ui = "loop" /\ initialized
  /\ running' = FALSE
  /\ ui' = "joining"
  /\ UNCHANGED <<entryVars, jobs, initialized, worker, walkVars, userVars, screen>>

(* dir_size_cache_stop, up to pthread_join. *)
Stop ==
  /\ ui = "loop"
  /\ IF initialized
       THEN /\ running' = FALSE
            /\ worker' = Woken(worker)
            /\ ui' = "joining"
            /\ UNCHANGED <<entryVars, jobs>>
       ELSE /\ ClearCache
            /\ ui' = "stopped"
            /\ UNCHANGED <<running, worker>>
  /\ UNCHANGED <<initialized, walkVars, userVars, screen>>

NotJoined ==  \* mutant: no pthread_join
  /\ ui = "joining"
  /\ initialized' = FALSE
  /\ ClearCache
  /\ ui' = "stopped"
  /\ UNCHANGED <<running, worker, walkVars, userVars, screen>>

(* dir_size_cache_stop, from the return of pthread_join. *)
Joined ==
  /\ ui = "joining"
  /\ worker = "exited"
  /\ initialized' = FALSE
  /\ ClearCache
  /\ ui' = "stopped"
  /\ UNCHANGED <<running, worker, walkVars, userVars, screen>>

(* main returns. *)
Stopped == ui = "stopped" /\ UNCHANGED vars

UI ==
  \/ Boot
  \/ DisplayStarts \/ DisplayFound \/ DisplayHeldBack \/ DisplayRequests
  \/ DisplayFails \/ DisplayProgress
  \/ UserActs \/ PluginSelects \/ DelayElapses
  \/ Stop \/ Joined \/ Stopped

-----------------------------------------------------------------------------
(* The worker thread.                                                      *)

PopLast ==  \* mutant: the newest job first
  /\ running /\ jobs # <<>>
  /\ worker' = "popped"
  /\ job' = jobs[Len(jobs)]
  /\ jobs' = SubSeq(jobs, 1, Len(jobs) - 1)

WaitFirst ==  \* mutant: a wait that does not test the queue first
  /\ worker' = IF running THEN "waiting" ELSE "exited"
  /\ job' = NoPath
  /\ UNCHANGED jobs

LoopTopNewestFirst ==
  \/ ~running /\ worker' = "exited" /\ job' = NoPath /\ UNCHANGED jobs
  \/ running /\ jobs = <<>> /\ worker' = "waiting" /\ job' = NoPath /\ UNCHANGED jobs
  \/ PopLast

LoopTopWaitFirst ==
  \/ worker # "woken" /\ WaitFirst
  \/ worker = "woken" /\ LoopTopNewestFirst

(* The top of dir_size_worker's loop, with the mutex held: leave, wait for *)
(* the condition variable, or pop the next job.                            *)
LoopTop ==
  \/ /\ ~running
     /\ worker' = "exited"
     /\ job' = NoPath
     /\ UNCHANGED jobs
  \/ /\ running /\ jobs = <<>>
     /\ worker' = "waiting"
     /\ job' = NoPath
     /\ UNCHANGED jobs
  \/ /\ running /\ jobs # <<>>
     /\ worker' = "popped"
     /\ job' = Head(jobs)
     /\ jobs' = Tail(jobs)

(* The thread takes the mutex for the first time, or again after a signal. *)
WorkerEnters ==
  /\ worker \in {"created", "woken"}
  /\ LoopTop
  /\ UNCHANGED <<entryVars, threadVars, total, visited, result, ui, userVars, screen>>

(* A spurious wakeup of pthread_cond_wait. *)
SpuriousWakeup ==
  /\ worker = "waiting"
  /\ worker' = "woken"
  /\ UNCHANGED <<entryVars, jobs, threadVars, walkVars, ui, userVars, screen>>

(* Progress is only written to an entry that is still PENDING. *)
PushProgress(n) ==
  progress' = [progress EXCEPT ![job] = IF status[job] = "pending" THEN n ELSE @]

WalkStartsPending ==  \* mutant: the initial progress is the PENDING code
  /\ worker = "popped"
  /\ worker' = "walking"
  /\ PushProgress(PENDING)
  /\ total' = 0 /\ visited' = 0
  /\ UNCHANGED <<status, size, jobEnqueued, jobs, threadVars, job, result, ui,
                 userVars, screen>>

(* compute_directory_size_full_progress starts. *)
WalkStarts ==
  /\ worker = "popped"
  /\ worker' = "walking"
  /\ PushProgress(0)
  /\ total' = 0 /\ visited' = 0
  /\ UNCHANGED <<status, size, jobEnqueued, jobs, threadVars, job, result, ui,
                 userVars, screen>>

VisitPushesItem(s) ==  \* mutant: pushes the size of the file, not the total
  /\ worker = "walking" /\ visited < MaxItems /\ total + s <= MaxSize
  /\ visited' = visited + 1
  /\ total' = total + s
  /\ PushProgress(s)
  /\ UNCHANGED <<status, size, jobEnqueued, jobs, threadVars, worker, job, result,
                 ui, userVars, screen>>

(* The walk meets a file.  The first file always pushes the progress, the  *)
(* throttle decides for the others; a total over the threshold ends the    *)
(* walk before any push.                                                   *)
Visit(s) ==
  /\ worker = "walking" /\ visited < MaxItems
  /\ visited' = visited + 1
  /\ total' = total + s
  /\ IF total + s > MaxSize
       THEN /\ worker' = "publish" /\ result' = TOO_LARGE
            /\ UNCHANGED progress
       ELSE /\ \/ PushProgress(total + s)
               \/ (visited > 0 /\ UNCHANGED progress)
            /\ UNCHANGED <<worker, result>>
  /\ UNCHANGED <<status, size, jobEnqueued, jobs, threadVars, job, ui, userVars, screen>>

(* A virtual or forbidden directory anywhere below abandons the walk; a    *)
(* root that cannot be opened is an error, a subdirectory is skipped.      *)
WalkAborts(r) ==
  /\ worker = "walking"
  /\ r \in Aborts \/ (r = ERROR /\ visited = 0)
  /\ worker' = "publish" /\ result' = r
  /\ UNCHANGED <<entryVars, jobs, threadVars, job, total, visited, ui, userVars, screen>>

WalkEndsWithCode ==  \* mutant: returns rc instead of the total
  /\ worker = "walking"
  /\ worker' = "publish" /\ result' = 0
  /\ UNCHANGED <<entryVars, jobs, threadVars, job, total, visited, ui, userVars, screen>>

(* The walk is over: the final push. *)
WalkEnds ==
  /\ worker = "walking"
  /\ worker' = "publish" /\ result' = total
  /\ PushProgress(total)
  /\ UNCHANGED <<status, size, jobEnqueued, jobs, threadVars, job, total, visited,
                 ui, userVars, screen>>

PublishStillEnqueued ==  \* mutant: job_enqueued is not reset
  /\ worker = "publish"
  /\ size' = [size EXCEPT ![job] = result]
  /\ status' = [status EXCEPT ![job] = "ready"]
  /\ LoopTop
  /\ total' = 0 /\ visited' = 0 /\ result' = 0
  /\ UNCHANGED <<progress, jobEnqueued, threadVars, ui, userVars, screen>>

(* The worker publishes its result and goes on to the top of its loop. *)
Publish ==
  /\ worker = "publish"
  /\ IF status[job] = "none"
       THEN UNCHANGED entryVars
       ELSE /\ size' = [size EXCEPT ![job] = result]
            /\ progress' = [progress EXCEPT ![job] = IF result >= 0 THEN result ELSE @]
            /\ status' = [status EXCEPT ![job] = "ready"]
            /\ jobEnqueued' = jobEnqueued \ {job}
  /\ LoopTop
  /\ total' = 0 /\ visited' = 0 /\ result' = 0
  /\ UNCHANGED <<threadVars, ui, userVars, screen>>

Worker ==
  \/ WorkerEnters \/ SpuriousWakeup
  \/ WalkStarts
  \/ \E s \in ItemSizes : Visit(s)
  \/ \E r \in Aborts \cup {ERROR} : WalkAborts(r)
  \/ WalkEnds \/ Publish

Next == UI \/ Worker

Spec == Init /\ [][Next]_vars

(* The worker thread is scheduled, a walk of a finite tree ends, and the   *)
(* main loop redraws on every timeout of getch, with or without a key.     *)
(* Nothing makes the user act, be idle or quit.                            *)
WalkProceeds == (\E s \in ItemSizes : Visit(s)) \/ WalkEnds

Fairness ==
  /\ WF_vars(WorkerEnters) /\ WF_vars(WalkStarts)
  /\ WF_vars(WalkProceeds) /\ WF_vars(Publish)
  /\ WF_vars(Boot) /\ WF_vars(Joined)
  /\ WF_vars(DisplayStarts) /\ WF_vars(DisplayProgress)
  /\ WF_vars(DisplayFound \/ DisplayHeldBack \/ DisplayRequests)

FairSpec == Spec /\ Fairness

-----------------------------------------------------------------------------
(* Properties.                                                             *)

EntriesTyped ==
  /\ status \in [Paths -> {"none", "pending", "ready"}]
  /\ size \in [Paths -> Results \cup {PENDING}]
  /\ progress \in [Paths -> Nat]
  /\ jobEnqueued \subseteq Paths
  /\ jobs \in Seq(Paths)

ThreadsTyped ==
  /\ running \in BOOLEAN /\ initialized \in BOOLEAN
  /\ worker \in {"none", "created", "waiting", "woken", "popped", "walking",
                 "publish", "exited"}
  /\ job \in Paths \cup {NoPath}
  /\ total \in Nat /\ visited \in Nat /\ result \in Results
  /\ ui \in {"boot", "loop", "lookup", "progress", "joining", "stopped"}

ScreenTyped ==
  /\ focus \in Paths /\ lastPath \in Paths \cup {NoPath}
  /\ settled \in BOOLEAN /\ idle \in BOOLEAN
  /\ shown \in [Paths -> {"blank", "waiting", "calculating", "so_far", "final"}]
  /\ shownVal \in [Paths -> Int]

TypeOK == EntriesTyped /\ ThreadsTyped /\ ScreenTyped

Queued(p) == \E i \in DOMAIN jobs : jobs[i] = p

(* No request is forgotten and none is served twice: the entry of a path   *)
(* is marked as enqueued exactly while its job is in the queue or with the *)
(* worker, it is then PENDING, and without an allocation failure every     *)
(* PENDING entry is so marked (dir_size_get_result, dir_size_worker).      *)
PendingIsOwed ==
  \A p \in Paths :
    /\ p \in jobEnqueued <=> Queued(p) \/ job = p
    /\ p \in jobEnqueued => status[p] = "pending"
    /\ status[p] = "pending" /\ "malloc" \notin Faults => p \in jobEnqueued

(* A path has at most one job: it is never queued twice, nor queued while  *)
(* the worker is walking it.                                               *)
OneJobPerPath ==
  /\ \A i, k \in DOMAIN jobs : jobs[i] = jobs[k] => i = k
  /\ \A i \in DOMAIN jobs : jobs[i] # job

(* The worker never sleeps on the condition variable while a job is queued *)
(* or after it has been told to stop: neither the signal of an enqueue nor *)
(* the broadcast of a stop is lost.                                        *)
NoLostWakeup == worker = "waiting" => running /\ jobs = <<>>

(* The cache is only torn down when no worker can touch it any more: once  *)
(* stopped, the worker has left, and nothing is cached or queued.          *)
StoppedIsQuiet ==
  ui = "stopped" => /\ worker \in {"none", "exited"}
                    /\ jobs = <<>>
                    /\ \A p \in Paths : status[p] = "none"

(* A published size is final: until the shutdown it is neither recomputed  *)
(* nor replaced, whatever is asked later.                                  *)
ReadyIsFinal ==
  [][\A p \in Paths :
       status[p] = "ready" /\ ui' # "stopped"
         => status'[p] = "ready" /\ size'[p] = size[p]]_vars

(* The "Calculating... <size so far>" of a request never counts down:      *)
(* neither the progress of its entry, which is reset and pushed from a     *)
(* walk without the mutex, nor the number the preview shows from it.  The  *)
(* number only gives way to a message without one, or to the result, when  *)
(* the result has been published.                                          *)
ProgressAdvances ==
  [][\A p \in Paths :
       /\ status[p] = "pending" /\ status'[p] # "none" => progress'[p] >= progress[p]
       /\ shown[p] = "so_far" => \/ shown'[p] = "so_far" /\ shownVal'[p] >= shownVal[p]
                                \/ status'[p] = "ready"]_vars

(* What the preview shows agrees with the cache although it was read in    *)
(* two critical sections: a final result is the cached one (an allocation  *)
(* failure aside), a size so far never exceeds the result, and a bare      *)
(* "Calculating..." is only shown for a directory that has been asked for. *)
ScreenAgrees ==
  ui # "stopped" =>
    \A p \in Paths :
      /\ shown[p] = "final" =>
           \/ status[p] = "ready" /\ shownVal[p] = size[p]
           \/ "malloc" \in Faults /\ shownVal[p] = ERROR
      /\ shown[p] = "so_far" /\ status[p] = "ready" /\ size[p] >= 0
           => shownVal[p] <= size[p]
      /\ shown[p] = "calculating" => status[p] # "none"

(* A user who stays on a directory, idle for the request delay, eventually *)
(* sees its final size.                                                    *)
WaitingIsRewarded ==
  \A p \in Paths :
    <>[](ui \notin {"joining", "stopped"} /\ focus = p /\ settled /\ idle)
      => <>(shown[p] = "final")

(* Every directory whose size was asked for is eventually measured, unless *)
(* the program stops.                                                      *)
RequestIsServed ==
  \A p \in Paths : p \in jobEnqueued ~> (status[p] = "ready" \/ ui \in {"joining", "stopped"})

(* Quitting terminates: the join returns although the worker may be in the *)
(* middle of a walk, waiting, or not yet started.                          *)
StopCompletes == ui = "joining" ~> ui = "stopped"

-----------------------------------------------------------------------------
(* The cache implements DirSizeService: a question is a job, from its      *)
(* enqueuing to the publication of its result.                             *)
Asked  == (IF job = NoPath THEN <<>> ELSE <<job>>) \o jobs
Answer == [p \in Paths |-> IF status[p] = "ready" THEN size[p] ELSE PENDING]
Closed == ui = "stopped"

Service == INSTANCE DirSizeService
  WITH Answers <- Results, Unknown <- PENDING, asked <- Asked, answer <- Answer, closed <- Closed

(* The two threads together answer each directory once, in the order of    *)
(* the requests, and nothing is asked or answered after the stop.          *)
ImplementsService == Service!Spec
=============================================================================
