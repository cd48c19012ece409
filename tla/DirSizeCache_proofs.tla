------------------------- MODULE DirSizeCache_proofs -------------------------
(* Theorems about DirSizeCache, for every set of paths and every bound.    *)
EXTENDS DirSizeCache, TLAPS

USE DEF entryVars, threadVars, walkVars, userVars, screen

(***************************************************************************)
(* Type correctness.                                                       *)
(***************************************************************************)

(* What the proofs need to know of the results and their codes. *)
LEMMA ResultFacts ==
  /\ Nat \subseteq Results /\ Results \subseteq Int
  /\ ERROR \in Results /\ TOO_LARGE \in Results /\ Aborts \subseteq Results
  /\ PENDING \in Int /\ PENDING \notin Results
  /\ \A r \in Results : r >= 0 => r \in Nat
  /\ \A r \in Aborts \cup {ERROR, TOO_LARGE} : r < 0
BY DEF Results, Aborts, ERROR, TOO_LARGE, VIRTUAL_FS, PENDING, PERMISSION_DENIED

LEMMA InitTypeOK == Init => TypeOK
<1> SUFFICES ASSUME Init PROVE TypeOK
  OBVIOUS
<1> USE DEF Init
<1>1. EntriesTyped  BY DEF EntriesTyped
<1>2. ThreadsTyped
  <2>1. 0 \in Nat /\ 0 \in Results  BY ResultFacts
  <2>2. running \in BOOLEAN /\ initialized \in BOOLEAN  OBVIOUS
  <2> QED BY <2>1, <2>2 DEF ThreadsTyped
<1>3. shown \in [Paths -> {"blank", "waiting", "calculating", "so_far", "final"}]
  OBVIOUS
<1>4. shownVal \in [Paths -> Int]
  OBVIOUS
<1>5. ScreenTyped   BY <1>3, <1>4 DEF ScreenTyped
<1> QED BY <1>1, <1>2, <1>5 DEF TypeOK

LEMMA EnsureWorkerTyped ==
  ASSUME TypeOK, EnsureWorker
  PROVE  /\ running' \in BOOLEAN /\ initialized' \in BOOLEAN
         /\ worker' \in {"none", "created", "waiting", "woken", "popped",
                         "walking", "publish", "exited"}
BY DEF TypeOK, ThreadsTyped, EnsureWorker

LEMMA ClearCacheTyped == ASSUME ClearCache PROVE EntriesTyped'
BY DEF ClearCache, EntriesTyped

LEMMA ShowTyped ==
  ASSUME TypeOK, NEW v \in Int, NEW k \in {"so_far", "final", "calculating", "waiting"},
         Show(k, v), UNCHANGED userVars
  PROVE  ScreenTyped'
BY DEF TypeOK, ScreenTyped, Show

LEMMA NewEntryTyped ==
  ASSUME EntriesTyped, NEW p \in Paths, NewEntry(p)
  PROVE  /\ status' \in [Paths -> {"none", "pending", "ready"}]
         /\ size' \in [Paths -> Results \cup {PENDING}]
         /\ progress' \in [Paths -> Nat]
BY DEF EntriesTyped, NewEntry

LEMMA EnqueueJobTyped ==
  ASSUME EntriesTyped, NEW p \in Paths, EnqueueJob(p) \/ EnqueueJobFails
  PROVE  /\ jobEnqueued' \subseteq Paths
         /\ jobs' \in Seq(Paths)
<1>1. jobs \in Seq(Paths) /\ jobEnqueued \subseteq Paths  BY DEF EntriesTyped
<1>2. CASE EnqueueJob(p)     BY <1>1, <1>2 DEF EnqueueJob
<1>3. CASE EnqueueJobFails  BY <1>1, <1>3 DEF EnqueueJobFails
<1> QED BY <1>2, <1>3

LEMMA UITypeOK == TypeOK /\ UI => TypeOK'
<1> SUFFICES ASSUME TypeOK, UI PROVE TypeOK'
  OBVIOUS
<1> USE DEF TypeOK
<1>u. Lookup(focus) \in Int
  BY ResultFacts DEF Lookup, EntriesTyped, ScreenTyped
<1>1. CASE Boot
  BY <1>1, EnsureWorkerTyped DEF Boot, EntriesTyped, ThreadsTyped, ScreenTyped
<1>2. CASE DisplayStarts
  BY <1>2, EnsureWorkerTyped DEF DisplayStarts, EntriesTyped, ThreadsTyped, ScreenTyped
<1>3. CASE DisplayFound
  <2>1. EntriesTyped'  BY <1>3 DEF DisplayFound, EntriesTyped
  <2>2. ThreadsTyped'  BY <1>3 DEF DisplayFound, ThreadsTyped
  <2>3. ScreenTyped'
    BY <1>3, <1>u, ShowTyped DEF DisplayFound, ScreenTyped
  <2> QED BY <2>1, <2>2, <2>3
<1>4. CASE DisplayHeldBack
  BY <1>4 DEF DisplayHeldBack, EntriesTyped, ThreadsTyped, ScreenTyped
<1>5. CASE DisplayRequests
  <2>1. EntriesTyped'
    <3>1. focus \in Paths  BY DEF ScreenTyped
    <3>2. EnqueueJob(focus) \/ EnqueueJobFails
      BY <1>5 DEF DisplayRequests
    <3>3. NewEntry(focus)
      BY <1>5 DEF DisplayRequests
    <3> QED BY <3>1, <3>2, <3>3, NewEntryTyped, EnqueueJobTyped DEF EntriesTyped
  <2>2. worker' \in {"none", "created", "waiting", "woken", "popped", "walking",
                     "publish", "exited"}
    BY <1>5 DEF DisplayRequests, EnqueueJob, EnqueueJobFails, ThreadsTyped, Woken
  <2>3. ui' = "progress" /\ UNCHANGED <<threadVars, walkVars, userVars, screen>>
    BY <1>5 DEF DisplayRequests
  <2>4. ThreadsTyped'  BY <2>2, <2>3 DEF ThreadsTyped
  <2>5. ScreenTyped'   BY <2>3 DEF ScreenTyped
  <2> QED BY <2>1, <2>4, <2>5
<1>6. CASE DisplayFails
  <2>1. EntriesTyped' /\ ThreadsTyped'
    BY <1>6 DEF DisplayFails, EntriesTyped, ThreadsTyped
  <2>2. ScreenTyped'  BY <1>6, ResultFacts, ShowTyped DEF DisplayFails
  <2> QED BY <2>1, <2>2
<1>7. CASE DisplayProgress
  <2>1. EntriesTyped' /\ ThreadsTyped'
    BY <1>7 DEF DisplayProgress, EntriesTyped, ThreadsTyped
  <2>2. progress[focus] \in Int  BY DEF EntriesTyped, ScreenTyped
  <2>3. ScreenTyped'  BY <1>7, <2>2, ShowTyped DEF DisplayProgress
  <2> QED BY <2>1, <2>3
<1>8. CASE UserActs
  BY <1>8 DEF UserActs, EntriesTyped, ThreadsTyped, ScreenTyped
<1>9. CASE PluginSelects
  BY <1>9 DEF PluginSelects, EntriesTyped, ThreadsTyped, ScreenTyped
<1>10. CASE DelayElapses
  BY <1>10 DEF DelayElapses, EntriesTyped, ThreadsTyped, ScreenTyped
<1>11. CASE Stop
  <2>1. EntriesTyped'  BY <1>11, ClearCacheTyped DEF Stop, EntriesTyped
  <2>2. ThreadsTyped'  BY <1>11 DEF Stop, ThreadsTyped, Woken
  <2>3. ScreenTyped'   BY <1>11 DEF Stop, ScreenTyped
  <2> QED BY <2>1, <2>2, <2>3
<1>12. CASE Joined
  BY <1>12, ClearCacheTyped DEF Joined, ThreadsTyped, ScreenTyped
<1>13. CASE Stopped
  BY <1>13 DEF Stopped, vars, EntriesTyped, ThreadsTyped, ScreenTyped
<1> QED BY <1>1, <1>2, <1>3, <1>4, <1>5, <1>6, <1>7, <1>8, <1>9, <1>10,
           <1>11, <1>12, <1>13 DEF UI

LEMMA LoopTopTyped ==
  ASSUME TypeOK, LoopTop
  PROVE  /\ jobs' \in Seq(Paths)
         /\ job' \in Paths \cup {NoPath}
         /\ worker' \in {"exited", "waiting", "popped"}
<1> USE DEF TypeOK, EntriesTyped
<1>1. jobs # <<>> => Head(jobs) \in Paths /\ Tail(jobs) \in Seq(Paths)
  OBVIOUS
<1> QED BY <1>1 DEF LoopTop

LEMMA WorkerTypeOK == TypeOK /\ Worker => TypeOK'
<1> SUFFICES ASSUME TypeOK, Worker PROVE TypeOK'
  OBVIOUS
<1> USE DEF TypeOK
<1>1. CASE WorkerEnters
  BY <1>1, LoopTopTyped DEF WorkerEnters, EntriesTyped, ThreadsTyped, ScreenTyped
<1>2. CASE SpuriousWakeup
  BY <1>2 DEF SpuriousWakeup, EntriesTyped, ThreadsTyped, ScreenTyped
<1>3. CASE WalkStarts
  BY <1>3 DEF WalkStarts, PushProgress, EntriesTyped, ThreadsTyped, ScreenTyped
<1>4. ASSUME NEW s \in ItemSizes, Visit(s) PROVE TypeOK'
  <2>1. total + s \in Nat /\ visited + 1 \in Nat
    BY SizesAreNatural DEF ThreadsTyped
  <2>2. EntriesTyped'  BY <1>4, <2>1 DEF Visit, PushProgress, EntriesTyped
  <2>3. ThreadsTyped'  BY <1>4, <2>1, ResultFacts DEF Visit, ThreadsTyped
  <2>4. ScreenTyped'   BY <1>4 DEF Visit, ScreenTyped
  <2> QED BY <2>2, <2>3, <2>4
<1>5. ASSUME NEW r \in Aborts \cup {ERROR}, WalkAborts(r) PROVE TypeOK'
  BY <1>5, ResultFacts DEF WalkAborts, EntriesTyped, ThreadsTyped, ScreenTyped
<1>6. CASE WalkEnds
  BY <1>6, ResultFacts
     DEF WalkEnds, PushProgress, EntriesTyped, ThreadsTyped, ScreenTyped
<1>7. CASE Publish
  <2>1. EntriesTyped'
    <3>1. CASE status[job] = "none"
      BY <1>7, <3>1, LoopTopTyped DEF Publish, EntriesTyped
    <3>2. CASE status[job] # "none"
      BY <1>7, <3>2, LoopTopTyped, ResultFacts, ZenonT(40) DEF Publish, EntriesTyped, ThreadsTyped
    <3> QED BY <3>1, <3>2
  <2>2. ThreadsTyped'  BY <1>7, LoopTopTyped, ResultFacts DEF Publish, ThreadsTyped
  <2>3. ScreenTyped'   BY <1>7 DEF Publish, ScreenTyped
  <2> QED BY <2>1, <2>2, <2>3
<1> QED BY <1>1, <1>2, <1>3, <1>4, <1>5, <1>6, <1>7 DEF Worker

(* Every variable keeps its type, whatever the interleaving of the UI and  *)
(* the worker.                                                             *)
THEOREM TypeCorrect == Spec => []TypeOK
<1>1. TypeOK /\ [Next]_vars => TypeOK'
  <2> SUFFICES ASSUME TypeOK, [Next]_vars PROVE TypeOK'
    OBVIOUS
  <2>1. CASE UNCHANGED vars
    BY <2>1 DEF vars, TypeOK, EntriesTyped, ThreadsTyped, ScreenTyped
  <2> QED BY <2>1, UITypeOK, WorkerTypeOK DEF Next
<1> QED BY <1>1, InitTypeOK, PTL DEF Spec

-----------------------------------------------------------------------------
(***************************************************************************)
(* The queue of jobs.                                                      *)
(***************************************************************************)

(* An append adds its element and nothing else. *)
LEMMA AppendMembers ==
  ASSUME NEW S, NEW s \in Seq(S), NEW x \in S, NEW y
  PROVE  (\E i \in DOMAIN Append(s, x) : Append(s, x)[i] = y)
           <=> (\E i \in DOMAIN s : s[i] = y) \/ y = x
<1> DEFINE t == Append(s, x)
<1>1. /\ Len(s) \in Nat /\ DOMAIN s = 1 .. Len(s) /\ DOMAIN t = 1 .. Len(s) + 1
      /\ \A i \in 1 .. Len(s) : t[i] = s[i]
      /\ t[Len(s) + 1] = x
  OBVIOUS
<1> QED BY <1>1

(* An append of an absent element keeps the elements distinct. *)
LEMMA AppendDistinct ==
  ASSUME NEW S, NEW s \in Seq(S), NEW x \in S,
         \A i, k \in DOMAIN s : s[i] = s[k] => i = k,
         \A i \in DOMAIN s : s[i] # x
  PROVE  \A i, k \in DOMAIN Append(s, x) : Append(s, x)[i] = Append(s, x)[k] => i = k
<1> DEFINE t == Append(s, x)
<1>1. /\ Len(s) \in Nat /\ DOMAIN s = 1 .. Len(s) /\ DOMAIN t = 1 .. Len(s) + 1
      /\ \A i \in 1 .. Len(s) : t[i] = s[i]
      /\ t[Len(s) + 1] = x
  OBVIOUS
<1> QED BY <1>1

(* A pop of distinct elements loses the head and nothing else. *)
LEMMA TailMembers ==
  ASSUME NEW S, NEW s \in Seq(S), s # <<>>,
         \A i, k \in DOMAIN s : s[i] = s[k] => i = k
  PROVE  /\ \A y : (\E i \in DOMAIN Tail(s) : Tail(s)[i] = y)
                     <=> (\E i \in DOMAIN s : s[i] = y) /\ y # Head(s)
         /\ \A i, k \in DOMAIN Tail(s) : Tail(s)[i] = Tail(s)[k] => i = k
<1> DEFINE t == Tail(s)
<1>1. /\ Len(s) \in Nat \ {0} /\ DOMAIN s = 1 .. Len(s)
      /\ DOMAIN t = 1 .. Len(s) - 1
      /\ \A i \in 1 .. Len(s) - 1 : t[i] = s[i + 1]
      /\ Head(s) = s[1]
  OBVIOUS
<1>2. \A i, k \in DOMAIN t : t[i] = t[k] => i = k
  BY <1>1
<1>3. ASSUME NEW y PROVE (\E i \in DOMAIN t : t[i] = y)
                           <=> (\E i \in DOMAIN s : s[i] = y) /\ y # Head(s)
  <2>1. ASSUME NEW i \in DOMAIN t, t[i] = y
        PROVE  (\E k \in DOMAIN s : s[k] = y) /\ y # Head(s)
    <3>1. i + 1 \in DOMAIN s /\ s[i + 1] = y /\ 1 \in DOMAIN s /\ i + 1 # 1
      BY <1>1, <2>1
    <3> QED BY <3>1, <1>1
  <2>2. ASSUME NEW i \in DOMAIN s, s[i] = y, y # Head(s)
        PROVE  \E k \in DOMAIN t : t[k] = y
    <3>1. i - 1 \in DOMAIN t /\ t[i - 1] = y
      BY <1>1, <2>2
    <3> QED BY <3>1
  <2> QED BY <2>1, <2>2
<1> QED BY <1>2, <1>3

-----------------------------------------------------------------------------
(***************************************************************************)
(* The inductive invariant of the two threads.                             *)
(***************************************************************************)

(* The life of the worker: it exists once initialized, runs until it is    *)
(* told to stop, and holds a job exactly between a pop and a publication.  *)
LifeInv ==
  /\ ui \notin {"joining", "stopped"} => (running <=> initialized)
  /\ ui \in {"joining", "stopped"} => ~running
  /\ ui # "stopped" => (initialized <=> worker # "none")
  /\ ui = "joining" => initialized
  /\ ui = "stopped" => worker \in {"none", "exited"}
  /\ worker = "exited" => ui \in {"joining", "stopped"}
  /\ job # NoPath <=> worker \in {"popped", "walking", "publish"}

QueueInv == PendingIsOwed /\ OneJobPerPath

SafetyInv == TypeOK /\ LifeInv /\ QueueInv /\ NoLostWakeup /\ StoppedIsQuiet

LEMMA InitSafetyInv == Init => SafetyInv
<1> SUFFICES ASSUME Init PROVE SafetyInv
  OBVIOUS
<1>1. TypeOK   BY InitTypeOK
<1>2. LifeInv  BY DEF Init, LifeInv
<1>3. QueueInv
  <2>1. jobs = <<>> /\ DOMAIN jobs = {}  BY DEF Init
  <2>2. \A p \in Paths : ~Queued(p) /\ job # p /\ p \notin jobEnqueued /\ status[p] = "none"
    BY <2>1, NoPathIsNoPath DEF Init, Queued
  <2> QED BY <2>1, <2>2 DEF QueueInv, PendingIsOwed, OneJobPerPath
<1>4. NoLostWakeup /\ StoppedIsQuiet  BY DEF Init, NoLostWakeup, StoppedIsQuiet
<1> QED BY <1>1, <1>2, <1>3, <1>4 DEF SafetyInv

(* The invariant only depends on these variables. *)
safetyVars == <<status, jobEnqueued, jobs, running, initialized, worker, job, ui>>

LEMMA SafetyInvStutters ==
  ASSUME SafetyInv, UNCHANGED safetyVars, TypeOK'
  PROVE  SafetyInv'
BY DEF SafetyInv, safetyVars, LifeInv, QueueInv, PendingIsOwed, OneJobPerPath,
       Queued, NoLostWakeup, StoppedIsQuiet

(* A queue that is cleared while the worker holds no job owes nothing. *)
LEMMA ClearedQueueInv ==
  ASSUME ClearCache, job' = NoPath
  PROVE  QueueInv' /\ jobs' = <<>> /\ \A p \in Paths : status'[p] = "none"
<1>1. /\ jobs' = <<>> /\ DOMAIN jobs' = {} /\ jobEnqueued' = {}
      /\ \A p \in Paths : status'[p] = "none" /\ job' # p
  BY NoPathIsNoPath DEF ClearCache
<1>2. \A p \in Paths : ~Queued(p)'
  BY <1>1 DEF Queued
<1> QED BY <1>1, <1>2 DEF QueueInv, PendingIsOwed, OneJobPerPath

LEMMA LoopTopLife ==
  ASSUME SafetyInv, LoopTop, worker \in {"created", "woken", "publish"},
         UNCHANGED <<running, initialized, ui>>
  PROVE  LifeInv' /\ NoLostWakeup' /\ (StoppedIsQuiet' \/ ui = "stopped")
<1>1. jobs # <<>> => Head(jobs) \in Paths
  BY DEF SafetyInv, TypeOK, EntriesTyped
<1> QED BY <1>1, NoPathIsNoPath
        DEF SafetyInv, LifeInv, LoopTop, NoLostWakeup, StoppedIsQuiet

(* At the top of its loop the worker holds no job; what is enqueued is     *)
(* what is queued, and a pop moves one job from the queue to the worker.   *)
LEMMA LoopTopQueue ==
  ASSUME TypeOK, LoopTop,
         \A i, k \in DOMAIN jobs : jobs[i] = jobs[k] => i = k,
         \A p \in Paths : p \in jobEnqueued' <=> Queued(p),
         \A p \in Paths : p \in jobEnqueued' => status'[p] = "pending",
         \A p \in Paths : status'[p] = "pending" /\ "malloc" \notin Faults
                            => p \in jobEnqueued'
  PROVE  QueueInv'
<1>1. jobs \in Seq(Paths)  BY DEF TypeOK, EntriesTyped
<1>2. CASE jobs' = jobs /\ job' = NoPath
  <2>1. \A p \in Paths : job' # p /\ (Queued(p)' <=> Queued(p))
    BY <1>2, NoPathIsNoPath DEF Queued
  <2>2. \A i \in DOMAIN jobs' : jobs'[i] # job'
    BY <1>1, <1>2, NoPathIsNoPath
  <2> QED BY <1>2, <2>1, <2>2 DEF QueueInv, PendingIsOwed, OneJobPerPath
<1>3. CASE jobs # <<>> /\ jobs' = Tail(jobs) /\ job' = Head(jobs)
  <2>1. /\ \A p : Queued(p)' <=> Queued(p) /\ p # job'
        /\ \A i, k \in DOMAIN jobs' : jobs'[i] = jobs'[k] => i = k
    <3>1. /\ \A y : (\E i \in DOMAIN Tail(jobs) : Tail(jobs)[i] = y)
                       <=> (\E i \in DOMAIN jobs : jobs[i] = y) /\ y # Head(jobs)
          /\ \A i, k \in DOMAIN Tail(jobs) : Tail(jobs)[i] = Tail(jobs)[k] => i = k
      BY <1>1, <1>3, TailMembers
    <3> QED BY <1>3, <3>1 DEF Queued
  <2>2. Queued(job')
    BY <1>1, <1>3 DEF Queued
  <2>3. \A i \in DOMAIN jobs' : jobs'[i] # job'
    BY <2>1 DEF Queued
  <2> QED BY <2>1, <2>2, <2>3 DEF QueueInv, PendingIsOwed, OneJobPerPath
<1> QED BY <1>2, <1>3 DEF LoopTop

LEMMA WorkerSafety == SafetyInv /\ Worker => SafetyInv'
<1> SUFFICES ASSUME SafetyInv, Worker PROVE SafetyInv'
  OBVIOUS
<1>t. TypeOK /\ TypeOK'  BY WorkerTypeOK DEF SafetyInv
<1>1. CASE WorkerEnters
  <2>1. LoopTop /\ UNCHANGED <<status, jobEnqueued, running, initialized, ui>>
        /\ worker \in {"created", "woken"}
    BY <1>1 DEF WorkerEnters
  <2>2. job = NoPath  BY <2>1 DEF SafetyInv, LifeInv
  <2>3. QueueInv'
    BY <1>t, <2>1, <2>2, NoPathIsNoPath, LoopTopQueue
       DEF SafetyInv, QueueInv, PendingIsOwed, OneJobPerPath
  <2>4. ui # "stopped"  BY <2>1 DEF SafetyInv, LifeInv
  <2> QED BY <1>t, <2>1, <2>3, <2>4, LoopTopLife DEF SafetyInv
<1>2. CASE SpuriousWakeup
  BY <1>t, <1>2 DEF SpuriousWakeup, SafetyInv, LifeInv, QueueInv, PendingIsOwed,
                    OneJobPerPath, Queued, NoLostWakeup, StoppedIsQuiet
<1>3. CASE \/ WalkStarts \/ WalkEnds
           \/ \E s \in ItemSizes : Visit(s)
           \/ \E r \in Aborts \cup {ERROR} : WalkAborts(r)
  <2>1. /\ worker \in {"popped", "walking"} /\ worker' \in {"walking", "publish"}
        /\ UNCHANGED <<status, jobEnqueued, jobs, running, initialized, job, ui>>
    BY <1>3 DEF WalkStarts, WalkEnds, Visit, WalkAborts
  <2> QED BY <1>t, <2>1 DEF SafetyInv, LifeInv, QueueInv, PendingIsOwed,
                            OneJobPerPath, Queued, NoLostWakeup, StoppedIsQuiet
<1>4. CASE Publish
  <2>1. LoopTop /\ UNCHANGED <<running, initialized, ui>> /\ worker = "publish"
    BY <1>4 DEF Publish
  <2>2. job \in Paths /\ ui # "stopped"
    BY <1>t, <2>1 DEF SafetyInv, LifeInv, TypeOK, ThreadsTyped
  <2>3. status[job] = "pending" /\ ~Queued(job)
    BY <2>2 DEF SafetyInv, QueueInv, PendingIsOwed, OneJobPerPath, Queued
  <2>4. status' = [status EXCEPT ![job] = "ready"] /\ jobEnqueued' = jobEnqueued \ {job}
    BY <1>4, <2>3 DEF Publish
  <2>5. \A p \in Paths : p # job => status'[p] = status[p]
    BY <1>t, <2>4 DEF TypeOK, EntriesTyped
  <2>6. status'[job] = "ready"
    BY <1>t, <2>2, <2>4 DEF TypeOK, EntriesTyped
  <2>7. \A p \in Paths :
          /\ p \in jobEnqueued' <=> Queued(p)
          /\ p \in jobEnqueued' => status'[p] = "pending"
          /\ status'[p] = "pending" /\ "malloc" \notin Faults => p \in jobEnqueued'
    BY <2>3, <2>4, <2>5, <2>6 DEF SafetyInv, QueueInv, PendingIsOwed
  <2>8. QueueInv'
    BY <1>t, <2>1, <2>7, LoopTopQueue DEF SafetyInv, QueueInv, OneJobPerPath
  <2> QED BY <1>t, <2>1, <2>2, <2>8, LoopTopLife DEF SafetyInv
<1> QED BY <1>1, <1>2, <1>3, <1>4 DEF Worker

LEMMA UISafety == SafetyInv /\ UI => SafetyInv'
<1> SUFFICES ASSUME SafetyInv, UI PROVE SafetyInv'
  OBVIOUS
<1>t. TypeOK /\ TypeOK'  BY UITypeOK DEF SafetyInv
<1>f. focus \in Paths /\ jobs \in Seq(Paths)
  BY <1>t DEF TypeOK, EntriesTyped, ScreenTyped
<1>1. CASE Boot \/ DisplayStarts
  <2>1. /\ EnsureWorker /\ ui \in {"boot", "loop"} /\ ui' \in {"loop", "lookup"}
        /\ UNCHANGED <<status, jobEnqueued, jobs, job>>
    BY <1>1 DEF Boot, DisplayStarts
  <2>2. LifeInv' /\ NoLostWakeup'
    BY <2>1 DEF SafetyInv, LifeInv, NoLostWakeup, EnsureWorker
  <2> QED BY <1>t, <2>1, <2>2 DEF SafetyInv, QueueInv, PendingIsOwed, OneJobPerPath,
                                  Queued, StoppedIsQuiet
<1>2. CASE \/ DisplayFound \/ DisplayHeldBack \/ DisplayFails \/ DisplayProgress
           \/ UserActs \/ PluginSelects \/ DelayElapses
  <2>1. /\ ui \in {"loop", "lookup", "progress"} /\ ui' \in {"loop", "progress"}
        /\ UNCHANGED <<status, jobEnqueued, jobs, running, initialized, worker, job>>
    BY <1>2 DEF DisplayFound, DisplayHeldBack, DisplayFails, DisplayProgress,
                UserActs, PluginSelects, DelayElapses
  <2> QED BY <1>t, <2>1 DEF SafetyInv, LifeInv, QueueInv, PendingIsOwed,
                            OneJobPerPath, Queued, NoLostWakeup, StoppedIsQuiet
<1>3. CASE DisplayRequests
  <2>1. /\ ui = "lookup" /\ ui' = "progress" /\ status[focus] = "none"
        /\ status' = [status EXCEPT ![focus] = "pending"]
        /\ EnqueueJob(focus) \/ EnqueueJobFails
        /\ UNCHANGED <<running, initialized, job>>
    BY <1>3 DEF DisplayRequests, NewEntry
  <2>2. /\ \A p \in Paths : p # focus => status'[p] = status[p]
        /\ status'[focus] = "pending"
    BY <1>t, <1>f, <2>1 DEF TypeOK, EntriesTyped
  <2>3. focus \notin jobEnqueued /\ ~Queued(focus) /\ job # focus
    BY <1>f, <2>1 DEF SafetyInv, QueueInv, PendingIsOwed
  <2>4. CASE EnqueueJob(focus)
    <3>1. jobEnqueued' = jobEnqueued \cup {focus} /\ jobs' = Append(jobs, focus)
          /\ worker' = Woken(worker)
      BY <2>4 DEF EnqueueJob
    <3>2. \A p : Queued(p)' <=> Queued(p) \/ p = focus
      BY <1>f, <3>1, AppendMembers DEF Queued
    <3>3. \A i, k \in DOMAIN jobs' : jobs'[i] = jobs'[k] => i = k
      BY <1>f, <2>3, <3>1, AppendDistinct
         DEF SafetyInv, QueueInv, OneJobPerPath, Queued
    <3>4. ~Queued(job)
      BY DEF SafetyInv, QueueInv, OneJobPerPath, Queued
    <3>5. \A i \in DOMAIN jobs' : jobs'[i] # job'
      BY <2>1, <2>3, <3>2, <3>4 DEF Queued
    <3>6. QueueInv'
      BY <2>1, <2>2, <3>1, <3>2, <3>3, <3>5
         DEF SafetyInv, QueueInv, PendingIsOwed, OneJobPerPath
    <3>7. LifeInv' /\ NoLostWakeup'
      BY <2>1, <3>1 DEF SafetyInv, LifeInv, NoLostWakeup, Woken
    <3> QED BY <1>t, <2>1, <3>6, <3>7 DEF SafetyInv, StoppedIsQuiet
  <2>5. CASE EnqueueJobFails
    <3>1. UNCHANGED <<jobEnqueued, jobs, worker>> /\ "malloc" \in Faults
      BY <2>5 DEF EnqueueJobFails
    <3>2. QueueInv'
      BY <2>1, <2>2, <2>3, <3>1
         DEF SafetyInv, QueueInv, PendingIsOwed, OneJobPerPath, Queued
    <3> QED BY <1>t, <2>1, <3>1, <3>2
            DEF SafetyInv, LifeInv, NoLostWakeup, StoppedIsQuiet
  <2> QED BY <2>1, <2>4, <2>5
<1>4. CASE Stop
  <2>1. CASE initialized
    <3>1. /\ ui = "loop" /\ ui' = "joining" /\ running' = FALSE
          /\ worker' = Woken(worker)
          /\ UNCHANGED <<status, jobEnqueued, jobs, initialized, job>>
      BY <1>4, <2>1 DEF Stop
    <3> QED BY <1>t, <2>1, <3>1
            DEF SafetyInv, LifeInv, QueueInv, PendingIsOwed, OneJobPerPath,
                Queued, NoLostWakeup, StoppedIsQuiet, Woken
  <2>2. CASE ~initialized
    <3>1. /\ ui = "loop" /\ ui' = "stopped" /\ ClearCache
          /\ UNCHANGED <<running, initialized, worker, job>>
      BY <1>4, <2>2 DEF Stop
    <3>2. worker = "none" /\ job = NoPath /\ ~running
      BY <2>2, <3>1 DEF SafetyInv, LifeInv
    <3> QED BY <1>t, <3>1, <3>2, ClearedQueueInv
            DEF SafetyInv, LifeInv, NoLostWakeup, StoppedIsQuiet
  <2> QED BY <2>1, <2>2
<1>5. CASE Joined
  <2>1. /\ ui = "joining" /\ ui' = "stopped" /\ ClearCache /\ worker = "exited"
        /\ UNCHANGED <<running, worker, job>>
    BY <1>5 DEF Joined
  <2>2. job = NoPath /\ ~running
    BY <2>1 DEF SafetyInv, LifeInv
  <2> QED BY <1>t, <2>1, <2>2, ClearedQueueInv
          DEF SafetyInv, LifeInv, NoLostWakeup, StoppedIsQuiet
<1>6. CASE Stopped
  BY <1>t, <1>6, SafetyInvStutters DEF Stopped, vars, safetyVars
<1> QED BY <1>1, <1>2, <1>3, <1>4, <1>5, <1>6 DEF UI

LEMMA SafetyInvariant == Spec => []SafetyInv
<1>1. SafetyInv /\ [Next]_vars => SafetyInv'
  <2> SUFFICES ASSUME SafetyInv, [Next]_vars PROVE SafetyInv'
    OBVIOUS
  <2>1. CASE UNCHANGED vars
    <3>1. TypeOK'
      BY <2>1 DEF SafetyInv, vars, TypeOK, EntriesTyped, ThreadsTyped, ScreenTyped
    <3> QED BY <2>1, <3>1, SafetyInvStutters DEF vars, safetyVars
  <2> QED BY <2>1, UISafety, WorkerSafety DEF Next
<1> QED BY <1>1, InitSafetyInv, PTL DEF Spec

(* In every interleaving of the two threads a request that was made is     *)
(* marked as enqueued exactly while a job is owed for it.                  *)
THEOREM RequestsAreOwed == Spec => []PendingIsOwed
<1>1. SafetyInv => PendingIsOwed
  BY DEF SafetyInv, QueueInv
<1> QED BY <1>1, SafetyInvariant, PTL

(* However requests, results and restarts interleave, no path has two      *)
(* jobs.                                                                   *)
THEOREM JobsAreUnique == Spec => []OneJobPerPath
<1>1. SafetyInv => OneJobPerPath
  BY DEF SafetyInv, QueueInv
<1> QED BY <1>1, SafetyInvariant, PTL

(* The worker never sleeps through a request or through the stop.          *)
THEOREM WakeupsArrive == Spec => []NoLostWakeup
<1>1. SafetyInv => NoLostWakeup
  BY DEF SafetyInv
<1> QED BY <1>1, SafetyInvariant, PTL

(* The cache is only torn down once the worker has left.                   *)
THEOREM TeardownIsQuiet == Spec => []StoppedIsQuiet
<1>1. SafetyInv => StoppedIsQuiet
  BY DEF SafetyInv
<1> QED BY <1>1, SafetyInvariant, PTL

-----------------------------------------------------------------------------
(***************************************************************************)
(* A published size is final, and the implementation of DirSizeService.    *)
(***************************************************************************)
LEMMA ReadyStep ==
  ASSUME SafetyInv, Next, NEW p \in Paths, status[p] = "ready", ui' # "stopped"
  PROVE  status'[p] = "ready" /\ size'[p] = size[p]
<1>t. EntriesTyped /\ ScreenTyped  BY DEF SafetyInv, TypeOK
<1>1. CASE DisplayRequests
  <2>1. p # focus  BY <1>1 DEF DisplayRequests
  <2> QED BY <1>1, <1>t, <2>1 DEF DisplayRequests, NewEntry, EntriesTyped, ScreenTyped
<1>2. CASE Publish
  <2>1. job \in Paths => status[job] = "pending"
    BY DEF SafetyInv, QueueInv, PendingIsOwed
  <2>2. p # job  BY <2>1
  <2> QED BY <1>2, <1>t, <2>2 DEF Publish, EntriesTyped
<1>3. CASE Stop \/ Joined
  BY <1>3 DEF Stop, Joined
<1>4. CASE UI /\ ~(DisplayRequests \/ Stop \/ Joined)
  BY <1>4 DEF UI, Boot, DisplayStarts, DisplayFound, DisplayHeldBack, DisplayFails,
              DisplayProgress, UserActs, PluginSelects, DelayElapses, Stopped, vars
<1>5. CASE Worker /\ ~Publish
  BY <1>5 DEF Worker, WorkerEnters, SpuriousWakeup, WalkStarts, Visit, WalkAborts, WalkEnds
<1> QED BY <1>1, <1>2, <1>3, <1>4, <1>5 DEF Next

(* Once a size is published no step of either thread replaces it before    *)
(* the shutdown.                                                           *)
THEOREM Finality == Spec => ReadyIsFinal
<1>1. SafetyInv /\ [Next]_vars =>
        [\A p \in Paths : status[p] = "ready" /\ ui' # "stopped"
           => status'[p] = "ready" /\ size'[p] = size[p]]_vars
  BY ReadyStep
<1> QED BY <1>1, SafetyInvariant, PTL DEF Spec, ReadyIsFinal

LEMMA ServiceInit == Init => Service!Init
<1> SUFFICES ASSUME Init
             PROVE  Asked = <<>> /\ Answer = [p \in Paths |-> PENDING] /\ Closed = FALSE
  BY DEF Service!Init
<1> QED BY DEF Init, Asked, Answer, Closed

LEMMA LoopTopAsked ==
  ASSUME TypeOK, LoopTop
  PROVE  Asked' = jobs
<1>1. jobs \in Seq(Paths) /\ jobs' \in Seq(Paths)
  BY LoopTopTyped DEF TypeOK, EntriesTyped
<1>2. CASE job' = NoPath /\ jobs' = jobs
  BY <1>1, <1>2 DEF Asked
<1>3. CASE jobs # <<>> /\ job' = Head(jobs) /\ jobs' = Tail(jobs)
  <2>1. job' # NoPath  BY <1>1, <1>3, NoPathIsNoPath
  <2>2. <<Head(jobs)>> \o Tail(jobs) = jobs  BY <1>1, <1>3
  <2> QED BY <1>3, <2>1, <2>2 DEF Asked
<1> QED BY <1>2, <1>3 DEF LoopTop

LEMMA ServiceStep == SafetyInv /\ [Next]_vars => [Service!Next]_(Service!vars)
<1> SUFFICES ASSUME SafetyInv, [Next]_vars
             PROVE  Service!Next \/ UNCHANGED <<Asked, Answer, Closed>>
  BY DEF Service!vars
<1>t. TypeOK /\ EntriesTyped /\ ThreadsTyped /\ ScreenTyped
  BY DEF SafetyInv, TypeOK
<1>c. worker \notin {"none", "exited"} => ~Closed
  BY DEF SafetyInv, StoppedIsQuiet, Closed
<1>1. CASE /\ UNCHANGED <<status, size, jobs, job>>
           /\ ui = "stopped" <=> ui' = "stopped"
  BY <1>1 DEF Asked, Answer, Closed
<1>2. CASE DisplayRequests
  <2>1. /\ status[focus] = "none" /\ focus \in Paths /\ UNCHANGED job
        /\ status' = [status EXCEPT ![focus] = "pending"]
        /\ size' = [size EXCEPT ![focus] = PENDING]
        /\ EnqueueJob(focus) \/ EnqueueJobFails
        /\ ~Closed /\ UNCHANGED Closed
    BY <1>2, <1>t DEF DisplayRequests, NewEntry, ScreenTyped, Closed
  <2>2. UNCHANGED Answer
    <3>1. \A p \in Paths : /\ status'[p] = "ready" <=> status[p] = "ready"
                           /\ status[p] = "ready" => size'[p] = size[p]
      BY <1>t, <2>1 DEF EntriesTyped
    <3> QED BY <3>1 DEF Answer
  <2>3. CASE EnqueueJobFails
    BY <2>1, <2>2, <2>3 DEF EnqueueJobFails, Asked
  <2>4. CASE EnqueueJob(focus)
    <3>1. jobs' = Append(jobs, focus)  BY <2>4 DEF EnqueueJob
    <3>2. Asked' = Append(Asked, focus)
      BY <1>t, <2>1, <3>1 DEF Asked, EntriesTyped, ThreadsTyped
    <3>3. Answer[focus] = PENDING  BY <2>1 DEF Answer
    <3>4. ~Queued(focus) /\ job # focus
      BY <2>1 DEF SafetyInv, QueueInv, PendingIsOwed
    <3>5. \A i \in DOMAIN Asked : Asked[i] # focus
      BY <1>t, <3>4 DEF Asked, Queued, EntriesTyped, ThreadsTyped
    <3>6. Service!Ask(focus)
      BY <2>1, <2>2, <3>2, <3>3, <3>5 DEF Service!Ask
    <3> QED BY <2>1, <3>6 DEF Service!Next
  <2> QED BY <2>1, <2>3, <2>4
<1>3. CASE WorkerEnters
  <2>1. LoopTop /\ UNCHANGED <<status, size, Closed>> /\ job = NoPath
    BY <1>3 DEF WorkerEnters, SafetyInv, LifeInv, Closed
  <2>2. Asked = jobs  BY <1>t, <2>1 DEF Asked, EntriesTyped
  <2> QED BY <1>t, <2>1, <2>2, LoopTopAsked DEF Answer
<1>4. CASE Publish
  <2>1. /\ LoopTop /\ job \in Paths /\ job # NoPath /\ result \in Results
        /\ status[job] = "pending"
    BY <1>4, <1>t, NoPathIsNoPath
       DEF Publish, SafetyInv, LifeInv, ThreadsTyped, QueueInv, PendingIsOwed
  <2>c. ~Closed /\ UNCHANGED Closed
    BY <1>4, <1>c DEF Publish, Closed
  <2>2. /\ status' = [status EXCEPT ![job] = "ready"]
        /\ size' = [size EXCEPT ![job] = result]
    BY <1>4, <2>1 DEF Publish
  <2>3. Answer' = [Answer EXCEPT ![job] = result]
    BY <1>t, <2>1, <2>2 DEF Answer, EntriesTyped
  <2>4. /\ Asked = <<job>> \o jobs
        /\ Asked # <<>> /\ Head(Asked) = job /\ Tail(Asked) = jobs
    BY <1>t, <2>1 DEF Asked, EntriesTyped
  <2>5. Answer'[Head(Asked)] = result
    BY <2>1, <2>3, <2>4 DEF Answer
  <2>6. Service!Deliver
    BY <1>t, <2>1, <2>c, <2>3, <2>4, <2>5, LoopTopAsked DEF Service!Deliver
  <2> QED BY <2>6 DEF Service!Next
<1>5. CASE Stop \/ Joined
  <2>1. CASE ClearCache /\ job = NoPath /\ job' = NoPath /\ ~Closed /\ Closed' = TRUE
    <3>1. Asked' = <<>>  BY <2>1 DEF ClearCache, Asked
    <3>2. Answer' = [p \in Paths |-> PENDING]  BY <2>1 DEF ClearCache, Answer
    <3> QED BY <2>1, <3>1, <3>2 DEF Service!Next, Service!Forget
  <2>2. CASE UNCHANGED <<status, size, jobs, job>> /\ ui = "loop" /\ ui' = "joining"
    BY <2>2, <1>1
  <2> QED BY <1>5, <2>1, <2>2 DEF Stop, Joined, SafetyInv, LifeInv, Closed
<1>6. CASE UI /\ ~(DisplayRequests \/ Stop \/ Joined)
  BY <1>1, <1>6 DEF UI, Boot, DisplayStarts, DisplayFound, DisplayHeldBack, DisplayFails,
              DisplayProgress, UserActs, PluginSelects, DelayElapses, Stopped, vars
<1>7. CASE Worker /\ ~(WorkerEnters \/ Publish)
  BY <1>1, <1>7 DEF Worker, SpuriousWakeup, WalkStarts, Visit, WalkAborts, WalkEnds
<1>8. CASE UNCHANGED vars
  BY <1>1, <1>8 DEF vars
<1> QED BY <1>2, <1>3, <1>4, <1>5, <1>6, <1>7, <1>8 DEF Next

(* The two threads, their queue and their condition variable implement the *)
(* service: one question per directory, answered once, in order.           *)
THEOREM Implementation == Spec => ImplementsService
BY SafetyInvariant, ServiceInit, ServiceStep, PTL DEF Spec, ImplementsService, Service!Spec

-----------------------------------------------------------------------------
(***************************************************************************)
(* The progress of a walk, and the screen.                                 *)
(***************************************************************************)

(* A request has no progress until its walk starts, and never more than    *)
(* its walk has counted.                                                   *)
ProgressInv ==
  /\ \A p \in Paths : status[p] = "pending" /\ job # p => progress[p] = 0
  /\ worker = "popped" => progress[job] = 0
  /\ worker = "walking" => progress[job] <= total
  /\ worker = "publish" /\ result >= 0 => progress[job] <= result

(* What was displayed still bounds, or equals, what the cache holds. *)
DisplayInv ==
  ui # "stopped" =>
    \A p \in Paths :
      /\ shown[p] = "final" =>
           \/ status[p] = "ready" /\ shownVal[p] = size[p]
           \/ "malloc" \in Faults /\ shownVal[p] = ERROR
      /\ shown[p] = "so_far" =>
           /\ status[p] # "none" /\ shownVal[p] > 0
           /\ status[p] = "pending" => shownVal[p] <= progress[p]
           /\ status[p] = "ready" /\ size[p] >= 0 => shownVal[p] <= size[p]
      /\ shown[p] = "calculating" => status[p] # "none"

(* A preview that was allowed to ask has asked when it reads the progress. *)
LookupInv == ui = "progress" /\ settled /\ idle => status[focus] # "none"

ScreenInv == SafetyInv /\ ProgressInv /\ DisplayInv /\ LookupInv

LEMMA InitScreenInv == Init => ScreenInv
<1> SUFFICES ASSUME Init PROVE ScreenInv
  OBVIOUS
<1>1. ProgressInv  BY DEF Init, ProgressInv
<1>2. DisplayInv   BY DEF Init, DisplayInv
<1>3. LookupInv    BY DEF Init, LookupInv
<1> QED BY <1>1, <1>2, <1>3, InitSafetyInv DEF ScreenInv

LEMMA ProgressStep ==
  ASSUME ScreenInv, Next, ui' # "stopped"
  PROVE  /\ ProgressInv'
         /\ \A p \in Paths :
              status[p] = "pending" /\ status'[p] # "none" => progress'[p] >= progress[p]
<1>t. TypeOK /\ EntriesTyped /\ ThreadsTyped /\ ScreenTyped /\ ProgressInv /\ LifeInv
  BY DEF ScreenInv, SafetyInv, TypeOK
<1>u. \A p \in Paths : job = p => status[p] = "pending"
  BY DEF ScreenInv, SafetyInv, QueueInv, PendingIsOwed
<1>j. worker \in {"popped", "walking", "publish"} => job \in Paths
  BY <1>t DEF LifeInv, ThreadsTyped
<1>1. CASE UNCHANGED <<status, progress, worker, job, total, result>>
  BY <1>t, <1>1 DEF ProgressInv, EntriesTyped
<1>2. CASE DisplayRequests
  <2>1. /\ status[focus] = "none" /\ focus \in Paths /\ UNCHANGED <<job, total, result>>
        /\ worker' = worker \/ worker' = "woken"
        /\ status' = [status EXCEPT ![focus] = "pending"]
        /\ progress' = [progress EXCEPT ![focus] = 0]
    BY <1>2, <1>t DEF DisplayRequests, NewEntry, EnqueueJob, EnqueueJobFails, Woken,
                      ScreenTyped
  <2>2. \A p \in Paths : p # focus => status'[p] = status[p] /\ progress'[p] = progress[p]
    BY <1>t, <2>1 DEF EntriesTyped
  <2>3. progress'[focus] = 0  BY <1>t, <2>1 DEF EntriesTyped
  <2>4. job \in Paths => job # focus  BY <1>u, <2>1
  <2> QED BY <1>t, <1>j, <2>1, <2>2, <2>3, <2>4 DEF ProgressInv, EntriesTyped
<1>3. CASE WorkerEnters \/ SpuriousWakeup
  <2>1. /\ UNCHANGED <<status, progress>> /\ job = NoPath
        /\ worker' \in {"woken", "exited", "waiting", "popped"}
        /\ worker' = "popped" => job' = Head(jobs) /\ jobs # <<>>
    BY <1>3, <1>t DEF WorkerEnters, SpuriousWakeup, LoopTop, LifeInv
  <2>2. worker' = "popped" => job' \in Paths /\ Queued(job')
    BY <1>t, <2>1 DEF EntriesTyped, Queued
  <2>3. worker' = "popped" => status[job'] = "pending"
    BY <2>2 DEF ScreenInv, SafetyInv, QueueInv, PendingIsOwed
  <2> QED BY <1>t, <2>1, <2>2, <2>3, NoPathIsNoPath DEF ProgressInv, EntriesTyped
<1>4. CASE WalkStarts
  <2>1. /\ progress' = [progress EXCEPT ![job] = 0] /\ total' = 0
        /\ worker = "popped" /\ worker' = "walking" /\ UNCHANGED <<status, job>>
    BY <1>4, <1>u, <1>j DEF WalkStarts, PushProgress
  <2> QED BY <1>t, <1>j, <2>1 DEF ProgressInv, EntriesTyped
<1>5. ASSUME NEW s \in ItemSizes, Visit(s)
      PROVE  /\ ProgressInv'
             /\ \A p \in Paths : status[p] = "pending" /\ status'[p] # "none"
                                   => progress'[p] >= progress[p]
  <2>1. /\ worker = "walking" /\ total' = total + s /\ UNCHANGED <<status, job>>
        /\ \/ worker' = "publish" /\ result' = TOO_LARGE /\ UNCHANGED progress
           \/ worker' = "walking" /\ progress' = [progress EXCEPT ![job] = total + s]
           \/ worker' = "walking" /\ UNCHANGED progress
    BY <1>5, <1>u, <1>j DEF Visit, PushProgress
  <2>2. s \in Nat /\ total \in Nat  BY <1>t, SizesAreNatural DEF ThreadsTyped
  <2>3. ~(TOO_LARGE >= 0)  BY DEF TOO_LARGE
  <2> QED BY <1>t, <1>j, <2>1, <2>2, <2>3, SMTT(30) DEF ProgressInv, EntriesTyped
<1>6. ASSUME NEW r \in Aborts \cup {ERROR}, WalkAborts(r)
      PROVE  /\ ProgressInv'
             /\ \A p \in Paths : status[p] = "pending" /\ status'[p] # "none"
                                   => progress'[p] >= progress[p]
  <2>1. worker' = "publish" /\ result' = r /\ UNCHANGED <<status, progress, job>>
    BY <1>6 DEF WalkAborts
  <2>2. ~(r >= 0)  BY ResultFacts, SMT DEF Aborts, ERROR, VIRTUAL_FS, PERMISSION_DENIED
  <2> QED BY <1>t, <2>1, <2>2 DEF ProgressInv, EntriesTyped
<1>7. CASE WalkEnds
  <2>1. /\ progress' = [progress EXCEPT ![job] = total] /\ result' = total
        /\ worker = "walking" /\ worker' = "publish" /\ UNCHANGED <<status, job>>
    BY <1>7, <1>u, <1>j DEF WalkEnds, PushProgress
  <2> QED BY <1>t, <1>j, <2>1 DEF ProgressInv, EntriesTyped, ThreadsTyped
<1>8. CASE Publish
  <2>1. /\ LoopTop /\ worker = "publish" /\ job \in Paths /\ status[job] = "pending"
        /\ status' = [status EXCEPT ![job] = "ready"]
        /\ progress' = [progress EXCEPT ![job] = IF result >= 0 THEN result ELSE @]
    BY <1>8, <1>j, <1>u DEF Publish
  <2>2. \A p \in Paths : p # job => status'[p] = status[p] /\ progress'[p] = progress[p]
    BY <1>t, <2>1 DEF EntriesTyped
  <2>3. status'[job] = "ready" /\ progress'[job] >= progress[job]
    BY <1>t, <2>1 DEF EntriesTyped, ProgressInv, ThreadsTyped
  <2>4. worker' = "popped" => job' = Head(jobs) /\ jobs # <<>>
    BY <2>1 DEF LoopTop
  <2>5. worker' = "popped" => job' \in Paths /\ Queued(job') /\ job' # job
    BY <1>t, <2>4 DEF EntriesTyped, Queued, ScreenInv, SafetyInv, QueueInv, OneJobPerPath
  <2>6. worker' = "popped" => progress'[job'] = 0
    BY <1>t, <2>2, <2>5
       DEF ScreenInv, SafetyInv, QueueInv, PendingIsOwed, ProgressInv
  <2>7. \A p \in Paths : status'[p] = "pending" => progress'[p] = 0
    BY <1>t, <2>2, <2>3 DEF ProgressInv
  <2>8. worker' \notin {"walking", "publish"}  BY <2>1 DEF LoopTop
  <2>9. \A p \in Paths : progress'[p] >= progress[p]
    BY <1>t, <2>2, <2>3 DEF EntriesTyped
  <2> QED BY <2>6, <2>7, <2>8, <2>9 DEF ProgressInv
<1>9. CASE Boot \/ DisplayStarts
  <2>1. /\ UNCHANGED <<status, progress, job>>
        /\ worker' = worker \/ worker' = "created"
        /\ UNCHANGED <<total, result>>
    BY <1>9 DEF Boot, DisplayStarts, EnsureWorker
  <2> QED BY <1>t, <2>1 DEF ProgressInv, EntriesTyped
<1>10. CASE Stop \/ Joined
  <2>1. /\ UNCHANGED <<status, progress, job, total, result>>
        /\ worker' = worker \/ worker' = "woken"
    BY <1>10 DEF Stop, Joined, Woken
  <2> QED BY <1>t, <2>1 DEF ProgressInv, EntriesTyped
<1>11. CASE UI /\ ~(DisplayRequests \/ Boot \/ DisplayStarts \/ Stop \/ Joined)
  BY <1>1, <1>11 DEF UI, DisplayFound, DisplayHeldBack, DisplayFails, DisplayProgress,
                     UserActs, PluginSelects, DelayElapses, Stopped, vars
<1> QED BY <1>2, <1>3, <1>4, <1>5, <1>6, <1>7, <1>8, <1>9, <1>10, <1>11 DEF Next, Worker

(* The life of an entry: none, then PENDING, then READY with the result of *)
(* the walk.                                                               *)
LEMMA EntryStep ==
  ASSUME SafetyInv, Next, NEW p \in Paths, ui' # "stopped"
  PROVE  \/ status'[p] = status[p] /\ size'[p] = size[p]
         \/ status[p] = "none" /\ status'[p] = "pending"
         \/ /\ status[p] = "pending" /\ status'[p] = "ready" /\ size'[p] = result
            /\ job = p /\ worker = "publish"
<1>t. EntriesTyped /\ ThreadsTyped /\ ScreenTyped  BY DEF SafetyInv, TypeOK
<1>1. CASE DisplayRequests
  <2>1. /\ status[focus] = "none"
        /\ status' = [status EXCEPT ![focus] = "pending"]
        /\ size' = [size EXCEPT ![focus] = PENDING]
    BY <1>1 DEF DisplayRequests, NewEntry
  <2> QED BY <1>t, <2>1 DEF EntriesTyped, ScreenTyped
<1>2. CASE Publish
  <2>1. worker = "publish" /\ job \in Paths
    BY <1>2, <1>t DEF Publish, SafetyInv, LifeInv, ThreadsTyped
  <2>2. status[job] = "pending"
    BY <2>1 DEF SafetyInv, QueueInv, PendingIsOwed
  <2>3. /\ status' = [status EXCEPT ![job] = "ready"]
        /\ size' = [size EXCEPT ![job] = result]
    BY <1>2, <2>2 DEF Publish
  <2> QED BY <1>t, <2>1, <2>2, <2>3 DEF EntriesTyped
<1>3. CASE Stop \/ Joined
  BY <1>3 DEF Stop, Joined
<1>4. CASE UI /\ ~(DisplayRequests \/ Stop \/ Joined)
  BY <1>4 DEF UI, Boot, DisplayStarts, DisplayFound, DisplayHeldBack, DisplayFails,
              DisplayProgress, UserActs, PluginSelects, DelayElapses, Stopped, vars
<1>5. CASE Worker /\ ~Publish
  BY <1>5 DEF Worker, WorkerEnters, SpuriousWakeup, WalkStarts, Visit, WalkAborts, WalkEnds
<1> QED BY <1>1, <1>2, <1>3, <1>4, <1>5 DEF Next

(* What is displayed about one directory agrees with what is cached. *)
Agrees(p) ==
  /\ shown[p] = "final" =>
       \/ status[p] = "ready" /\ shownVal[p] = size[p]
       \/ "malloc" \in Faults /\ shownVal[p] = ERROR
  /\ shown[p] = "so_far" =>
       /\ status[p] # "none" /\ shownVal[p] > 0
       /\ status[p] = "pending" => shownVal[p] <= progress[p]
       /\ status[p] = "ready" /\ size[p] >= 0 => shownVal[p] <= size[p]
  /\ shown[p] = "calculating" => status[p] # "none"

LEMMA DisplayStep ==
  ASSUME ScreenInv, Next, ui' # "stopped", ui # "stopped"
  PROVE  DisplayInv'
<1> SUFFICES ASSUME NEW p \in Paths PROVE Agrees(p)'
  BY DEF DisplayInv, Agrees
<1>t. EntriesTyped /\ ThreadsTyped /\ ScreenTyped /\ SafetyInv
  BY DEF ScreenInv, SafetyInv, TypeOK
<1>a. Agrees(p)  BY DEF ScreenInv, DisplayInv, Agrees
<1>1. CASE shown'[p] = shown[p] /\ shownVal'[p] = shownVal[p]
  <2>1. CASE status'[p] = status[p] /\ size'[p] = size[p]
    <3>1. status[p] = "pending" => progress'[p] >= progress[p]
      BY <2>1, ProgressStep
    <3>2. progress'[p] \in Nat /\ progress[p] \in Nat /\ shownVal[p] \in Int
      BY <1>t, UITypeOK, WorkerTypeOK
         DEF SafetyInv, TypeOK, EntriesTyped, ScreenTyped, Next
    <3> QED BY <1>a, <1>1, <2>1, <3>1, <3>2 DEF Agrees
  <2>2. CASE status[p] = "none" /\ status'[p] = "pending"
    BY <1>a, <1>1, <2>2 DEF Agrees
  <2>3. CASE /\ status[p] = "pending" /\ status'[p] = "ready" /\ size'[p] = result
             /\ job = p /\ worker = "publish"
    <3>1. result >= 0 => progress[p] <= result
      BY <2>3 DEF ScreenInv, ProgressInv
    <3>2. result \in Int /\ progress[p] \in Int /\ shownVal[p] \in Int
      BY <1>t, ResultFacts DEF EntriesTyped, ThreadsTyped, ScreenTyped
    <3> QED BY <1>a, <1>1, <2>3, <3>1, <3>2 DEF Agrees
  <2> QED BY <1>t, <2>1, <2>2, <2>3, EntryStep
<1>2. CASE DisplayFound /\ p = focus
  BY <1>2, <1>t, <1>a DEF DisplayFound, Show, Lookup, Agrees, EntriesTyped, ScreenTyped
<1>3. CASE DisplayFails /\ p = focus
  BY <1>3, <1>t DEF DisplayFails, Show, Agrees, EntriesTyped, ScreenTyped
<1>4. CASE DisplayProgress /\ p = focus
  <2>1. settled /\ idle => status[focus] # "none"
    BY <1>4 DEF ScreenInv, LookupInv, DisplayProgress
  <2>2. progress[p] \in Nat  BY <1>t DEF EntriesTyped
  <2>3. UNCHANGED entryVars  BY <1>4 DEF DisplayProgress
  <2>4. CASE status[p] = "pending" /\ progress[p] > 0
    <3>1. shown'[p] = "so_far" /\ shownVal'[p] = progress[p]
      BY <1>4, <1>t, <2>4 DEF DisplayProgress, Show, ScreenTyped
    <3> QED BY <2>2, <2>3, <2>4, <3>1 DEF Agrees
  <2>5. CASE ~(status[p] = "pending" /\ progress[p] > 0)
    <3>1. shown'[p] = IF settled /\ idle THEN "calculating" ELSE "waiting"
      BY <1>4, <1>t, <2>5 DEF DisplayProgress, Show, ScreenTyped
    <3> QED BY <1>4, <2>1, <2>3, <3>1 DEF Agrees
  <2> QED BY <2>4, <2>5
<1>5. CASE (DisplayFound \/ DisplayFails \/ DisplayProgress) /\ p # focus
  BY <1>1, <1>5, <1>t DEF DisplayFound, DisplayFails, DisplayProgress, Show, ScreenTyped
<1>6. CASE UI /\ ~(DisplayFound \/ DisplayFails \/ DisplayProgress)
  BY <1>1, <1>6 DEF UI, Boot, DisplayStarts, DisplayHeldBack, DisplayRequests,
                    UserActs, PluginSelects, DelayElapses, Stop, Joined, Stopped, vars
<1>7. CASE Worker
  BY <1>1, <1>7 DEF Worker, WorkerEnters, SpuriousWakeup, WalkStarts, Visit,
                    WalkAborts, WalkEnds, Publish
<1> QED BY <1>2, <1>3, <1>4, <1>5, <1>6, <1>7 DEF Next

LEMMA LookupStep ==
  ASSUME ScreenInv, Next, ui' # "stopped"
  PROVE  LookupInv'
<1>t. EntriesTyped /\ ThreadsTyped /\ ScreenTyped /\ LookupInv
  BY DEF ScreenInv, SafetyInv, TypeOK
<1>1. CASE DisplayFound
  BY <1>1, <1>t DEF DisplayFound, LookupInv
<1>2. CASE DisplayHeldBack
  BY <1>2, <1>t DEF DisplayHeldBack, LookupInv
<1>3. CASE DisplayRequests
  BY <1>3, <1>t DEF DisplayRequests, NewEntry, LookupInv, EntriesTyped, ScreenTyped
<1>4. CASE UI /\ ~DisplayFound /\ ~DisplayHeldBack /\ ~DisplayRequests
  BY <1>4, <1>t DEF UI, Boot, DisplayStarts, DisplayFails, DisplayProgress, UserActs,
                    PluginSelects, DelayElapses, Stop, Joined, Stopped, vars, LookupInv
<1>5. CASE Worker
  <2>1. UNCHANGED <<ui, focus, settled, idle>>
    BY <1>5 DEF Worker, WorkerEnters, SpuriousWakeup, WalkStarts, Visit, WalkAborts,
                WalkEnds, Publish
  <2>2. status[focus] # "none" => status'[focus] # "none"
    BY <1>5, <1>t DEF Worker, WorkerEnters, SpuriousWakeup, WalkStarts, Visit, WalkAborts,
                WalkEnds, Publish, EntriesTyped, ScreenTyped
  <2> QED BY <1>t, <2>1, <2>2 DEF LookupInv
<1> QED BY <1>1, <1>2, <1>3, <1>4, <1>5 DEF Next

LEMMA ScreenInvStep == ScreenInv /\ [Next]_vars => ScreenInv'
<1> SUFFICES ASSUME ScreenInv, [Next]_vars PROVE ScreenInv'
  OBVIOUS
<1>1. CASE UNCHANGED vars
  <2>1. SafetyInv'
    <3>1. TypeOK'
      BY <1>1 DEF ScreenInv, SafetyInv, vars, TypeOK, EntriesTyped, ThreadsTyped, ScreenTyped
    <3> QED BY <1>1, <3>1, SafetyInvStutters DEF ScreenInv, vars, safetyVars
  <2> QED BY <1>1, <2>1 DEF ScreenInv, ProgressInv, DisplayInv, LookupInv, vars
<1>2. CASE Next
  <2>1. SafetyInv'  BY <1>2, UISafety, WorkerSafety DEF Next, ScreenInv
  <2>2. CASE ui' = "stopped"
    <3>1. ProgressInv'
      BY <2>1, <2>2 DEF SafetyInv, StoppedIsQuiet, ProgressInv
    <3>2. DisplayInv'  BY <2>2 DEF DisplayInv
    <3>3. LookupInv'   BY <2>2 DEF LookupInv
    <3> QED BY <2>1, <3>1, <3>2, <3>3 DEF ScreenInv
  <2>3. CASE ui' # "stopped"
    <3>1. ui # "stopped"
      <4>1. ui = "stopped" => worker \in {"none", "exited"}
        BY DEF ScreenInv, SafetyInv, LifeInv
      <4>2. CASE UI
        BY <2>3, <4>2 DEF UI, Boot, DisplayStarts, DisplayFound, DisplayHeldBack,
             DisplayRequests, DisplayFails, DisplayProgress, UserActs, PluginSelects,
             DelayElapses, Stop, Joined, Stopped, vars
      <4>3. CASE Worker
        BY <4>1, <4>3 DEF Worker, WorkerEnters, SpuriousWakeup, WalkStarts, Visit,
             WalkAborts, WalkEnds, Publish
      <4> QED BY <1>2, <4>2, <4>3 DEF Next
    <3> QED BY <1>2, <2>1, <2>3, <3>1, ProgressStep, DisplayStep, LookupStep
            DEF ScreenInv
  <2> QED BY <2>2, <2>3
<1> QED BY <1>1, <1>2

(* What the UI read in two critical sections is still consistent with the  *)
(* cache when it is on the screen.                                         *)
THEOREM ScreenConsistency == Spec => []ScreenAgrees
<1>1. ScreenInv => ScreenAgrees  BY DEF ScreenInv, DisplayInv, ScreenAgrees
<1> QED BY <1>1, InitScreenInv, ScreenInvStep, PTL DEF Spec

(* The number the preview shows never decreases, and only a published      *)
(* result takes it away.                                                   *)
LEMMA ShownAdvances ==
  ASSUME ScreenInv, Next, NEW p \in Paths, shown[p] = "so_far"
  PROVE  \/ shown'[p] = "so_far" /\ shownVal'[p] >= shownVal[p]
         \/ status'[p] = "ready"
<1>t. EntriesTyped /\ ThreadsTyped /\ ScreenTyped
  BY DEF ScreenInv, SafetyInv, TypeOK
<1>1. CASE shown'[p] = shown[p] /\ shownVal'[p] = shownVal[p]
  BY <1>1, <1>t DEF ScreenTyped
<1>a. ASSUME ui \in {"lookup", "progress"}
      PROVE  status[p] \in {"pending", "ready"}
  BY <1>a, <1>t DEF ScreenInv, DisplayInv, EntriesTyped
<1>2. CASE DisplayFound /\ p = focus
  BY <1>1, <1>2, <1>t DEF DisplayFound, Show, Lookup, EntriesTyped, ScreenTyped
<1>3. CASE DisplayFails /\ p = focus
  BY <1>3, <1>a DEF DisplayFails
<1>4. CASE DisplayProgress /\ p = focus
  <2>1. status[p] \in {"pending", "ready"}  BY <1>4, <1>a DEF DisplayProgress
  <2>2. UNCHANGED status  BY <1>4 DEF DisplayProgress
  <2>3. CASE status[p] = "ready"  BY <2>2, <2>3
  <2>4. CASE status[p] = "pending"
    <3>1. shownVal[p] > 0 /\ shownVal[p] <= progress[p]
      BY <1>4, <2>4 DEF ScreenInv, DisplayInv, DisplayProgress
    <3>2. progress[p] \in Nat /\ shownVal[p] \in Int
      BY <1>t DEF EntriesTyped, ScreenTyped
    <3>3. CASE progress[p] > 0
      <4>1. shown'[p] = "so_far" /\ shownVal'[p] = progress[p]
        BY <1>4, <1>t, <2>4, <3>3 DEF DisplayProgress, Show, ScreenTyped
      <4> QED BY <3>1, <3>2, <4>1
    <3> QED BY <3>1, <3>2, <3>3
  <2> QED BY <2>1, <2>3, <2>4
<1>5. CASE (DisplayFound \/ DisplayFails \/ DisplayProgress) /\ p # focus
  BY <1>1, <1>5, <1>t DEF DisplayFound, DisplayFails, DisplayProgress, Show, ScreenTyped
<1>6. CASE UI /\ ~(DisplayFound \/ DisplayFails \/ DisplayProgress)
  BY <1>1, <1>6 DEF UI, Boot, DisplayStarts, DisplayHeldBack, DisplayRequests,
                    UserActs, PluginSelects, DelayElapses, Stop, Joined, Stopped, vars
<1>7. CASE Worker
  BY <1>1, <1>7 DEF Worker, WorkerEnters, SpuriousWakeup, WalkStarts, Visit,
                    WalkAborts, WalkEnds, Publish
<1> QED BY <1>2, <1>3, <1>4, <1>5, <1>6, <1>7 DEF Next

(* Neither the size so far of a request nor the one the preview shows      *)
(* decreases: dir_size_get_progress and draw_preview_window_path.          *)
THEOREM Monotony == Spec => ProgressAdvances
<1> DEFINE Advances(p) ==
      /\ status[p] = "pending" /\ status'[p] # "none" => progress'[p] >= progress[p]
      /\ shown[p] = "so_far" => \/ shown'[p] = "so_far" /\ shownVal'[p] >= shownVal[p]
                               \/ status'[p] = "ready"
<1>1. ScreenInv /\ [Next]_vars => [\A p \in Paths : Advances(p)]_vars
  <2> SUFFICES ASSUME ScreenInv, Next, NEW p \in Paths PROVE Advances(p)
    OBVIOUS
  <2>1. ASSUME status[p] = "pending", status'[p] # "none" PROVE progress'[p] >= progress[p]
    <3>1. SafetyInv'  BY UISafety, WorkerSafety DEF Next, ScreenInv
    <3>2. ui' # "stopped"  BY <2>1, <3>1 DEF SafetyInv, StoppedIsQuiet
    <3> QED BY <2>1, <3>2, ProgressStep
  <2> QED BY <2>1, ShownAdvances
<1> QED BY <1>1, InitScreenInv, ScreenInvStep, PTL DEF Spec, ProgressAdvances
=============================================================================
