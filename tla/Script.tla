------------------------------- MODULE Script -------------------------------
(* The CupidScript virtual machine: statements and their completions, calls,  *)
(* generators, deferred statements, try, and the scheduler of promises, tasks,*)
(* timers and sockets that await drives (lib/cs_vm.c, lib/cs_event_loop.c,    *)
(* the promise natives of lib/cs_stdlib.c).                                   *)
(*                                                                            *)
(* The C stack of the evaluator is a sequence of frames, the last one         *)
(* running.  The program is arbitrary: a block that may go on picks any       *)
(* statement.  done is "run" while the last frame runs, and otherwise the     *)
(* completion (exec_result) that the statement it started has just returned.  *)
(* "abort" stands for a process that undefined behaviour ended.               *)
EXTENDS Integers, FiniteSets, Sequences, SequencesExt, FiniteSetsExt

CONSTANTS
  Sockets,     \* the file descriptors
  Delays,      \* the arguments of sleep, in ticks of the clock
  MaxFrames,   \* bound on the frames of the C stack
  MaxPicks,    \* bound on the statements and loop turns executed
  MaxPromises, \* bound on the promises made
  MaxClock     \* bound on the clock

ASSUME ScriptAssumption ==
  /\ {MaxFrames, MaxPicks, MaxPromises, MaxClock} \subseteq Nat
  /\ Delays \subseteq Nat

Abrupt == {"break", "continue", "return", "throw", "error"}
Completions == Abrupt \cup {"normal"}
Settled == {"fulfilled", "rejected"}

VARIABLES
  frames,     \* the C stack
  done,       \* what the last frame was just given
  depth,      \* vm->frame_count, the length of the stack trace
  yieldTo,    \* the frame whose list vm->yield_list is, 0: yield_active is 0
  pending,    \* vm->pending_throw
  promises,   \* the state of each promise
  tasks,      \* the queue of tasks, each by its promise
  timers,     \* the list of timers, records [due, p]
  sockets,    \* vm->pending_io: records [fd, p]
  clock,      \* get_time_ms
  picks,      \* how much of MaxPicks is used
  lost        \* history: promises whose socket entry went away unanswered

scriptVars == << frames, done, depth, yieldTo, pending, promises, tasks, timers,
                 sockets, clock, picks, lost >>
loopVars == << promises, tasks, timers, sockets, clock, lost >>

ScriptInit ==
  /\ frames = << >> /\ done = "run"
  /\ depth = 0 /\ yieldTo = 0 /\ pending = FALSE
  /\ promises = << >> /\ tasks = << >> /\ timers = << >> /\ sockets = {}
  /\ clock = 0 /\ picks = 0 /\ lost = {}

-----------------------------------------------------------------------------
(* The stack *)

Frame(kind) == [kind |-> kind, phase |-> "body", left |-> 0, base |-> "normal",
                saved |-> 0, fin |-> FALSE]
BlockFrame == Frame("block")

Top == Last(frames)
Runs(kind) == frames # << >> /\ done = "run" /\ Top.kind = kind
Gets(kind) == frames # << >> /\ done \in Completions /\ Top.kind = kind
Become(f) == Front(frames) \o << f >>
Room(n) == Len(frames) + n <= MaxFrames

(* The last frame ends with the completion c *)
PopWith(c) == frames' = Front(frames) /\ done' = c

(* What a failing expression makes of its statement (exec_take_vm_throw) *)
Failure == IF pending THEN "throw" ELSE "error"

-----------------------------------------------------------------------------
(* Blocks (exec_block) *)

(* A block may execute a statement while its body lasts, and afterwards as    *)
(* often as it has deferred ones; Picked is the block that has picked one     *)
MayPick == /\ Runs("block")
           /\ IF Top.phase = "body" THEN picks < MaxPicks ELSE Top.left > 0
Picked == IF Top.phase = "body" THEN Top ELSE [Top EXCEPT !.left = @ - 1]
Start(fs) == /\ MayPick /\ Room(Len(fs))
             /\ frames' = Become(Picked) \o fs
             /\ picks' = Min({picks + 1, MaxPicks})

(* A statement that starts no other one: a binding, an assignment, a          *)
(* declaration, an expression                                                 *)
SimpleStatement ==
  /\ Start(<< >>)
  /\ done' = "normal"
  /\ UNCHANGED << depth, yieldTo, pending, loopVars >>

(* break, continue, return and throw *)
Jump ==
  /\ Start(<< >>)
  /\ done' \in Abrupt \ {"error"}
  /\ UNCHANGED << depth, yieldTo, pending, loopVars >>

(* A statement one of whose expressions fails, in a native, an operator or a  *)
(* limit (vm_check_safety)                                                    *)
FailingExpression ==
  /\ Start(<< >>)
  /\ done' = Failure /\ pending' = FALSE
  /\ UNCHANGED << depth, yieldTo, loopVars >>

DeferStatement ==
  /\ MayPick /\ Top.phase = "body"
  /\ frames' = Become([Top EXCEPT !.left = @ + 1])
  /\ picks' = picks + 1
  /\ UNCHANGED << done, depth, yieldTo, pending, loopVars >>

(* Blocks, if, while, for, for-in, switch and try *)
Nest ==
  /\ \/ Start(<< BlockFrame >>)
     \/ Start(<< Frame("loop") >>)
     \/ \E n \in 1..2 : Start(<< [Frame("switch") EXCEPT !.left = n] >>)
     \/ \E fin \in BOOLEAN :
          Start(<< [Frame("try") EXCEPT !.fin = fin, !.saved = depth], BlockFrame >>)
  /\ UNCHANGED << done, depth, yieldTo, pending, loopVars >>

(* A yield appends to the list of the innermost call that has one *)
YieldStatement ==
  /\ Start(<< >>)
  /\ done' = IF yieldTo = 0 THEN "error" ELSE "normal"
  /\ UNCHANGED << depth, yieldTo, pending, loopVars >>

(* The last statement of the body was executed *)
BlockEnds ==
  /\ Runs("block") /\ Top.phase = "body"
  /\ frames' = Become([Top EXCEPT !.phase = "defers"])
  /\ UNCHANGED << done, depth, yieldTo, pending, picks, loopVars >>

(* Mutant: a completion that leaves the block forgets what it deferred *)
BlockForgetsDefers ==
  /\ Gets("block")
  /\ IF done = "normal" THEN done' = "run" /\ UNCHANGED frames ELSE PopWith(done)
  /\ UNCHANGED << depth, yieldTo, pending, picks, loopVars >>

BlockGets ==
  /\ Gets("block")
  /\ \/ done = "normal" /\ done' = "run" /\ UNCHANGED frames
     \/ /\ done # "normal" /\ Top.phase = "body"
        /\ frames' = Become([Top EXCEPT !.phase = "defers", !.base = done])
        /\ done' = "run"
     \/ done # "normal" /\ Top.phase = "defers" /\ PopWith(done)
  /\ UNCHANGED << depth, yieldTo, pending, picks, loopVars >>

BlockIsDone ==
  /\ Runs("block") /\ Top.phase = "defers" /\ Top.left = 0
  /\ PopWith(Top.base)
  /\ UNCHANGED << depth, yieldTo, pending, picks, loopVars >>

-----------------------------------------------------------------------------
(* Loops, switch and try *)

(* The condition, the iterator or the increment: another turn, the end, or a  *)
(* failure                                                                    *)
LoopTurns ==
  /\ Runs("loop")
  /\ \/ /\ picks < MaxPicks /\ Room(1)
        /\ frames' = Append(frames, BlockFrame)
        /\ picks' = picks + 1
        /\ UNCHANGED << done, pending >>
     \/ PopWith("normal") /\ UNCHANGED << pending, picks >>
     \/ PopWith(Failure) /\ pending' = FALSE /\ UNCHANGED picks
  /\ UNCHANGED << depth, yieldTo, loopVars >>

LoopGets ==
  /\ Gets("loop")
  /\ \/ done \in {"normal", "continue"} /\ done' = "run" /\ UNCHANGED frames
     \/ done = "break" /\ PopWith("normal")
     \/ done \in {"return", "throw", "error"} /\ PopWith(done)
  /\ UNCHANGED << depth, yieldTo, pending, picks, loopVars >>

(* The next case is executed too: cases fall through *)
SwitchTurns ==
  /\ Runs("switch")
  /\ \/ /\ Top.left > 0 /\ Room(1)
        /\ frames' = Become([Top EXCEPT !.left = @ - 1]) \o << BlockFrame >>
        /\ UNCHANGED done
     \/ PopWith("normal")
  /\ UNCHANGED << depth, yieldTo, pending, picks, loopVars >>

SwitchGets ==
  /\ Gets("switch")
  /\ \/ done = "normal" /\ done' = "run" /\ UNCHANGED frames
     \/ done = "break" /\ PopWith("normal")
     \/ done \in Abrupt \ {"break"} /\ PopWith(done)
  /\ UNCHANGED << depth, yieldTo, pending, picks, loopVars >>

(* The try statement f goes on with its finally block, or ends with c *)
Finally(f, c) ==
  IF f.fin THEN /\ frames' = Become([f EXCEPT !.phase = "finally", !.base = c]) \o << BlockFrame >>
                /\ done' = "run"
  ELSE PopWith(c)

TryGets ==
  /\ Gets("try")
  /\ \/ /\ Top.phase = "body" /\ done = "error"
        /\ PopWith("error") /\ UNCHANGED depth
     \/ /\ Top.phase = "body" /\ done = "throw"
        /\ depth' = Min({depth, Top.saved})
        /\ frames' = Become([Top EXCEPT !.phase = "catch"]) \o << BlockFrame >>
        /\ done' = "run"
     \/ /\ Top.phase = "body" /\ done \notin {"error", "throw"}
        /\ Finally(Top, done) /\ UNCHANGED depth
     \/ /\ Top.phase = "catch"
        /\ Finally(Top, done) /\ UNCHANGED depth
     \/ /\ Top.phase = "finally"
        /\ PopWith(IF done = "normal" THEN Top.base ELSE done)
        /\ UNCHANGED depth
  /\ UNCHANGED << yieldTo, pending, picks, loopVars >>

-----------------------------------------------------------------------------
(* Calls *)

(* The body of a function starts, with n frames on the stack trace *)
StartBody(kind, n) ==
  /\ Start(<< [Frame(kind) EXCEPT !.saved = yieldTo, !.left = n], BlockFrame >>)
  /\ depth' = depth + n
  /\ yieldTo' = IF kind = "call" THEN Len(frames) + 1 ELSE yieldTo
  /\ UNCHANGED << done, pending, loopVars >>

(* A function that is called by its name or through a pipe collects what its  *)
(* body yields; a method or a constructor does not.  A pipe adds no frame.    *)
CallFunction == StartBody("call", 1)
CallThroughPipe == StartBody("call", 0)
CallMethod == StartBody("method", 1)
ConstructThroughPipe == StartBody("method", 0)

(* The arguments do not fit the parameters, or a default value throws: the    *)
(* environment of the call is then released twice, which is undefined         *)
CallUnbound ==
  /\ Start(<< >>)
  /\ done' \in {Failure, "throw", "abort"} /\ pending' = FALSE
  /\ UNCHANGED << depth, yieldTo, loopVars >>

(* cs_call, cs_call_value and run_ast_in_env: entered by the host, or by a    *)
(* native that calls back or requires a module.  A native's own frame, popped *)
(* when it returns, is left out of depth.                                     *)
Entry(kind) == << [Frame(kind) EXCEPT !.saved = depth], BlockFrame >>
EnterMachine(kind) ==
  /\ \/ Start(Entry(kind))
     \/ /\ frames = << >> /\ picks < MaxPicks /\ Room(2)
        /\ frames' = Entry(kind) /\ picks' = picks + 1
  /\ depth' = IF kind = "host" THEN depth + 1 ELSE depth
  /\ pending' = FALSE
  /\ UNCHANGED << done, yieldTo, loopVars >>

HostCalls == EnterMachine("host")
RequireModule == EnterMachine("module")

(* Mutant: a call that fails does not restore the list of its caller *)
CallKeepsYieldList ==
  /\ Gets("call") \/ Gets("method")
  /\ PopWith(IF done = "throw" THEN "throw"
             ELSE IF done \in {"return", "normal"} THEN "normal" ELSE Failure)
  /\ pending' = (pending /\ done \in {"return", "normal"})
  /\ depth' = IF done = "throw" THEN depth ELSE depth - Top.left
  /\ yieldTo' = IF Top.kind = "call" /\ done # "throw" THEN Top.saved ELSE yieldTo
  /\ UNCHANGED << picks, loopVars >>

(* A throw leaves the frame on the stack trace; break and continue have no    *)
(* loop to reach and become errors                                            *)
CallReturns ==
  /\ Gets("call") \/ Gets("method")
  /\ PopWith(IF done = "throw" THEN "throw"
             ELSE IF done \in {"return", "normal"} THEN "normal" ELSE Failure)
  /\ pending' = (pending /\ done \in {"return", "normal"})
  /\ depth' = IF done = "throw" THEN depth ELSE depth - Top.left
  /\ yieldTo' = IF Top.kind = "call" THEN Top.saved ELSE yieldTo
  /\ UNCHANGED << picks, loopVars >>

(* What does not end normally, a throw included, is an error of the native    *)
MachineReturns ==
  /\ Gets("host") \/ Gets("module")
  /\ \/ /\ Len(frames) = 1
        /\ PopWith("run") /\ UNCHANGED pending
     \/ /\ Len(frames) > 1 /\ done \in {"return", "normal"}
        /\ PopWith("normal") /\ UNCHANGED pending
     \/ /\ Len(frames) > 1 /\ done \notin {"return", "normal"}
        /\ PopWith(Failure) /\ pending' = FALSE
  /\ depth' = Min({depth, Top.saved})
  /\ UNCHANGED << yieldTo, picks, loopVars >>

-----------------------------------------------------------------------------
(* Promises: natives and asynchronous calls *)

(* A promise settles once *)
SettleIn(ps, p, s) == IF ps[p] = "pending" THEN [ps EXCEPT ![p] = s] ELSE ps
NewPromise(s) ==
  /\ Len(promises) < MaxPromises
  /\ promises' = Append(promises, s)
NextP == Len(promises) + 1

(* A statement that calls a native and succeeds *)
NativeSucceeds == /\ Start(<< >>) /\ done' = "normal"
           /\ UNCHANGED << depth, yieldTo, pending, clock >>

CallAsync ==
  /\ NativeSucceeds /\ NewPromise("pending")
  /\ tasks' = Append(tasks, NextP)
  /\ UNCHANGED << timers, sockets, lost >>

(* scheduler_add_timer: after every timer that is due no later *)
AddTimer(t) ==
  LET k == Cardinality({i \in DOMAIN timers : timers[i].due <= t.due})
  IN SubSeq(timers, 1, k) \o << t >> \o SubSeq(timers, k + 1, Len(timers))

CallSleep ==
  \E d \in Delays :
    /\ clock + d <= MaxClock
    /\ NativeSucceeds /\ NewPromise(IF d = 0 THEN "fulfilled" ELSE "pending")
    /\ timers' = IF d = 0 THEN timers ELSE AddTimer([due |-> clock + d, p |-> NextP])
    /\ UNCHANGED << tasks, sockets, lost >>

(* promise() makes one that only resolve and reject settle *)
CallPromise ==
  /\ NativeSucceeds /\ NewPromise("pending")
  /\ lost' = lost \cup {NextP}
  /\ UNCHANGED << tasks, timers, sockets >>

CallSettle ==
  \E p \in DOMAIN promises, s \in Settled :
    /\ NativeSucceeds
    /\ promises' = SettleIn(promises, p, s)
    /\ UNCHANGED << tasks, timers, sockets, lost >>

(* A socket operation that would block *)
CallSocket ==
  \E fd \in Sockets :
    /\ NativeSucceeds /\ NewPromise("pending")
    /\ sockets' = sockets \cup {[fd |-> fd, p |-> NextP]}
    /\ UNCHANGED << tasks, timers, lost >>

(* cs_remove_pending_io removes every operation on the descriptor, and those  *)
(* not in answered are never answered                                         *)
RemoveSockets(fds, answered) ==
  LET gone == {io \in sockets : io.fd \in fds}
  IN /\ sockets' = sockets \ gone
     /\ lost' = lost \cup {io.p : io \in gone \ answered}

CloseSocket ==
  \E fd \in Sockets :
    /\ NativeSucceeds /\ RemoveSockets({fd}, {})
    /\ UNCHANGED << promises, tasks, timers >>

-----------------------------------------------------------------------------
(* await and the scheduler *)

(* await, await_all, await_any, timeout: they all wait for one promise after  *)
(* another                                                                    *)
StartAwait ==
  \E p \in DOMAIN promises :
    /\ Start(<< [Frame("await") EXCEPT !.left = p] >>)
    /\ UNCHANGED << done, depth, yieldTo, pending, loopVars >>

AwaitEnds ==
  /\ Runs("await") /\ promises[Top.left] \in Settled
  /\ IF promises[Top.left] = "rejected" THEN PopWith("throw") /\ pending' = FALSE
     ELSE PopWith("normal") /\ UNCHANGED pending
  /\ UNCHANGED << depth, yieldTo, picks, loopVars >>

(* An interrupt, the instruction limit or the time limit *)
AwaitStopped ==
  /\ Runs("await")
  /\ PopWith(Failure) /\ pending' = FALSE
  /\ UNCHANGED << depth, yieldTo, picks, loopVars >>

Waits == Runs("await") /\ promises[Top.left] = "pending"
DueAt(t) == Max({n \in 0..Len(timers) : \A i \in 1..n : timers[i].due <= t})

(* scheduler_run_due_timers, at the time t *)
RunTimersAt(t) ==
  LET ran == {timers[i].p : i \in 1..DueAt(t)}
  IN /\ promises' = [p \in DOMAIN promises |->
                       IF p \in ran /\ promises[p] = "pending" THEN "fulfilled"
                       ELSE promises[p]]
     /\ timers' = SubSeq(timers, DueAt(t) + 1, Len(timers))
     /\ clock' = t
     /\ UNCHANGED << tasks, sockets, lost >>

RunDueTimers ==
  /\ Waits /\ DueAt(clock) > 0
  /\ RunTimersAt(clock)
  /\ UNCHANGED << frames, done, depth, yieldTo, pending, picks >>

(* Mutant: a task whose arguments do not fit is dropped *)
RunTaskDrops ==
  /\ Waits /\ DueAt(clock) = 0 /\ tasks # << >>
  /\ tasks' = Tail(tasks)
  /\ \/ /\ Room(2)
        /\ frames' = frames \o << [Frame("task") EXCEPT !.left = Head(tasks)], BlockFrame >>
        /\ depth' = depth + 1
        /\ UNCHANGED << pending, promises >>
     \/ UNCHANGED << promises, frames, depth, pending >>
  /\ UNCHANGED << done, yieldTo, picks, timers, sockets, clock, lost >>

(* The oldest task starts on top of the await, or its parameters cannot be    *)
(* bound; a default value that threw leaves its throw pending                 *)
RunTask ==
  /\ Waits /\ DueAt(clock) = 0 /\ tasks # << >>
  /\ tasks' = Tail(tasks)
  /\ \/ /\ Room(2)
        /\ frames' = frames \o << [Frame("task") EXCEPT !.left = Head(tasks)], BlockFrame >>
        /\ depth' = depth + 1
        /\ UNCHANGED << pending, promises >>
     \/ /\ promises' = SettleIn(promises, Head(tasks), "rejected")
        /\ pending' \in {pending, TRUE}
        /\ UNCHANGED << frames, depth >>
  /\ UNCHANGED << done, yieldTo, picks, timers, sockets, clock, lost >>

(* Two operations on one descriptor in one poll: the entry of the second is   *)
(* read after it was freed                                                    *)
Twice(ios) == \E io, jo \in ios : io # jo /\ io.fd = jo.fd

(* cs_poll_pending_io: the ready operations are answered; one whose promise   *)
(* was settled by the script stays in the list                                *)
PollSockets ==
  /\ Waits /\ DueAt(clock) = 0 /\ tasks = << >>
  /\ \E ready \in SUBSET sockets \ {{}}, s \in Settled :
       LET answered == {io \in ready : promises[io.p] = "pending"}
       IN /\ promises' = [p \in DOMAIN promises |->
                            IF p \in {io.p : io \in answered} THEN s ELSE promises[p]]
          /\ RemoveSockets({io.fd : io \in answered}, answered)
          /\ done' \in {"run"} \cup IF Twice(ready) THEN {"abort"} ELSE {}
  /\ UNCHANGED << frames, depth, yieldTo, pending, picks, tasks, timers, clock >>

SocketTimesOut ==
  /\ Waits /\ DueAt(clock) = 0 /\ tasks = << >>
  /\ \E io \in sockets :
       /\ promises' = SettleIn(promises, io.p, "rejected")
       /\ RemoveSockets({io.fd}, {io})
       /\ done' \in {"run"} \cup IF Twice({jo \in sockets : jo.fd = io.fd})
                                 THEN {"abort"} ELSE {}
  /\ UNCHANGED << frames, depth, yieldTo, pending, picks, tasks, timers, clock >>

(* Nothing else to do: sleep until the first timer *)
SleepToTimer ==
  /\ Waits /\ DueAt(clock) = 0 /\ tasks = << >> /\ sockets = {} /\ timers # << >>
  /\ RunTimersAt(timers[1].due)
  /\ UNCHANGED << frames, done, depth, yieldTo, pending, picks >>

AwaitDeadlock ==
  /\ Waits /\ tasks = << >> /\ sockets = {} /\ timers = << >>
  /\ PopWith(Failure) /\ pending' = FALSE
  /\ UNCHANGED << depth, yieldTo, picks, loopVars >>

TaskEnds ==
  /\ Gets("task")
  /\ promises' = SettleIn(promises, Top.left,
                   IF done \in {"return", "normal"} THEN "fulfilled" ELSE "rejected")
  /\ PopWith("run")
  /\ depth' = depth - 1
  /\ UNCHANGED << yieldTo, pending, picks, tasks, timers, sockets, clock, lost >>

ClockTicks ==
  /\ Waits /\ clock < MaxClock
  /\ clock' = clock + 1
  /\ UNCHANGED << frames, done, depth, yieldTo, pending, picks, promises, tasks,
                  timers, sockets, lost >>

-----------------------------------------------------------------------------

(* The process has ended, or the host makes no more calls *)
ScriptIsOver ==
  /\ done = "abort" \/ (frames = << >> /\ picks = MaxPicks)
  /\ UNCHANGED scriptVars

ScriptNext ==
  \/ SimpleStatement \/ Jump \/ FailingExpression \/ DeferStatement \/ Nest \/ YieldStatement
  \/ BlockEnds \/ BlockGets \/ BlockIsDone
  \/ LoopTurns \/ LoopGets \/ SwitchTurns \/ SwitchGets \/ TryGets
  \/ CallFunction \/ CallThroughPipe \/ CallMethod \/ ConstructThroughPipe
  \/ CallUnbound \/ CallReturns
  \/ HostCalls \/ RequireModule \/ MachineReturns
  \/ CallAsync \/ CallSleep \/ CallPromise \/ CallSettle \/ CallSocket \/ CloseSocket
  \/ StartAwait \/ AwaitEnds \/ AwaitStopped \/ AwaitDeadlock
  \/ RunDueTimers \/ RunTask \/ PollSockets \/ SocketTimesOut \/ SleepToTimer
  \/ TaskEnds \/ ClockTicks
  \/ ScriptIsOver

ScriptSpec == ScriptInit /\ [][ScriptNext]_scriptVars

-----------------------------------------------------------------------------
(* Properties *)

FrameKinds == {"block", "loop", "switch", "try", "call", "method", "host", "module",
               "await", "task"}

(* The type of the state, and the two ends of a stack: a script is entered    *)
(* through the host, and what runs last is a block, a loop, a switch or an    *)
(* await unless it was just given a completion.                               *)
ScriptTypeOK ==
  /\ \A i \in DOMAIN frames :
       /\ frames[i].kind \in FrameKinds
       /\ frames[i].phase \in {"body", "defers", "catch", "finally"}
       /\ frames[i].left \in Nat /\ frames[i].saved \in Nat
       /\ frames[i].base \in Completions /\ frames[i].fin \in BOOLEAN
  /\ frames # << >> => frames[1].kind \in {"host", "module"}
  /\ frames # << >> /\ done = "run" => Top.kind \in {"block", "loop", "switch", "await"}
  /\ done \in Completions \cup {"run", "abort"}
  /\ depth \in Nat /\ yieldTo \in 0..Len(frames) /\ pending \in BOOLEAN
  /\ \A p \in DOMAIN promises : promises[p] \in Settled \cup {"pending"}
  /\ clock \in 0..MaxClock /\ picks \in 0..MaxPicks
  /\ lost \subseteq DOMAIN promises

(* Cleaning up is not skipped: a block is left with statements it deferred    *)
(* still to run only when one of them completed abruptly, and a try statement *)
(* without its finally block only when its body ended in an error, which also *)
(* skips its catch block (exec_block, N_TRY).                                 *)
CleanupRuns ==
  [][Len(frames') < Len(frames) =>
       /\ (Top.kind = "block" /\ Top.left > 0) =>
            (Top.phase = "defers" /\ done \in Abrupt)
       /\ (Top.kind = "try" /\ Top.fin) =>
            (Top.phase = "finally" \/ (Top.phase = "body" /\ done = "error"))]_scriptVars

(* What a yield appends to is the list of the innermost function on the stack *)
(* that was called by name, through every call, throw, error and nested task: *)
(* never a list that its call has already given up (N_CALL, N_PIPE).  And a   *)
(* stack trace misses no running call but those through a pipe, although      *)
(* throws leave frames behind that only a catch or the host cleans up, and it *)
(* is empty when the host is back (vm_frames_push, vm_frames_pop, base_depth).*)
CallsNest ==
  /\ yieldTo = Max({0} \cup {i \in DOMAIN frames : frames[i].kind = "call"})
  /\ depth >= Cardinality({i \in DOMAIN frames :
                   \/ frames[i].kind \in {"host", "task"}
                   \/ frames[i].kind \in {"call", "method"} /\ frames[i].left = 1})
  /\ frames = << >> => depth = 0

(* Every promise somebody may be waiting for has exactly one thing left that  *)
(* will settle it, a task, queued or running, a timer or a socket operation,  *)
(* except those named by lost: promise() made it, or its socket operation was *)
(* removed together with another one or by closing the socket.                *)
PromisesHaveOwners ==
  \A p \in DOMAIN promises :
    promises[p] = "pending" /\ p \notin lost =>
      Cardinality({i \in DOMAIN tasks : tasks[i] = p})
      + Cardinality({i \in DOMAIN frames : frames[i].kind = "task" /\ frames[i].left = p})
      + Cardinality({i \in DOMAIN timers : timers[i].p = p})
      + Cardinality({io \in sockets : io.p = p}) = 1
=============================================================================
