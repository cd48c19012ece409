--------------------------- MODULE Plugins_proofs ---------------------------
(* The plugin manager for any number of scripts, handlers, calls and rounds:   *)
(* its types, the calls into live virtual machines, the delivery of events and *)
(* the answers to dialogs.  Behind it what plugins store in the two files that *)
(* outlive a session, for any fields, codes, texts, keys and values.           *)
EXTENDS Plugins, Settings, DataLemmas, SequenceTheorems

Places == {"load", "top", "on_load", "loop", "hook", "event", "binding", "on_key", "poll",
           "menu", "dialog", "requests", "down", "off", "undefined"}
Handler == [event : Range(Events), vm : Scripts, id : Nat]
Dialog == [vm : Scripts, kind : {"prompt", "confirm", "menu"}]
Call == [kind : {"hook", "handler"}, of : Scripts \cup Nat]

AtMostOne(S) == \A x, y \in S : x = y

(* The fields of the two records *)
Shape ==
  /\ pm = [loaded |-> pm.loaded, handlers |-> pm.handlers, cap |-> pm.cap,
           bindings |-> pm.bindings, mark |-> pm.mark, context |-> pm.context,
           dialog |-> pm.dialog, quit |-> pm.quit, reload |-> pm.reload, cd |-> pm.cd]
  /\ run = [at |-> run.at, vm |-> run.vm, i |-> run.i, event |-> run.event,
            rest |-> run.rest, moved |-> run.moved, wiped |-> run.wiped,
            sel |-> run.sel, start |-> run.start]

ManagerInv ==
  /\ vms \in [Scripts -> {"new", "running", "freed"}]
  /\ pm.loaded \in Seq(Scripts) /\ pm.bindings \in Seq(Scripts)
  /\ pm.handlers \in Seq(Handler) /\ pm.cap \in Nat /\ Len(pm.handlers) <= pm.cap
  /\ pm.context \subseteq Contexts /\ AtMostOne(pm.context)
  /\ pm.dialog \subseteq Dialog /\ AtMostOne(pm.dialog)
  /\ pm.quit \in BOOLEAN /\ pm.reload \in BOOLEAN
  /\ api \in 0 .. MaxApi /\ rounds \in 0 .. MaxRounds

(* Where a script is running, where none is, and the menu *)
ThreadInv ==
  /\ run.at \in Places /\ run.vm \in Scripts \cup {Nobody} /\ run.i \in Nat
  /\ run.moved \in BOOLEAN /\ run.wiped \in BOOLEAN /\ run.sel \in Int /\ run.start \in Int
  /\ run.at \in {"load", "loop", "poll", "menu", "requests", "down", "off", "undefined"}
       => run.vm = Nobody
  /\ run.at \in {"top", "on_load", "dialog"} => run.vm \in Scripts
  /\ run.at \in {"load", "top", "on_load"} => rounds = 0
  /\ run.at = "menu" => /\ run.sel \in 0 .. MenuItems - 1
                        /\ run.sel - run.start \in 0 .. Min({MenuItems, MenuRows}) - 1

(* What is loaded lives, and a script at its top level is not loaded yet *)
LiveInv ==
  /\ \A s \in Range(pm.loaded) : vms[s] = "running"
  /\ run.at = "top" => vms[run.vm] = "running" /\ run.vm \notin Range(pm.loaded)
  /\ CallsReachLiveScripts

(* A call that is owed is still ahead of the loop *)
Ahead(o) ==
  \/ /\ o.kind = "hook" /\ run.at = "hook"
     /\ \E j \in run.i + 1 .. Len(pm.loaded) : o.of = pm.loaded[j]
  \/ /\ o.kind = "handler"
     /\ \E j \in 1 .. Len(pm.handlers) :
          /\ pm.handlers[j].id = o.of /\ pm.handlers[j].event = run.event
          /\ run.at = "event" => j > run.i
OwedInv ==
  /\ owed \subseteq Call
  /\ run.at \in {"hook", "event"} => \A o \in owed : Ahead(o)
  /\ EventReachesEveryone

(* The one dialog that waits is the last that was asked for *)
DialogInv ==
  /\ asked \in Seq(Scripts) /\ answered \in Seq(Scripts)
  /\ pm.dialog = {} /\ run.at \notin {"off", "undefined"} => answered = asked
  /\ run.at \notin {"off", "undefined"} =>
       \A d \in pm.dialog : IF run.at = "dialog" THEN answered = asked
                            ELSE asked = Append(answered, d.vm)
  /\ run.at \in {"off", "undefined"} =>
       answered = asked \/ \E s \in Scripts : asked = Append(answered, s)
  /\ run.at \in {"menu", "dialog"} => pm.dialog # {}
  /\ run.at = "requests" \/ (run.at = "loop" /\ rounds > 0) => pm.dialog = {}

PluginsInv == Shape /\ ManagerInv /\ ThreadInv /\ LiveInv /\ OwedInv /\ DialogInv

-----------------------------------------------------------------------------
(* What the steps that call a script do to the thread *)

Idle(place) ==
  [at |-> place, vm |-> Nobody, i |-> 0, event |-> "none", rest |-> << >>,
   moved |-> FALSE, wiped |-> FALSE, sel |-> 0, start |-> 0]

(* The script s is called from the place, or was freed *)
Called(s, place, i, sel) ==
  \/ /\ vms[s] = "freed"
     /\ run' = [at |-> "undefined", vm |-> run.vm, i |-> i, event |-> run.event,
                rest |-> run.rest, moved |-> run.moved, wiped |-> run.wiped,
                sel |-> sel, start |-> run.start]
  \/ /\ vms[s] # "freed"
     /\ run' = [at |-> place, vm |-> s, i |-> i, event |-> run.event,
                rest |-> run.rest, moved |-> FALSE, wiped |-> FALSE,
                sel |-> sel, start |-> run.start]

(* Nobody is called, and the thread is elsewhere *)
Passes(place, i, sel, start) ==
  run' = [at |-> place, vm |-> Nobody, i |-> i, event |-> run.event, rest |-> run.rest,
          moved |-> run.moved, wiped |-> run.wiped, sel |-> sel, start |-> start]

(* The event e is raised *)
Raised(e, rest, hooks, handlers) ==
  /\ run' = [at |-> IF e = "pane_change" THEN "event" ELSE "hook", vm |-> Nobody, i |-> 0,
             event |-> e, rest |-> rest, moved |-> run.moved, wiped |-> run.wiped,
             sel |-> run.sel, start |-> run.start]
  /\ e = "pane_change" => hooks = {}
  /\ owed' = owed \cup {[kind |-> "hook", of |-> s] : s \in hooks}
              \cup {[kind |-> "handler", of |-> h.id] : h \in {x \in Range(handlers) : x.event = e}}

(* Raise raises the next event, or goes on to the bindings.                    *)
LEMMA RaiseRaises ==
  ASSUME Shape, NEW rest, NEW loaded, NEW handlers, Raise(rest, loaded, handlers)
  PROVE  \/ run' = Idle("binding") /\ owed' = owed
         \/ \E e, hooks : hooks \subseteq Range(loaded) /\ Raised(e, Tail(rest), hooks, handlers)
<1>1. CASE rest = << >>
  BY <1>1 DEF Raise, Goto, Idle
<1>2. CASE rest # << >>
  <2> DEFINE e == Head(rest)
             hooks == IF e = "pane_change" THEN {} ELSE Range(loaded)
  <2>1. run' = [run EXCEPT !.at = IF e = "pane_change" THEN "event" ELSE "hook",
                           !.vm = Nobody, !.i = 0, !.event = e, !.rest = Tail(rest)]
    BY <1>2 DEF Raise
  <2>2. owed' = owed \cup {[kind |-> "hook", of |-> s] : s \in hooks}
              \cup {[kind |-> "handler", of |-> h.id] : h \in {x \in Range(handlers) : x.event = e}}
    BY <1>2 DEF Raise
  <2> HIDE DEF e
  <2>3. Raised(e, Tail(rest), hooks, handlers)
    BY <2>1, <2>2 DEF Raised, Shape
  <2>4. hooks \subseteq Range(loaded)
    OBVIOUS
  <2> QED  BY <2>3, <2>4
<1> QED
  BY <1>1, <1>2

(* The steps from the hook of one plugin to the next, and so on for each loop.  *)
LEMMA HookSteps ==
  ASSUME Shape, NextHook
  PROVE  \/ /\ run.i < Len(pm.loaded)
            /\ Called(pm.loaded[run.i + 1], "hook", run.i + 1, run.sel)
            /\ owed' = owed \ {[kind |-> "hook", of |-> pm.loaded[run.i + 1]]}
         \/ /\ ~ (run.i < Len(pm.loaded))
            /\ Passes("event", 0, run.sel, run.start) /\ owed' = owed
  BY DEF NextHook, Shape, Between, Enter, Called, Passes

LEMMA BindingSteps ==
  ASSUME Shape, NextBinding
  PROVE  \/ run.i < Len(pm.bindings) /\ Called(pm.bindings[run.i + 1], "binding", run.i + 1, run.sel)
         \/ run' = Idle("on_key")
  BY DEF NextBinding, Shape, Between, Enter, Called, Goto, Idle

LEMMA OnKeySteps ==
  ASSUME Shape, NextOnKey
  PROVE  \/ run.i < Len(pm.loaded) /\ Called(pm.loaded[run.i + 1], "on_key", run.i + 1, run.sel)
         \/ run' = Idle("poll")
  BY DEF NextOnKey, Shape, Between, Enter, Called, Goto, Idle

LEMMA KeySteps ==
  ASSUME Shape, KeyReturns
  PROVE  \/ run' = Idle("poll")
         \/ run' = [at |-> run.at, vm |-> Nobody, i |-> run.i, event |-> run.event,
                    rest |-> run.rest, moved |-> FALSE, wiped |-> FALSE,
                    sel |-> run.sel, start |-> run.start]
  BY DEF KeyReturns, Shape, Goto, Idle

LEMMA PollSteps ==
  ASSUME Shape, Poll
  PROVE  \/ run' = Idle("down") /\ answered' = answered
         \/ run' = Idle("requests") /\ answered' = answered /\ pm.dialog = {}
         \/ pm.dialog # {} /\ Passes("menu", run.i, 0, 0) /\ answered' = answered
         \/ \E d \in pm.dialog : /\ Called(d.vm, "dialog", run.i, run.sel)
                                 /\ answered' = Append(answered, d.vm)
  BY ZenonT(40) DEF Poll, Shape, Between, Answer, Enter, Called, Goto, Idle, Passes

LEMMA MenuEndSteps ==
  ASSUME Shape, MenuEnds
  PROVE  \E d \in pm.dialog, sel \in {run.sel, -1} :
           /\ Called(d.vm, "dialog", run.i, sel) /\ answered' = Append(answered, d.vm)
<1>1. PICK d \in pm.dialog, sel \in {run.sel, -1} : Answer(d, [run EXCEPT !.sel = sel])
  BY DEF MenuEnds
<1>2. run = [at |-> run.at, vm |-> run.vm, i |-> run.i, event |-> run.event,
             rest |-> run.rest, moved |-> run.moved, wiped |-> run.wiped,
             sel |-> run.sel, start |-> run.start]
  BY DEF Shape
<1>3. [[run EXCEPT !.sel = sel] EXCEPT !.at = "dialog"]
        = [at |-> "dialog", vm |-> run.vm, i |-> run.i, event |-> run.event,
           rest |-> run.rest, moved |-> run.moved, wiped |-> run.wiped,
           sel |-> sel, start |-> run.start]
  <2> DEFINE r == [run EXCEPT !.sel = sel]
  <2>1. r = [at |-> run.at, vm |-> run.vm, i |-> run.i, event |-> run.event,
             rest |-> run.rest, moved |-> run.moved, wiped |-> run.wiped,
             sel |-> sel, start |-> run.start]
    BY <1>2
  <2> HIDE DEF r
  <2>2. [r EXCEPT !.at = "dialog"]
          = [at |-> "dialog", vm |-> r.vm, i |-> r.i, event |-> r.event,
             rest |-> r.rest, moved |-> r.moved, wiped |-> r.wiped,
             sel |-> r.sel, start |-> r.start]
    BY <2>1
  <2>3. /\ r.vm = run.vm /\ r.i = run.i /\ r.event = run.event /\ r.rest = run.rest
        /\ r.moved = run.moved /\ r.wiped = run.wiped /\ r.sel = sel /\ r.start = run.start
    BY <2>1
  <2> QED  BY <2>2, <2>3 DEF r
<1>4. Called(d.vm, "dialog", run.i, sel) /\ answered' = Append(answered, d.vm)
  BY <1>1, <1>3 DEF Answer, Enter, Called
<1> QED
  BY <1>4

LEMMA MenuMoveSteps ==
  ASSUME Shape, MenuMoves
  PROVE  \E step \in {-MenuRows, -1, 1, MenuRows} :
           LET rows == Min({MenuItems, MenuRows})
               sel  == Max({0, Min({run.sel + step, MenuItems - 1})})
           IN  Passes("menu", run.i, sel, Max({Min({run.start, sel}), sel - rows + 1}))
  BY DEF MenuMoves, Shape, Between, Passes

(* The next handler of the event is called, or there is none any more.         *)
LEMMA HandlerSteps ==
  ASSUME Shape, ManagerInv, ThreadInv, NextHandler
  PROVE  \/ \E m \in run.i + 1 .. Len(pm.handlers) :
              /\ pm.handlers[m].event = run.event
              /\ \A j \in run.i + 1 .. Len(pm.handlers) :
                   pm.handlers[j].event = run.event => m <= j
              /\ Called(pm.handlers[m].vm, "event", m, run.sel)
              /\ owed' = owed \ {[kind |-> "handler", of |-> pm.handlers[m].id]}
         \/ /\ \A j \in run.i + 1 .. Len(pm.handlers) : pm.handlers[j].event # run.event
            /\ Raise(run.rest, pm.loaded, pm.handlers)
<1> DEFINE later == {j \in run.i + 1 .. Len(pm.handlers) : pm.handlers[j].event = run.event}
<1>1. CASE later # {}
  <2>1. later \subseteq Nat
    BY DEF ManagerInv, ThreadInv
  <2>2. Min(later) \in later /\ \A j \in later : Min(later) <= j
    <3> HIDE DEF later
    <3> QED  BY <1>1, <2>1, MinOfNats
  <2>3. /\ Enter(pm.handlers[Min(later)].vm, [run EXCEPT !.i = Min(later)])
        /\ owed' = owed \ {[kind |-> "handler", of |-> pm.handlers[Min(later)].id]}
    BY <1>1 DEF NextHandler
  <2>4. run.at = "event"
    BY DEF NextHandler, Between
  <2>5. ASSUME NEW m, m = Min(later) PROVE Called(pm.handlers[m].vm, "event", m, run.sel)
    <3> HIDE DEF later
    <3> QED  BY <2>3, <2>4, <2>5 DEF Enter, Called, Shape
  <2> QED  BY <2>2, <2>3, <2>5
<1>2. CASE later = {}
  BY <1>2 DEF NextHandler
<1> QED
  BY <1>1, <1>2

(* A round stores the new context and raises the first event.                  *)
LEMMA RoundSteps ==
  ASSUME Shape, Round
  PROVE  /\ \E new \in Contexts : pm' = [pm EXCEPT !.context = {new}]
         /\ \/ run' = Idle("binding") /\ owed' = owed
            \/ \E e, rest, hooks : /\ hooks \subseteq Range(pm.loaded)
                                   /\ Raised(e, rest, hooks, pm.handlers)
<1>1. PICK new \in Contexts :
        /\ pm' = [pm EXCEPT !.context = {new}]
        /\ \E rest : Raise(rest, pm.loaded, pm.handlers)
  BY DEF Round
<1>2. PICK rest : Raise(rest, pm.loaded, pm.handlers)
  BY <1>1
<1> QED
  BY <1>1, <1>2, RaiseRaises

(* fm.on appends, and the list has room.                                       *)
LEMMA OnSteps ==
  ASSUME Shape, ManagerInv, ThreadInv, FmOn
  PROVE  /\ run.vm \in Scripts
         /\ \E e \in Range(Events), cap \in Nat :
              /\ Len(pm.handlers) + 1 <= cap
              /\ pm' = [pm EXCEPT !.handlers = Append(@, [event |-> e, vm |-> run.vm, id |-> api]),
                                  !.cap = cap]
         /\ \E moved \in BOOLEAN : run' = [run EXCEPT !.moved = moved]
<1> USE PluginsAssumption
<1> DEFINE full == Len(pm.handlers) = pm.cap
           cap == CASE ~full -> pm.cap [] pm.cap = 0 -> HandlerCap [] OTHER -> 2 * pm.cap
<1>1. Len(pm.handlers) \in Nat /\ pm.cap \in Nat /\ Len(pm.handlers) <= pm.cap
  BY DEF ManagerInv
<1>2. cap \in Nat /\ Len(pm.handlers) + 1 <= cap
  BY <1>1, SMTT(40)
<1>3. \E e \in Range(Events) :
        pm' = [pm EXCEPT !.handlers = Append(@, [event |-> e, vm |-> run.vm, id |-> api]), !.cap = cap]
  BY DEF FmOn, Shape
<1>4. run' = [run EXCEPT !.moved = run.moved \/ (full /\ pm.cap > 0 /\ ~run.wiped)]
  BY DEF FmOn
<1>5. (run.moved \/ (full /\ pm.cap > 0 /\ ~run.wiped)) \in BOOLEAN
  BY DEF ThreadInv
<1> HIDE DEF cap, full
<1> QED
  BY <1>2, <1>3, <1>4, <1>5 DEF FmOn, Native, ThreadInv

(* A dialog is refused, or it is the only one.                                 *)
LEMMA AskSteps ==
  ASSUME Shape, ThreadInv, FmAsk
  PROVE  /\ run.vm \in Scripts
         /\ \/ pm.dialog # {} /\ pm' = pm /\ asked' = asked
            \/ /\ pm.dialog = {} /\ asked' = Append(asked, run.vm)
               /\ \E d \in Dialog : d.vm = run.vm /\ pm' = [pm EXCEPT !.dialog = {d}]
<1>1. run.vm \in Scripts
  BY DEF FmAsk, Native, ThreadInv
<1>2. CASE pm.dialog # {}
  BY <1>1, <1>2 DEF FmAsk
<1>3. CASE pm.dialog = {}
  <2>1. PICK kind \in {"prompt", "confirm", "menu"} :
          pm' = [pm EXCEPT !.dialog = {[vm |-> run.vm, kind |-> kind]}]
    BY <1>3 DEF FmAsk
  <2>2. [vm |-> run.vm, kind |-> kind] \in Dialog /\ [vm |-> run.vm, kind |-> kind].vm = run.vm
    BY <1>1 DEF Dialog
  <2> QED  BY <1>1, <1>3, <2>1, <2>2 DEF FmAsk
<1> QED
  BY <1>2, <1>3

LEMMA RequestSteps ==
  ASSUME FmRequest
  PROVE  pm' = [pm EXCEPT !.quit = TRUE] \/ pm' = [pm EXCEPT !.reload = TRUE]
  BY DEF FmRequest

-----------------------------------------------------------------------------
(* Where the thread may be *)

Resting == {"load", "loop", "poll", "menu", "requests", "down", "off", "undefined"}
Loading == {"load", "top", "on_load"}

(* A call leaves the thread at a place where a script runs.                     *)
LEMMA CalledIsTyped ==
  ASSUME ThreadInv, run.vm = Nobody, NEW s \in Scripts, NEW i \in Nat, NEW sel \in Int,
         NEW place \in Places \ (Resting \cup Loading), Called(s, place, i, sel)
  PROVE  ThreadInv'
<1> USE PluginsAssumption DEF ThreadInv, Places, Resting, Loading
<1>1. CASE vms[s] = "freed"
  BY <1>1 DEF Called
<1>2. CASE vms[s] # "freed"
  <2>1. /\ run'.at = place /\ run'.vm = s /\ run'.i = i /\ run'.moved = FALSE
        /\ run'.wiped = FALSE /\ run'.sel = sel /\ run'.start = run.start
    BY <1>2 DEF Called
  <2>2. place \in {"hook", "event", "binding", "on_key", "dialog"}
    OBVIOUS
  <2> QED  BY <2>1, <2>2
<1> QED
  BY <1>1, <1>2

LEMMA PassesIsTyped ==
  ASSUME ThreadInv, NEW i \in Nat, NEW sel \in Int, NEW start \in Int,
         NEW place \in {"event", "menu"}, Passes(place, i, sel, start),
         place = "menu" => /\ sel \in 0 .. MenuItems - 1
                           /\ sel - start \in 0 .. Min({MenuItems, MenuRows}) - 1
  PROVE  ThreadInv'
  BY DEF ThreadInv, Places, Passes

LEMMA IdleIsTyped ==
  ASSUME NEW place \in Places \ {"load", "top", "on_load", "dialog", "menu"}, run' = Idle(place)
  PROVE  ThreadInv'
  BY DEF ThreadInv, Places, Idle

LEMMA RaisedIsTyped ==
  ASSUME ThreadInv, NEW e, NEW rest, NEW hooks, NEW handlers, Raised(e, rest, hooks, handlers)
  PROVE  ThreadInv'
  BY DEF ThreadInv, Places, Raised

(* A row of the menu stays within the items, and the window around it.         *)
LEMMA MenuRowIsShown ==
  ASSUME NEW items \in Nat \ {0}, NEW height \in Nat \ {0}, NEW row \in Int, NEW start \in Int
  PROVE  LET rows == Min({items, height})
             sel  == Max({0, Min({row, items - 1})})
             new  == Max({Min({start, sel}), sel - rows + 1})
         IN  rows \in Nat \ {0} /\ sel \in 0 .. items - 1 /\ new \in Int /\ sel - new \in 0 .. rows - 1
<1> DEFINE rows == Min({items, height})
           low  == Min({row, items - 1})
           sel  == Max({0, low})
           top  == Min({start, sel})
           new  == Max({top, sel - rows + 1})
<1>1. rows \in Nat \ {0}
  BY MinMaxOfTwo
<1>2. low \in Int /\ low <= items - 1
  BY MinMaxOfTwo
<1> HIDE DEF rows, low
<1>3. sel \in 0 .. items - 1
  <2>1. ASSUME NEW a \in Int, a = 0 PROVE Max({a, low}) = IF a <= low THEN low ELSE a
    BY <1>2, MinMaxOfTwo
  <2>2. sel = IF 0 <= low THEN low ELSE 0  BY <2>1
  <2> HIDE DEF sel
  <2> QED  BY <1>2, <2>2
<1> HIDE DEF sel
<1>4. top \in Int /\ top <= sel
  BY <1>3, MinMaxOfTwo
<1> HIDE DEF top
<1>5. new \in Int /\ sel - new \in 0 .. rows - 1
  BY <1>1, <1>3, <1>4, MinMaxOfTwo
<1> QED
  BY <1>1, <1>3, <1>5 DEF rows, low, sel, top

-----------------------------------------------------------------------------
(* Which machines are called *)

(* Nothing changes for the machines while the thread is between calls.          *)
LEMMA ElsewhereIsLive ==
  ASSUME LiveInv, vms' = vms, pm'.loaded = pm.loaded, run'.at \notin {"top", "undefined"}
  PROVE  LiveInv'
  BY DEF LiveInv, CallsReachLiveScripts

Registered == Range(pm.bindings) \cup {h.vm : h \in Range(pm.handlers)} \cup {d.vm : d \in pm.dialog}

(* What is loaded or registered may be called.                                  *)
LEMMA CalledIsLive ==
  ASSUME LiveInv, UNCHANGED << vms, pm >>,
         NEW s, s \in Range(pm.loaded) \/ s \in Registered,
         NEW place, place \notin {"top", "undefined"}, NEW i, NEW sel, Called(s, place, i, sel)
  PROVE  LiveInv'
<1>1. CASE vms[s] = "freed"
  <2>1. s \notin Range(pm.loaded) /\ s \in Registered
    BY <1>1 DEF LiveInv
  <2>2. \E x \in Registered : vms[x] = "freed" /\ x \notin Range(pm.loaded)
    BY <1>1, <2>1
  <2>3. CallsReachLiveScripts'
    BY <2>2 DEF CallsReachLiveScripts, Registered
  <2>4. run'.at = "undefined"
    BY <1>1 DEF Called
  <2> QED  BY <2>3, <2>4 DEF LiveInv
<1>2. CASE vms[s] # "freed"
  <2>1. run'.at = place
    BY <1>2 DEF Called
  <2> QED  BY <2>1, ElsewhereIsLive
<1> QED
  BY <1>1, <1>2

-----------------------------------------------------------------------------
(* The calls an event owes *)

(* Nothing that is owed is touched by what leaves lists and thread alone.       *)
LEMMA OwedStays ==
  ASSUME OwedInv, run' = run, owed' = owed, pm'.loaded = pm.loaded, pm'.handlers = pm.handlers
  PROVE  OwedInv'
  BY DEF OwedInv, Ahead, EventReachesEveryone

(* All that was registered when the event was raised is ahead.                 *)
LEMMA RaisedIsOwed ==
  ASSUME ManagerInv, owed = {}, pm'.loaded = pm.loaded, pm'.handlers = pm.handlers,
         NEW e, NEW rest, NEW hooks, hooks \subseteq Range(pm.loaded),
         Raised(e, rest, hooks, pm.handlers)
  PROVE  OwedInv'
<1>1. /\ run'.at = IF e = "pane_change" THEN "event" ELSE "hook"
      /\ run'.i = 0 /\ run'.event = e
  BY DEF Raised
<1>2. pm.loaded \in Seq(Scripts) /\ pm.handlers \in Seq(Handler)
  BY DEF ManagerInv
<1>3. ASSUME NEW s \in hooks
      PROVE  [kind |-> "hook", of |-> s] \in Call /\ Ahead([kind |-> "hook", of |-> s])'
  <2>1. s \in Scripts /\ \E j \in 1 .. Len(pm.loaded) : s = pm.loaded[j]
    BY <1>2, SeqMembers
  <2>2. run'.at = "hook"
    BY <1>1 DEF Raised
  <2> QED  BY <1>1, <2>1, <2>2 DEF Call, Ahead
<1>4. ASSUME NEW h \in Range(pm.handlers), h.event = e
      PROVE  [kind |-> "handler", of |-> h.id] \in Call /\ Ahead([kind |-> "handler", of |-> h.id])'
  <2>1. h \in Handler /\ \E j \in 1 .. Len(pm.handlers) : h = pm.handlers[j]
    BY <1>2, SeqMembers
  <2>2. h.id \in Nat
    BY <2>1 DEF Handler
  <2> DEFINE o == [kind |-> "handler", of |-> h.id]
  <2>3. o \in Call /\ o.kind = "handler" /\ o.of = h.id
    BY <2>2 DEF Call
  <2>4. PICK j \in 1 .. Len(pm.handlers) : h = pm.handlers[j]
    BY <2>1
  <2>5. j > 0 /\ pm'.handlers[j].id = h.id /\ pm'.handlers[j].event = e
    BY <1>2, <1>4, <2>4
  <2> HIDE DEF o
  <2>6. Ahead(o)'
    BY <1>1, <2>3, <2>4, <2>5 DEF Ahead
  <2> QED  BY <2>3, <2>6 DEF o
<1>5. owed' = {[kind |-> "hook", of |-> s] : s \in hooks}
              \cup {[kind |-> "handler", of |-> h.id] : h \in {x \in Range(pm.handlers) : x.event = e}}
  BY DEF Raised
<1>6. \A o \in owed' : o \in Call /\ Ahead(o)'
  BY <1>3, <1>4, <1>5
<1> QED
  BY <1>1, <1>6 DEF OwedInv, EventReachesEveryone

(* A raise, when nothing is owed                                               *)
LEMMA RaiseOwes ==
  ASSUME Shape, ManagerInv, owed = {}, pm' = pm,
         NEW rest, Raise(rest, pm.loaded, pm.handlers)
  PROVE  OwedInv'
<1>1. CASE run' = Idle("binding") /\ owed' = owed
  BY <1>1 DEF Idle, OwedInv, EventReachesEveryone
<1>2. CASE \E e, hooks : hooks \subseteq Range(pm.loaded) /\ Raised(e, Tail(rest), hooks, pm.handlers)
  BY <1>2, RaisedIsOwed
<1> QED
  BY <1>1, <1>2, RaiseRaises

-----------------------------------------------------------------------------
(* The dialog that waits *)

(* Nothing happens to it while no dialog is shown.                             *)
LEMMA DialogWaits ==
  ASSUME DialogInv, ManagerInv, pm'.dialog = pm.dialog, asked' = asked, answered' = answered,
         run.at \notin {"off", "undefined", "dialog"},
         run'.at \notin {"off", "menu", "dialog", "requests", "loop"}
  PROVE  DialogInv'
<1>1. CASE pm.dialog = {}
  BY <1>1 DEF DialogInv
<1>2. CASE pm.dialog # {}
  <2>1. \A d \in pm.dialog : asked = Append(answered, d.vm) /\ d.vm \in Scripts
    BY DEF DialogInv, ManagerInv, Dialog
  <2> QED  BY <1>2, <2>1 DEF DialogInv
<1> QED
  BY <1>1, <1>2

(* The script that asked is given the answer.                                  *)
LEMMA DialogIsGiven ==
  ASSUME DialogInv, ManagerInv, UNCHANGED << pm, asked, rounds >>,
         run.at \notin {"off", "undefined", "dialog"},
         NEW d \in pm.dialog, NEW i, NEW sel, Called(d.vm, "dialog", i, sel),
         answered' = Append(answered, d.vm)
  PROVE  DialogInv'
<1>1. asked = Append(answered, d.vm) /\ d.vm \in Scripts /\ answered' \in Seq(Scripts)
  BY DEF DialogInv, ManagerInv, Dialog
<1>2. run'.at \in {"dialog", "undefined"}
  BY DEF Called
<1> QED
  BY <1>1, <1>2 DEF DialogInv

-----------------------------------------------------------------------------
(* The invariant *)

(* The two records keep their fields.                                          *)
LEMMA ShapeNext == PluginsInv /\ [PluginsNext]_pluginVars => Shape'
<1> SUFFICES ASSUME PluginsInv, [PluginsNext]_pluginVars PROVE Shape'
  OBVIOUS
<1> USE PluginsAssumption DEF PluginsInv, Shape
<1>1. CASE LoadPlugin
  BY <1>1 DEF LoadPlugin
<1>2. CASE LoadFails
  BY <1>2 DEF LoadFails, Goto
<1>3. CASE LoadSucceeds
  BY <1>3 DEF LoadSucceeds
<1>4. CASE OnLoadReturns
  BY <1>4 DEF OnLoadReturns, Goto
<1>5. CASE LoopStarts
  BY <1>5 DEF LoopStarts, Goto
<1>6. CASE FmOn
  BY <1>6, OnSteps
<1>7. CASE FmBind
  BY <1>7 DEF FmBind, Native
<1>8. CASE FmAsk
  BY <1>8, AskSteps DEF FmAsk
<1>9. CASE FmSelectPaths
  BY <1>9 DEF FmSelectPaths, Native
<1>10. CASE FmMark
  BY <1>10 DEF FmMark, Native
<1>11. CASE FmGotoMark
  BY <1>11 DEF FmGotoMark, Native
<1>12. CASE FmRequest
  BY <1>12, RequestSteps DEF FmRequest, Native
<1>13. CASE Round
  BY <1>13, RoundSteps DEF Round, Raised, Idle
<1>14. CASE NextHook
  BY <1>14, HookSteps DEF NextHook, Called, Passes
<1>15. CASE NextHandler
  <2>1. CASE \E m \in run.i + 1 .. Len(pm.handlers) :
                /\ pm.handlers[m].event = run.event
                /\ \A j \in run.i + 1 .. Len(pm.handlers) :
                     pm.handlers[j].event = run.event => m <= j
                /\ Called(pm.handlers[m].vm, "event", m, run.sel)
                /\ owed' = owed \ {[kind |-> "handler", of |-> pm.handlers[m].id]}
    BY <1>15, <2>1 DEF NextHandler, Called
  <2>2. CASE /\ \A j \in run.i + 1 .. Len(pm.handlers) : pm.handlers[j].event # run.event
             /\ Raise(run.rest, pm.loaded, pm.handlers)
    BY <1>15, <2>2, RaiseRaises DEF NextHandler, Raised, Idle
  <2> QED  BY <1>15, <2>1, <2>2, HandlerSteps
<1>16. CASE CallbackReturns
  BY <1>16 DEF CallbackReturns, Continue
<1>17. CASE NextBinding
  BY <1>17, BindingSteps DEF NextBinding, Called, Idle
<1>18. CASE NextOnKey
  BY <1>18, OnKeySteps DEF NextOnKey, Called, Idle
<1>19. CASE KeyReturns
  BY <1>19, KeySteps DEF KeyReturns, Idle
<1>20. CASE Poll
  BY <1>20, PollSteps DEF Poll, Called, Idle, Passes
<1>21. CASE MenuMoves
  BY <1>21, MenuMoveSteps DEF MenuMoves, Passes
<1>22. CASE MenuEnds
  BY <1>22, MenuEndSteps DEF MenuEnds, Called
<1>23. CASE DialogReturns
  BY <1>23 DEF DialogReturns, Goto
<1>24. CASE TakeRequests
  BY <1>24 DEF TakeRequests, Goto
<1>25. CASE PluginsShutdown
  BY <1>25 DEF PluginsShutdown, Goto
<1>26. CASE PluginsOver
  BY <1>26 DEF PluginsOver, pluginVars
<1>27. CASE UNCHANGED pluginVars
  BY <1>27 DEF pluginVars
<1> QED
  BY <1>1, <1>2, <1>3, <1>4, <1>5, <1>6, <1>7, <1>8, <1>9, <1>10, <1>11, <1>12, <1>13, <1>14,
     <1>15, <1>16, <1>17, <1>18, <1>19, <1>20, <1>21, <1>22, <1>23, <1>24, <1>25, <1>26, <1>27
     DEF PluginsNext

(* The thread is at one of its places, and a script runs where one may.        *)
LEMMA ThreadNext == PluginsInv /\ [PluginsNext]_pluginVars => ThreadInv'
<1> SUFFICES ASSUME PluginsInv, [PluginsNext]_pluginVars PROVE ThreadInv'
  OBVIOUS
<1> USE PluginsAssumption DEF PluginsInv, Shape, ManagerInv, ThreadInv, Places, Dialog, Handler, Between
<1>1. CASE LoadPlugin
  BY <1>1 DEF LoadPlugin
<1>2. CASE LoadFails
  BY <1>2 DEF LoadFails, Goto
<1>3. CASE LoadSucceeds
  BY <1>3 DEF LoadSucceeds
<1>4. CASE OnLoadReturns
  BY <1>4 DEF OnLoadReturns, Goto
<1>5. CASE LoopStarts
  BY <1>5 DEF LoopStarts, Goto
<1>6. CASE FmOn
  BY <1>6, OnSteps DEF FmOn, Native
<1>7. CASE FmBind
  BY <1>7 DEF FmBind, Native
<1>8. CASE FmAsk
  BY <1>8, AskSteps DEF FmAsk, Native
<1>9. CASE FmSelectPaths
  BY <1>9 DEF FmSelectPaths, Native
<1>10. CASE FmMark
  BY <1>10 DEF FmMark, Native
<1>11. CASE FmGotoMark
  BY <1>11 DEF FmGotoMark, Native
<1>12. CASE FmRequest
  BY <1>12, RequestSteps DEF FmRequest, Native
<1>13. CASE Round
  <2> HIDE DEF ThreadInv, ManagerInv
  <2> QED
    BY <1>13, RoundSteps, RaisedIsTyped, IdleIsTyped DEF Resting, Loading
<1>14. CASE NextHook
  <2>1. ASSUME run.i < Len(pm.loaded) PROVE pm.loaded[run.i + 1] \in Scripts /\ run.i + 1 \in Nat
    <3>1. pm.loaded \in Seq(Scripts) /\ run.i \in Nat
      OBVIOUS
    <3> HIDE DEF PluginsInv
    <3> QED  BY <2>1, <3>1
  <2>2. run.vm = Nobody /\ run.sel \in Int /\ run.start \in Int
    BY <1>14 DEF NextHook
  <2> HIDE DEF ThreadInv, ManagerInv
  <2> QED
    BY <1>14, <2>1, <2>2, HookSteps, CalledIsTyped, PassesIsTyped DEF Resting, Loading
<1>15. CASE NextHandler
  <2>1. CASE \E m \in run.i + 1 .. Len(pm.handlers) :
                /\ pm.handlers[m].event = run.event
                /\ \A j \in run.i + 1 .. Len(pm.handlers) :
                     pm.handlers[j].event = run.event => m <= j
                /\ Called(pm.handlers[m].vm, "event", m, run.sel)
                /\ owed' = owed \ {[kind |-> "handler", of |-> pm.handlers[m].id]}
    <3>1. PICK m \in run.i + 1 .. Len(pm.handlers) : Called(pm.handlers[m].vm, "event", m, run.sel)
      BY <2>1
    <3>2. pm.handlers[m] \in Handler /\ m \in Nat
      <4> HIDE DEF Handler
      <4> QED  BY SMTT(30)
    <3>3. pm.handlers[m].vm \in Scripts /\ run.vm = Nobody /\ run.sel \in Int
      BY <1>15, <3>2 DEF NextHandler
    <3> HIDE DEF ThreadInv, ManagerInv
    <3> QED  BY <3>1, <3>2, <3>3, CalledIsTyped DEF Resting, Loading
  <2>2. CASE /\ \A j \in run.i + 1 .. Len(pm.handlers) : pm.handlers[j].event # run.event
             /\ Raise(run.rest, pm.loaded, pm.handlers)
    <3> HIDE DEF ThreadInv, ManagerInv
    <3> QED  BY <2>2, RaiseRaises, RaisedIsTyped, IdleIsTyped
  <2> QED  BY <1>15, <2>1, <2>2, HandlerSteps
<1>16. CASE CallbackReturns
  <2>1. /\ run.at \in {"hook", "event"} /\ run'.vm = Nobody
        /\ run'.at \in {run.at, "undefined"} /\ run'.i = run.i
        /\ run'.moved \in BOOLEAN /\ run'.wiped \in BOOLEAN
        /\ run'.sel = run.sel /\ run'.start = run.start
        /\ rounds' = rounds
    <3>1. PICK failed \in BOOLEAN : Continue(failed)
      BY <1>16 DEF CallbackReturns
    <3>2. CASE run' = [run EXCEPT !.vm = Nobody, !.at = "undefined"]
      BY <1>16, <3>2 DEF CallbackReturns
    <3>3. CASE run' = [run EXCEPT !.vm = Nobody, !.moved = FALSE, !.wiped = FALSE]
      BY <1>16, <3>3 DEF CallbackReturns
    <3>4. \/ run' = [run EXCEPT !.vm = Nobody, !.at = "undefined"]
          \/ run' = [run EXCEPT !.vm = Nobody, !.moved = FALSE, !.wiped = FALSE]
      <4> HIDE DEF PluginsInv
      <4> QED  BY <3>1 DEF Continue
    <3> QED  BY <3>2, <3>3, <3>4, Zenon
  <2> HIDE DEF ManagerInv
  <2> QED  BY <2>1
<1>17. CASE NextBinding
  <2>1. ASSUME run.i < Len(pm.bindings) PROVE pm.bindings[run.i + 1] \in Scripts /\ run.i + 1 \in Nat
    <3>1. pm.bindings \in Seq(Scripts) /\ run.i \in Nat
      OBVIOUS
    <3> HIDE DEF PluginsInv
    <3> QED  BY <2>1, <3>1
  <2>2. run.vm = Nobody /\ run.sel \in Int /\ run.start \in Int
    BY <1>17 DEF NextBinding
  <2> HIDE DEF ThreadInv, ManagerInv
  <2> QED
    BY <1>17, <2>1, <2>2, BindingSteps, CalledIsTyped, IdleIsTyped DEF Resting, Loading
<1>18. CASE NextOnKey
  <2>1. ASSUME run.i < Len(pm.loaded) PROVE pm.loaded[run.i + 1] \in Scripts /\ run.i + 1 \in Nat
    <3>1. pm.loaded \in Seq(Scripts) /\ run.i \in Nat
      OBVIOUS
    <3> HIDE DEF PluginsInv
    <3> QED  BY <2>1, <3>1
  <2>2. run.vm = Nobody /\ run.sel \in Int /\ run.start \in Int
    BY <1>18 DEF NextOnKey
  <2> HIDE DEF ThreadInv, ManagerInv
  <2> QED
    BY <1>18, <2>1, <2>2, OnKeySteps, CalledIsTyped, IdleIsTyped DEF Resting, Loading
<1>19. CASE KeyReturns
  <2>1. CASE run' = Idle("poll")
    <3> HIDE DEF ThreadInv
    <3> QED  BY <2>1, IdleIsTyped
  <2>2. CASE run' = [at |-> run.at, vm |-> Nobody, i |-> run.i, event |-> run.event,
                     rest |-> run.rest, moved |-> FALSE, wiped |-> FALSE,
                     sel |-> run.sel, start |-> run.start]
    <3>1. run.at \in {"binding", "on_key"}  BY <1>19 DEF KeyReturns
    <3> QED  BY <2>2, <3>1
  <2> QED  BY <1>19, <2>1, <2>2, KeySteps
<1>20. CASE Poll
  <2>1. Min({MenuItems, MenuRows}) \in Nat \ {0} /\ MenuItems \in Nat \ {0}
    <3> HIDE DEF PluginsInv
    <3> QED  BY MinMaxOfTwo
  <2>2. 0 \in 0 .. MenuItems - 1 /\ 0 - 0 \in 0 .. Min({MenuItems, MenuRows}) - 1
    BY <2>1, SMTT(40)
  <2>3. /\ \A d \in pm.dialog : d.vm \in Scripts
        /\ run.vm = Nobody /\ run.i \in Nat /\ run.sel \in Int
    BY <1>20 DEF Poll
  <2> HIDE DEF ThreadInv, ManagerInv
  <2>4. CASE run' = Idle("down") \/ run' = Idle("requests")
    BY <2>4, IdleIsTyped
  <2>5. CASE Passes("menu", run.i, 0, 0)
    BY <2>2, <2>3, <2>5, PassesIsTyped, 0 \in Int, "menu" \in {"event", "menu"}
  <2>6. CASE \E d \in pm.dialog : Called(d.vm, "dialog", run.i, run.sel)
    BY <2>3, <2>6, CalledIsTyped DEF Resting, Loading
  <2> QED  BY <1>20, <2>4, <2>5, <2>6, PollSteps
<1>21. CASE MenuMoves
  <2> DEFINE rows == Min({MenuItems, MenuRows})
             sel(step) == Max({0, Min({run.sel + step, MenuItems - 1})})
             start(step) == Max({Min({run.start, sel(step)}), sel(step) - rows + 1})
  <2>1. PICK step \in {-MenuRows, -1, 1, MenuRows} : Passes("menu", run.i, sel(step), start(step))
    BY <1>21, MenuMoveSteps
  <2>2. /\ MenuItems \in Nat \ {0} /\ MenuRows \in Nat \ {0}
        /\ run.sel + step \in Int /\ run.start \in Int /\ run.i \in Nat
    OBVIOUS
  <2> HIDE DEF ThreadInv, ManagerInv, PluginsInv
  <2>3. /\ sel(step) \in 0 .. MenuItems - 1 /\ start(step) \in Int
        /\ sel(step) - start(step) \in 0 .. rows - 1
    BY <2>2, MenuRowIsShown
  <2> HIDE DEF sel, start
  <2>4. ThreadInv  BY DEF PluginsInv
  <2>5. sel(step) \in Int  BY <2>2, <2>3
  <2> QED  BY <2>1, <2>2, <2>3, <2>4, <2>5, PassesIsTyped
<1>22. CASE MenuEnds
  <2>1. /\ \A d \in pm.dialog : d.vm \in Scripts
        /\ run.vm = Nobody /\ run.i \in Nat /\ run.sel \in Int /\ -1 \in Int
    BY <1>22 DEF MenuEnds
  <2> HIDE DEF ThreadInv, ManagerInv
  <2> QED
    BY <1>22, <2>1, MenuEndSteps, CalledIsTyped DEF Resting, Loading
<1>23. CASE DialogReturns
  BY <1>23 DEF DialogReturns, Goto
<1>24. CASE TakeRequests
  BY <1>24 DEF TakeRequests, Goto
<1>25. CASE PluginsShutdown
  BY <1>25 DEF PluginsShutdown, Goto
<1>26. CASE PluginsOver
  BY <1>26 DEF PluginsOver, pluginVars
<1>27. CASE UNCHANGED pluginVars
  BY <1>27 DEF pluginVars
<1> QED
  BY <1>1, <1>2, <1>3, <1>4, <1>5, <1>6, <1>7, <1>8, <1>9, <1>10, <1>11, <1>12, <1>13, <1>14,
     <1>15, <1>16, <1>17, <1>18, <1>19, <1>20, <1>21, <1>22, <1>23, <1>24, <1>25, <1>26, <1>27
     DEF PluginsNext

(* What the manager keeps stays within its types.                              *)
LEMMA ManagerNext == PluginsInv /\ [PluginsNext]_pluginVars => ManagerInv'
<1> SUFFICES ASSUME PluginsInv, [PluginsNext]_pluginVars PROVE ManagerInv'
  OBVIOUS
<1> USE PluginsAssumption DEF PluginsInv, Shape, ManagerInv, ThreadInv, Dialog, Handler, Between, AtMostOne
<1>1. CASE LoadPlugin
  BY <1>1 DEF LoadPlugin
<1>2. CASE LoadFails
  BY <1>2 DEF LoadFails, Goto
<1>3. CASE LoadSucceeds
  BY <1>3 DEF LoadSucceeds
<1>4. CASE OnLoadReturns
  BY <1>4 DEF OnLoadReturns, Goto
<1>5. CASE LoopStarts
  BY <1>5 DEF LoopStarts, Goto
<1>6. CASE FmOn
  <2>1. PICK e \in Range(Events), cap \in Nat :
          /\ Len(pm.handlers) + 1 <= cap
          /\ pm' = [pm EXCEPT !.handlers = Append(@, [event |-> e, vm |-> run.vm, id |-> api]),
                              !.cap = cap]
    BY <1>6, OnSteps
  <2>2. [event |-> e, vm |-> run.vm, id |-> api] \in Handler
    <3>1. api \in Nat  OBVIOUS
    <3>2. run.vm \in Scripts
      <4> HIDE DEF ManagerInv, ThreadInv, Shape
      <4> QED  BY <1>6, OnSteps
    <3> QED  BY <3>1, <3>2
  <2>3. /\ pm'.handlers = Append(pm.handlers, [event |-> e, vm |-> run.vm, id |-> api])
        /\ pm'.cap = cap /\ pm'.loaded = pm.loaded /\ pm'.bindings = pm.bindings
        /\ pm'.context = pm.context /\ pm'.dialog = pm.dialog
        /\ pm'.quit = pm.quit /\ pm'.reload = pm.reload
    BY <2>1
  <2>4. pm'.handlers \in Seq(Handler) /\ Len(pm'.handlers) = Len(pm.handlers) + 1
    <3> HIDE DEF Handler
    <3> QED  BY <2>2, <2>3
  <2>5. UNCHANGED << vms, rounds >> /\ api' \in 0 .. MaxApi
    BY <1>6, SMTT(40) DEF FmOn, Native
  <2> QED  BY <2>1, <2>3, <2>4, <2>5
<1>7. CASE FmBind
  <2>1. UNCHANGED << vms, rounds >> /\ api' \in 0 .. MaxApi /\ run.vm \in Scripts
    BY <1>7, SMTT(40) DEF FmBind, Native
  <2>2. /\ pm'.bindings = Append(pm.bindings, run.vm) /\ pm'.loaded = pm.loaded
        /\ pm'.handlers = pm.handlers /\ pm'.cap = pm.cap /\ pm'.context = pm.context
        /\ pm'.dialog = pm.dialog /\ pm'.quit = pm.quit /\ pm'.reload = pm.reload
    BY <1>7 DEF FmBind
  <2>3. pm'.bindings \in Seq(Scripts)
    BY <2>1, <2>2
  <2> HIDE DEF Dialog, Handler, AtMostOne, ThreadInv
  <2> QED  BY <2>1, <2>2, <2>3
<1>8. CASE FmAsk
  <2>1. UNCHANGED << vms, rounds >> /\ api' \in 0 .. MaxApi
    BY <1>8, SMTT(30) DEF FmAsk, Native
  <2>2. CASE pm' = pm
    BY <2>1, <2>2
  <2>3. CASE \E d \in Dialog : pm' = [pm EXCEPT !.dialog = {d}]
    <3>1. PICK d \in Dialog : pm' = [pm EXCEPT !.dialog = {d}]  BY <2>3
    <3>2. /\ pm'.dialog = {d} /\ pm'.loaded = pm.loaded /\ pm'.bindings = pm.bindings
          /\ pm'.handlers = pm.handlers /\ pm'.cap = pm.cap /\ pm'.context = pm.context
          /\ pm'.quit = pm.quit /\ pm'.reload = pm.reload
      BY <3>1
    <3> HIDE DEF Dialog
    <3> QED  BY <2>1, <3>2
  <2>4. pm' = pm \/ \E d \in Dialog : pm' = [pm EXCEPT !.dialog = {d}]
    <3> HIDE DEF ManagerInv, ThreadInv, Shape, Dialog
    <3> QED  BY <1>8, AskSteps
  <2> HIDE DEF ManagerInv, ThreadInv, Shape, Dialog, PluginsInv
  <2> QED  BY <2>2, <2>3, <2>4, Zenon
<1>9. CASE FmSelectPaths
  BY <1>9, SMTT(40) DEF FmSelectPaths, Native
<1>10. CASE FmMark
  BY <1>10, SMTT(40) DEF FmMark, Native
<1>11. CASE FmGotoMark
  BY <1>11, SMTT(30) DEF FmGotoMark, Native
<1>12. CASE FmRequest
  <2>1. UNCHANGED << vms, rounds >> /\ api' \in 0 .. MaxApi
    BY <1>12 DEF FmRequest, Native
  <2>2. CASE pm' = [pm EXCEPT !.quit = TRUE]
    BY <2>1, <2>2
  <2>3. CASE pm' = [pm EXCEPT !.reload = TRUE]
    BY <2>1, <2>3
  <2> QED  BY <1>12, <2>2, <2>3, RequestSteps
<1>13. CASE Round
  BY <1>13 DEF Round
<1>14. CASE NextHook
  BY <1>14 DEF NextHook
<1>15. CASE NextHandler
  BY <1>15 DEF NextHandler
<1>16. CASE CallbackReturns
  BY <1>16 DEF CallbackReturns, Continue
<1>17. CASE NextBinding
  BY <1>17 DEF NextBinding
<1>18. CASE NextOnKey
  BY <1>18 DEF NextOnKey
<1>19. CASE KeyReturns
  BY <1>19 DEF KeyReturns
<1>20. CASE Poll
  BY <1>20 DEF Poll
<1>21. CASE MenuMoves
  BY <1>21 DEF MenuMoves
<1>22. CASE MenuEnds
  BY <1>22 DEF MenuEnds
<1>23. CASE DialogReturns
  BY <1>23 DEF DialogReturns, Goto
<1>24. CASE TakeRequests
  BY <1>24 DEF TakeRequests, Goto
<1>25. CASE PluginsShutdown
  BY <1>25 DEF PluginsShutdown, Goto
<1>26. CASE PluginsOver
  BY <1>26 DEF PluginsOver, pluginVars
<1>27. CASE UNCHANGED pluginVars
  BY <1>27 DEF pluginVars
<1> QED
  BY <1>1, <1>2, <1>3, <1>4, <1>5, <1>6, <1>7, <1>8, <1>9, <1>10, <1>11, <1>12, <1>13, <1>14,
     <1>15, <1>16, <1>17, <1>18, <1>19, <1>20, <1>21, <1>22, <1>23, <1>24, <1>25, <1>26, <1>27
     DEF PluginsNext

(* What is loaded lives, and nothing else is called but what registered and   *)
(* failed to load.                                                            *)
LEMMA LiveNext == PluginsInv /\ [PluginsNext]_pluginVars => LiveInv'
<1> SUFFICES ASSUME PluginsInv, [PluginsNext]_pluginVars PROVE LiveInv'
  OBVIOUS
<1> USE PluginsAssumption DEF PluginsInv, Shape, ManagerInv, ThreadInv, LiveInv, CallsReachLiveScripts, Dialog, Handler, Between
<1>1. CASE LoadPlugin
  BY <1>1 DEF LoadPlugin
<1>2. CASE LoadFails
  BY <1>2 DEF LoadFails, Goto
<1>3. CASE LoadSucceeds
  <2>1. /\ pm'.loaded = Append(pm.loaded, run.vm) /\ vms' = vms /\ run'.at = "on_load"
        /\ vms[run.vm] = "running"
    BY <1>3 DEF LoadSucceeds
  <2>2. Range(pm'.loaded) = Range(pm.loaded) \cup {run.vm}
    BY <2>1, RangeOfAppend
  <2> QED  BY <2>1, <2>2
<1>4. CASE OnLoadReturns
  BY <1>4 DEF OnLoadReturns, Goto
<1>5. CASE LoopStarts
  BY <1>5 DEF LoopStarts, Goto
<1>6. CASE FmOn
  BY <1>6, OnSteps DEF FmOn, Native
<1>7. CASE FmBind
  BY <1>7 DEF FmBind, Native
<1>8. CASE FmAsk
  BY <1>8, AskSteps DEF FmAsk, Native
<1>9. CASE FmSelectPaths
  BY <1>9 DEF FmSelectPaths, Native
<1>10. CASE FmMark
  BY <1>10 DEF FmMark, Native
<1>11. CASE FmGotoMark
  BY <1>11 DEF FmGotoMark, Native
<1>12. CASE FmRequest
  BY <1>12, RequestSteps DEF FmRequest, Native
<1>13. CASE Round
  <2>1. vms' = vms /\ pm'.loaded = pm.loaded
    BY <1>13, RoundSteps DEF Round
  <2>2. run'.at \notin {"top", "undefined"}
    BY <1>13, RoundSteps DEF Raised, Idle
  <2> HIDE DEF LiveInv
  <2> QED  BY <2>1, <2>2, ElsewhereIsLive
<1>14. CASE NextHook
  <2>1. UNCHANGED << vms, pm >>
    BY <1>14 DEF NextHook
  <2>2. run.i < Len(pm.loaded) => pm.loaded[run.i + 1] \in Range(pm.loaded)
    <3>1. pm.loaded \in Seq(Scripts) /\ (run.i < Len(pm.loaded) => run.i + 1 \in 1 .. Len(pm.loaded))
      OBVIOUS
    <3> HIDE DEF PluginsInv
    <3> QED  BY <3>1, MemberOfSeq
  <2> HIDE DEF ManagerInv, LiveInv
  <2> QED
    BY <1>14, <2>1, <2>2, HookSteps, CalledIsLive, ElsewhereIsLive, SMTT(40) DEF Idle, Passes, Registered
<1>15. CASE NextHandler
  <2>1. UNCHANGED << vms, pm >>
    BY <1>15 DEF NextHandler
  <2>2. CASE \E m \in run.i + 1 .. Len(pm.handlers) :
                /\ pm.handlers[m].event = run.event
                /\ \A j \in run.i + 1 .. Len(pm.handlers) :
                     pm.handlers[j].event = run.event => m <= j
                /\ Called(pm.handlers[m].vm, "event", m, run.sel)
                /\ owed' = owed \ {[kind |-> "handler", of |-> pm.handlers[m].id]}
    <3>1. PICK m \in run.i + 1 .. Len(pm.handlers) : Called(pm.handlers[m].vm, "event", m, run.sel)
      BY <2>2
    <3>2. pm.handlers[m] \in Range(pm.handlers)
      <4>1. pm.handlers \in Seq(Handler) /\ m \in 1 .. Len(pm.handlers)
        BY SMTT(40)
      <4> HIDE DEF PluginsInv
      <4> QED  BY <4>1, MemberOfSeq
    <3> HIDE DEF LiveInv, ManagerInv
    <3> QED  BY <2>1, <3>1, <3>2, CalledIsLive DEF Registered
  <2>3. CASE /\ \A j \in run.i + 1 .. Len(pm.handlers) : pm.handlers[j].event # run.event
             /\ Raise(run.rest, pm.loaded, pm.handlers)
    <3>1. run'.at \notin {"top", "undefined"}
      BY <2>3, RaiseRaises, SMTT(40) DEF Raised, Idle
    <3> HIDE DEF LiveInv
    <3> QED  BY <2>1, <3>1, ElsewhereIsLive
  <2> QED  BY <1>15, <2>2, <2>3, HandlerSteps
<1>16. CASE CallbackReturns
  BY <1>16 DEF CallbackReturns, Continue
<1>17. CASE NextBinding
  <2>1. UNCHANGED << vms, pm >>
    BY <1>17 DEF NextBinding
  <2>2. run.i < Len(pm.bindings) => pm.bindings[run.i + 1] \in Range(pm.bindings)
    <3>1. pm.bindings \in Seq(Scripts) /\ (run.i < Len(pm.bindings) => run.i + 1 \in 1 .. Len(pm.bindings))
      BY SMTT(40)
    <3> HIDE DEF PluginsInv
    <3> QED  BY <3>1, MemberOfSeq
  <2> HIDE DEF ManagerInv, LiveInv
  <2> QED
    BY <1>17, <2>1, <2>2, BindingSteps, CalledIsLive, ElsewhereIsLive DEF Idle, Passes, Registered
<1>18. CASE NextOnKey
  <2>1. UNCHANGED << vms, pm >>
    BY <1>18 DEF NextOnKey
  <2>2. run.i < Len(pm.loaded) => pm.loaded[run.i + 1] \in Range(pm.loaded)
    <3>1. pm.loaded \in Seq(Scripts) /\ (run.i < Len(pm.loaded) => run.i + 1 \in 1 .. Len(pm.loaded))
      OBVIOUS
    <3> HIDE DEF PluginsInv
    <3> QED  BY <3>1, MemberOfSeq
  <2> HIDE DEF ManagerInv, LiveInv
  <2> QED
    BY <1>18, <2>1, <2>2, OnKeySteps, CalledIsLive, ElsewhereIsLive DEF Idle, Passes, Registered
<1>19. CASE KeyReturns
  <2>1. UNCHANGED << vms, pm >> /\ run.at \in {"binding", "on_key"}
    BY <1>19 DEF KeyReturns
  <2>2. run'.at \notin {"top", "undefined"}
    BY <1>19, <2>1, KeySteps DEF Idle
  <2> HIDE DEF LiveInv
  <2> QED  BY <2>1, <2>2, ElsewhereIsLive
<1>20. CASE Poll
  <2>1. UNCHANGED << vms, pm >>
    BY <1>20 DEF Poll
  <2>2. CASE run' = Idle("down") \/ run' = Idle("requests") \/ Passes("menu", run.i, 0, 0)
    <3>1. run'.at \notin {"top", "undefined"}  BY <2>2 DEF Idle, Passes
    <3> HIDE DEF LiveInv
    <3> QED  BY <2>1, <3>1, ElsewhereIsLive
  <2>3. CASE \E d \in pm.dialog : Called(d.vm, "dialog", run.i, run.sel)
    <3> HIDE DEF LiveInv
    <3> QED  BY <2>1, <2>3, CalledIsLive DEF Registered
  <2> QED  BY <1>20, <2>2, <2>3, PollSteps
<1>21. CASE MenuMoves
  BY <1>21, MenuMoveSteps DEF MenuMoves, Passes
<1>22. CASE MenuEnds
  <2>1. UNCHANGED << vms, pm >>
    BY <1>22 DEF MenuEnds
  <2> HIDE DEF LiveInv
  <2> QED  BY <1>22, <2>1, MenuEndSteps, CalledIsLive DEF Registered
<1>23. CASE DialogReturns
  BY <1>23 DEF DialogReturns, Goto
<1>24. CASE TakeRequests
  BY <1>24 DEF TakeRequests, Goto
<1>25. CASE PluginsShutdown
  <2>1. pm'.loaded = << >> /\ run'.at = "off"
    BY <1>25 DEF PluginsShutdown, Goto
  <2> QED  BY <2>1, RangeOfEmpty
<1>26. CASE PluginsOver
  BY <1>26 DEF PluginsOver, pluginVars
<1>27. CASE UNCHANGED pluginVars
  BY <1>27 DEF pluginVars
<1> QED
  BY <1>1, <1>2, <1>3, <1>4, <1>5, <1>6, <1>7, <1>8, <1>9, <1>10, <1>11, <1>12, <1>13, <1>14,
     <1>15, <1>16, <1>17, <1>18, <1>19, <1>20, <1>21, <1>22, <1>23, <1>24, <1>25, <1>26, <1>27
     DEF PluginsNext

(* The calls that are owed stay ahead of the loop, whatever the callbacks do   *)
(* to the list.                                                                *)
LEMMA OwedNext == PluginsInv /\ [PluginsNext]_pluginVars => OwedInv'
<1> SUFFICES ASSUME PluginsInv, [PluginsNext]_pluginVars PROVE OwedInv'
  OBVIOUS
<1> USE PluginsAssumption DEF PluginsInv, Shape, ManagerInv, ThreadInv, OwedInv, EventReachesEveryone, Ahead, Call, Handler, Between
<1>1. CASE LoadPlugin
  BY <1>1 DEF LoadPlugin
<1>2. CASE LoadFails
  BY <1>2 DEF LoadFails, Goto
<1>3. CASE LoadSucceeds
  BY <1>3 DEF LoadSucceeds
<1>4. CASE OnLoadReturns
  BY <1>4 DEF OnLoadReturns, Goto
<1>5. CASE LoopStarts
  BY <1>5 DEF LoopStarts, Goto
<1>6. CASE FmOn
  BY <1>6, SMTT(40) DEF FmOn, Native
<1>7. CASE FmBind
  BY <1>7 DEF FmBind, Native
<1>8. CASE FmAsk
  <2>1. run' = run /\ owed' = owed
    BY <1>8 DEF FmAsk
  <2>2. pm'.loaded = pm.loaded /\ pm'.handlers = pm.handlers
    BY <1>8, AskSteps
  <2> HIDE DEF OwedInv
  <2> QED  BY <2>1, <2>2, OwedStays
<1>9. CASE FmSelectPaths
  BY <1>9, SMTT(40) DEF FmSelectPaths, Native
<1>10. CASE FmMark
  BY <1>10 DEF FmMark, Native
<1>11. CASE FmGotoMark
  BY <1>11 DEF FmGotoMark, Native
<1>12. CASE FmRequest
  <2>1. run' = run /\ owed' = owed
    BY <1>12 DEF FmRequest
  <2>2. pm'.loaded = pm.loaded /\ pm'.handlers = pm.handlers
    BY <1>12, RequestSteps
  <2> HIDE DEF OwedInv
  <2> QED  BY <2>1, <2>2, OwedStays
<1>13. CASE Round
  <2>1. owed = {} /\ pm'.loaded = pm.loaded /\ pm'.handlers = pm.handlers
    BY <1>13, RoundSteps DEF Round
  <2>2. CASE run' = Idle("binding") /\ owed' = owed
    BY <2>1, <2>2 DEF Idle
  <2>3. CASE \E e, rest, hooks : /\ hooks \subseteq Range(pm.loaded)
                                 /\ Raised(e, rest, hooks, pm.handlers)
    <3> HIDE DEF OwedInv, ManagerInv
    <3> QED  BY <2>1, <2>3, RaisedIsOwed
  <2> QED  BY <1>13, <2>2, <2>3, RoundSteps
<1>14. CASE NextHook
  <2>1. pm' = pm /\ run.at = "hook"
    BY <1>14 DEF NextHook
  <2>2. CASE /\ run.i < Len(pm.loaded)
             /\ Called(pm.loaded[run.i + 1], "hook", run.i + 1, run.sel)
             /\ owed' = owed \ {[kind |-> "hook", of |-> pm.loaded[run.i + 1]]}
    <3>1. /\ run'.at \in {"hook", "undefined"} /\ run'.i = run.i + 1
          /\ run'.event = run.event
      BY <2>2 DEF Called
    <3>2. ASSUME NEW o \in owed', run'.at = "hook" PROVE Ahead(o)'
      <4>1. o \in Call /\ Ahead(o) /\ o # [kind |-> "hook", of |-> pm.loaded[run.i + 1]]
        BY <2>1, <2>2
      <4>2. CASE o.kind = "hook"
        <5>1. PICK j \in run.i + 1 .. Len(pm.loaded) : o.of = pm.loaded[j]  BY <4>1, <4>2
        <5>2. j # run.i + 1  BY <4>1, <4>2, <5>1
        <5>3. j \in run'.i + 1 .. Len(pm.loaded)  BY <3>1, <5>2, SMTT(30)
        <5> QED  BY <2>1, <3>2, <4>2, <5>1, <5>3
      <4>3. CASE o.kind = "handler"
        BY <2>1, <3>1, <3>2, <4>1, <4>3
      <4> QED  BY <4>1, <4>2, <4>3
    <3>3. owed' \subseteq Call
      BY <2>2
    <3> HIDE DEF Ahead, Call, ManagerInv
    <3> QED  BY <3>1, <3>2, <3>3
  <2>3. CASE /\ ~ (run.i < Len(pm.loaded))
             /\ Passes("event", 0, run.sel, run.start) /\ owed' = owed
    <3>1. run'.at = "event" /\ run'.i = 0 /\ run'.event = run.event
      BY <2>3 DEF Passes
    <3>2. ASSUME NEW o \in owed' PROVE Ahead(o)'
      <4>1. Ahead(o)  BY <2>1, <2>3
      <4>2. o.kind = "handler"  BY <2>3, <4>1, SMTT(40)
      <4>3. PICK j \in 1 .. Len(pm.handlers) :
              pm.handlers[j].id = o.of /\ pm.handlers[j].event = run.event
        BY <4>1, <4>2
      <4>4. pm'.handlers = pm.handlers /\ j > run'.i /\ run'.event = run.event
        BY <2>1, <3>1
      <4> HIDE DEF PluginsInv, ManagerInv, ThreadInv, Shape, OwedInv
      <4> QED  BY <4>2, <4>3, <4>4
    <3> HIDE DEF Ahead, ManagerInv
    <3> QED  BY <2>3, <3>1, <3>2
  <2> QED  BY <1>14, <2>2, <2>3, HookSteps
<1>15. CASE NextHandler
  <2>1. pm' = pm /\ run.at = "event"
    BY <1>15 DEF NextHandler
  <2>2. CASE \E m \in run.i + 1 .. Len(pm.handlers) :
                /\ pm.handlers[m].event = run.event
                /\ \A j \in run.i + 1 .. Len(pm.handlers) :
                     pm.handlers[j].event = run.event => m <= j
                /\ Called(pm.handlers[m].vm, "event", m, run.sel)
                /\ owed' = owed \ {[kind |-> "handler", of |-> pm.handlers[m].id]}
    <3>1. PICK m \in run.i + 1 .. Len(pm.handlers) :
            /\ \A j \in run.i + 1 .. Len(pm.handlers) :
                 pm.handlers[j].event = run.event => m <= j
            /\ Called(pm.handlers[m].vm, "event", m, run.sel)
            /\ owed' = owed \ {[kind |-> "handler", of |-> pm.handlers[m].id]}
      BY <2>2
    <3>2. run'.at \in {"event", "undefined"} /\ run'.i = m /\ run'.event = run.event
      <4> HIDE DEF PluginsInv
      <4> QED  BY <3>1 DEF Called
    <3>3. ASSUME NEW o \in owed' PROVE Ahead(o)'
      <4>1. o \in Call /\ Ahead(o) /\ o # [kind |-> "handler", of |-> pm.handlers[m].id]
        BY <2>1, <3>1
      <4>2. o.kind = "handler"
        BY <2>1, <4>1
      <4>3. PICK j \in 1 .. Len(pm.handlers) :
              pm.handlers[j].id = o.of /\ pm.handlers[j].event = run.event /\ j > run.i
        BY <2>1, <4>1, <4>2
      <4>4. j # m
        BY <4>1, <4>2, <4>3
      <4>5. j > m
        <5>1. j \in run.i + 1 .. Len(pm.handlers) /\ m \in Int /\ j \in Int
          BY <4>3, SMTT(40)
        <5> HIDE DEF PluginsInv
        <5>2. m <= j  BY <3>1, <4>3, <5>1
        <5> QED  BY <4>4, <5>1, <5>2
      <4> QED  BY <2>1, <3>2, <4>2, <4>3, <4>5
    <3>4. owed' \subseteq Call
      BY <3>1
    <3> HIDE DEF Ahead, Call, ManagerInv
    <3> QED  BY <3>2, <3>3, <3>4
  <2>3. CASE /\ \A j \in run.i + 1 .. Len(pm.handlers) : pm.handlers[j].event # run.event
             /\ Raise(run.rest, pm.loaded, pm.handlers)
    <3>1. owed = {}
      <4> SUFFICES ASSUME NEW o \in owed PROVE FALSE
        OBVIOUS
      <4>1. Ahead(o)  BY <2>1
      <4>2. \E j \in run.i + 1 .. Len(pm.handlers) : pm.handlers[j].event = run.event
        BY <2>1, <4>1, SMTT(40)
      <4> QED  BY <2>3, <4>2
    <3> HIDE DEF OwedInv, ManagerInv, Shape
    <3> QED  BY <2>3, <2>1, <3>1, RaiseOwes DEF PluginsInv
  <2> QED  BY <1>15, <2>2, <2>3, HandlerSteps
<1>16. CASE CallbackReturns
  BY <1>16 DEF CallbackReturns, Continue
<1>17. CASE NextBinding
  BY <1>17 DEF NextBinding
<1>18. CASE NextOnKey
  BY <1>18 DEF NextOnKey
<1>19. CASE KeyReturns
  BY <1>19 DEF KeyReturns
<1>20. CASE Poll
  BY <1>20 DEF Poll
<1>21. CASE MenuMoves
  BY <1>21 DEF MenuMoves
<1>22. CASE MenuEnds
  BY <1>22 DEF MenuEnds
<1>23. CASE DialogReturns
  BY <1>23 DEF DialogReturns, Goto
<1>24. CASE TakeRequests
  BY <1>24 DEF TakeRequests, Goto
<1>25. CASE PluginsShutdown
  BY <1>25 DEF PluginsShutdown, Goto
<1>26. CASE PluginsOver
  BY <1>26 DEF PluginsOver, pluginVars
<1>27. CASE UNCHANGED pluginVars
  BY <1>27 DEF pluginVars
<1> QED
  BY <1>1, <1>2, <1>3, <1>4, <1>5, <1>6, <1>7, <1>8, <1>9, <1>10, <1>11, <1>12, <1>13, <1>14,
     <1>15, <1>16, <1>17, <1>18, <1>19, <1>20, <1>21, <1>22, <1>23, <1>24, <1>25, <1>26, <1>27
     DEF PluginsNext

(* The dialog that waits is the last that was asked for.                       *)
LEMMA DialogNext == PluginsInv /\ [PluginsNext]_pluginVars => DialogInv'
<1> SUFFICES ASSUME PluginsInv, [PluginsNext]_pluginVars PROVE DialogInv'
  OBVIOUS
<1> USE PluginsAssumption DEF PluginsInv, Shape, ManagerInv, ThreadInv, DialogInv, Dialog, Between
<1>1. CASE LoadPlugin
  BY <1>1 DEF LoadPlugin
<1>2. CASE LoadFails
  BY <1>2 DEF LoadFails, Goto
<1>3. CASE LoadSucceeds
  BY <1>3 DEF LoadSucceeds
<1>4. CASE OnLoadReturns
  BY <1>4 DEF OnLoadReturns, Goto
<1>5. CASE LoopStarts
  BY <1>5, SMTT(30) DEF LoopStarts, Goto
<1>6. CASE FmOn
  BY <1>6, OnSteps DEF FmOn, Native
<1>7. CASE FmBind
  BY <1>7 DEF FmBind, Native
<1>8. CASE FmAsk
  <2>1. run' = run /\ UNCHANGED << answered, rounds >> /\ run.vm \in Scripts
    BY <1>8, AskSteps DEF FmAsk, Native
  <2>2. CASE pm' = pm /\ asked' = asked
    BY <2>1, <2>2
  <2>3. CASE /\ pm.dialog = {} /\ asked' = Append(asked, run.vm)
             /\ \E d \in Dialog : d.vm = run.vm /\ pm' = [pm EXCEPT !.dialog = {d}]
    <3>1. PICK d \in Dialog : d.vm = run.vm /\ pm'.dialog = {d}
      BY <2>3
    <3>2. run.at \notin {"off", "undefined", "dialog", "menu", "requests", "loop"}
      BY <1>8, <2>3 DEF FmAsk, Native
    <3>3. answered = asked /\ asked' = Append(answered, d.vm) /\ asked' \in Seq(Scripts)
      BY <2>1, <2>3, <3>1, <3>2, SMTT(40)
    <3> HIDE DEF Dialog, ManagerInv
    <3> QED  BY <2>1, <3>1, <3>2, <3>3
  <2> QED  BY <1>8, <2>2, <2>3, AskSteps
<1>9. CASE FmSelectPaths
  BY <1>9 DEF FmSelectPaths, Native
<1>10. CASE FmMark
  BY <1>10 DEF FmMark, Native
<1>11. CASE FmGotoMark
  BY <1>11 DEF FmGotoMark, Native
<1>12. CASE FmRequest
  BY <1>12, RequestSteps DEF FmRequest, Native
<1>13. CASE Round
  <2>1. /\ UNCHANGED << asked, answered >> /\ run.at = "loop" /\ pm'.dialog = pm.dialog
    BY <1>13, RoundSteps DEF Round
  <2>2. run'.at \in {"binding", "event", "hook"}
    BY <1>13, RoundSteps DEF Raised, Idle
  <2> HIDE DEF DialogInv, ManagerInv
  <2> QED  BY <2>1, <2>2, DialogWaits
<1>14. CASE NextHook
  <2>1. /\ UNCHANGED << pm, asked, answered >>
        /\ run.at \notin {"off", "undefined", "dialog"}
    BY <1>14 DEF NextHook
  <2>2. run'.at \notin {"off", "menu", "dialog", "requests", "loop"}
    <3> HIDE DEF ManagerInv, ThreadInv, DialogInv
    <3>1. \/ Called(pm.loaded[run.i + 1], "hook", run.i + 1, run.sel)
          \/ Passes("event", 0, run.sel, run.start)
      BY <1>14, HookSteps
    <3> HIDE DEF PluginsInv, Shape
    <3> QED  BY <3>1 DEF Called, Passes
  <2> HIDE DEF DialogInv, ManagerInv
  <2> QED  BY <2>1, <2>2, DialogWaits
<1>15. CASE NextHandler
  <2>1. UNCHANGED << pm, asked, answered >> /\ run.at = "event"
    BY <1>15 DEF NextHandler
  <2>2. CASE \E m \in run.i + 1 .. Len(pm.handlers) :
                /\ pm.handlers[m].event = run.event
                /\ \A j \in run.i + 1 .. Len(pm.handlers) :
                     pm.handlers[j].event = run.event => m <= j
                /\ Called(pm.handlers[m].vm, "event", m, run.sel)
                /\ owed' = owed \ {[kind |-> "handler", of |-> pm.handlers[m].id]}
    <3>1. run'.at \in {"event", "undefined"}
      BY <2>2 DEF Called
    <3> HIDE DEF DialogInv, ManagerInv
    <3> QED  BY <2>1, <3>1, DialogWaits
  <2>3. CASE /\ \A j \in run.i + 1 .. Len(pm.handlers) : pm.handlers[j].event # run.event
             /\ Raise(run.rest, pm.loaded, pm.handlers)
    <3>1. run'.at \in {"binding", "event", "hook"}
      BY <2>3, RaiseRaises, SMTT(40) DEF Raised, Idle
    <3> HIDE DEF DialogInv, ManagerInv
    <3> QED  BY <2>1, <3>1, DialogWaits
  <2> QED  BY <1>15, <2>2, <2>3, HandlerSteps
<1>16. CASE CallbackReturns
  BY <1>16, SMTT(40) DEF CallbackReturns, Continue
<1>17. CASE NextBinding
  <2>1. /\ UNCHANGED << pm, asked, answered >>
        /\ run.at \notin {"off", "undefined", "dialog"}
    BY <1>17 DEF NextBinding
  <2>2. run'.at \notin {"off", "menu", "dialog", "requests", "loop"}
    <3> HIDE DEF ManagerInv, ThreadInv, DialogInv
    <3>1. \/ Called(pm.bindings[run.i + 1], "binding", run.i + 1, run.sel)
          \/ run' = Idle("on_key")
      BY <1>17, BindingSteps
    <3> HIDE DEF PluginsInv, Shape
    <3> QED  BY <3>1 DEF Called, Idle
  <2> HIDE DEF DialogInv, ManagerInv
  <2> QED  BY <2>1, <2>2, DialogWaits
<1>18. CASE NextOnKey
  <2>1. /\ UNCHANGED << pm, asked, answered >>
        /\ run.at \notin {"off", "undefined", "dialog"}
    BY <1>18 DEF NextOnKey
  <2>2. run'.at \notin {"off", "menu", "dialog", "requests", "loop"}
    BY <1>18, <2>1, OnKeySteps, SMTT(40) DEF Called, Passes, Idle
  <2> HIDE DEF DialogInv, ManagerInv
  <2> QED  BY <2>1, <2>2, DialogWaits
<1>19. CASE KeyReturns
  <2>1. /\ UNCHANGED << pm, asked, answered >>
        /\ run.at \notin {"off", "undefined", "dialog"}
    BY <1>19 DEF KeyReturns
  <2>2. run'.at \notin {"off", "menu", "dialog", "requests", "loop"}
    BY <1>19, <2>1, KeySteps, SMTT(30) DEF Called, Passes, Idle, KeyReturns
  <2> HIDE DEF DialogInv, ManagerInv
  <2> QED  BY <2>1, <2>2, DialogWaits
<1>20. CASE Poll
  <2>1. UNCHANGED << pm, asked, rounds >> /\ run.at = "poll"
    BY <1>20 DEF Poll
  <2>2. CASE run' = Idle("down") /\ answered' = answered
    BY <2>1, <2>2 DEF Idle
  <2>3. CASE run' = Idle("requests") /\ answered' = answered /\ pm.dialog = {}
    BY <2>1, <2>3 DEF Idle
  <2>4. CASE pm.dialog # {} /\ Passes("menu", run.i, 0, 0) /\ answered' = answered
    BY <2>1, <2>4 DEF Passes
  <2>5. CASE \E d \in pm.dialog : /\ Called(d.vm, "dialog", run.i, run.sel)
                                 /\ answered' = Append(answered, d.vm)
    <3> HIDE DEF DialogInv, ManagerInv
    <3> QED  BY <2>1, <2>5, DialogIsGiven
  <2> QED  BY <1>20, <2>2, <2>3, <2>4, <2>5, PollSteps
<1>21. CASE MenuMoves
  BY <1>21 DEF MenuMoves
<1>22. CASE MenuEnds
  <2>1. UNCHANGED << pm, asked, rounds >> /\ run.at = "menu"
    BY <1>22 DEF MenuEnds
  <2> HIDE DEF DialogInv, ManagerInv
  <2> QED  BY <1>22, <2>1, MenuEndSteps, DialogIsGiven
<1>23. CASE DialogReturns
  BY <1>23 DEF DialogReturns, Goto
<1>24. CASE TakeRequests
  BY <1>24 DEF TakeRequests, Goto
<1>25. CASE PluginsShutdown
  BY <1>25 DEF PluginsShutdown, Goto
<1>26. CASE PluginsOver
  BY <1>26 DEF PluginsOver, pluginVars
<1>27. CASE UNCHANGED pluginVars
  BY <1>27 DEF pluginVars
<1> QED
  BY <1>1, <1>2, <1>3, <1>4, <1>5, <1>6, <1>7, <1>8, <1>9, <1>10, <1>11, <1>12, <1>13, <1>14,
     <1>15, <1>16, <1>17, <1>18, <1>19, <1>20, <1>21, <1>22, <1>23, <1>24, <1>25, <1>26, <1>27
     DEF PluginsNext

-----------------------------------------------------------------------------
(* The theorems *)

(* It holds at the start, and every step keeps it.                             *)
LEMMA PluginsInitInv == PluginsInit => PluginsInv
<1> SUFFICES ASSUME PluginsInit PROVE PluginsInv
  OBVIOUS
<1> USE PluginsAssumption DEF PluginsInit
<1>1. Shape
  BY DEF Shape
<1>2. ManagerInv
  BY DEF ManagerInv, AtMostOne
<1>3. ThreadInv
  BY DEF ThreadInv, Places
<1>4. LiveInv
  BY RangeOfEmpty DEF LiveInv, CallsReachLiveScripts
<1>5. OwedInv
  BY DEF OwedInv, EventReachesEveryone
<1>6. DialogInv
  BY DEF DialogInv
<1> QED
  BY <1>1, <1>2, <1>3, <1>4, <1>5, <1>6 DEF PluginsInv

LEMMA PluginsInvariant == PluginsSpec => []PluginsInv
<1>1. PluginsInv /\ [PluginsNext]_pluginVars => PluginsInv'
  BY ShapeNext, ThreadNext, ManagerNext, LiveNext, OwedNext, DialogNext DEF PluginsInv
<1> QED
  BY PluginsInitInv, <1>1, PTL DEF PluginsSpec

(* The manager's lists and requests stay within their types, and the menu's    *)
(* selection within its items and its window, for any number of scripts and    *)
(* any menu (plugins_internal.h, plugin_modal_menu).                           *)
THEOREM PluginsTyped == PluginsSpec => []PluginsTypeOK
<1>1. PluginsInv => PluginsTypeOK
  <2> SUFFICES ASSUME PluginsInv PROVE PluginsTypeOK
    OBVIOUS
  <2>1. \A h \in Range(pm.handlers) : h.event \in Range(Events) /\ h.vm \in Scripts
    <3>1. \A h \in Range(pm.handlers) : h \in Handler
      BY SeqMembers DEF PluginsInv, ManagerInv
    <3> QED  BY <3>1 DEF Handler
  <2>2. Cardinality(pm.context) <= 1 /\ Cardinality(pm.dialog) <= 1
    BY AtMostOneCounts DEF PluginsInv, ManagerInv, AtMostOne
  <2> QED  BY <2>1, <2>2 DEF PluginsInv, ManagerInv, ThreadInv, PluginsTypeOK
<1> QED
  BY <1>1, PluginsInvariant, PTL

(* No freed virtual machine is called and no moved list is read, whatever the  *)
(* scripts call in whatever order, but for the two exceptions the property     *)
(* names (plugins_load_one, dispatch_event2_str, plugins_shutdown).            *)
THEOREM LiveCalls == PluginsSpec => []CallsReachLiveScripts
<1>1. PluginsInv => CallsReachLiveScripts
  BY DEF PluginsInv, LiveInv
<1> QED
  BY <1>1, PluginsInvariant, PTL

(* An event reaches every hook and handler that was registered when it was     *)
(* raised, for any number of plugins, although callbacks register more or give *)
(* the list up in between (plugins_set_context_ex, dispatch_event2_str).       *)
THEOREM EventDelivery == PluginsSpec => []EventReachesEveryone
<1>1. PluginsInv => EventReachesEveryone
  BY DEF PluginsInv, OwedInv
<1> QED
  BY <1>1, PluginsInvariant, PTL

(* Dialogs are answered in order, once, to the script that asked, within the   *)
(* round (plugins_poll, the natives prompt_async, confirm_async, menu_async).  *)
THEOREM DialogsAnswered == PluginsSpec => []DialogIsAnswered
<1>1. PluginsInv => DialogIsAnswered
  <2> SUFFICES ASSUME PluginsInv PROVE DialogIsAnswered
    OBVIOUS
  <2>1. asked \in Seq(Scripts) /\ answered \in Seq(Scripts)
    BY DEF PluginsInv, DialogInv
  <2>2. answered = asked \/ \E s \in Scripts : asked = Append(answered, s)
    <3>1. \A d \in pm.dialog : d.vm \in Scripts
      BY DEF PluginsInv, ManagerInv, Dialog
    <3> QED  BY <3>1 DEF PluginsInv, DialogInv
  <2>3. IsPrefix(answered, asked)
    <3>1. CASE answered = asked
      BY <2>1, <3>1, SelfIsPrefix
    <3>2. CASE \E s \in Scripts : asked = Append(answered, s)
      BY <2>1, <3>2, PrefixOfAppend
    <3> QED  BY <2>2, <3>1, <3>2
  <2>4. run.at = "loop" /\ rounds > 0 => answered = asked
    BY DEF PluginsInv, DialogInv
  <2> QED  BY <2>3, <2>4 DEF DialogIsAnswered
<1> QED
  BY <1>1, PluginsInvariant, PTL

-----------------------------------------------------------------------------
(* What is stored is found: the configuration file and the cache of plugins.   *)

(* Escaping and reading: what is read of what was written is what was meant.   *)

(* The characters, those that have a meaning to the cache file among them.      *)
Letters == STRING \cup {"tab", "nl", "bs", "t", "n", "s", ":"}
Str == Seq(Letters)
Reading == [out : Str, bs : BOOLEAN]
Fresh == [out |-> << >>, bs |-> FALSE]
ReadAll(s) == FoldLeft(ReadOne, Fresh, s)

LEMMA EscapedTyped ==
  ASSUME NEW c \in Letters
  PROVE  /\ Escaped(c) \in Str /\ Meant(c) \in Letters
         /\ \A a \in Reading : ReadOne(a, c) \in Reading
<1>a. {"tab", "nl", "bs", "t", "n"} \subseteq Letters
  BY DEF Letters
<1>1. Escaped(c) \in Str
  <2>1. << "bs", "t" >> \in Str /\ << "bs", "n" >> \in Str /\ << "bs", "bs" >> \in Str /\ << c >> \in Str
    BY <1>a DEF Str
  <2> QED  BY <2>1 DEF Escaped
<1>2. Meant(c) \in Letters
  BY <1>a DEF Meant
<1>3. ASSUME NEW a \in Reading PROVE ReadOne(a, c) \in Reading
  <2>1. a.out \in Str /\ a.bs \in BOOLEAN  BY DEF Reading
  <2>2. Append(a.out, c) \in Str /\ Append(a.out, Meant(c)) \in Str
    BY <1>2, <2>1 DEF Str
  <2> QED  BY <2>1, <2>2 DEF ReadOne, Reading
<1> QED
  BY <1>1, <1>2, <1>3

(* Reading a sequence is reading one character after the other.                *)
LEMMA ReadInSteps ==
  ASSUME NEW s \in Str
  PROVE  \E g \in [0 .. Len(s) -> Reading] :
           /\ g[0] = Fresh
           /\ \A k \in 1 .. Len(s) : g[k] = ReadOne(g[k - 1], s[k])
           /\ ReadAll(s) = g[Len(s)]
<1> DEFINE n == Len(s)
           A == Reading
           base == Fresh
           step == [x \in A \X (1 .. n) |-> ReadOne(x[1], s[x[2]])]
           Eq(f) == f = [t \in SUBSET (1 .. n) |->
                           IF t = {} THEN base ELSE ReadOne(f[t \ {Max(t)}], s[Max(t)])]
<1>1. n \in Nat /\ DOMAIN s = 1 .. n /\ \A i \in 1 .. n : s[i] \in Letters
  BY DEF Str
<1>2. base \in A
  BY DEF Fresh, Reading, Str
<1>3. step \in [A \X (1 .. n) -> A]
  <2> SUFFICES ASSUME NEW x \in A \X (1 .. n) PROVE ReadOne(x[1], s[x[2]]) \in A
    OBVIOUS
  <2>1. x[1] \in A /\ s[x[2]] \in Letters  BY <1>1
  <2> QED  BY <2>1, EscapedTyped
<1>4. PICK f \in [SUBSET (1 .. n) -> A] : \A t \in SUBSET (1 .. n) :
        f[t] = IF t = {} THEN base ELSE step[<< f[t \ {Max(t)}], Max(t) >>]
  <2> HIDE DEF step, A, n, base
  <2>1. Foldings(n, A, base, step) # {}
    BY <1>1, <1>2, <1>3, FoldExists
  <2> QED  BY <2>1 DEF Foldings
<1>5. ASSUME NEW t \in SUBSET (1 .. n), t # {}
      PROVE  step[<< f[t \ {Max(t)}], Max(t) >>] = ReadOne(f[t \ {Max(t)}], s[Max(t)])
  <2>1. Max(t) \in 1 .. n  BY <1>1, <1>5, MaxOfInterval
  <2>2. f[t \ {Max(t)}] \in A
    <3> HIDE DEF A
    <3> QED  BY <1>4
  <2> HIDE DEF A, n
  <2> QED  BY <2>1, <2>2
<1>6. Eq(f)
  <2> HIDE DEF A, n, step, base
  <2> QED  BY <1>4, <1>5
<1> DEFINE iter == CHOOSE it : Eq(it)
<1>7. Eq(iter)
  <2> HIDE DEF Eq
  <2> QED  BY <1>6
<1>8. ReadAll(s) = iter[1 .. n]
  BY <1>1 DEF ReadAll, FoldLeft, MapThenFoldSet
<1> HIDE DEF iter
<1> DEFINE g == [k \in 0 .. n |-> iter[1 .. k]]
<1>9. g[0] = base
  <2>1. 1 .. 0 = {} /\ 0 \in 0 .. n  BY <1>1
  <2> QED  BY <1>7, <2>1
<1>10. ASSUME NEW k \in 1 .. n PROVE g[k] = ReadOne(g[k - 1], s[k])
  <2>1. k \in 0 .. n /\ k - 1 \in 0 .. n  BY <1>1
  <2>2. iter[1 .. k] = IF 1 .. k = {} THEN base
                       ELSE ReadOne(iter[(1 .. k) \ {Max(1 .. k)}], s[Max(1 .. k)])
    BY <1>1, <1>7, FoldPasses
  <2> QED  BY <1>1, <2>1, <2>2, FoldPasses
<1>11. g[n] = iter[1 .. n]
  BY <1>1
<1>12. g \in [0 .. n -> A]
  <2> DEFINE G == {k \in 0 .. n : g[k] \in A}
  <2>1. 0 \in G  BY <1>1, <1>2, <1>9
  <2>2. ASSUME NEW k \in 0 .. n - 1, k \in G PROVE k + 1 \in G
    <3>1. k + 1 \in 1 .. n /\ (k + 1) - 1 = k /\ k + 1 \in 0 .. n  BY <1>1
    <3> HIDE DEF g, A
    <3>2. g[k + 1] = ReadOne(g[k], s[k + 1])  BY <1>10, <3>1
    <3>3. g[k] \in A /\ s[k + 1] \in Letters  BY <1>1, <2>2, <3>1
    <3> QED  BY <3>1, <3>2, <3>3, EscapedTyped DEF A
  <2>3. 0 .. n \subseteq G
    <3> HIDE DEF G
    <3> QED  BY <1>1, <2>1, <2>2, IntervalInduction
  <2>4. \A k \in 0 .. n : g[k] \in A  BY <2>3
  <2> HIDE DEF A
  <2> QED  BY <2>4
<1> HIDE DEF g
<1> QED
  BY <1>8, <1>9, <1>10, <1>11, <1>12

LEMMA ReadOfEmpty == ReadAll(<< >>) = Fresh
<1>1. << >> \in Str /\ Len(<< >>) = 0
  BY DEF Str
<1> QED
  BY <1>1, ReadInSteps

(* One character more is read in the state the others leave.                   *)
LEMMA ReadOfAppend ==
  ASSUME NEW s \in Str, NEW c \in Letters
  PROVE  ReadAll(Append(s, c)) = ReadOne(ReadAll(s), c) /\ ReadAll(s) \in Reading
<1> DEFINE t == Append(s, c)  n == Len(s)
<1>1. /\ n \in Nat /\ t \in Str /\ Len(t) = n + 1 /\ t[n + 1] = c
      /\ \A i \in 1 .. n : t[i] = s[i]
  BY AppendProperties, LenProperties DEF Str
<1>2. PICK g \in [0 .. n -> Reading] :
        /\ g[0] = Fresh
        /\ \A k \in 1 .. n : g[k] = ReadOne(g[k - 1], s[k])
        /\ ReadAll(s) = g[n]
  BY ReadInSteps
<1> HIDE DEF t
<1>3. PICK h \in [0 .. n + 1 -> Reading] :
        /\ h[0] = Fresh
        /\ \A k \in 1 .. n + 1 : h[k] = ReadOne(h[k - 1], t[k])
        /\ ReadAll(t) = h[n + 1]
  <2>1. PICK h \in [0 .. Len(t) -> Reading] :
          /\ h[0] = Fresh
          /\ \A k \in 1 .. Len(t) : h[k] = ReadOne(h[k - 1], t[k])
          /\ ReadAll(t) = h[Len(t)]
    BY <1>1, ReadInSteps
  <2> QED  BY <1>1, <2>1
<1> HIDE DEF n
<1> DEFINE S == {k \in 0 .. n : g[k] = h[k]}
<1>4. 0 \in S
  BY <1>1, <1>2, <1>3
<1>5. ASSUME NEW k \in 0 .. n - 1, k \in S PROVE k + 1 \in S
  <2>1. k + 1 \in 1 .. n /\ k + 1 \in 1 .. n + 1 /\ (k + 1) - 1 = k /\ k + 1 \in 0 .. n  BY <1>1
  <2>2. g[k + 1] = ReadOne(g[k], s[k + 1])  BY <1>2, <2>1
  <2>3. h[k + 1] = ReadOne(h[k], t[k + 1])  BY <1>3, <2>1
  <2>4. t[k + 1] = s[k + 1]  BY <1>1, <2>1
  <2> QED  BY <1>5, <2>1, <2>2, <2>3, <2>4
<1>6. n \in S
  <2>1. 0 .. n \subseteq S
    <3> HIDE DEF S
    <3> QED  BY <1>1, <1>4, <1>5, IntervalInduction
  <2>2. n \in 0 .. n  BY <1>1
  <2> HIDE DEF S
  <2> QED  BY <2>1, <2>2
<1>7. n + 1 \in 1 .. n + 1 /\ (n + 1) - 1 = n /\ n \in 0 .. n
  BY <1>1
<1>8. ReadAll(t) = ReadOne(h[n], c)
  BY <1>1, <1>3, <1>7
<1> QED
  BY <1>2, <1>6, <1>7, <1>8 DEF t

(* Escaping a sequence is escaping one character after the other.              *)
LEMMA EscapeInSteps ==
  ASSUME NEW s \in Str
  PROVE  \E f \in [0 .. Len(s) -> Str] :
           /\ f[0] = << >>
           /\ \A k \in 1 .. Len(s) : f[k] = f[k - 1] \o Escaped(s[k])
           /\ Escape(s) = f[Len(s)]
<1> DEFINE n == Len(s)
           e == [i \in DOMAIN s |-> Escaped(s[i])]
<1>1. n \in Nat /\ DOMAIN s = 1 .. n /\ \A i \in 1 .. n : s[i] \in Letters
  BY DEF Str
<1>2. e \in Seq(Str) /\ Len(e) = n /\ \A i \in 1 .. n : e[i] = Escaped(s[i]) /\ e[i] \in Str
  <2>1. \A i \in 1 .. n : Escaped(s[i]) \in Str  BY <1>1, EscapedTyped
  <2> QED  BY <1>1, <2>1
<1>3. Escape(s) = FlattenSeq(e)
  BY DEF Escape
<1> HIDE DEF e
<1>4. CASE n = 0
  <2>1. e = << >>  BY <1>2, <1>4, EmptySeq
  <2>2. FlattenSeq(e) = e  BY <1>2, <1>4 DEF FlattenSeq
  <2> DEFINE f == [k \in 0 .. 0 |-> << >>]
  <2>3. f \in [0 .. 0 -> Str] /\ f[0] = << >>  BY DEF Str
  <2> HIDE DEF f
  <2> QED  BY <1>3, <1>4, <2>1, <2>2, <2>3
<1>5. CASE n # 0
  <2> DEFINE step == [x \in Str \X (2 .. n) |-> x[1] \o e[x[2]]]
             base == e[1]
             Eq(f) == f = [i \in 1 .. n |-> IF i = 1 THEN e[i] ELSE f[i - 1] \o e[i]]
  <2>1. n \in Int /\ 1 <= n /\ 1 \in 1 .. n  BY <1>1, <1>5
  <2>2. base \in Str  BY <1>2, <2>1
  <2>3. step \in [Str \X (1 + 1 .. n) -> Str]
    <3> SUFFICES ASSUME NEW x \in Str \X (2 .. n) PROVE x[1] \o e[x[2]] \in Str
      OBVIOUS
    <3>1. x[2] \in 1 .. n  BY <2>1
    <3>2. x[1] \in Str /\ e[x[2]] \in Str  BY <1>2, <3>1
    <3> QED  BY <3>2 DEF Str
  <2>4. PICK r \in [1 .. n -> Str] :
          r[1] = base /\ \A k \in 2 .. n : r[k] = step[<< r[k - 1], k >>]
    <3> HIDE DEF step, base, n
    <3>1. Recursions(1, n, Str, base, step) # {}
      BY <2>1, <2>2, <2>3, RecursionExists
    <3> QED  BY <3>1 DEF Recursions
  <2>5. \A k \in 2 .. n : r[k] = r[k - 1] \o e[k]
    <3> SUFFICES ASSUME NEW k \in 2 .. n PROVE r[k] = r[k - 1] \o e[k]
      OBVIOUS
    <3>1. k - 1 \in 1 .. n  BY <2>1
    <3>2. << r[k - 1], k >> \in Str \X (2 .. n)  BY <3>1
    <3>3. r[k] = step[<< r[k - 1], k >>]  BY <2>4
    <3> QED  BY <3>2, <3>3
  <2>6. Eq(r)
    <3>1. \A i \in 1 .. n : r[i] = IF i = 1 THEN e[i] ELSE r[i - 1] \o e[i]
      <4> SUFFICES ASSUME NEW i \in 1 .. n PROVE r[i] = IF i = 1 THEN e[i] ELSE r[i - 1] \o e[i]
        OBVIOUS
      <4>1. i # 1 => i \in 2 .. n  BY <2>1
      <4> QED  BY <2>4, <2>5, <4>1
    <3> HIDE DEF n, step
    <3> QED  BY <2>4, <3>1
  <2> DEFINE flat == CHOOSE it : Eq(it)
  <2>7. Eq(flat)
    <3> HIDE DEF Eq
    <3> QED  BY <2>6
  <2>8. FlattenSeq(e) = flat[n]
    BY <1>2, <1>5 DEF FlattenSeq
  <2> HIDE DEF flat
  <2> DEFINE S == {k \in 0 .. n : k = 0 \/ flat[k] \in Str}
             f == [k \in 0 .. n |-> IF k = 0 THEN << >> ELSE flat[k]]
  <2>9. \A k \in 1 .. n : flat[k] = IF k = 1 THEN e[k] ELSE flat[k - 1] \o e[k]
    <3> HIDE DEF n
    <3> QED  BY <2>7
  <2>10. ASSUME NEW k \in 0 .. n - 1, k \in S PROVE k + 1 \in S
    <3>1. k + 1 \in 1 .. n /\ k + 1 \in 0 .. n /\ (k + 1) - 1 = k  BY <1>1
    <3>2. flat[k + 1] = IF k = 0 THEN e[k + 1] ELSE flat[k] \o e[k + 1]  BY <2>9, <3>1
    <3>3. e[k + 1] \in Str  BY <1>2, <3>1
    <3>4. CASE k = 0  BY <3>1, <3>2, <3>3, <3>4
    <3>5. CASE k # 0
      <4>1. flat[k] \in Str  BY <2>10, <3>5
      <4>2. flat[k] \o e[k + 1] \in Str  BY <3>3, <4>1 DEF Str
      <4> QED  BY <3>1, <3>2, <3>5, <4>2
    <3> QED  BY <3>4, <3>5
  <2>11. 0 .. n \subseteq S
    <3>1. 0 \in S  BY <1>1
    <3> HIDE DEF S
    <3> QED  BY <1>1, <2>10, <3>1, IntervalInduction
  <2>12. \A k \in 0 .. n : (IF k = 0 THEN << >> ELSE flat[k]) \in Str
    <3>1. << >> \in Str  BY DEF Str
    <3> QED  BY <2>11, <3>1
  <2>13. f \in [0 .. n -> Str] /\ f[0] = << >> /\ f[n] = flat[n]
    <3> HIDE DEF n
    <3>1. n \in 0 .. n /\ 0 \in 0 .. n  BY <1>1
    <3> QED  BY <1>5, <2>12, <3>1
  <2>14. ASSUME NEW k \in 1 .. n PROVE f[k] = f[k - 1] \o Escaped(s[k])
    <3>1. k \in 0 .. n /\ k - 1 \in 0 .. n /\ k # 0 /\ (k - 1 = 0 <=> k = 1)  BY <1>1
    <3>2. f[k] = flat[k] /\ f[k - 1] = IF k = 1 THEN << >> ELSE flat[k - 1]  BY <3>1
    <3>3. e[k] = Escaped(s[k]) /\ e[k] \in Str  BY <1>2
    <3>4. << >> \o e[k] = e[k]  BY <3>3, ConcatEmptySeq DEF Str
    <3> QED  BY <2>9, <3>2, <3>3, <3>4
  <2> HIDE DEF f, n
  <2> QED  BY <1>3, <2>8, <2>13, <2>14 DEF n
<1> QED
  BY <1>4, <1>5

(* An escaped character is read as that character.                             *)
LEMMA ReadOfEscaped ==
  ASSUME NEW t \in Str, NEW r \in Str, ReadAll(t) = [out |-> r, bs |-> FALSE], NEW c \in Letters
  PROVE  /\ t \o Escaped(c) \in Str
         /\ ReadAll(t \o Escaped(c)) = [out |-> Append(r, c), bs |-> FALSE]
<1>a. {"tab", "nl", "bs", "t", "n"} \subseteq Letters
  BY DEF Letters
<1>1. ASSUME NEW y \in Letters, Escaped(c) = << "bs", y >>, Meant(y) = c
      PROVE  /\ t \o Escaped(c) \in Str
             /\ ReadAll(t \o Escaped(c)) = [out |-> Append(r, c), bs |-> FALSE]
  <2> DEFINE b == "bs"  u == Append(t, b)
  <2>1. b \in Letters  BY <1>a
  <2>2. ReadAll(u) = [out |-> r, bs |-> TRUE]
    <3>1. ReadAll(u) = ReadOne(ReadAll(t), b)  BY <2>1, ReadOfAppend
    <3> QED  BY <3>1 DEF ReadOne
  <2>3. u \in Str  BY <2>1, AppendProperties DEF Str
  <2>4. t \o << b, y >> = Append(u, y)
    <3> HIDE DEF b
    <3> QED  BY <2>1 DEF Str
  <2> HIDE DEF u
  <2>5. ReadAll(Append(u, y)) = ReadOne(ReadAll(u), y)  BY <2>3, ReadOfAppend
  <2>6. ReadOne(ReadAll(u), y) = [out |-> Append(r, c), bs |-> FALSE]  BY <1>1, <2>2 DEF ReadOne
  <2>7. Append(u, y) \in Str  BY <2>3, AppendProperties DEF Str
  <2> QED  BY <1>1, <2>4, <2>5, <2>6, <2>7
<1>2. CASE c \in {"tab", "nl", "bs"}
  <2>1. \E y \in {"t", "n", "bs"} : Escaped(c) = << "bs", y >> /\ Meant(y) = c
    BY <1>2 DEF Escaped, Meant
  <2> QED  BY <1>a, <1>1, <2>1
<1>3. CASE c \notin {"tab", "nl", "bs"}
  <2>1. Escaped(c) = << c >>  BY <1>3 DEF Escaped
  <2>2. t \o << c >> = Append(t, c)  BY AppendIsConcat DEF Str
  <2>3. ReadAll(Append(t, c)) = ReadOne(ReadAll(t), c)  BY ReadOfAppend
  <2>4. ReadOne(ReadAll(t), c) = [out |-> Append(r, c), bs |-> FALSE]  BY <1>3 DEF ReadOne
  <2>5. Append(t, c) \in Str  BY AppendProperties DEF Str
  <2> QED  BY <2>1, <2>2, <2>3, <2>4, <2>5
<1> QED
  BY <1>2, <1>3

(* No escaped character is a tab.                                              *)
NoTab(s) == \A i \in 1 .. Len(s) : s[i] # "tab"

LEMMA EscapedHasNoTab ==
  ASSUME NEW t \in Str, NoTab(t), NEW c \in Letters
  PROVE  NoTab(t \o Escaped(c))
<1>1. Escaped(c) \in Str
  BY EscapedTyped
<1>2. NoTab(Escaped(c))
  <2>1. CASE c \in {"tab", "nl", "bs"}
    <3>1. \E y \in {"t", "n", "bs"} : Escaped(c) = << "bs", y >>  BY <2>1 DEF Escaped
    <3>2. PICK y \in {"t", "n", "bs"} : Escaped(c) = << "bs", y >>  BY <3>1
    <3>3. Len(Escaped(c)) = 2 /\ Escaped(c)[1] # "tab" /\ Escaped(c)[2] # "tab"  BY <3>2
    <3>4. \A i \in 1 .. 2 : i = 1 \/ i = 2  OBVIOUS
    <3> QED  BY <3>3, <3>4 DEF NoTab
  <2>2. CASE c \notin {"tab", "nl", "bs"}
    <3>1. Escaped(c) = << c >>  BY <2>2 DEF Escaped
    <3>2. Len(Escaped(c)) = 1 /\ Escaped(c)[1] # "tab"  BY <2>2, <3>1
    <3> QED  BY <3>2 DEF NoTab
  <2> QED  BY <2>1, <2>2
<1> DEFINE e == Escaped(c)
<1> HIDE DEF e
<1>3. e \in Str /\ NoTab(e)
  BY <1>1, <1>2 DEF e
<1>4. /\ Len(t \o e) = Len(t) + Len(e) /\ Len(t) \in Nat /\ Len(e) \in Nat
      /\ \A i \in 1 .. Len(t) + Len(e) : (t \o e)[i] = IF i <= Len(t) THEN t[i] ELSE e[i - Len(t)]
  BY <1>3, ConcatProperties, LenProperties DEF Str
<1>5. NoTab(t \o e)
  <2> SUFFICES ASSUME NEW i \in 1 .. Len(t) + Len(e) PROVE (t \o e)[i] # "tab"
    BY <1>4 DEF NoTab
  <2>1. CASE i <= Len(t)
    <3>1. i \in 1 .. Len(t)  BY <1>4, <2>1
    <3>2. (t \o e)[i] = t[i]  BY <1>4, <2>1
    <3> QED  BY <3>1, <3>2 DEF NoTab
  <2>2. CASE ~(i <= Len(t))
    <3>1. i - Len(t) \in 1 .. Len(e)  BY <1>4, <2>2
    <3>2. (t \o e)[i] = e[i - Len(t)]  BY <1>4, <2>2
    <3> QED  BY <1>3, <3>1, <3>2 DEF NoTab
  <2> QED  BY <2>1, <2>2
<1> QED
  BY <1>5 DEF e

(* A prefix grows by one member.                                               *)
LEMMA PrefixLonger ==
  ASSUME NEW S, NEW l \in Seq(S), NEW k \in 0 .. Len(l) - 1
  PROVE  SubSeq(l, 1, k + 1) = Append(SubSeq(l, 1, k), l[k + 1]) /\ SubSeq(l, 1, k) \in Seq(S)
<1>1. Len(l) \in Nat /\ 1 \in 1 .. Len(l) /\ k + 1 \in 1 .. Len(l) /\ (k + 1) - 1 = k
  BY LenProperties
<1>2. SubSeq(l, 1, k + 1) = SubSeq(l, 1, (k + 1) - 1) \o << l[k + 1] >>
  BY <1>1, SubSeqRecursiveSecond
<1>3. SubSeq(l, 1, k) \in Seq(S)
  <2>1. \A i \in 1 .. k : l[i] \in S  BY <1>1, ElementOfSeq
  <2> QED  BY <2>1, SubSeqProperties
<1>4. l[k + 1] \in S
  BY <1>1, ElementOfSeq
<1> QED
  BY <1>1, <1>2, <1>3, <1>4, AppendIsConcat

(* What is escaped has no tab and is read back as it was.                      *)
LEMMA EscapeReads ==
  ASSUME NEW s \in Str
  PROVE  Escape(s) \in Str /\ NoTab(Escape(s)) /\ Unescape(Escape(s)) = s
<1> DEFINE n == Len(s)
<1>1. n \in Nat /\ \A i \in 1 .. n : s[i] \in Letters
  BY LenProperties, ElementOfSeq DEF Str
<1>2. PICK f \in [0 .. n -> Str] :
        /\ f[0] = << >>
        /\ \A k \in 1 .. n : f[k] = f[k - 1] \o Escaped(s[k])
        /\ Escape(s) = f[n]
  BY EscapeInSteps
<1> DEFINE p(k) == SubSeq(s, 1, k)
           S == {k \in 0 .. n : NoTab(f[k]) /\ ReadAll(f[k]) = [out |-> p(k), bs |-> FALSE]}
<1> HIDE DEF n
<1>3. 0 \in S
  <2>1. 0 \in 0 .. n  BY <1>1
  <2>2. p(0) = << >>  BY SubSeqEmpty
  <2>3. ReadAll(f[0]) = Fresh  BY <1>2, ReadOfEmpty
  <2>4. Len(<< >>) = 0  OBVIOUS
  <2>5. NoTab(f[0])  BY <1>2, <2>4 DEF NoTab
  <2> QED  BY <2>1, <2>2, <2>3, <2>5 DEF Fresh
<1>4. ASSUME NEW k \in 0 .. n - 1, k \in S PROVE k + 1 \in S
  <2>1. k + 1 \in 1 .. n /\ k + 1 \in 0 .. n /\ (k + 1) - 1 = k /\ k \in 0 .. n  BY <1>1
  <2>2. f[k] \in Str /\ NoTab(f[k]) /\ ReadAll(f[k]) = [out |-> p(k), bs |-> FALSE]  BY <1>2, <1>4, <2>1
  <2>3. s[k + 1] \in Letters  BY <1>1, <2>1
  <2>4. f[k + 1] = f[k] \o Escaped(s[k + 1])  BY <1>2, <2>1
  <2>5. p(k) \in Str /\ p(k + 1) = Append(p(k), s[k + 1])
    <3>1. k \in 0 .. Len(s) - 1  BY DEF n
    <3>2. SubSeq(s, 1, k + 1) = Append(SubSeq(s, 1, k), s[k + 1]) /\ SubSeq(s, 1, k) \in Seq(Letters)
      BY <3>1, PrefixLonger DEF Str
    <3> QED  BY <3>2 DEF Str
  <2> HIDE DEF p
  <2>6. ReadAll(f[k] \o Escaped(s[k + 1])) = [out |-> Append(p(k), s[k + 1]), bs |-> FALSE]
    BY <2>2, <2>3, <2>5, ReadOfEscaped
  <2>7. NoTab(f[k] \o Escaped(s[k + 1]))  BY <2>2, <2>3, EscapedHasNoTab
  <2> QED  BY <2>1, <2>4, <2>5, <2>6, <2>7
<1>5. n \in S
  <2>1. 0 .. n \subseteq S
    <3> HIDE DEF S
    <3> QED  BY <1>1, <1>3, <1>4, IntervalInduction
  <2>2. n \in 0 .. n  BY <1>1
  <2> HIDE DEF S
  <2> QED  BY <2>1, <2>2
<1>6. p(n) = s
  BY SubSeqFull DEF Str, n
<1> HIDE DEF p
<1>7. ReadAll(Escape(s)) = [out |-> s, bs |-> FALSE] /\ NoTab(Escape(s))
  BY <1>2, <1>5, <1>6
<1>8. Escape(s) \in Str
  <2>1. n \in 0 .. n  BY <1>1
  <2> QED  BY <1>2, <2>1
<1>9. Unescape(Escape(s)) = s
  BY <1>7 DEF Unescape, ReadAll, Fresh
<1> QED
  BY <1>7, <1>8, <1>9

-----------------------------------------------------------------------------
(* The lines of the cache file: what is written, and what is left of it after  *)
(* a line was read that is too long.                                           *)
Begun(k, v, j) == SubSeq(Line(k, v), 1, j)
Begins(l, k, v) ==
  \E j \in Int : Len(Escape(k)) < j /\ j <= Len(Line(k, v)) /\ l = Begun(k, v, j)
Lines == {l \in Str : \E k \in CacheKeys, v \in CacheValues : Begins(l, k, v)}
LineKey(l) == Unescape(KeyOf(l))
LineVal(l) == Decoded(ValueOf(AsRead(l)))

LEMMA CacheIsText ==
  /\ \A k \in CacheKeys \cup CacheValues : k \in Str
  /\ MaxLine \in Nat
  /\ \A k \in CacheKeys : Len(Escape(k)) < MaxLine
<1>1. CacheKeys \cup CacheValues \subseteq Seq(STRING) /\ MaxLine \in Nat
  BY SettingsAssumption
<1>2. \A k \in Seq(STRING) : k \in Str
  BY DEF Str, Letters
<1> QED
  BY <1>1, <1>2, KeysFit

(* Where the key of a line ends.                                               *)
LEMMA TabIsBehindKey ==
  ASSUME NEW l \in Str, NEW m \in Nat, m < Len(l), l[m + 1] = "tab", \A i \in 1 .. m : l[i] # "tab"
  PROVE  TabIn(l) = m + 1
<1> DEFINE I == {i \in 1 .. Len(l) : l[i] = "tab"}
<1>1. TabIn(l) = IF I # {} THEN Min(I) ELSE 0
  BY DEF TabIn, SelectInSeq
<1>2. Len(l) \in Nat
  BY LenProperties DEF Str
<1>3. m + 1 \in I /\ I \subseteq Nat /\ \A i \in I : m + 1 <= i
  <2>1. m + 1 \in 1 .. Len(l)  BY <1>2
  <2>2. ASSUME NEW i \in I PROVE m + 1 <= i
    <3>1. i \in Nat /\ i >= 1 /\ ~(i \in 1 .. m)  BY <2>2
    <3> QED  BY <3>1
  <2> QED  BY <2>1, <2>2
<1> HIDE DEF I
<1>4. Min(I) \in I /\ \A i \in I : Min(I) <= i
  BY <1>3, MinOfNats
<1>5. Min(I) \in Nat /\ Min(I) <= m + 1 /\ m + 1 <= Min(I)
  BY <1>3, <1>4
<1> QED
  BY <1>1, <1>3, <1>5

LEMMA PrefixIs ==
  ASSUME NEW S, NEW s \in Seq(S), NEW m \in Int, 0 <= m, m <= Len(s)
  PROVE  /\ SubSeq(s, 1, m) \in Seq(S) /\ Len(SubSeq(s, 1, m)) = m
         /\ \A i \in 1 .. m : SubSeq(s, 1, m)[i] = s[i]
<1>1. \A i \in 1 .. m : i \in 1 .. Len(s) /\ s[i] \in S
  BY LenProperties, ElementOfSeq
<1> DEFINE ss == SubSeq(s, 1, m)
<1>2. /\ ss \in Seq(S) /\ Len(ss) = IF 1 <= m THEN m - 1 + 1 ELSE 0
      /\ \A i \in 1 .. m - 1 + 1 : ss[i] = s[1 + i - 1]
  BY <1>1, SubSeqProperties
<1> HIDE DEF ss
<1>3. m - 1 + 1 = m /\ (IF 1 <= m THEN m - 1 + 1 ELSE 0) = m /\ \A i \in 1 .. m : 1 + i - 1 = i
  OBVIOUS
<1>4. ss \in Seq(S) /\ Len(ss) = m /\ \A i \in 1 .. m : ss[i] = s[i]
  BY <1>2, <1>3
<1> QED
  BY <1>4 DEF ss

(* What is behind the first of two sequences.                                  *)
LEMMA BehindConcat ==
  ASSUME NEW u \in Str, NEW v \in Str
  PROVE  SubSeq(u \o v, Len(u) + 1, Len(u \o v)) = v
<1> DEFINE w == u \o v  m == Len(u)  n == Len(v)  i == m + 1  l == m + n  ss == SubSeq(w, i, l)
<1>1. /\ w \in Seq(Letters) /\ Len(w) = m + n /\ m \in Nat /\ n \in Nat
      /\ \A d \in 1 .. m + n : w[d] = IF d <= m THEN u[d] ELSE v[d - m]
      /\ \A d \in 1 .. Len(w) : w[d] \in Letters
  BY ConcatProperties, LenProperties, ElementOfSeq DEF Str
<1> HIDE DEF w, m, n
<1>2. i \in Int /\ l \in Int /\ \A d \in i .. l : w[d] \in Letters
  <2>1. \A d \in i .. l : d \in 1 .. Len(w)  BY <1>1
  <2> QED  BY <1>1, <2>1
<1>3. (IF i <= l THEN l - i + 1 ELSE 0) = n /\ l - i + 1 = n
  BY <1>1
<1> HIDE DEF i, l, ss
<1>4. /\ ss \in Seq(Letters) /\ Len(ss) = IF i <= l THEN l - i + 1 ELSE 0
      /\ \A d \in 1 .. l - i + 1 : ss[d] = w[i + d - 1]
  BY <1>1, <1>2, SubSeqProperties DEF ss
<1>5. ASSUME NEW d \in 1 .. n PROVE ss[d] = v[d]
  <2>1. i + d - 1 = m + d /\ m + d \in 1 .. m + n /\ ~(m + d <= m) /\ (m + d) - m = d
    BY <1>1 DEF i
  <2>2. w[m + d] = v[d]  BY <1>1, <2>1
  <2> QED  BY <1>3, <1>4, <2>1, <2>2
<1>6. ss = v
  <2>1. v \in Seq(Letters) /\ Len(v) = n  BY DEF n, Str
  <2>2. Len(ss) = n /\ ss \in Seq(Letters)  BY <1>3, <1>4
  <2> QED  BY <1>5, <2>1, <2>2, SeqEqual
<1>7. Len(w) = l
  BY <1>1 DEF l
<1> QED
  BY <1>6, <1>7 DEF ss, w, i, m

(* A value with its tag, and what is left when the tag is taken off.           *)
LEMMA TaggedIs ==
  ASSUME NEW v \in Str
  PROVE  Tagged(v) \in Str /\ Decoded(Tagged(v)) = v
<1> DEFINE t == Tag  x == Escape(v)  w == t \o x
<1>1. x \in Str /\ Unescape(x) = v
  BY EscapeReads
<1>2. t \in Str /\ Len(t) = 2 /\ t = << "s", ":" >>
  <2>1. t = << "s", ":" >>  BY DEF Tag
  <2>2. "s" \in Letters /\ ":" \in Letters  BY DEF Letters
  <2> HIDE DEF t
  <2> QED  BY <2>1, <2>2 DEF Str
<1>3. Tagged(v) = w
  BY DEF Tagged
<1> HIDE DEF t, x
<1>4. /\ w \in Seq(Letters) /\ Len(w) = 2 + Len(x) /\ Len(x) \in Nat
      /\ \A i \in 1 .. 2 + Len(x) : w[i] = IF i <= 2 THEN t[i] ELSE x[i - 2]
  BY <1>1, <1>2, ConcatProperties, LenProperties DEF Str
<1>5. SubSeq(w, 3, Len(w)) = x
  <2>1. SubSeq(w, Len(t) + 1, Len(w)) = x  BY <1>1, <1>2, BehindConcat
  <2>2. Len(t) + 1 = 3  BY <1>2
  <2> QED  BY <2>1, <2>2
<1> HIDE DEF w
<1>6. SubSeq(w, 1, 2) = t
  <2> DEFINE ss == SubSeq(w, 1, 2)
  <2>1. ss \in Seq(Letters) /\ Len(ss) = 2 /\ \A i \in 1 .. 2 : ss[i] = w[i]
    BY <1>4, PrefixIs
  <2> HIDE DEF ss
  <2>2. \A i \in 1 .. 2 : ss[i] = t[i]  BY <1>4, <2>1
  <2>3. t \in Seq(Letters) /\ Len(t) = 2  BY <1>2 DEF Str
  <2>4. ss = t  BY <2>1, <2>2, <2>3, SeqEqual
  <2> QED  BY <2>4 DEF ss
<1>7. IsPrefix(t, w)
  <2>1. SubSeq(t, 1, Len(t)) = t  BY <1>2, SubSeqFull DEF Str
  <2>2. Len(t) <= Len(w) /\ SubSeq(w, 1, Len(t)) = t  BY <1>2, <1>4, <1>6
  <2> QED  BY <2>1, <2>2 DEF IsPrefix
<1>8. Decoded(w) = v
  <2>1. IsPrefix(Tag, w)  BY <1>7 DEF t
  <2>2. Decoded(w) = Unescape(SubSeq(w, 3, Len(w)))  BY <2>1 DEF Decoded
  <2> QED  BY <1>1, <1>5, <2>2
<1> QED
  BY <1>3, <1>4, <1>8 DEF Str

(* The beginning of a line, up to behind the tab at least.                     *)
LEMMA BeginningOfLine ==
  ASSUME NEW k \in CacheKeys, NEW v \in CacheValues,
         NEW j \in Int, Len(Escape(k)) < j, j <= Len(Line(k, v))
  PROVE  /\ Begun(k, v, j) \in Str /\ Len(Begun(k, v, j)) = j
         /\ j \in Nat /\ Len(Escape(k)) \in Nat
         /\ TabIn(Begun(k, v, j)) = Len(Escape(k)) + 1
         /\ KeyOf(Begun(k, v, j)) = Escape(k) /\ LineKey(Begun(k, v, j)) = k
         /\ Line(k, v) \in Str
<1> DEFINE l == Begun(k, v, j)  e == Escape(k)  x == Tagged(v)  w == Line(k, v)  t == << "tab" >>  m == Len(e)
<1>1. e \in Str /\ x \in Str /\ NoTab(e) /\ Unescape(e) = k
  BY CacheIsText, EscapeReads, TaggedIs
<1>2. t \in Str /\ Len(t) = 1 /\ t[1] = "tab"
  BY DEF Str, Letters
<1>3. w = (e \o t) \o x
  BY DEF Line
<1> HIDE DEF e, x, w, t, l
<1>4. m \in Nat /\ m = Len(e) /\ Len(x) \in Nat /\ \A i \in 1 .. m : e[i] # "tab"
  BY <1>1, LenProperties DEF Str, NoTab
<1>5. /\ e \o t \in Str /\ Len(e \o t) = m + 1
      /\ \A i \in 1 .. m : (e \o t)[i] = e[i]
      /\ (e \o t)[m + 1] = "tab"
  <2>1. /\ e \o t \in Seq(Letters) /\ Len(e \o t) = m + 1
        /\ \A i \in 1 .. m + 1 : (e \o t)[i] = IF i <= m THEN e[i] ELSE t[i - m]
    <3> DEFINE et == e \o t
    <3>1. e \in Seq(Letters) /\ t \in Seq(Letters) /\ Len(e) = m  BY <1>1, <1>2 DEF Str, m
    <3>2. /\ et \in Seq(Letters) /\ Len(et) = Len(e) + Len(t)
          /\ \A i \in 1 .. Len(e) + Len(t) : et[i] = IF i <= Len(e) THEN e[i] ELSE t[i - Len(e)]
      BY <3>1, ConcatProperties
    <3> HIDE DEF et
    <3>3. /\ et \in Seq(Letters) /\ Len(et) = m + 1
          /\ \A i \in 1 .. m + 1 : et[i] = IF i <= m THEN e[i] ELSE t[i - m]
      BY <1>2, <3>1, <3>2
    <3> QED  BY <3>3 DEF et
  <2>2. \A i \in 1 .. m : i \in 1 .. m + 1 /\ i <= m  BY <1>4
  <2>3. m + 1 \in 1 .. m + 1 /\ ~(m + 1 <= m) /\ (m + 1) - m = 1  BY <1>4
  <2> QED  BY <1>2, <2>1, <2>2, <2>3 DEF Str
<1>6. /\ w \in Str /\ Len(w) = m + 1 + Len(x) /\ Len(w) \in Nat
      /\ \A i \in 1 .. m + 1 : w[i] = (e \o t)[i]
  <2> DEFINE et == e \o t
  <2> HIDE DEF et
  <2>1. et \in Seq(Letters) /\ x \in Seq(Letters) /\ Len(et) = m + 1 /\ w = et \o x
    BY <1>1, <1>3, <1>5 DEF Str, et
  <2>2. /\ et \o x \in Seq(Letters) /\ Len(et \o x) = Len(et) + Len(x)
        /\ \A i \in 1 .. Len(et) + Len(x) : (et \o x)[i] = IF i <= Len(et) THEN et[i] ELSE x[i - Len(et)]
    BY <2>1, ConcatProperties
  <2>3. \A i \in 1 .. m + 1 : i \in 1 .. Len(et) + Len(x) /\ i <= Len(et)  BY <1>4, <2>1
  <2>4. \A i \in 1 .. m + 1 : w[i] = et[i]  BY <2>1, <2>2, <2>3
  <2> QED  BY <1>4, <2>1, <2>2, <2>4 DEF et, Str
<1> HIDE DEF m
<1>7. m < j /\ j <= Len(w) /\ l = SubSeq(w, 1, j)
  BY DEF e, w, m, l, Begun
<1>8. l \in Str /\ Len(l) = j /\ \A i \in 1 .. j : l[i] = w[i]
  <2>1. w \in Seq(Letters) /\ 0 <= j /\ j <= Len(w)  BY <1>4, <1>6, <1>7 DEF Str
  <2> QED  BY <1>7, <2>1, PrefixIs DEF Str
<1>9. m < Len(l) /\ m + 1 \in 1 .. j /\ \A i \in 1 .. m : i \in 1 .. j /\ i \in 1 .. m + 1
  BY <1>4, <1>6, <1>7, <1>8
<1>10. l[m + 1] = "tab" /\ \A i \in 1 .. m : l[i] = e[i]
  <2>1. m + 1 \in 1 .. m + 1  BY <1>4
  <2> QED  BY <1>5, <1>6, <1>8, <1>9, <2>1
<1>11. TabIn(l) = m + 1
  <2>1. \A i \in 1 .. m : l[i] # "tab"  BY <1>4, <1>10
  <2> QED  BY <1>4, <1>8, <1>9, <1>10, <2>1, TabIsBehindKey
<1>12. KeyOf(l) = e
  <2>1. KeyOf(l) = SubSeq(l, 1, m)
    <3>1. TabIn(l) - 1 = m  BY <1>4, <1>11
    <3> QED  BY <3>1 DEF KeyOf
  <2>2. l \in Seq(Letters) /\ m \in Int /\ 0 <= m /\ m <= Len(l)
    BY <1>4, <1>8, <1>9 DEF Str
  <2> DEFINE ss == SubSeq(l, 1, m)
  <2>3. ss \in Seq(Letters) /\ Len(ss) = m /\ \A i \in 1 .. m : ss[i] = l[i]
    BY <2>2, PrefixIs
  <2> HIDE DEF ss
  <2>5. Len(ss) = m /\ \A i \in 1 .. m : ss[i] = e[i]  BY <1>10, <2>3
  <2>6. ss = e
    <3>1. e \in Seq(Letters) /\ Len(e) = m  BY <1>1 DEF Str, m
    <3> QED  BY <2>3, <2>5, <3>1, SeqEqual
  <2> QED  BY <2>1, <2>6 DEF ss
<1>13. LineKey(l) = k
  BY <1>1, <1>12 DEF LineKey
<1>14. j \in Nat
  BY <1>4, <1>6, <1>7
<1> QED
  BY <1>4, <1>6, <1>8, <1>11, <1>12, <1>13, <1>14 DEF e, w, m, l

(* What fgets gives of a line.                                                 *)
LEMMA AsReadIs ==
  ASSUME NEW l \in Str
  PROVE  /\ Len(l) <= MaxLine => AsRead(l) = l
         /\ Len(l) > MaxLine => AsRead(l) = SubSeq(l, 1, MaxLine)
         /\ Len(l) \in Nat
<1>1. Len(l) \in Nat /\ MaxLine \in Nat
  BY CacheIsText, LenProperties DEF Str
<1>2. Min({Len(l), MaxLine}) = IF Len(l) <= MaxLine THEN Len(l) ELSE MaxLine
  BY <1>1, MinMaxOfTwo
<1>3. SubSeq(l, 1, Len(l)) = l
  BY SubSeqFull DEF Str
<1>4. CASE Len(l) <= MaxLine
  BY <1>1, <1>2, <1>3, <1>4 DEF AsRead
<1>5. CASE ~(Len(l) <= MaxLine)
  BY <1>1, <1>2, <1>5 DEF AsRead
<1> QED
  BY <1>1, <1>4, <1>5

(* A part of a part.                                                           *)
LEMMA BeginningOfBeginning ==
  ASSUME NEW w \in Str, NEW j \in 1 .. Len(w), NEW i \in 1 .. j
  PROVE  SubSeq(SubSeq(w, 1, j), 1, i) = SubSeq(w, 1, i)
<1>1. Len(w) \in Nat /\ \A n \in 1 .. Len(w) : w[n] \in Letters
  BY LenProperties, ElementOfSeq DEF Str
<1> DEFINE u == SubSeq(w, 1, j)  x == SubSeq(u, 1, i)  y == SubSeq(w, 1, i)
<1>2. u \in Str /\ Len(u) = j /\ \A n \in 1 .. j : u[n] = w[n]
  <2>1. w \in Seq(Letters) /\ j \in Int /\ 0 <= j /\ j <= Len(w)  BY <1>1 DEF Str
  <2> QED  BY <2>1, PrefixIs DEF Str
<1> HIDE DEF u
<1>3. x \in Str /\ Len(x) = i /\ \A n \in 1 .. i : x[n] = u[n]
  <2>1. u \in Seq(Letters) /\ i \in Int /\ 0 <= i /\ i <= Len(u)  BY <1>1, <1>2 DEF Str
  <2> QED  BY <2>1, PrefixIs DEF Str
<1>4. y \in Str /\ Len(y) = i /\ \A n \in 1 .. i : y[n] = w[n]
  <2>1. w \in Seq(Letters) /\ i \in Int /\ 0 <= i /\ i <= Len(w)  BY <1>1 DEF Str
  <2> QED  BY <2>1, PrefixIs DEF Str
<1> HIDE DEF x, y
<1>5. \A n \in 1 .. i : x[n] = y[n]
  <2>1. \A n \in 1 .. i : n \in 1 .. j  OBVIOUS
  <2> QED  BY <1>2, <1>3, <1>4, <2>1
<1>6. x = y
  BY <1>3, <1>4, <1>5, SeqEqual DEF Str
<1> QED
  BY <1>6 DEF x, y, u

(* Reading cuts what is too long, and nothing more when it is read again.      *)
LEMMA LineIs ==
  ASSUME NEW l \in Lines
  PROVE  /\ l \in Str /\ LineKey(l) \in CacheKeys
         /\ \A k \in CacheKeys : KeyOf(l) = Escape(k) <=> LineKey(l) = k
         /\ AsRead(l) \in Lines /\ LineKey(AsRead(l)) = LineKey(l)
         /\ LineVal(AsRead(l)) = LineVal(l)
<1>0. PICK k \in CacheKeys, v \in CacheValues :
        Begins(l, k, v)
  BY DEF Lines
<1>1. PICK j \in Int : Len(Escape(k)) < j /\ j <= Len(Line(k, v)) /\ l = Begun(k, v, j)
  BY <1>0 DEF Begins
<1>2. /\ l \in Str /\ Len(l) = j /\ j \in Nat /\ Len(Escape(k)) \in Nat
      /\ KeyOf(l) = Escape(k) /\ LineKey(l) = k /\ Line(k, v) \in Str
  BY <1>1, BeginningOfLine
<1>3. \A q \in CacheKeys : KeyOf(l) = Escape(q) <=> LineKey(l) = q
  <2> SUFFICES ASSUME NEW q \in CacheKeys, KeyOf(l) = Escape(q) PROVE LineKey(l) = q
    BY <1>2
  <2>1. Unescape(Escape(q)) = q  BY CacheIsText, EscapeReads
  <2> QED  BY <2>1 DEF LineKey
<1>4. CASE Len(l) <= MaxLine
  <2>1. AsRead(l) = l  BY <1>2, <1>4, AsReadIs
  <2> QED  BY <1>2, <1>3, <2>1
<1>5. CASE ~(Len(l) <= MaxLine)
  <2> DEFINE a == AsRead(l)
  <2>0. MaxLine \in Nat /\ Len(Escape(k)) < MaxLine  BY CacheIsText
  <2>1. a = SubSeq(l, 1, MaxLine)  BY <1>2, <1>5, <2>0, AsReadIs
  <2>2. Len(Line(k, v)) \in Nat  BY <1>2, LenProperties DEF Str
  <2>3. MaxLine \in 1 .. j /\ j \in 1 .. Len(Line(k, v))
        /\ MaxLine \in Int /\ Len(Escape(k)) < MaxLine /\ MaxLine <= Len(Line(k, v))
    BY <1>1, <1>2, <1>5, <2>0, <2>2
  <2>4. a = Begun(k, v, MaxLine)
    <3>1. SubSeq(SubSeq(Line(k, v), 1, j), 1, MaxLine) = SubSeq(Line(k, v), 1, MaxLine)
      BY <1>2, <2>3, BeginningOfBeginning
    <3> QED  BY <1>1, <2>1, <3>1 DEF Begun
  <2> HIDE DEF a
  <2>6. LineKey(a) = k /\ a \in Str /\ Len(a) = MaxLine
    <3>1. MaxLine \in Int /\ Len(Escape(k)) < MaxLine /\ MaxLine <= Len(Line(k, v))  BY <2>3
    <3> QED  BY <2>4, <3>1, BeginningOfLine
  <2>10. Begins(a, k, v)  BY <2>3, <2>4 DEF Begins
  <2>5. a \in Lines  BY <2>6, <2>10 DEF Lines
  <2>7. Len(a) <= MaxLine  BY <2>0, <2>6
  <2>8. AsRead(a) = a  BY <2>6, <2>7, AsReadIs
  <2>9. LineVal(a) = LineVal(l)  BY <2>8 DEF LineVal, a
  <2> QED  BY <1>2, <1>3, <2>5, <2>6, <2>9 DEF a
<1> QED
  BY <1>4, <1>5

(* A line as it is written.                                                    *)
LEMMA NewLine ==
  ASSUME NEW k \in CacheKeys, NEW v \in CacheValues
  PROVE  /\ Line(k, v) \in Lines /\ LineKey(Line(k, v)) = k
         /\ Len(Line(k, v)) <= MaxLine => LineVal(Line(k, v)) = v
<1> DEFINE e == Escape(k)  x == Tagged(v)  w == Line(k, v)  t == << "tab" >>
<1>1. e \in Str /\ x \in Str /\ Decoded(x) = v
  BY CacheIsText, EscapeReads, TaggedIs
<1>2. t \in Str /\ Len(t) = 1
  BY DEF Str, Letters
<1>3. w = (e \o t) \o x
  BY DEF Line
<1> HIDE DEF e, x, w, t
<1> DEFINE et == e \o t
<1>4. et \in Str /\ Len(et) = Len(e) + 1 /\ Len(e) \in Nat /\ Len(x) \in Nat
  <2>1. e \in Seq(Letters) /\ t \in Seq(Letters) /\ x \in Seq(Letters)  BY <1>1, <1>2 DEF Str
  <2>2. et \in Seq(Letters) /\ Len(et) = Len(e) + Len(t)  BY <2>1, ConcatProperties
  <2> HIDE DEF et
  <2>3. Len(e) \in Nat /\ Len(x) \in Nat  BY <2>1, LenProperties
  <2> QED  BY <1>2, <2>2, <2>3 DEF Str
<1> HIDE DEF et
<1>5. w = et \o x
  BY <1>3 DEF et
<1>6. w \in Str /\ Len(w) = Len(e) + 1 + Len(x)
  BY <1>1, <1>4, <1>5, ConcatProperties DEF Str
<1>7. Len(w) \in Len(e) + 1 .. Len(w) /\ w = SubSeq(w, 1, Len(w))
  <2>1. Len(w) \in Len(e) + 1 .. Len(w)  BY <1>4, <1>6
  <2> QED  BY <1>6, <2>1, SubSeqFull DEF Str
<1>8. w \in Lines /\ LineKey(w) = k /\ TabIn(w) = Len(e) + 1
  <2>1. /\ Len(w) \in Int /\ Len(Escape(k)) < Len(w) /\ Len(w) <= Len(Line(k, v))
        /\ w = Begun(k, v, Len(w))
    <3>1. Len(w) \in Int /\ Len(e) < Len(w)  BY <1>4, <1>6
    <3>2. Len(w) <= Len(Line(k, v))  BY <3>1 DEF w
    <3>3. w = Begun(k, v, Len(w))  BY <1>7 DEF w, Begun
    <3> QED  BY <3>1, <3>2, <3>3 DEF e
  <2>4. Begins(w, k, v)  BY <2>1 DEF Begins
  <2>2. w \in Lines  BY <1>6, <2>4 DEF Lines
  <2>3. LineKey(w) = k /\ TabIn(w) = Len(Escape(k)) + 1  BY <2>1, BeginningOfLine
  <2> QED  BY <2>2, <2>3 DEF e
<1>9. ValueOf(w) = x
  <2>1. ValueOf(w) = SubSeq(w, Len(et) + 1, Len(w))  BY <1>4, <1>8 DEF ValueOf
  <2>2. SubSeq(et \o x, Len(et) + 1, Len(et \o x)) = x  BY <1>1, <1>4, BehindConcat
  <2> QED  BY <1>5, <2>1, <2>2
<1>10. ASSUME Len(w) <= MaxLine PROVE LineVal(w) = v
  <2>1. AsRead(w) = w  BY <1>6, <1>10, AsReadIs
  <2> QED  BY <1>1, <1>9, <2>1 DEF LineVal
<1> QED
  BY <1>8, <1>10 DEF w

-----------------------------------------------------------------------------
(* What is found for a key in lines: the value of the first line of the key.   *)
GetOf(ls, k) ==
  LET i == SelectInSeq(ls, LAMBDA l : Unescape(KeyOf(l)) = k)
  IN IF i = 0 THEN Nil ELSE Decoded(ValueOf(AsRead(ls[i])))
HasKey(ls, k) == \E i \in 1 .. Len(ls) : LineKey(ls[i]) = k
FirstOf(ls, k, i) == LineKey(ls[i]) = k /\ \A j \in 1 .. Len(ls) : j < i => LineKey(ls[j]) # k

LEMMA GetIs ==
  ASSUME NEW ls \in Seq(Lines), NEW k
  PROVE  /\ Len(ls) \in Nat
         /\ ~HasKey(ls, k) => GetOf(ls, k) = Nil
         /\ \A i \in 1 .. Len(ls) : FirstOf(ls, k, i) => GetOf(ls, k) = LineVal(ls[i])
         /\ HasKey(ls, k) => \E i \in 1 .. Len(ls) : FirstOf(ls, k, i)
<1> DEFINE n == Len(ls)  I == {i \in 1 .. n : LineKey(ls[i]) = k}
           s == SelectInSeq(ls, LAMBDA l : Unescape(KeyOf(l)) = k)
<1>1. n \in Nat
  BY LenProperties
<1>2. s = IF I # {} THEN Min(I) ELSE 0
  BY DEF SelectInSeq, LineKey
<1>3. GetOf(ls, k) = IF s = 0 THEN Nil ELSE LineVal(ls[s])
  BY DEF GetOf, LineVal
<1> HIDE DEF s
<1>4. ASSUME ~HasKey(ls, k) PROVE GetOf(ls, k) = Nil
  <2>1. I = {}  BY <1>4 DEF HasKey
  <2> HIDE DEF I
  <2> QED  BY <1>2, <1>3, <2>1
<1>5. ASSUME NEW i \in I PROVE Min(I) \in I /\ \A y \in I : Min(I) <= y
  <2>1. I \subseteq Nat /\ I # {}  BY <1>5
  <2> HIDE DEF I
  <2> QED  BY <2>1, MinOfNats
<1>6. ASSUME NEW i \in 1 .. n, FirstOf(ls, k, i) PROVE GetOf(ls, k) = LineVal(ls[i])
  <2>1. i \in I  BY <1>6 DEF FirstOf
  <2>2. Min(I) \in I /\ Min(I) <= i  BY <1>5, <2>1
  <2>3. I # {}  BY <2>1
  <2>4. Min(I) \in 1 .. n /\ LineKey(ls[Min(I)]) = k  BY <2>2
  <2> HIDE DEF I
  <2>5. ~(Min(I) < i)  BY <1>6, <2>4 DEF FirstOf
  <2>6. Min(I) = i /\ i # 0  BY <2>2, <2>4, <2>5
  <2>7. s = i  BY <1>2, <2>3, <2>6
  <2> QED  BY <1>3, <2>6, <2>7
<1>7. ASSUME HasKey(ls, k) PROVE \E i \in 1 .. n : FirstOf(ls, k, i)
  <2>1. PICK i \in 1 .. n : LineKey(ls[i]) = k  BY <1>7 DEF HasKey
  <2>2. i \in I  BY <2>1
  <2>3. Min(I) \in I /\ \A y \in I : Min(I) <= y  BY <1>5, <2>2
  <2> DEFINE m == Min(I)
  <2>4. m \in 1 .. n /\ LineKey(ls[m]) = k  BY <2>3
  <2>5. \A j \in 1 .. n : LineKey(ls[j]) = k => m <= j  BY <2>3
  <2> HIDE DEF m, I
  <2>6. \A j \in 1 .. n : j < m => LineKey(ls[j]) # k  BY <2>4, <2>5
  <2>7. FirstOf(ls, k, m)  BY <2>4, <2>6 DEF FirstOf
  <2> QED  BY <2>4, <2>7
<1> QED
  BY <1>1, <1>4, <1>6, <1>7

LEMMA CacheGetIs == \A k : CacheGet(k) = GetOf(cache, k)
  BY DEF CacheGet, GetOf

(* Lines of the same keys, as many, that have the same values for a key.       *)
LEMMA SameKeysSameValue ==
  ASSUME NEW a \in Seq(Lines), NEW b \in Seq(Lines), Len(a) = Len(b), NEW k,
         \A i \in 1 .. Len(a) : LineKey(a[i]) = LineKey(b[i]),
         \A i \in 1 .. Len(a) : LineKey(a[i]) = k => LineVal(a[i]) = LineVal(b[i])
  PROVE  (HasKey(a, k) <=> HasKey(b, k)) /\ GetOf(a, k) = GetOf(b, k)
<1>1. HasKey(a, k) <=> HasKey(b, k)
  BY DEF HasKey
<1>2. CASE ~HasKey(a, k)
  BY <1>1, <1>2, GetIs
<1>3. CASE HasKey(a, k)
  <2>1. PICK i \in 1 .. Len(a) : FirstOf(a, k, i)  BY <1>3, GetIs
  <2>2. FirstOf(b, k, i) /\ LineKey(a[i]) = k  BY <2>1 DEF FirstOf
  <2>3. GetOf(a, k) = LineVal(a[i])  BY <2>1, GetIs
  <2>4. i \in 1 .. Len(b)  OBVIOUS
  <2>5. GetOf(b, k) = LineVal(b[i])  BY <2>2, <2>4, GetIs
  <2> QED  BY <1>1, <2>2, <2>3, <2>5
<1> QED
  BY <1>2, <1>3

(* A line behind others is found for its key when none of them has the key.    *)
LEMMA GetOfAppended ==
  ASSUME NEW s \in Seq(Lines), NEW l \in Lines, NEW k
  PROVE  /\ Append(s, l) \in Seq(Lines)
         /\ HasKey(Append(s, l), k) <=> HasKey(s, k) \/ LineKey(l) = k
         /\ HasKey(s, k) => GetOf(Append(s, l), k) = GetOf(s, k)
         /\ ~HasKey(s, k) /\ LineKey(l) = k => GetOf(Append(s, l), k) = LineVal(l)
<1> DEFINE t == Append(s, l)  n == Len(s)
<1>1. n \in Nat /\ t \in Seq(Lines) /\ Len(t) = n + 1 /\ t[n + 1] = l /\ \A i \in 1 .. n : t[i] = s[i]
  BY AppendProperties, LenProperties
<1> HIDE DEF t
<1>2. \A i \in 1 .. Len(t) : i \in 1 .. n \/ i = n + 1
  BY <1>1
<1>3. n + 1 \in 1 .. Len(t) /\ \A i \in 1 .. n : i \in 1 .. Len(t)
  BY <1>1
<1>4. HasKey(t, k) <=> HasKey(s, k) \/ LineKey(l) = k
  <2>1. ASSUME HasKey(t, k) PROVE HasKey(s, k) \/ LineKey(l) = k
    BY <1>1, <1>2, <2>1 DEF HasKey
  <2>2. ASSUME HasKey(s, k) PROVE HasKey(t, k)
    BY <1>1, <1>3, <2>2 DEF HasKey
  <2>3. ASSUME LineKey(l) = k PROVE HasKey(t, k)
    BY <1>1, <1>3, <2>3 DEF HasKey
  <2> QED  BY <2>1, <2>2, <2>3
<1>5. ASSUME HasKey(s, k) PROVE GetOf(t, k) = GetOf(s, k)
  <2>1. PICK i \in 1 .. n : FirstOf(s, k, i)  BY <1>5, GetIs
  <2>2. GetOf(s, k) = LineVal(s[i])  BY <2>1, GetIs
  <2>3. \A j \in 1 .. Len(t) : j < i => j \in 1 .. n  BY <1>1, <1>2
  <2>4. LineKey(t[i]) = k  BY <1>1, <2>1 DEF FirstOf
  <2>5. \A j \in 1 .. Len(t) : j < i => LineKey(t[j]) # k  BY <1>1, <2>1, <2>3 DEF FirstOf
  <2>6. FirstOf(t, k, i)  BY <2>4, <2>5 DEF FirstOf
  <2>7. GetOf(t, k) = LineVal(t[i])  BY <1>1, <1>3, <2>6, GetIs
  <2> QED  BY <1>1, <2>2, <2>7
<1>6. ASSUME ~HasKey(s, k), LineKey(l) = k PROVE GetOf(t, k) = LineVal(l)
  <2>1. LineKey(t[n + 1]) = k  BY <1>1, <1>6
  <2>2. \A j \in 1 .. Len(t) : j < n + 1 => j \in 1 .. n  BY <1>1, <1>2
  <2>3. \A j \in 1 .. Len(t) : j < n + 1 => LineKey(t[j]) # k  BY <1>1, <1>6, <2>2 DEF HasKey
  <2>4. FirstOf(t, k, n + 1)  BY <2>1, <2>3 DEF FirstOf
  <2>5. GetOf(t, k) = LineVal(t[n + 1])  BY <1>1, <1>3, <2>4, GetIs
  <2> QED  BY <1>1, <2>5
<1> QED
  BY <1>1, <1>4, <1>5, <1>6 DEF t

-----------------------------------------------------------------------------
(* The lines without those of a key, one line after the other.                 *)
Keep(kept, l, k) == IF KeyOf(l) = Escape(k) THEN kept ELSE Append(kept, l)

LEMMA DroppedInSteps ==
  ASSUME NEW s \in Seq(Lines), NEW k
  PROVE  \E g \in [0 .. Len(s) -> Seq(Lines)] :
           /\ g[0] = << >>
           /\ \A i \in 1 .. Len(s) : g[i] = Keep(g[i - 1], s[i], k)
           /\ Dropped(s, k) = g[Len(s)]
<1> DEFINE n == Len(s)
           A == Seq(Lines)
           base == << >>
           step == [x \in A \X (1 .. n) |-> Keep(x[1], s[x[2]], k)]
           Eq(f) == f = [t \in SUBSET (1 .. n) |->
                           IF t = {} THEN base ELSE Keep(f[t \ {Max(t)}], s[Max(t)], k)]
<1>1. n \in Nat /\ DOMAIN s = 1 .. n /\ \A i \in 1 .. n : s[i] \in Lines
  OBVIOUS
<1>2. base \in A
  OBVIOUS
<1>a. \A a \in A, l \in Lines : Keep(a, l, k) \in A
  BY AppendProperties DEF Keep
<1>3. step \in [A \X (1 .. n) -> A]
  <2> SUFFICES ASSUME NEW x \in A \X (1 .. n) PROVE Keep(x[1], s[x[2]], k) \in A
    OBVIOUS
  <2>1. x[1] \in A /\ s[x[2]] \in Lines  BY <1>1
  <2> HIDE DEF A
  <2> QED  BY <1>a, <2>1
<1>4. PICK f \in [SUBSET (1 .. n) -> A] : \A t \in SUBSET (1 .. n) :
        f[t] = IF t = {} THEN base ELSE step[<< f[t \ {Max(t)}], Max(t) >>]
  <2> HIDE DEF step, A, n, base
  <2>1. Foldings(n, A, base, step) # {}
    BY <1>1, <1>2, <1>3, FoldExists
  <2> QED  BY <2>1 DEF Foldings
<1>5. ASSUME NEW t \in SUBSET (1 .. n), t # {}
      PROVE  step[<< f[t \ {Max(t)}], Max(t) >>] = Keep(f[t \ {Max(t)}], s[Max(t)], k)
  <2>1. Max(t) \in 1 .. n  BY <1>1, <1>5, MaxOfInterval
  <2>2. f[t \ {Max(t)}] \in A
    <3> HIDE DEF A
    <3> QED  BY <1>4
  <2> HIDE DEF A, n
  <2> QED  BY <2>1, <2>2
<1>6. Eq(f)
  <2> HIDE DEF A, n, step, base
  <2> QED  BY <1>4, <1>5
<1> DEFINE iter == CHOOSE it : Eq(it)
<1>7. Eq(iter)
  <2> HIDE DEF Eq
  <2> QED  BY <1>6
<1>8. Dropped(s, k) = iter[1 .. n]
  BY <1>1 DEF Dropped, FoldLeft, MapThenFoldSet, Keep
<1> HIDE DEF iter
<1> DEFINE g == [i \in 0 .. n |-> iter[1 .. i]]
<1>9. g[0] = base
  <2>1. 1 .. 0 = {} /\ 0 \in 0 .. n  BY <1>1
  <2> QED  BY <1>7, <2>1
<1>10. ASSUME NEW i \in 1 .. n PROVE g[i] = Keep(g[i - 1], s[i], k)
  <2>1. i \in 0 .. n /\ i - 1 \in 0 .. n  BY <1>1
  <2>2. iter[1 .. i] = IF 1 .. i = {} THEN base
                       ELSE Keep(iter[(1 .. i) \ {Max(1 .. i)}], s[Max(1 .. i)], k)
    BY <1>1, <1>7, FoldPasses
  <2> QED  BY <1>1, <2>1, <2>2, FoldPasses
<1>11. g[n] = iter[1 .. n]
  BY <1>1
<1>12. g \in [0 .. n -> A]
  <2> DEFINE G == {i \in 0 .. n : g[i] \in A}
  <2>1. 0 \in G
    <3>1. 0 \in 0 .. n  BY <1>1
    <3> HIDE DEF g, A, base
    <3> QED  BY <1>2, <1>9, <3>1
  <2>2. ASSUME NEW i \in 0 .. n - 1, i \in G PROVE i + 1 \in G
    <3>1. i + 1 \in 1 .. n /\ (i + 1) - 1 = i /\ i + 1 \in 0 .. n  BY <1>1
    <3> HIDE DEF g, A
    <3>2. g[i + 1] = Keep(g[i], s[i + 1], k)  BY <1>10, <3>1
    <3>3. g[i] \in A /\ s[i + 1] \in Lines  BY <1>1, <2>2, <3>1
    <3> QED  BY <1>a, <3>1, <3>2, <3>3
  <2>3. 0 .. n \subseteq G
    <3> HIDE DEF G
    <3> QED  BY <1>1, <2>1, <2>2, IntervalInduction
  <2>4. \A i \in 0 .. n : g[i] \in A  BY <2>3
  <2> HIDE DEF A
  <2> QED  BY <2>4
<1> HIDE DEF g
<1> QED
  BY <1>8, <1>9, <1>10, <1>11, <1>12

(* The lines up to one more line.                                              *)
LEMMA OneLineMore ==
  ASSUME NEW S, NEW s \in Seq(S), NEW i \in 0 .. Len(s) - 1
  PROVE  /\ SubSeq(s, 1, i) \in Seq(S) /\ s[i + 1] \in S
         /\ SubSeq(s, 1, i + 1) = Append(SubSeq(s, 1, i), s[i + 1])
<1>1. Len(s) \in Nat /\ i \in Int /\ i + 1 \in Int /\ 0 <= i /\ i <= Len(s) /\ i + 1 <= Len(s)
  BY LenProperties
<1> DEFINE a == SubSeq(s, 1, i)  b == SubSeq(s, 1, i + 1)  x == s[i + 1]  c == Append(a, x)
<1>2. a \in Seq(S) /\ Len(a) = i /\ \A j \in 1 .. i : a[j] = s[j]
  BY <1>1, PrefixIs
<1>3. b \in Seq(S) /\ Len(b) = i + 1 /\ \A j \in 1 .. i + 1 : b[j] = s[j]
  BY <1>1, PrefixIs
<1>4. x \in S
  <2>1. i + 1 \in 1 .. Len(s)  BY <1>1
  <2> QED  BY <2>1, ElementOfSeq
<1> HIDE DEF a, b, x
<1>5. c \in Seq(S) /\ Len(c) = i + 1 /\ c[i + 1] = x /\ \A j \in 1 .. i : c[j] = a[j]
  BY <1>2, <1>4, AppendProperties
<1> HIDE DEF c
<1>6. \A j \in 1 .. i + 1 : b[j] = c[j]
  <2> SUFFICES ASSUME NEW j \in 1 .. i + 1 PROVE b[j] = c[j]
    OBVIOUS
  <2>1. CASE j = i + 1  BY <1>3, <1>5, <2>1 DEF x
  <2>2. CASE j # i + 1
    <3>1. j \in 1 .. i  BY <1>1, <2>2
    <3> QED  BY <1>2, <1>3, <1>5, <3>1
  <2> QED  BY <2>1, <2>2
<1>7. b = c
  BY <1>3, <1>5, <1>6, SeqEqual
<1> QED
  BY <1>2, <1>4, <1>7 DEF a, b, c, x

(* Without the lines of a key, the others are found as before.                 *)
LEMMA DroppedIs ==
  ASSUME NEW s \in Seq(Lines), NEW k \in CacheKeys
  PROVE  /\ Dropped(s, k) \in Seq(Lines) /\ ~HasKey(Dropped(s, k), k)
         /\ \A q \in CacheKeys \ {k} : /\ HasKey(Dropped(s, k), q) <=> HasKey(s, q)
                                       /\ GetOf(Dropped(s, k), q) = GetOf(s, q)
<1> DEFINE n == Len(s)
<1>1. PICK g \in [0 .. n -> Seq(Lines)] :
        /\ g[0] = << >>
        /\ \A i \in 1 .. n : g[i] = Keep(g[i - 1], s[i], k)
        /\ Dropped(s, k) = g[n]
  BY DroppedInSteps
<1> DEFINE p(i) == SubSeq(s, 1, i)
           Right(i) == /\ ~HasKey(g[i], k)
                       /\ \A q \in CacheKeys \ {k} : /\ HasKey(g[i], q) <=> HasKey(p(i), q)
                                                     /\ GetOf(g[i], q) = GetOf(p(i), q)
           R == {i \in 0 .. n : Right(i)}
<1>2. n \in Nat
  BY LenProperties
<1>3. 0 \in R
  <2>1. p(0) = << >>  BY SubSeqEmpty
  <2>2. \A q : ~HasKey(<< >>, q)  BY DEF HasKey
  <2>3. 0 \in 0 .. n  BY <1>2
  <2>4. Right(0)
    <3> HIDE DEF p
    <3> QED  BY <1>1, <2>1, <2>2
  <2> HIDE DEF Right
  <2> QED  BY <2>3, <2>4
<1>4. ASSUME NEW i \in 0 .. n - 1, i \in R PROVE i + 1 \in R
  <2> DEFINE a == g[i]  b == g[i + 1]  u == p(i)  l == s[i + 1]
  <2>1. i \in 0 .. n /\ i + 1 \in 0 .. n /\ i + 1 \in 1 .. n /\ (i + 1) - 1 = i
    BY <1>2
  <2>2. a \in Seq(Lines) /\ b \in Seq(Lines) /\ b = Keep(a, l, k)
    <3>1. a \in Seq(Lines) /\ b \in Seq(Lines)  BY <1>1, <2>1
    <3>2. g[i + 1] = Keep(g[(i + 1) - 1], s[i + 1], k)  BY <1>1, <2>1
    <3> QED  BY <2>1, <3>1, <3>2
  <2>3. u \in Seq(Lines) /\ l \in Lines /\ p(i + 1) = Append(u, l)
    BY OneLineMore
  <2>4. /\ ~HasKey(a, k)
        /\ \A q \in CacheKeys \ {k} : (HasKey(a, q) <=> HasKey(u, q)) /\ GetOf(a, q) = GetOf(u, q)
    BY <1>4
  <2> HIDE DEF a, b, u, l
  <2>5. LineKey(l) \in CacheKeys /\ (KeyOf(l) = Escape(k) <=> LineKey(l) = k)
    BY <2>3, LineIs
  <2>6. /\ ~HasKey(b, k)
        /\ \A q \in CacheKeys \ {k} : /\ HasKey(b, q) <=> HasKey(Append(u, l), q)
                                      /\ GetOf(b, q) = GetOf(Append(u, l), q)
    <3>1. CASE LineKey(l) = k
      <4>1. b = a  BY <2>2, <2>5, <3>1 DEF Keep
      <4>2. ASSUME NEW q \in CacheKeys \ {k}
            PROVE  (HasKey(a, q) <=> HasKey(Append(u, l), q)) /\ GetOf(a, q) = GetOf(Append(u, l), q)
        <5>1. (HasKey(a, q) <=> HasKey(u, q)) /\ GetOf(a, q) = GetOf(u, q)  BY <2>4
        <5>2. /\ Append(u, l) \in Seq(Lines)
              /\ HasKey(Append(u, l), q) <=> HasKey(u, q)
              /\ HasKey(u, q) => GetOf(Append(u, l), q) = GetOf(u, q)
          BY <2>3, <3>1, GetOfAppended
        <5>3. ~HasKey(u, q) => GetOf(Append(u, l), q) = Nil /\ GetOf(u, q) = Nil
          BY <2>3, <5>2, GetIs
        <5> QED  BY <5>1, <5>2, <5>3
      <4> QED  BY <2>4, <4>1, <4>2
    <3>2. CASE LineKey(l) # k
      <4>1. b = Append(a, l)  BY <2>2, <2>5, <3>2 DEF Keep
      <4>2. ~HasKey(Append(a, l), k)  BY <2>2, <2>3, <2>4, <3>2, GetOfAppended
      <4>3. ASSUME NEW q \in CacheKeys \ {k}
            PROVE  /\ HasKey(Append(a, l), q) <=> HasKey(Append(u, l), q)
                   /\ GetOf(Append(a, l), q) = GetOf(Append(u, l), q)
        <5>1. (HasKey(a, q) <=> HasKey(u, q)) /\ GetOf(a, q) = GetOf(u, q)  BY <2>4
        <5>2. /\ Append(a, l) \in Seq(Lines)
              /\ HasKey(Append(a, l), q) <=> HasKey(a, q) \/ LineKey(l) = q
              /\ HasKey(a, q) => GetOf(Append(a, l), q) = GetOf(a, q)
              /\ ~HasKey(a, q) /\ LineKey(l) = q => GetOf(Append(a, l), q) = LineVal(l)
          BY <2>2, <2>3, GetOfAppended
        <5>3. /\ Append(u, l) \in Seq(Lines)
              /\ HasKey(Append(u, l), q) <=> HasKey(u, q) \/ LineKey(l) = q
              /\ HasKey(u, q) => GetOf(Append(u, l), q) = GetOf(u, q)
              /\ ~HasKey(u, q) /\ LineKey(l) = q => GetOf(Append(u, l), q) = LineVal(l)
          BY <2>3, GetOfAppended
        <5>4. ~HasKey(Append(u, l), q) => GetOf(Append(u, l), q) = Nil
          BY <5>3, GetIs
        <5>5. ~HasKey(Append(a, l), q) => GetOf(Append(a, l), q) = Nil
          BY <5>2, GetIs
        <5> QED  BY <5>1, <5>2, <5>3, <5>4, <5>5
      <4> QED  BY <4>1, <4>2, <4>3
    <3> QED  BY <3>1, <3>2
  <2>7. Right(i + 1)  BY <2>3, <2>6 DEF b
  <2> QED  BY <2>1, <2>7
<1>5. n \in R
  <2>1. 0 .. n \subseteq R
    <3> HIDE DEF R
    <3> QED  BY <1>2, <1>3, <1>4, IntervalInduction
  <2>2. n \in 0 .. n  BY <1>2
  <2> HIDE DEF R
  <2> QED  BY <2>1, <2>2
<1>6. p(n) = s
  BY SubSeqFull
<1>7. g[n] \in Seq(Lines)
  <2>1. n \in 0 .. n  BY <1>2
  <2> QED  BY <1>1, <2>1
<1>8. Right(n)
  BY <1>5
<1> HIDE DEF n
<1> QED
  BY <1>1, <1>6, <1>7, <1>8

-----------------------------------------------------------------------------
(* The file that fm.cache_set writes: the key has the value, if it fits the    *)
(* line, and the other keys have theirs.                                       *)
TooLong(k, v) == v # Nil /\ Len(Line(k, v)) > MaxLine

LEMMA RewrittenIs ==
  ASSUME NEW ls \in Seq(Lines), NEW k \in CacheKeys, NEW v \in CacheValues \cup {Nil}
  PROVE  /\ Rewritten(ls, k, v) \in Seq(Lines)
         /\ GetOf(Rewritten(ls, k, v), k) = v \/ TooLong(k, v)
         /\ \A q \in CacheKeys \ {k} : GetOf(Rewritten(ls, k, v), q) = GetOf(ls, q)
<1> DEFINE Same(l) == KeyOf(l) = Escape(k)
           kept == IF v = Nil THEN Dropped(ls, k) ELSE ls
           x == Line(k, v)
           new == [i \in DOMAIN kept |-> IF Same(kept[i]) THEN x ELSE AsRead(kept[i])]
           n == Len(kept)
<1>1. Rewritten(ls, k, v) = IF v = Nil \/ \E l \in Range(ls) : Same(l) THEN new ELSE Append(new, x)
  BY DEF Rewritten
<1>2. /\ kept \in Seq(Lines)
      /\ v = Nil => ~HasKey(kept, k)
      /\ v # Nil => kept = ls
      /\ \A q \in CacheKeys \ {k} : GetOf(kept, q) = GetOf(ls, q)
  BY DroppedIs
<1>3. /\ v # Nil => x \in Lines /\ LineKey(x) = k /\ (~TooLong(k, v) => LineVal(x) = v)
  <2> SUFFICES ASSUME v # Nil PROVE x \in Lines /\ LineKey(x) = k /\ (~TooLong(k, v) => LineVal(x) = v)
    OBVIOUS
  <2>1. v \in CacheValues  OBVIOUS
  <2>2. x \in Lines /\ LineKey(x) = k /\ (Len(x) <= MaxLine => LineVal(x) = v)  BY <2>1, NewLine
  <2>3. Len(x) \in Nat /\ MaxLine \in Nat  BY <2>2, CacheIsText, LenProperties DEF Lines, Str
  <2> HIDE DEF x
  <2>4. ~TooLong(k, v) => ~(Len(x) > MaxLine)  BY DEF TooLong, x
  <2> QED  BY <2>2, <2>3, <2>4
<1> HIDE DEF kept, x
<1>4. n \in Nat /\ DOMAIN kept = 1 .. n /\ \A i \in 1 .. n : kept[i] \in Lines
  BY <1>2, LenProperties, ElementOfSeq
<1>5. \A i \in 1 .. n :
        /\ Same(kept[i]) <=> LineKey(kept[i]) = k
        /\ AsRead(kept[i]) \in Lines /\ LineKey(AsRead(kept[i])) = LineKey(kept[i])
        /\ LineVal(AsRead(kept[i])) = LineVal(kept[i])
  BY <1>4, LineIs
<1>6. \A i \in 1 .. n : Same(kept[i]) => v # Nil
  BY <1>2, <1>5 DEF HasKey
<1>7. new \in Seq(Lines) /\ Len(new) = n /\ \A i \in 1 .. n :
        /\ new[i] \in Lines /\ LineKey(new[i]) = LineKey(kept[i])
        /\ Same(kept[i]) => new[i] = x
        /\ ~Same(kept[i]) => LineVal(new[i]) = LineVal(kept[i])
  <2>1. \A i \in 1 .. n :
          /\ new[i] \in Lines /\ LineKey(new[i]) = LineKey(kept[i])
          /\ Same(kept[i]) => new[i] = x
          /\ ~Same(kept[i]) => LineVal(new[i]) = LineVal(kept[i])
    <3> SUFFICES ASSUME NEW i \in 1 .. n
                 PROVE  /\ new[i] \in Lines /\ LineKey(new[i]) = LineKey(kept[i])
                        /\ Same(kept[i]) => new[i] = x
                        /\ ~Same(kept[i]) => LineVal(new[i]) = LineVal(kept[i])
      OBVIOUS
    <3>1. new[i] = IF Same(kept[i]) THEN x ELSE AsRead(kept[i])  BY <1>4
    <3> HIDE DEF new, Same
    <3>2. CASE Same(kept[i])
      <4>1. new[i] = x  BY <3>1, <3>2
      <4>2. LineKey(kept[i]) = k  BY <1>5, <3>2
      <4>3. x \in Lines /\ LineKey(x) = k  BY <1>3, <1>6, <3>2
      <4> QED  BY <3>2, <4>1, <4>2, <4>3
    <3>3. CASE ~Same(kept[i])
      BY <1>5, <3>1, <3>3
    <3> QED  BY <3>2, <3>3
  <2>2. new \in [1 .. n -> Lines]
    <3>1. DOMAIN new = 1 .. n  BY <1>4
    <3>2. new = [i \in 1 .. n |-> new[i]]  BY <1>4
    <3>3. \A i \in 1 .. n : new[i] \in Lines  BY <2>1
    <3> HIDE DEF new
    <3> QED  BY <3>2, <3>3
  <2>3. new \in Seq(Lines) /\ Len(new) = n
    <3> HIDE DEF new
    <3>1. new \in Seq(Lines)  BY <1>4, <2>2
    <3>2. DOMAIN new = 1 .. n  BY <2>2
    <3> QED  BY <1>4, <3>1, <3>2, LenProperties
  <2> QED  BY <2>1, <2>3
<1> HIDE DEF new
<1>8. ASSUME NEW q \in CacheKeys \ {k} PROVE GetOf(new, q) = GetOf(ls, q) /\ (HasKey(new, q) <=> HasKey(kept, q))
  <2>1. \A i \in 1 .. n : LineKey(kept[i]) = q => LineVal(kept[i]) = LineVal(new[i])
    BY <1>5, <1>7
  <2>2. GetOf(new, q) = GetOf(kept, q) /\ (HasKey(new, q) <=> HasKey(kept, q))
    BY <1>2, <1>7, <2>1, SameKeysSameValue
  <2> QED  BY <1>2, <2>2
<1>9. HasKey(new, k) <=> HasKey(kept, k)
  BY <1>7 DEF HasKey
<1>10. CASE v = Nil
  <2>1. Rewritten(ls, k, v) = new  BY <1>1, <1>10
  <2>2. GetOf(new, k) = Nil  BY <1>2, <1>7, <1>9, <1>10, GetIs
  <2> QED  BY <1>7, <1>8, <1>10, <2>1, <2>2
<1>11. CASE v # Nil /\ \E l \in Range(ls) : Same(l)
  <2>1. Rewritten(ls, k, v) = new  BY <1>1, <1>11
  <2>2. PICK i \in 1 .. n : Same(kept[i])  BY <1>2, <1>11, SeqMembers
  <2>3. HasKey(new, k)  BY <1>5, <1>9, <2>2 DEF HasKey
  <2>4. PICK j \in 1 .. n : FirstOf(new, k, j)  BY <1>7, <2>3, GetIs
  <2>5. Same(kept[j])
    <3>1. LineKey(new[j]) = k  BY <2>4 DEF FirstOf
    <3> QED  BY <1>5, <1>7, <3>1
  <2>6. new[j] = x  BY <1>7, <2>5
  <2>7. GetOf(new, k) = LineVal(new[j])  BY <1>7, <2>4, GetIs
  <2>8. GetOf(new, k) = v \/ TooLong(k, v)  BY <1>3, <1>11, <2>6, <2>7
  <2> QED  BY <1>7, <1>8, <2>1, <2>8
<1>12. CASE v # Nil /\ ~\E l \in Range(ls) : Same(l)
  <2>1. Rewritten(ls, k, v) = Append(new, x)  BY <1>1, <1>12
  <2>2. ~HasKey(kept, k)
    <3>1. \A i \in 1 .. n : kept[i] \in Range(ls)  BY <1>2, <1>12, SeqMembers
    <3> QED  BY <1>5, <1>12, <3>1 DEF HasKey
  <2>3. x \in Lines /\ LineKey(x) = k /\ (~TooLong(k, v) => LineVal(x) = v)  BY <1>3, <1>12
  <2>4. Append(new, x) \in Seq(Lines) /\ GetOf(Append(new, x), k) = LineVal(x)
    BY <1>7, <1>9, <2>2, <2>3, GetOfAppended
  <2>5. ASSUME NEW q \in CacheKeys \ {k} PROVE GetOf(Append(new, x), q) = GetOf(ls, q)
    <3>1. HasKey(new, q) => GetOf(Append(new, x), q) = GetOf(new, q)
      BY <1>7, <2>3, GetOfAppended
    <3>2. ~HasKey(new, q) => ~HasKey(Append(new, x), q)
      BY <1>7, <2>3, GetOfAppended
    <3>3. ~HasKey(new, q) => GetOf(Append(new, x), q) = Nil /\ GetOf(new, q) = Nil
      BY <1>7, <2>4, <3>2, GetIs
    <3> QED  BY <1>8, <3>1, <3>3
  <2> QED  BY <2>1, <2>3, <2>4, <2>5
<1> QED
  BY <1>10, <1>11, <1>12

-----------------------------------------------------------------------------
(* The configuration: what a text means as a key code.                         *)
LEMMA TextsAreTyped ==
  /\ \A f, t : t[2] \in Int => Parsed(f, t) \in Int
  /\ \A t : t[2] \in Int => PluginParseKey(t) \in Int
  /\ \A f, c : c \in Int => Rendered(f, c)[2] \in Int
<1>1. \A t : t[2] \in Int => CommonKey(t) \in Int
  BY DEF CommonKey, KeyF, Bad
<1>2. ASSUME NEW f, NEW t, t[2] \in Int PROVE Parsed(f, t) \in Int
  <2> DEFINE u == LineValue(t)
  <2>1. u[2] \in Int
    <3>1. << "none", 0 >>[2] \in Int  OBVIOUS
    <3> QED  BY <1>2, <3>1 DEF LineValue
  <2>2. Parsed(f, t) = IF f = Width THEN t[2] ELSE ParseKey(u)  BY DEF Parsed
  <2> HIDE DEF u
  <2>3. ParseKey(u) \in Int  BY <1>1, <2>1 DEF ParseKey, KeyF
  <2> QED  BY <1>2, <2>2, <2>3
<1>3. ASSUME NEW t, t[2] \in Int PROVE PluginParseKey(t) \in Int
  BY <1>1, <1>3 DEF PluginParseKey, KeyF
<1>4. ASSUME NEW f, NEW c \in Int PROVE Rendered(f, c)[2] \in Int
  <2>1. KeycodeText(c)[2] \in Int  BY DEF KeycodeText
  <2> QED  BY <2>1 DEF Rendered
<1> QED
  BY <1>2, <1>3, <1>4

(* What is written for a key code that reloads is read as that code.           *)
LEMMA WrittenIsRead ==
  ASSUME NEW f, NEW c \in Int, Reloads(f, c)
  PROVE  Valid(f, Rendered(f, c)) /\ Parsed(f, Rendered(f, c)) = c
<1>1. CASE f = Width
  BY <1>1 DEF Valid, Parsed, Rendered
<1>2. CASE f # Width
  <2> DEFINE t == KeycodeText(c)
  <2>1. c \in (1 .. 26) \cup Named \cup ((33 .. 126) \ Comment) \cup (KeyF(1) .. KeyF(12))
    BY <1>2 DEF Reloads
  <2>2. LineValue(t) = t /\ ParseKey(t) = c
    <3>1. CASE c \in 1 .. 26
      <4>1. t = << "^", c >>  BY <3>1 DEF KeycodeText, KeyF, Named
      <4> QED  BY <4>1 DEF LineValue, ParseKey, CommonKey
    <3>2. CASE c \in Named
      <4>1. t = << "name", c >>  BY <3>2 DEF KeycodeText, KeyF, Named
      <4> QED  BY <4>1 DEF LineValue, ParseKey, CommonKey
    <3>3. CASE c \in (33 .. 126) \ Comment
      <4>1. t = << "char", c >>  BY <3>3 DEF KeycodeText, KeyF, Named
      <4> QED  BY <3>3, <4>1 DEF LineValue, ParseKey, CommonKey
    <3>4. CASE c \in KeyF(1) .. KeyF(12)
      <4>1. t = << "F", c - 264 >> /\ c - 264 \in 1 .. 12 /\ KeyF(c - 264) = c
        <5>1. c \in 265 .. 276 /\ c \in 265 .. 327 /\ c - 264 \in 1 .. 12 /\ KeyF(c - 264) = c
          BY <3>4 DEF KeyF
        <5>2. ~(c \in 1 .. 26) /\ ~(c \in Named) /\ ~(c \in 33 .. 126)
          BY <5>1 DEF Named
        <5>3. KeyF(1) = 265 /\ KeyF(63) = 327  BY DEF KeyF
        <5>4. t = << "F", c - 264 >>  BY <5>1, <5>2, <5>3 DEF KeycodeText
        <5> QED  BY <5>1, <5>4
      <4> QED  BY <4>1 DEF LineValue, ParseKey
    <3> QED  BY <2>1, <3>1, <3>2, <3>3, <3>4
  <2>3. c # Bad
    BY <2>1 DEF Bad, Named, KeyF, Comment
  <2>4. Rendered(f, c) = t  BY <1>2 DEF Rendered
  <2> HIDE DEF t
  <2> QED  BY <1>2, <2>2, <2>3, <2>4 DEF Valid, Parsed
<1> QED
  BY <1>1, <1>2

LEMMA FieldsAre ==
  /\ Fields \in Seq(STRING) /\ Len(Fields) \in Nat
  /\ Defaults \in [FieldNames -> Int]
  /\ "key_exit" \in FieldNames /\ "key_help" \in FieldNames /\ Settable \subseteq FieldNames
  /\ SetCodes \subseteq Int /\ \A t \in SetTexts \cup UserTexts : t[2] \in Int
  /\ MaxSets \in Nat
<1>1. Fields \in Seq(STRING) /\ MaxSets \in Nat /\ SetCodes \subseteq Int
  BY SettingsAssumption
<1>2. Defaults \in [FieldNames -> Int] /\ "key_exit" \in FieldNames /\ "key_help" \in FieldNames
  BY SettingsAssumption DEF FieldNames
<1>3. \A t \in SetTexts \cup UserTexts : t[2] \in Int
  BY SettingsAssumption
<1> QED
  BY <1>1, <1>2, <1>3, LenProperties DEF Settable

(* What is loaded, and what is written.                                        *)
LEMMA LoadedTyped ==
  ASSUME NEW file, \A f \in DOMAIN file.lines : file.lines[f][2] \in Int
  PROVE  Loaded(file) \in [FieldNames -> Int]
<1>1. ASSUME NEW f \in FieldNames
      PROVE  (IF f \in DOMAIN file.lines /\ Valid(f, file.lines[f])
              THEN Parsed(f, file.lines[f]) ELSE Defaults[f]) \in Int
  <2>1. Defaults[f] \in Int  BY FieldsAre
  <2>2. f \in DOMAIN file.lines => Parsed(f, file.lines[f]) \in Int  BY TextsAreTyped
  <2> QED  BY <2>1, <2>2
<1> QED
  BY <1>1 DEF Loaded

LEMMA UnconflictedIs ==
  ASSUME NEW k \in [FieldNames -> Int]
  PROVE  /\ Unconflicted(k) \in [FieldNames -> Int]
         /\ \A f \in Settable : Unconflicted(k)[f] = k[f]
  BY FieldsAre DEF Unconflicted, Settable

LEMMA ThereIs ==
  ASSUME NEW e
  PROVE  [[there |-> FALSE, lines |-> e] EXCEPT !.there = TRUE] = [there |-> TRUE, lines |-> e]
<1> DEFINE r == [[there |-> FALSE, lines |-> e] EXCEPT !.there = TRUE]
<1>1. r \in [there : BOOLEAN, lines : {e}]
  OBVIOUS
<1>2. r.there = TRUE /\ r.lines = e
  OBVIOUS
<1> HIDE DEF r
<1>3. r = [there |-> r.there, lines |-> r.lines]
  BY <1>1
<1> QED
  BY <1>2, <1>3 DEF r

LEMMA WrittenIs ==
  ASSUME NEW k \in [FieldNames -> Int], NEW n \in 0 .. Len(Fields)
  PROVE  /\ Written(k, n).there = TRUE /\ DOMAIN Written(k, n).lines \subseteq FieldNames
         /\ \A f \in DOMAIN Written(k, n).lines : /\ Written(k, n).lines[f] = Rendered(f, k[f])
                                                  /\ Written(k, n).lines[f][2] \in Int
         /\ n = Len(Fields) => DOMAIN Written(k, n).lines = FieldNames
<1> DEFINE u == SubSeq(Fields, 1, n)  ls == [f \in Range(u) |-> Rendered(f, k[f])]
<1>1. Written(k, n) = [there |-> TRUE, lines |-> ls]
  <2> DEFINE e == [f \in {} |-> << >>]
  <2>1. NoFile = [there |-> FALSE, lines |-> e]  BY DEF NoFile
  <2> HIDE DEF e
  <2>2. Truncated = [there |-> TRUE, lines |-> e]
    <3>1. Truncated = [[there |-> FALSE, lines |-> e] EXCEPT !.there = TRUE]
      BY <2>1, Zenon DEF Truncated
    <3> QED  BY <3>1, ThereIs
  <2>3. Written(k, n) = [Truncated EXCEPT !.lines = ls]  BY DEF Written
  <2> HIDE DEF ls
  <2> QED  BY <2>2, <2>3
<1>2. u \in Seq(STRING) /\ Len(u) = n /\ \A i \in 1 .. n : u[i] = Fields[i]
  <2>1. Fields \in Seq(STRING) /\ n \in Int /\ 0 <= n /\ n <= Len(Fields)  BY FieldsAre
  <2> QED  BY <2>1, PrefixIs
<1>3. n = Len(Fields) => u = Fields
  BY FieldsAre, SubSeqFull
<1> HIDE DEF u
<1>4. Range(u) \subseteq FieldNames
  <2>1. \A i \in 1 .. n : i \in 1 .. Len(Fields)  BY FieldsAre
  <2>2. \A i \in 1 .. n : Fields[i] \in FieldNames  BY <2>1, FieldsAre, SeqMembers DEF FieldNames
  <2> QED  BY <1>2, <2>2, SeqMembers
<1>5. n = Len(Fields) => Range(u) = FieldNames
  BY <1>3 DEF FieldNames
<1>6. \A f \in Range(u) : ls[f] = Rendered(f, k[f]) /\ ls[f][2] \in Int
  <2>1. \A f \in Range(u) : k[f] \in Int  BY <1>4
  <2> QED  BY <2>1, TextsAreTyped
<1>7. DOMAIN ls = Range(u)
  OBVIOUS
<1> HIDE DEF ls
<1> QED
  BY <1>1, <1>4, <1>5, <1>6, <1>7

-----------------------------------------------------------------------------
(* The inductive invariant.                                                    *)
Values == CacheValues \cup {Nil}
SettingsTyped ==
  /\ session \in {"off", "on", "first", "set", "cache"}
  /\ kb \in [FieldNames -> Int]
  /\ rc.there \in BOOLEAN /\ DOMAIN rc.lines \subseteq FieldNames
  /\ \A f \in DOMAIN rc.lines : rc.lines[f][2] \in Int
  /\ cache \in Seq(Lines) /\ tmp.lines \in Seq(Lines)
  /\ stored \in [Settable -> SUBSET Int]
  /\ cached \in [CacheKeys -> SUBSET Values]
  /\ sets \in 0 .. MaxSets
ValueIsFound(ls, k, a) == a = {} \/ GetOf(ls, k) \in a \/ \E v \in a : TooLong(k, v)
CacheIsRight == \A k \in CacheKeys : ValueIsFound(cache, k, cached[k])
WritesCache ==
  session = "cache" =>
    /\ tmp.key \in CacheKeys /\ tmp.val \in Values
    /\ \A k \in CacheKeys \ tmp.lost :
         IF k = tmp.key THEN GetOf(tmp.lines, k) = tmp.val \/ TooLong(k, tmp.val)
         ELSE GetOf(tmp.lines, k) = GetOf(cache, k)
CodeIsKept(f) ==
  \/ stored[f] = {} \/ \E c \in stored[f] : ~Reloads(f, c)
  \/ /\ session # "off" => kb[f] \in stored[f]
     /\ session \notin {"first", "set"} =>
          f \in DOMAIN rc.lines /\ \E c \in stored[f] : rc.lines[f] = Rendered(f, c)
ConfigIsRight == \A f \in Settable : CodeIsKept(f)
SettingsInv == SettingsTyped /\ CacheIsRight /\ WritesCache /\ ConfigIsRight

LEMMA EmptyFiles ==
  /\ NoFile.there = FALSE /\ Truncated.there = TRUE
  /\ DOMAIN NoFile.lines = {} /\ DOMAIN Truncated.lines = {}
<1> DEFINE e == [f \in {} |-> << >>]
<1>1. DOMAIN e = {}
  OBVIOUS
<1>2. NoFile = [there |-> FALSE, lines |-> e]
  BY DEF NoFile
<1> HIDE DEF e
<1>3. Truncated = [there |-> TRUE, lines |-> e]
  <2>1. Truncated = [[there |-> FALSE, lines |-> e] EXCEPT !.there = TRUE]
    BY <1>2, Zenon DEF Truncated
  <2> QED  BY <2>1, ThereIs
<1> QED
  BY <1>1, <1>2, <1>3

LEMMA NoTmpIs == NoTmp.lines \in Seq(Lines)
<1>1. NoTmp.lines = << >>
  BY DEF NoTmp
<1> QED
  BY <1>1

LEMMA SettingsStart == SettingsInit => SettingsInv
<1> SUFFICES ASSUME SettingsInit PROVE SettingsInv
  OBVIOUS
<1>1. /\ session = "off" /\ kb = Defaults /\ rc = NoFile
      /\ cache = << >> /\ tmp = NoTmp
      /\ stored = [f \in Settable |-> {}] /\ cached = [k \in CacheKeys |-> {Nil}]
      /\ sets = 0
  BY DEF SettingsInit
<1>2. SettingsTyped
  <2>1. kb \in [FieldNames -> Int] /\ sets \in 0 .. MaxSets  BY <1>1, FieldsAre
  <2>2. rc.there \in BOOLEAN /\ DOMAIN rc.lines = {}  BY <1>1, EmptyFiles
  <2>3. cache \in Seq(Lines) /\ tmp.lines \in Seq(Lines)  BY <1>1, NoTmpIs
  <2>4. stored \in [Settable -> SUBSET Int] /\ cached \in [CacheKeys -> SUBSET Values]
    BY <1>1 DEF Values
  <2> QED  BY <1>1, <2>1, <2>2, <2>3, <2>4 DEF SettingsTyped
<1>3. CacheIsRight
  <2> SUFFICES ASSUME NEW k \in CacheKeys PROVE ValueIsFound(cache, k, cached[k])
    BY DEF CacheIsRight
  <2>1. cached[k] = {Nil} /\ cache \in Seq(Lines) /\ ~HasKey(cache, k)  BY <1>1 DEF HasKey
  <2>2. GetOf(cache, k) = Nil  BY <2>1, GetIs
  <2> QED  BY <2>1, <2>2 DEF ValueIsFound
<1>4. WritesCache
  BY <1>1 DEF WritesCache
<1>5. ConfigIsRight
  BY <1>1 DEF ConfigIsRight, CodeIsKept
<1> QED
  BY <1>2, <1>3, <1>4, <1>5 DEF SettingsInv

(* An action that leaves the cache alone.                                      *)
LEMMA CacheUntouched ==
  ASSUME SettingsInv, CacheSame, session' # "cache"
  PROVE  CacheIsRight' /\ WritesCache'
<1>1. UNCHANGED << cache, cached >>
  BY DEF CacheSame
<1>2. CacheIsRight'
  BY <1>1 DEF SettingsInv, CacheIsRight
<1> QED
  BY <1>2 DEF WritesCache

LEMMA LaunchKeeps ==
  ASSUME SettingsInv, Launch
  PROVE  SettingsInv'
<1>1. /\ session = "off" /\ UNCHANGED << cache, tmp, cached, stored, sets >>
      /\ \/ session' = "first" /\ kb' = Loaded(rc) /\ rc' = Truncated
         \/ session' = "on" /\ kb' = Unconflicted(Loaded(rc)) /\ UNCHANGED rc
  BY DEF Launch, CacheSame
<1>2. SettingsTyped
  BY DEF SettingsInv
<1>3. Loaded(rc) \in [FieldNames -> Int]
  BY <1>2, LoadedTyped DEF SettingsTyped
<1>4. kb' \in [FieldNames -> Int] /\ \A f \in Settable : kb'[f] = Loaded(rc)[f]
  BY <1>1, <1>3, UnconflictedIs
<1>5. SettingsTyped'
  <2>1. rc'.there \in BOOLEAN /\ DOMAIN rc'.lines \subseteq FieldNames
        /\ \A f \in DOMAIN rc'.lines : rc'.lines[f][2] \in Int
    BY <1>1, <1>2, EmptyFiles DEF SettingsTyped
  <2>2. session' \in {"off", "on", "first", "set", "cache"}  BY <1>1
  <2> QED  BY <1>1, <1>2, <1>4, <2>1, <2>2 DEF SettingsTyped
<1>6. CacheIsRight' /\ WritesCache'
  BY <1>1, CacheUntouched DEF CacheSame
<1>7. ASSUME NEW f \in Settable PROVE CodeIsKept(f)'
  <2>1. CodeIsKept(f)  BY DEF SettingsInv, ConfigIsRight
  <2> SUFFICES ASSUME ~(stored[f] = {} \/ \E c \in stored[f] : ~Reloads(f, c)) PROVE CodeIsKept(f)'
    BY <1>1 DEF CodeIsKept
  <2>2. f \in DOMAIN rc.lines /\ \E c \in stored[f] : rc.lines[f] = Rendered(f, c)
    BY <1>1, <2>1 DEF CodeIsKept
  <2>3. PICK c \in stored[f] : rc.lines[f] = Rendered(f, c)  BY <2>2
  <2>4. c \in Int /\ Reloads(f, c)  BY <1>2, <2>3 DEF SettingsTyped
  <2>5. Valid(f, rc.lines[f]) /\ Parsed(f, rc.lines[f]) = c  BY <2>3, <2>4, WrittenIsRead
  <2>6. f \in FieldNames  BY FieldsAre
  <2>7. Loaded(rc)[f] = c  BY <2>2, <2>5, <2>6 DEF Loaded
  <2>8. kb'[f] \in stored'[f]  BY <1>1, <1>4, <2>3, <2>7
  <2>9. session' \notin {"first", "set"} => rc' = rc  BY <1>1
  <2> QED  BY <1>1, <2>2, <2>8, <2>9 DEF CodeIsKept
<1>8. ConfigIsRight'
  BY <1>7 DEF ConfigIsRight
<1> QED
  BY <1>5, <1>6, <1>8 DEF SettingsInv

LEMMA WriteEndsKeeps ==
  ASSUME SettingsInv, WriteEnds
  PROVE  SettingsInv'
<1>1. /\ session \in {"first", "set"} /\ session' = "on"
      /\ UNCHANGED << cache, tmp, cached, sets >>
      /\ kb' = IF session = "first" THEN Unconflicted(kb) ELSE kb
  BY DEF WriteEnds, CacheSame
<1>2. \/ rc' = Written(kb, Len(Fields)) /\ UNCHANGED stored
      \/ \E n \in 0 .. Len(Fields) - 1 : rc' = Written(kb, n) /\ stored' = Forgotten
  BY DEF WriteEnds
<1>3. SettingsTyped
  BY DEF SettingsInv
<1>4. kb \in [FieldNames -> Int] /\ kb' \in [FieldNames -> Int] /\ \A f \in Settable : kb'[f] = kb[f]
  BY <1>1, <1>3, UnconflictedIs DEF SettingsTyped
<1>5. PICK n \in 0 .. Len(Fields) : rc' = Written(kb, n)
  <2>1. \A n \in 0 .. Len(Fields) - 1 : n \in 0 .. Len(Fields)  BY FieldsAre
  <2>2. Len(Fields) \in 0 .. Len(Fields)  BY FieldsAre
  <2> QED  BY <1>2, <2>1, <2>2
<1>6. SettingsTyped'
  <2>1. rc'.there \in BOOLEAN /\ DOMAIN rc'.lines \subseteq FieldNames
        /\ \A f \in DOMAIN rc'.lines : rc'.lines[f][2] \in Int
    BY <1>4, <1>5, WrittenIs
  <2>2. stored' \in [Settable -> SUBSET Int]
    BY <1>2, <1>3 DEF SettingsTyped, Forgotten
  <2> QED  BY <1>1, <1>3, <1>4, <2>1, <2>2 DEF SettingsTyped
<1>7. CacheIsRight' /\ WritesCache'
  BY <1>1, CacheUntouched DEF CacheSame
<1>8. ASSUME NEW f \in Settable PROVE CodeIsKept(f)'
  <2>1. CASE stored' = Forgotten  BY <2>1 DEF CodeIsKept, Forgotten
  <2>2. CASE rc' = Written(kb, Len(Fields)) /\ UNCHANGED stored
    <3>1. CodeIsKept(f)  BY DEF SettingsInv, ConfigIsRight
    <3> SUFFICES ASSUME ~(stored[f] = {} \/ \E c \in stored[f] : ~Reloads(f, c)) PROVE CodeIsKept(f)'
      BY <2>2 DEF CodeIsKept
    <3>2. kb[f] \in stored[f]  BY <1>1, <3>1 DEF CodeIsKept
    <3>3. Len(Fields) \in 0 .. Len(Fields) /\ f \in FieldNames  BY FieldsAre
    <3>4. DOMAIN rc'.lines = FieldNames /\ rc'.lines[f] = Rendered(f, kb[f])
      <4> DEFINE m == Len(Fields)  w == Written(kb, m)
      <4>1. m \in 0 .. m /\ m = Len(Fields) /\ kb \in [FieldNames -> Int]  BY <1>4, <3>3
      <4>2. /\ \A g \in DOMAIN w.lines : w.lines[g] = Rendered(g, kb[g])
            /\ DOMAIN w.lines = FieldNames
        <5> HIDE DEF m
        <5> QED  BY <4>1, WrittenIs
      <4>3. rc' = w  BY <2>2
      <4> HIDE DEF w
      <4> QED  BY <3>3, <4>2, <4>3
    <3> QED  BY <1>4, <2>2, <3>2, <3>3, <3>4 DEF CodeIsKept
  <2> QED  BY <1>2, <2>1, <2>2
<1>9. ConfigIsRight'
  BY <1>8 DEF ConfigIsRight
<1> QED
  BY <1>6, <1>7, <1>9 DEF SettingsInv

LEMMA ConfigSetKeeps ==
  ASSUME SettingsInv, ConfigSet
  PROVE  SettingsInv'
<1>1. PICK f \in Settable, c \in SetCodes \cup ({PluginParseKey(t) : t \in SetTexts} \ {Bad}) :
        /\ kb' = [kb EXCEPT ![f] = c]
        /\ \/ /\ session' = "set" /\ rc' = Truncated
              /\ stored' = [stored EXCEPT ![f] = {c}]
           \/ /\ UNCHANGED << session, rc >>
              /\ stored' = [stored EXCEPT ![f] = IF @ = {} THEN {} ELSE @ \cup {c}]
  BY DEF ConfigSet
<1>2. /\ session = "on" /\ sets < MaxSets /\ sets' = sets + 1
      /\ UNCHANGED << cache, tmp, cached >>
  BY DEF ConfigSet, Spent, CacheSame
<1>3. SettingsTyped
  BY DEF SettingsInv
<1>4. c \in Int /\ f \in FieldNames
  BY FieldsAre, TextsAreTyped
<1>5. /\ kb \in [FieldNames -> Int] /\ stored \in [Settable -> SUBSET Int]
      /\ sets \in 0 .. MaxSets /\ MaxSets \in Nat
  BY <1>3, FieldsAre DEF SettingsTyped
<1>6. SettingsTyped'
  <2>1. rc'.there \in BOOLEAN /\ DOMAIN rc'.lines \subseteq FieldNames
        /\ \A g \in DOMAIN rc'.lines : rc'.lines[g][2] \in Int
    BY <1>1, <1>3, EmptyFiles DEF SettingsTyped
  <2>2. stored' \in [Settable -> SUBSET Int]  BY <1>1, <1>4, <1>5
  <2>3. kb' \in [FieldNames -> Int] /\ sets' \in 0 .. MaxSets  BY <1>1, <1>2, <1>4, <1>5
  <2>4. session' \in {"off", "on", "first", "set", "cache"}  BY <1>1, <1>2
  <2> QED  BY <1>2, <1>3, <2>1, <2>2, <2>3, <2>4 DEF SettingsTyped
<1>7. CacheIsRight' /\ WritesCache'
  <2>1. session' # "cache"  BY <1>1, <1>2
  <2> QED  BY <1>2, <2>1, CacheUntouched DEF CacheSame
<1>8. ASSUME NEW g \in Settable PROVE CodeIsKept(g)'
  <2>1. CodeIsKept(g)  BY DEF SettingsInv, ConfigIsRight
  <2>2. CASE g # f
    <3>1. kb'[g] = kb[g] /\ stored'[g] = stored[g]  BY <1>1, <1>4, <1>5, <2>2, FieldsAre
    <3>2. session' \in {"set", "on"} /\ (session' # "set" => rc' = rc)  BY <1>1, <1>2
    <3> QED  BY <1>2, <2>1, <3>1, <3>2 DEF CodeIsKept
  <2>3. CASE g = f
    <3>1. kb'[f] = c  BY <1>1, <1>4, <1>5
    <3>2. CASE session' = "set" /\ stored' = [stored EXCEPT ![f] = {c}]
      <4>1. stored'[f] = {c}  BY <1>5, <3>2
      <4> QED  BY <2>3, <3>1, <3>2, <4>1 DEF CodeIsKept
    <3>3. CASE /\ UNCHANGED << session, rc >>
               /\ stored' = [stored EXCEPT ![f] = IF @ = {} THEN {} ELSE @ \cup {c}]
      <4>1. stored'[f] = IF stored[f] = {} THEN {} ELSE stored[f] \cup {c}  BY <1>5, <3>3
      <4> QED  BY <1>2, <2>1, <2>3, <3>1, <3>3, <4>1 DEF CodeIsKept
    <3> QED  BY <1>1, <3>2, <3>3
  <2> QED  BY <2>2, <2>3
<1>9. ConfigIsRight'
  BY <1>8 DEF ConfigIsRight
<1> QED
  BY <1>6, <1>7, <1>9 DEF SettingsInv

LEMMA UserEditsKeeps ==
  ASSUME SettingsInv, UserEdits
  PROVE  SettingsInv'
<1>1. /\ session \in {"off", "on"} /\ sets < MaxSets /\ sets' = sets + 1
      /\ UNCHANGED << cache, tmp, cached, session, kb >>
  BY DEF UserEdits, Spent, CacheSame
<1>2. SettingsTyped
  BY DEF SettingsInv
<1>3. CacheIsRight' /\ WritesCache'
  <2>1. session' # "cache"  BY <1>1
  <2> QED  BY <1>1, <2>1, CacheUntouched DEF CacheSame
<1>4. sets' \in 0 .. MaxSets
  BY <1>1, <1>2, FieldsAre DEF SettingsTyped
<1>5. CASE rc' = NoFile /\ stored' = Forgotten
  <2>1. SettingsTyped'
    <3>1. rc'.there \in BOOLEAN /\ DOMAIN rc'.lines = {}  BY <1>5, EmptyFiles
    <3>2. stored' \in [Settable -> SUBSET Int]  BY <1>5 DEF Forgotten
    <3> QED  BY <1>1, <1>2, <1>4, <3>1, <3>2 DEF SettingsTyped
  <2>2. ConfigIsRight'  BY <1>5 DEF ConfigIsRight, CodeIsKept, Forgotten
  <2> QED  BY <1>3, <2>1, <2>2 DEF SettingsInv
<1>6. ASSUME NEW f \in FieldNames, NEW t \in UserTexts,
             rc' = [there |-> TRUE,
                    lines |-> [g \in DOMAIN rc.lines \cup {f} |-> IF g = f THEN t ELSE rc.lines[g]]],
             stored' = IF f \in Settable THEN [stored EXCEPT ![f] = {}] ELSE stored
      PROVE  SettingsInv'
  <2> DEFINE ls == [g \in DOMAIN rc.lines \cup {f} |-> IF g = f THEN t ELSE rc.lines[g]]
  <2>1. /\ DOMAIN ls = DOMAIN rc.lines \cup {f}
        /\ \A g \in DOMAIN rc.lines \cup {f} : ls[g] = IF g = f THEN t ELSE rc.lines[g]
    OBVIOUS
  <2>2. rc'.there = TRUE /\ rc'.lines = ls
    <3>1. rc' = [there |-> TRUE, lines |-> ls]  BY <1>6
    <3> HIDE DEF ls
    <3> QED  BY <3>1
  <2> HIDE DEF ls
  <2>3. stored \in [Settable -> SUBSET Int]  BY <1>2 DEF SettingsTyped
  <2>4. SettingsTyped'
    <3>1. stored' \in [Settable -> SUBSET Int]  BY <1>6, <2>3
    <3>2. t[2] \in Int  BY FieldsAre
    <3>3. DOMAIN ls \subseteq FieldNames /\ \A g \in DOMAIN ls : ls[g][2] \in Int
      BY <1>2, <2>1, <3>2 DEF SettingsTyped
    <3> QED  BY <1>1, <1>2, <1>4, <2>2, <3>1, <3>3 DEF SettingsTyped
  <2>5. ASSUME NEW g \in Settable PROVE CodeIsKept(g)'
    <3>1. CodeIsKept(g)  BY DEF SettingsInv, ConfigIsRight
    <3>2. CASE g = f
      <4>1. stored'[g] = {}  BY <1>6, <2>3, <3>2
      <4> QED  BY <4>1 DEF CodeIsKept
    <3>3. CASE g # f
      <4>1. stored'[g] = stored[g]  BY <1>6, <2>3, <3>3
      <4>2. g \in DOMAIN rc.lines => g \in DOMAIN rc'.lines /\ rc'.lines[g] = rc.lines[g]
        BY <2>1, <2>2, <3>3
      <4> QED  BY <1>1, <3>1, <4>1, <4>2 DEF CodeIsKept
    <3> QED  BY <3>2, <3>3
  <2>6. ConfigIsRight'  BY <2>5 DEF ConfigIsRight
  <2> QED  BY <1>3, <2>4, <2>6 DEF SettingsInv
<1> QED
  BY <1>5, <1>6 DEF UserEdits

LEMMA CacheSetKeeps ==
  ASSUME SettingsInv, CacheSet
  PROVE  SettingsInv'
<1>1. /\ session = "on" /\ session' = "cache" /\ sets < MaxSets /\ sets' = sets + 1
      /\ UNCHANGED << kb, rc, cache, stored, cached >>
  BY DEF CacheSet, Spent
<1>2. SettingsTyped /\ CacheIsRight /\ ConfigIsRight
  BY DEF SettingsInv
<1>3. sets' \in 0 .. MaxSets /\ cache \in Seq(Lines)
  BY <1>1, <1>2, FieldsAre DEF SettingsTyped
<1>4. PICK k \in CacheKeys, v \in CacheValues \cup {Nil}, opened \in BOOLEAN :
        LET all == Rewritten(IF opened THEN cache ELSE << >>, k, v)
            unread == IF opened THEN {} ELSE CacheKeys \ {k}
        IN \/ tmp' = [lines |-> all, key |-> k, val |-> v, lost |-> unread]
           \/ \E n \in 0 .. Len(all) - 1 :
                tmp' = [lines |-> SubSeq(all, 1, n), key |-> k, val |-> v, lost |-> CacheKeys]
  BY DEF CacheSet
<1> DEFINE old == IF opened THEN cache ELSE << >>
           unread == IF opened THEN {} ELSE CacheKeys \ {k}
           all == Rewritten(old, k, v)
<1>5. /\ all \in Seq(Lines) /\ (GetOf(all, k) = v \/ TooLong(k, v))
      /\ \A q \in CacheKeys \ unread : q # k => GetOf(all, q) = GetOf(cache, q)
  <2>1. old \in Seq(Lines)  BY <1>3
  <2>2. \A q \in CacheKeys \ unread : q # k => old = cache  OBVIOUS
  <2> HIDE DEF old, unread
  <2>3. /\ all \in Seq(Lines) /\ (GetOf(all, k) = v \/ TooLong(k, v))
        /\ \A q \in CacheKeys \ {k} : GetOf(all, q) = GetOf(old, q)
    BY <2>1, RewrittenIs
  <2> HIDE DEF all
  <2> QED  BY <2>2, <2>3
<1>6. \/ tmp' = [lines |-> all, key |-> k, val |-> v, lost |-> unread]
      \/ \E n \in 0 .. Len(all) - 1 :
           tmp' = [lines |-> SubSeq(all, 1, n), key |-> k, val |-> v, lost |-> CacheKeys]
  BY <1>4
<1> HIDE DEF all, unread, old
<1>7. /\ tmp'.lines \in Seq(Lines) /\ tmp'.key = k /\ tmp'.val = v
      /\ (tmp'.lines = all /\ tmp'.lost = unread) \/ tmp'.lost = CacheKeys
  <2>1. CASE tmp' = [lines |-> all, key |-> k, val |-> v, lost |-> unread]
    BY <1>5, <2>1
  <2>2. ASSUME NEW n \in 0 .. Len(all) - 1,
               tmp' = [lines |-> SubSeq(all, 1, n), key |-> k, val |-> v, lost |-> CacheKeys]
        PROVE  tmp'.lines \in Seq(Lines) /\ tmp'.key = k /\ tmp'.val = v /\ tmp'.lost = CacheKeys
    <3> DEFINE u == SubSeq(all, 1, n)
    <3>1. n \in Int /\ 0 <= n /\ n <= Len(all)  BY <1>5, LenProperties
    <3>2. u \in Seq(Lines)  BY <1>5, <3>1, PrefixIs
    <3>3. tmp' = [lines |-> u, key |-> k, val |-> v, lost |-> CacheKeys]  BY <2>2
    <3> HIDE DEF u
    <3> QED  BY <3>2, <3>3
  <2> QED  BY <1>6, <2>1, <2>2
<1>8. SettingsTyped'
  BY <1>1, <1>2, <1>3, <1>7 DEF SettingsTyped
<1>9. CacheIsRight'
  BY <1>1, <1>2 DEF CacheIsRight
<1>10. WritesCache'
  <2>1. k \in CacheKeys /\ v \in Values  BY DEF Values
  <2>2. ASSUME NEW q \in CacheKeys \ tmp'.lost
        PROVE  IF q = k THEN GetOf(tmp'.lines, q) = v \/ TooLong(q, v)
               ELSE GetOf(tmp'.lines, q) = GetOf(cache, q)
    <3>1. tmp'.lines = all /\ tmp'.lost = unread  BY <1>7
    <3> QED  BY <1>5, <3>1
  <2> QED  BY <1>1, <1>7, <2>1, <2>2 DEF WritesCache
<1>11. ConfigIsRight'
  BY <1>1, <1>2 DEF ConfigIsRight, CodeIsKept
<1> QED
  BY <1>8, <1>9, <1>10, <1>11 DEF SettingsInv

LEMMA CacheRenameKeeps ==
  ASSUME SettingsInv, CacheRename
  PROVE  SettingsInv'
<1> DEFINE found == [k \in CacheKeys |-> IF k \in tmp.lost THEN {}
                                        ELSE IF k = tmp.key THEN {tmp.val} ELSE cached[k]]
<1>1. /\ session = "cache" /\ session' = "on" /\ tmp' = NoTmp
      /\ UNCHANGED << kb, rc, stored, sets >>
      /\ \/ cache' = tmp.lines /\ cached' = found
         \/ UNCHANGED << cache, cached >>
  BY DEF CacheRename
<1>2. SettingsTyped /\ CacheIsRight /\ WritesCache /\ ConfigIsRight
  BY DEF SettingsInv
<1>3. cache \in Seq(Lines) /\ tmp.lines \in Seq(Lines) /\ cached \in [CacheKeys -> SUBSET Values]
  BY <1>2 DEF SettingsTyped
<1>4. /\ tmp.key \in CacheKeys /\ tmp.val \in Values
      /\ \A k \in CacheKeys \ tmp.lost :
           IF k = tmp.key THEN GetOf(tmp.lines, k) = tmp.val \/ TooLong(k, tmp.val)
           ELSE GetOf(tmp.lines, k) = GetOf(cache, k)
  BY <1>1, <1>2 DEF WritesCache
<1>5. CASE UNCHANGED << cache, cached >>
  <2>1. CacheIsRight'  BY <1>2, <1>5 DEF CacheIsRight
  <2>2. SettingsTyped'  BY <1>1, <1>2, <1>5, NoTmpIs DEF SettingsTyped
  <2>3. WritesCache'  BY <1>1 DEF WritesCache
  <2>4. ConfigIsRight'  BY <1>1, <1>2 DEF ConfigIsRight, CodeIsKept
  <2> QED  BY <2>1, <2>2, <2>3, <2>4 DEF SettingsInv
<1>6. CASE cache' = tmp.lines /\ cached' = found
  <2>1. \A k \in CacheKeys : found[k] = IF k \in tmp.lost THEN {}
                                        ELSE IF k = tmp.key THEN {tmp.val} ELSE cached[k]
    OBVIOUS
  <2>2. found \in [CacheKeys -> SUBSET Values]
    <3>1. \A k \in CacheKeys : cached[k] \in SUBSET Values  BY <1>3
    <3> QED  BY <1>4, <3>1
  <2> HIDE DEF found
  <2>3. SettingsTyped'  BY <1>1, <1>2, <1>3, <1>6, <2>2, NoTmpIs DEF SettingsTyped
  <2>4. ASSUME NEW k \in CacheKeys PROVE ValueIsFound(cache', k, cached'[k])
    <3>1. CASE k \in tmp.lost
      <4>1. cached'[k] = {}  BY <1>6, <2>1, <3>1
      <4> QED  BY <4>1 DEF ValueIsFound
    <3>2. CASE k \notin tmp.lost /\ k = tmp.key
      <4>1. cached'[k] = {tmp.val}  BY <1>6, <2>1, <3>2
      <4>2. GetOf(cache', k) = tmp.val \/ TooLong(k, tmp.val)  BY <1>4, <1>6, <3>2
      <4> QED  BY <4>1, <4>2 DEF ValueIsFound
    <3>3. CASE k \notin tmp.lost /\ k # tmp.key
      <4>1. cached'[k] = cached[k]  BY <1>6, <2>1, <3>3
      <4>2. GetOf(cache', k) = GetOf(cache, k)  BY <1>4, <1>6, <3>3
      <4>3. ValueIsFound(cache, k, cached[k])  BY <1>2 DEF CacheIsRight
      <4> QED  BY <4>1, <4>2, <4>3 DEF ValueIsFound
    <3> QED  BY <3>1, <3>2, <3>3
  <2>5. CacheIsRight'  BY <2>4 DEF CacheIsRight
  <2>6. WritesCache'  BY <1>1 DEF WritesCache
  <2>7. ConfigIsRight'  BY <1>1, <1>2 DEF ConfigIsRight, CodeIsKept
  <2> QED  BY <2>3, <2>5, <2>6, <2>7 DEF SettingsInv
<1> QED
  BY <1>1, <1>5, <1>6

LEMMA SessionEndsKeeps ==
  ASSUME SettingsInv, SessionEnds
  PROVE  SettingsInv'
<1>1. /\ session # "off" /\ session' = "off" /\ tmp' = NoTmp /\ kb' = Defaults
      /\ stored' = IF session \in {"first", "set"} THEN Forgotten ELSE stored
      /\ UNCHANGED << rc, cache, cached, sets >>
  BY DEF SessionEnds
<1>2. SettingsTyped /\ CacheIsRight /\ ConfigIsRight
  BY DEF SettingsInv
<1>3. SettingsTyped'
  <2>1. stored' \in [Settable -> SUBSET Int]  BY <1>1, <1>2 DEF SettingsTyped, Forgotten
  <2> QED  BY <1>1, <1>2, <2>1, FieldsAre, NoTmpIs DEF SettingsTyped
<1>4. CacheIsRight'
  BY <1>1, <1>2 DEF CacheIsRight
<1>5. WritesCache'
  BY <1>1 DEF WritesCache
<1>6. ConfigIsRight'
  <2>1. CASE session \in {"first", "set"}
    BY <1>1, <2>1 DEF ConfigIsRight, CodeIsKept, Forgotten
  <2>2. CASE session \notin {"first", "set"}
    BY <1>1, <1>2, <2>2 DEF ConfigIsRight, CodeIsKept
  <2> QED  BY <2>1, <2>2
<1> QED
  BY <1>3, <1>4, <1>5, <1>6 DEF SettingsInv

LEMMA SettingsInvariant == SettingsSpec => []SettingsInv
<1>1. SettingsInv /\ [SettingsNext]_settingsVars => SettingsInv'
  <2> SUFFICES ASSUME SettingsInv, [SettingsNext]_settingsVars PROVE SettingsInv'
    OBVIOUS
  <2>1. CASE SettingsNext
    BY <2>1, LaunchKeeps, WriteEndsKeeps, ConfigSetKeeps, CacheSetKeeps, CacheRenameKeeps,
       SessionEndsKeeps, UserEditsKeeps DEF SettingsNext
  <2>2. CASE UNCHANGED settingsVars
    BY <2>2 DEF settingsVars, SettingsInv, SettingsTyped, CacheIsRight, WritesCache,
                ConfigIsRight, CodeIsKept
  <2> QED  BY <2>1, <2>2
<1> QED
  BY <1>1, SettingsStart, PTL DEF SettingsSpec

LEMMA InvGivesTypes == SettingsInv => SettingsTypeOK
<1> SUFFICES ASSUME SettingsInv PROVE SettingsTypeOK
  OBVIOUS
<1>1. SettingsTyped
  BY DEF SettingsInv
<1>2. \A l \in Range(cache) \cup Range(tmp.lines) : Unescape(KeyOf(l)) \in CacheKeys
  <2>1. Range(cache) \subseteq Lines /\ Range(tmp.lines) \subseteq Lines
    BY <1>1, SeqMembers DEF SettingsTyped
  <2>2. \A l \in Lines : LineKey(l) \in CacheKeys  BY LineIs
  <2> QED  BY <2>1, <2>2 DEF LineKey
<1>3. (\A f \in Settable : stored[f] \subseteq Int) /\ (\A k \in CacheKeys : cached[k] \subseteq CacheValues \cup {Nil})
  BY <1>1 DEF SettingsTyped, Values
<1> QED
  BY <1>1, <1>2, <1>3 DEF SettingsTyped, SettingsTypeOK

LEMMA InvGivesStored == SettingsInv => StoredIsFound
<1> SUFFICES ASSUME SettingsInv, session = "on" PROVE
      /\ \A f \in Settable :
           \/ stored[f] = {}
           \/ \E c \in stored[f] : ConfigGet(f) = ConfigAnswer(f, c) \/ ~Reloads(f, c)
      /\ \A k \in CacheKeys :
           \/ cached[k] = {} \/ CacheGet(k) \in cached[k]
           \/ \E v \in cached[k] : v # Nil /\ Len(Line(k, v)) > MaxLine
  BY DEF StoredIsFound
<1>1. ASSUME NEW f \in Settable
      PROVE  stored[f] = {} \/ \E c \in stored[f] : ConfigGet(f) = ConfigAnswer(f, c) \/ ~Reloads(f, c)
  <2>1. CodeIsKept(f)  BY DEF SettingsInv, ConfigIsRight
  <2>2. CASE kb[f] \in stored[f]
    <3>1. ConfigGet(f) = ConfigAnswer(f, kb[f])  BY DEF ConfigGet
    <3> QED  BY <2>2, <3>1
  <2> QED  BY <2>1, <2>2 DEF CodeIsKept
<1>2. ASSUME NEW k \in CacheKeys
      PROVE  \/ cached[k] = {} \/ CacheGet(k) \in cached[k]
             \/ \E v \in cached[k] : v # Nil /\ Len(Line(k, v)) > MaxLine
  <2>1. ValueIsFound(cache, k, cached[k])  BY DEF SettingsInv, CacheIsRight
  <2>2. CacheGet(k) = GetOf(cache, k)  BY CacheGetIs
  <2> QED  BY <2>1, <2>2 DEF ValueIsFound, TooLong
<1> QED
  BY <1>1, <1>2

(* KeyBindings and the two files are what they should be: the type invariant.  *)
THEOREM SettingsTypes == SettingsSpec => []SettingsTypeOK
  BY SettingsInvariant, InvGivesTypes, PTL

(* What config_set and cache_set stored is what config_get and cache_get       *)
(* answer, in this and in later sessions (core/config.c, core/plugins_api.c):  *)
(* for every list of fields, every set of codes, texts, keys and values, and   *)
(* every length of a line.                                                     *)
THEOREM StoredIsFoundAgain == SettingsSpec => []StoredIsFound
  BY SettingsInvariant, InvGivesStored, PTL
=============================================================================
