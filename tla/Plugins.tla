------------------------------ MODULE Plugins ------------------------------
(* The plugin manager: scripts are loaded, register keys, event handlers and  *)
(* dialogs, and are called by the main loop (core/plugins.c, core/plugin_ui.c *)
(* and the natives of core/plugins_api.c).                                    *)
(*                                                                            *)
(* run is the place of the one thread: while run.vm is a script, that script  *)
(* is running and may call any native, in any number, until it returns.       *)
(* Calling into a virtual machine that was freed, or reading an entry of a    *)
(* list that has moved, is undefined: run.at is then "undefined".  What the   *)
(* requests to the browser do is in Browser, the editor's hooks in Editor.    *)
EXTENDS Integers, FiniteSets, Sequences, SequencesExt, FiniteSetsExt

CONSTANTS
  Scripts,     \* the plugin files
  Contexts,    \* what update_context reports: records [cwd, sel, pane]
  HandlerCap,  \* the first capacity of the list of handlers
  MenuItems,   \* the items of a menu
  MenuRows,    \* the rows the menu shows
  MaxApi,      \* bound on the calls of natives
  MaxRounds    \* bound on the rounds of the main loop

ASSUME PluginsAssumption ==
  /\ "nobody" \notin Scripts
  /\ {HandlerCap, MenuItems, MenuRows} \subseteq Nat \ {0}
  /\ {MaxApi, MaxRounds} \subseteq Nat

Nobody == "nobody"
Events == << "dir_change", "selection_change", "pane_change" >>

VARIABLES
  vms,        \* the virtual machine of each script
  pm,         \* the PluginManager
  run,        \* where the thread is
  asked, answered,   \* history: who asked for a dialog, who was given its result
  owed,       \* history: the calls the event being raised still has to make
  api, rounds        \* how many natives were called, and rounds made

pluginVars == << vms, pm, run, asked, answered, owed, api, rounds >>

PluginsInit ==
  /\ vms = [s \in Scripts |-> "new"]
  /\ pm = [loaded |-> << >>, handlers |-> << >>, cap |-> 0, bindings |-> << >>,
           mark |-> {}, context |-> {}, dialog |-> {},
           quit |-> FALSE, reload |-> FALSE, cd |-> {}]
  /\ run = [at |-> "load", vm |-> Nobody, i |-> 0, event |-> "none", rest |-> << >>,
            moved |-> FALSE, wiped |-> FALSE, sel |-> 0, start |-> 0]
  /\ asked = << >> /\ answered = << >>
  /\ owed = {}
  /\ api = 0 /\ rounds = 0

-----------------------------------------------------------------------------
(* Calls *)

(* cs_call into the machine of s, from the place r *)
Enter(s, r) ==
  run' = IF vms[s] = "freed" THEN [r EXCEPT !.at = "undefined"]
         ELSE [r EXCEPT !.vm = s, !.moved = FALSE, !.wiped = FALSE]

(* The thread goes on to another place *)
Goto(place) ==
  run' = [at |-> place, vm |-> Nobody, i |-> 0, event |-> "none", rest |-> << >>,
          moved |-> FALSE, wiped |-> FALSE, sel |-> 0, start |-> 0]

Between(place) == run.at = place /\ run.vm = Nobody

-----------------------------------------------------------------------------
(* Loading *)

LoadPlugin ==
  /\ Between("load")
  /\ \E s \in Scripts : /\ vms[s] = "new"
                        /\ vms' = [vms EXCEPT ![s] = "running"]
                        /\ run' = [run EXCEPT !.at = "top", !.vm = s]
  /\ UNCHANGED << pm, asked, answered, owed, api, rounds >>

(* A script that fails is freed, and what it registered so far stays *)
LoadFails ==
  /\ run.at = "top"
  /\ vms' = [vms EXCEPT ![run.vm] = "freed"] /\ Goto("load")
  /\ UNCHANGED << pm, asked, answered, owed, api, rounds >>

LoadSucceeds ==
  /\ run.at = "top"
  /\ pm' = [pm EXCEPT !.loaded = Append(@, run.vm)]
  /\ run' = [run EXCEPT !.at = "on_load"]
  /\ UNCHANGED << vms, asked, answered, owed, api, rounds >>

(* Mutant: a plugin whose on_load failed is freed as well *)
OnLoadFrees ==
  /\ run.at = "on_load" /\ Goto("load")
  /\ vms' \in {vms, [vms EXCEPT ![run.vm] = "freed"]}
  /\ UNCHANGED << pm, asked, answered, owed, api, rounds >>

(* An error in on_load is only notified *)
OnLoadReturns ==
  /\ run.at = "on_load" /\ Goto("load")
  /\ UNCHANGED << vms, pm, asked, answered, owed, api, rounds >>

(* The first context is stored without any event *)
LoopStarts ==
  /\ Between("load") /\ Goto("loop")
  /\ \E c \in Contexts : pm' = [pm EXCEPT !.context = {c}, !.reload = FALSE, !.cd = {}]
  /\ UNCHANGED << vms, asked, answered, owed, api, rounds >>

-----------------------------------------------------------------------------
(* What a running script may call *)

Native == /\ run.vm # Nobody /\ api < MaxApi /\ api' = api + 1
          /\ UNCHANGED << vms, answered, rounds >>

(* fm.on: the list is moved when it is full.  The loop that raises an event   *)
(* holds a pointer into it, except when the list was given up in between.     *)
FmOn ==
  LET full == Len(pm.handlers) = pm.cap
  IN  /\ Native /\ UNCHANGED << asked, owed >>
      /\ \E e \in Range(Events) :
           pm' = [pm EXCEPT !.handlers = Append(@, [event |-> e, vm |-> run.vm, id |-> api]),
                            !.cap = CASE ~full -> @ [] @ = 0 -> HandlerCap [] OTHER -> 2 * @]
      /\ run' = [run EXCEPT !.moved = @ \/ (full /\ pm.cap > 0 /\ ~run.wiped)]

FmBind ==
  /\ Native /\ UNCHANGED << run, asked, owed >>
  /\ pm' = [pm EXCEPT !.bindings = Append(@, run.vm)]

(* Mutant: the request is cleared before the callback as well as after it *)
FmAskAnswered ==
  /\ Native /\ UNCHANGED << run, owed >>
  /\ IF pm.dialog # {} /\ run.at # "dialog" THEN UNCHANGED << pm, asked >>
     ELSE /\ \E kind \in {"prompt", "confirm", "menu"} :
               pm' = [pm EXCEPT !.dialog = {[vm |-> run.vm, kind |-> kind]}]
          /\ asked' = Append(asked, run.vm)

(* prompt_async, confirm_async, menu_async: refused while a dialog is waiting *)
(* or its callback runs                                                       *)
FmAsk ==
  /\ Native /\ UNCHANGED << run, owed >>
  /\ IF pm.dialog # {} THEN UNCHANGED << pm, asked >>
     ELSE /\ \E kind \in {"prompt", "confirm", "menu"} :
               pm' = [pm EXCEPT !.dialog = {[vm |-> run.vm, kind |-> kind]}]
          /\ asked' = Append(asked, run.vm)

(* set_selected_paths and clear_selected_paths begin with                     *)
(* selected_paths_clear, which gives up the handlers and marks of everyone    *)
FmSelectPaths ==
  /\ Native /\ UNCHANGED asked
  /\ pm' = [pm EXCEPT !.handlers = << >>, !.cap = 0, !.mark = {}]
  /\ run' = [run EXCEPT !.wiped = TRUE]
  /\ owed' = {o \in owed : o.kind = "hook"}

FmMark ==
  /\ Native /\ UNCHANGED << run, asked, owed >>
  /\ pm' = [pm EXCEPT !.mark = IF pm.context = {} THEN @ ELSE {c.cwd : c \in pm.context}]

FmGotoMark ==
  /\ Native /\ UNCHANGED << run, asked, owed >>
  /\ pm' = [pm EXCEPT !.cd = IF pm.mark = {} THEN @ ELSE pm.mark]

FmRequest ==
  /\ Native /\ UNCHANGED << run, asked, owed >>
  /\ pm' \in {[pm EXCEPT !.quit = TRUE], [pm EXCEPT !.reload = TRUE]}

-----------------------------------------------------------------------------
(* A round of the main loop: update_context *)

(* What is raised next, and the calls it owes.  Only two of the events have a *)
(* hook in each plugin besides the handlers.                                  *)
Raise(rest, loaded, handlers) ==
  IF rest = << >> THEN Goto("binding") /\ UNCHANGED owed
  ELSE LET e     == Head(rest)
           hooks == IF e = "pane_change" THEN {} ELSE Range(loaded)
       IN  /\ run' = [run EXCEPT !.at = IF e = "pane_change" THEN "event" ELSE "hook",
                                 !.vm = Nobody, !.i = 0, !.event = e, !.rest = Tail(rest)]
           /\ owed' = owed \cup {[kind |-> "hook", of |-> s] : s \in hooks}
                      \cup {[kind |-> "handler", of |-> h.id] : h \in {x \in Range(handlers) : x.event = e}}

(* plugins_set_context_ex: one event for each part that differs *)
Round ==
  /\ Between("loop") /\ rounds < MaxRounds /\ rounds' = rounds + 1
  /\ \E new \in Contexts :
       LET old == CHOOSE c \in pm.context : TRUE
           differs(e) == CASE e = "dir_change"       -> old.cwd # new.cwd
                           [] e = "selection_change" -> old.sel # new.sel
                           [] OTHER                  -> old.pane # new.pane
       IN  /\ pm' = [pm EXCEPT !.context = {new}]
           /\ Raise(SelectSeq(Events, differs), pm.loaded, pm.handlers)
  /\ UNCHANGED << vms, asked, answered, api >>

(* The hook of each plugin in turn, then the handlers *)
NextHook ==
  /\ Between("hook") /\ UNCHANGED << vms, pm, asked, answered, api, rounds >>
  /\ IF run.i < Len(pm.loaded)
     THEN /\ Enter(pm.loaded[run.i + 1], [run EXCEPT !.i = @ + 1])
          /\ owed' = owed \ {[kind |-> "hook", of |-> pm.loaded[run.i + 1]]}
     ELSE run' = [run EXCEPT !.at = "event", !.i = 0] /\ UNCHANGED owed

(* dispatch_event2_str goes through the list as it is now *)
NextHandler ==
  LET later == {j \in run.i + 1 .. Len(pm.handlers) : pm.handlers[j].event = run.event}
  IN  /\ Between("event") /\ UNCHANGED << vms, pm, asked, answered, api, rounds >>
      /\ IF later # {}
         THEN LET h == pm.handlers[Min(later)]
              IN  /\ Enter(h.vm, [run EXCEPT !.i = Min(later)])
                  /\ owed' = owed \ {[kind |-> "handler", of |-> h.id]}
         ELSE Raise(run.rest, pm.loaded, pm.handlers)

(* Mutant: an error ends the event *)
EventStops(failed) == IF failed THEN Goto("binding") ELSE run' = [run EXCEPT !.vm = Nobody]

(* A hook or a handler is back.  After an error the entry is read once more.  *)
Continue(failed) ==
  run' = IF failed /\ run.moved /\ run.at = "event"
         THEN [run EXCEPT !.vm = Nobody, !.at = "undefined"]
         ELSE [run EXCEPT !.vm = Nobody, !.moved = FALSE, !.wiped = FALSE]

CallbackReturns ==
  /\ run.at \in {"hook", "event"} /\ run.vm # Nobody
  /\ \E failed \in BOOLEAN : Continue(failed)
  /\ UNCHANGED << vms, pm, asked, answered, owed, api, rounds >>

-----------------------------------------------------------------------------
(* plugins_handle_key *)

(* A key with bindings, or one without *)
NextBinding ==
  /\ Between("binding") /\ UNCHANGED << vms, pm, asked, answered, owed, api, rounds >>
  /\ \/ run.i < Len(pm.bindings) /\ Enter(pm.bindings[run.i + 1], [run EXCEPT !.i = @ + 1])
     \/ run.i \in {0, Len(pm.bindings)} /\ Goto("on_key")

NextOnKey ==
  /\ Between("on_key") /\ UNCHANGED << vms, pm, asked, answered, owed, api, rounds >>
  /\ IF run.i < Len(pm.loaded)
     THEN Enter(pm.loaded[run.i + 1], [run EXCEPT !.i = @ + 1]) ELSE Goto("poll")

(* A handled key, a wish to quit or to reload: nobody else sees the key *)
KeyReturns ==
  /\ run.at \in {"binding", "on_key"} /\ run.vm # Nobody
  /\ \E handled \in BOOLEAN :
       IF handled \/ pm.quit \/ pm.reload THEN Goto("poll")
       ELSE run' = [run EXCEPT !.vm = Nobody, !.moved = FALSE, !.wiped = FALSE]
  /\ UNCHANGED << vms, pm, asked, answered, owed, api, rounds >>

-----------------------------------------------------------------------------
(* plugins_poll and the modal dialogs *)

Answer(d, r) == Enter(d.vm, [r EXCEPT !.at = "dialog"]) /\ answered' = Append(answered, d.vm)

Poll ==
  /\ Between("poll") /\ UNCHANGED << vms, pm, asked, owed, api, rounds >>
  /\ CASE pm.quit        -> Goto("down") /\ UNCHANGED answered
       [] pm.dialog = {} -> Goto("requests") /\ UNCHANGED answered
       [] OTHER -> \E d \in pm.dialog :
            IF d.kind = "menu"
            THEN run' = [run EXCEPT !.at = "menu", !.sel = 0, !.start = 0] /\ UNCHANGED answered
            ELSE Answer(d, run)

(* plugin_modal_menu: the selection is clamped, then the window follows it *)
MenuMoves ==
  /\ Between("menu") /\ UNCHANGED << vms, pm, asked, answered, owed, api, rounds >>
  /\ \E step \in {-MenuRows, -1, 1, MenuRows} :
       LET rows == Min({MenuItems, MenuRows})
           sel  == Max({0, Min({run.sel + step, MenuItems - 1})})
       IN  run' = [run EXCEPT !.sel = sel, !.start = Max({Min({@, sel}), sel - rows + 1})]

(* Enter, or Esc *)
MenuEnds ==
  /\ Between("menu") /\ UNCHANGED << vms, pm, asked, owed, api, rounds >>
  /\ \E d \in pm.dialog, sel \in {run.sel, -1} : Answer(d, [run EXCEPT !.sel = sel])

(* The request is cleared only now *)
DialogReturns ==
  /\ run.at = "dialog" /\ run.vm # Nobody
  /\ pm' = [pm EXCEPT !.dialog = {}] /\ Goto("requests")
  /\ UNCHANGED << vms, asked, answered, owed, api, rounds >>

(* The loop takes one request: a directory comes first, and a reload after    *)
(* every other, which are not in this module                                  *)
TakeRequests ==
  /\ Between("requests")
  /\ Goto(IF pm.quit THEN "down" ELSE "loop")
  /\ pm' \in IF pm.cd # {} THEN {[pm EXCEPT !.cd = {}]}
             ELSE {pm, [pm EXCEPT !.reload = FALSE]}
  /\ UNCHANGED << vms, asked, answered, owed, api, rounds >>

(* plugins_shutdown; the exit key leads here as well *)
PluginsShutdown ==
  /\ Between("down") \/ Between("loop")
  /\ vms' = [s \in Scripts |-> IF s \in Range(pm.loaded) THEN "freed" ELSE vms[s]]
  /\ pm' = [pm EXCEPT !.loaded = << >>, !.handlers = << >>, !.cap = 0, !.bindings = << >>,
              !.mark = {}, !.context = {}, !.dialog = {},
              !.quit = FALSE, !.reload = FALSE, !.cd = {}]
  /\ Goto("off")
  /\ UNCHANGED << asked, answered, owed, api, rounds >>

PluginsOver == run.at \in {"off", "undefined"} /\ UNCHANGED pluginVars

PluginsNext ==
  \/ LoadPlugin \/ LoadFails \/ LoadSucceeds \/ OnLoadReturns \/ LoopStarts
  \/ FmOn \/ FmBind \/ FmAsk \/ FmSelectPaths \/ FmMark \/ FmGotoMark \/ FmRequest
  \/ Round \/ NextHook \/ NextHandler \/ CallbackReturns
  \/ NextBinding \/ NextOnKey \/ KeyReturns
  \/ Poll \/ MenuMoves \/ MenuEnds \/ DialogReturns \/ TakeRequests
  \/ PluginsShutdown \/ PluginsOver

PluginsSpec == PluginsInit /\ [][PluginsNext]_pluginVars

-----------------------------------------------------------------------------
(* Properties *)

(* The manager's state (plugins_internal.h), and the menu's selection within  *)
(* its items and its window (plugin_ui.c).                                    *)
PluginsTypeOK ==
  /\ vms \in [Scripts -> {"new", "running", "freed"}]
  /\ pm.loaded \in Seq(Scripts) /\ pm.bindings \in Seq(Scripts)
  /\ \A h \in Range(pm.handlers) : h.event \in Range(Events) /\ h.vm \in Scripts
  /\ Len(pm.handlers) <= pm.cap
  /\ pm.context \subseteq Contexts /\ Cardinality(pm.context) <= 1
  /\ Cardinality(pm.dialog) <= 1
  /\ {pm.quit, pm.reload, run.moved, run.wiped} \subseteq BOOLEAN
  /\ run.vm \in Scripts \cup {Nobody}
  /\ run.at = "menu" => /\ run.sel \in 0 .. MenuItems - 1
                        /\ run.sel - run.start \in 0 .. Min({MenuItems, MenuRows}) - 1
  /\ api \in 0 .. MaxApi /\ rounds \in 0 .. MaxRounds

(* The manager calls no virtual machine that was freed and reads no list that *)
(* was moved, with two exceptions: a script that registered something and     *)
(* then failed to load is freed while its registrations stay, and the error   *)
(* of a handler is read through the entry although the handler may have       *)
(* moved the list with fm.on.                                                 *)
CallsReachLiveScripts ==
  run.at = "undefined" =>
    \/ run.moved
    \/ \E s \in Range(pm.bindings) \cup {h.vm : h \in Range(pm.handlers)} \cup {d.vm : d \in pm.dialog} :
         vms[s] = "freed" /\ s \notin Range(pm.loaded)

(* An event reaches every plugin's hook and every handler registered when it  *)
(* was raised, although the callbacks change the list that is gone through;   *)
(* only set_selected_paths and clear_selected_paths take handlers away.       *)
EventReachesEveryone ==
  run.at \notin {"hook", "event", "undefined"} => owed = {}

(* Dialogs are answered in the order in which they were accepted, each once   *)
(* and to the script that asked, and none outlives the round it was asked in. *)
DialogIsAnswered ==
  /\ IsPrefix(answered, asked)
  /\ run.at = "loop" /\ rounds > 0 => answered = asked
=============================================================================
