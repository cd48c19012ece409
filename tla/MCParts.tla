------------------------------ MODULE MCParts ------------------------------
(* The parts of the program that share no state with each other, checked in   *)
(* one run: the browser, the plugin manager, the script machine's control,    *)
(* its heap and its maps, the archive readers, and what is stored of settings *)
(* and caches.  A behaviour runs one of them; the others keep one initial     *)
(* state.                                                                     *)
EXTENDS MCBrowser, Plugins, Script, ScriptHeap, ScriptMap, MCArchive,
        Settings, TLC

VARIABLE part
partsVars == << part, browserVars, pluginVars, scriptVars, loopVars, heapVars,
                mapVars, archiveVars, settingsVars >>

-----------------------------------------------------------------------------
(* Plugins: the directory, the selection and the pane change *)
MCContexts == {[cwd |-> "p", sel |-> "x", pane |-> 1], [cwd |-> "q", sel |-> "y", pane |-> 1],
               [cwd |-> "p", sel |-> "x", pane |-> 2]}

(* Maps: the probe sequences of 2, 3 and 4 meet, and wrap around *)
MCHash == [k \in 1..4 |-> CASE k = 1 -> 0 [] k = 2 -> 7 [] k = 3 -> 15 [] k = 4 -> 2]

(* Settings: a key, the two that may meet, and the number *)
MCFields == <<"key_up", "key_exit", "key_help", "info_label_width">>
MCDefaults == "key_up" :> 259 @@ "key_exit" :> KeyF(1) @@ "key_help" :> 72
                @@ "info_label_width" :> 15
MCSetCodes == {KeyF(12), 35, 72}
MCSetTexts == {<<"number", 27>>, <<"F", 13>>}
MCCacheKeys == {<<"nl">>, <<"bs", "n">>}
MCCacheValues == {<<"tab", "bs">>, <<"a", "a", "a", "a", "tab">>}
MCUserTexts == {<<"number", 27>>, <<"KEY_F", 13>>}

-----------------------------------------------------------------------------
PartsInit ==
  /\ part \in {"browser", "plugins", "script", "heap", "map", "archive", "settings"}
  /\ BrowserInit /\ PluginsInit /\ ScriptInit /\ HeapInit /\ MapInit
  /\ ArchiveInit /\ SettingsInit
  /\ part # "archive" => /\ archive = CHOOSE a \in Archives : TRUE
                         /\ client = "caller"

PartsNext ==
  \/ /\ part = "browser" /\ BrowserNext
     /\ UNCHANGED << part, pluginVars, scriptVars, loopVars, heapVars, mapVars, archiveVars,
                     settingsVars >>
  \/ /\ part = "plugins" /\ PluginsNext
     /\ UNCHANGED << part, browserVars, scriptVars, loopVars, heapVars, mapVars, archiveVars,
                     settingsVars >>
  \/ /\ part = "script" /\ ScriptNext
     /\ UNCHANGED << part, browserVars, pluginVars, heapVars, mapVars, archiveVars,
                     settingsVars >>
  \/ /\ part = "heap" /\ HeapNext
     /\ UNCHANGED << part, browserVars, pluginVars, scriptVars, loopVars, mapVars, archiveVars,
                     settingsVars >>
  \/ /\ part = "map" /\ MapNext
     /\ UNCHANGED << part, browserVars, pluginVars, scriptVars, loopVars, heapVars, archiveVars,
                     settingsVars >>
  \/ /\ part = "archive" /\ ArchiveNext
     /\ UNCHANGED << part, browserVars, pluginVars, scriptVars, loopVars, heapVars, mapVars,
                     settingsVars >>
  \/ /\ part = "settings" /\ SettingsNext
     /\ UNCHANGED << part, browserVars, pluginVars, scriptVars, loopVars, heapVars, mapVars,
                     archiveVars >>

PartsSpec == PartsInit /\ [][PartsNext]_partsVars

(* Every part's variables have their types: the request slots hold at most    *)
(* one argument, promises and frames are well formed, a map has a power of    *)
(* two slots of which one is free, an archive's window is a window, the files *)
(* of settings have lines of their fields and keys.                           *)
PartsTypeOK ==
  /\ BrowserTypeOK /\ PluginsTypeOK /\ ScriptTypeOK
  /\ HeapTypeOK /\ MapTypeOK /\ ArchiveTypeOK /\ SettingsTypeOK
=============================================================================
