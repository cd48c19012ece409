----------------------------- MODULE MCBrowser -----------------------------
(* Browser on a small instance: a directory in a directory, a listing of two  *)
(* batches, and searches with more matches than their buffer is made for.     *)
EXTENDS Browser, TLC

MCNames == {"a", "b", "c", "d"}
MCDirNames == {"d"}
MCPaths == {<< >>, <<"d">>, <<"d", "d">>}
MCDisk0 == << >> :> <<"b", "a", "d">> @@ <<"d">> :> <<"d", "a">> @@ <<"d", "d">> :> << >>
MCQueries == {"p", "q"}
MCScore == [q \in MCQueries |-> IF q = "p" THEN "a" :> 1 @@ "b" :> 2 @@ "c" :> 0 @@ "d" :> -1
                                ELSE "a" :> -1 @@ "b" :> -1 @@ "c" :> -1 @@ "d" :> 0]
MCHits == [m \in {"exact", "regex"} |-> [q \in MCQueries |-> IF q = "p" THEN {"a", "c"} ELSE {"a", "b", "d"}]]
MCCalls ==
  {[kind |-> k, arg |-> "yes"] : k \in {"clear_search", "parent_dir", "enter_dir",
                                        "open_selected", "fileop", "reload"}}
  \cup {[kind |-> k, arg |-> p] : k \in {"cd", "open_path", "preview"}, p \in {<<"d", "d">>}}
  \cup {[kind |-> "select_index", arg |-> 2], [kind |-> "select", arg |-> "c"]}
  \cup {[kind |-> "set_search", arg |-> "p"], [kind |-> "search_mode", arg |-> "exact"]}
=============================================================================
