------------------------------ MODULE MCArchive ------------------------------
(* Archives small enough to be listed, and read, in every order of calls.     *)
EXTENDS Archive

(* Members: sizes below, at and above a block, an empty file, a hard link,   *)
(* a member that is no file, a long name                                      *)
File(size, meta) ==
  [type |-> "file", size |-> size, meta |-> meta, data |-> size]
NoData(type) == [type |-> type, size |-> 0, meta |-> 0, data |-> 0]
MCTarMembers == {<<File(2, 0), File(1, 0), File(3, 0)>>,
                 <<File(3, 1), NoData("dir"), File(2, 2)>>,
                 <<File(0, 0), NoData("symlink"), File(1, 0)>>,
                 <<[File(3, 0) EXCEPT !.type = "other"],
                   [File(1, 0) EXCEPT !.type = "hardlink"], File(2, 0)>>}
MCZipMembers == {<<File(2, 0), File(1, 0), File(3, 0)>>, <<NoData("dir"), File(2, 0)>>}
MCArchives ==
  [kind : {"tar", "targz", "tarxz"}, members : MCTarMembers]
    \cup [kind : {"zip", "zipstream"}, members : MCZipMembers]
    \cup [kind : {"gz", "7z"}, members : {<<File(3, 0)>>}]
(* A member of three units with its size in a pax header: its own header has  *)
(* none, or the part of it that fits                                          *)
MCLargeMembers == {<<[File(size, 1) EXCEPT !.data = 3], File(1, 0)>> : size \in 0..1}
MCPaxArchives ==
  MCArchives \cup [kind : {"tar", "targz", "tarxz"}, members : MCLargeMembers]
=============================================================================
