------------------------------ MODULE Settings ------------------------------
(* What outlives a session: ~/.cupidfmrc, read at launch (main.c) and written  *)
(* whole by fm.config_set (core/config.c), and the cache of plugins,           *)
(* ~/.cupidfm/cache.kv (fm.cache_set of core/plugins_api.c).  A text of the    *)
(* configuration is a pair of its form and what is in it: "F12" is <<"F", 12>>. *)
EXTENDS Integers, Sequences, SequencesExt, FiniteSets, FiniteSetsExt

CONSTANTS
  Fields,       \* the names of KeyBindings, in the order of the file
  Defaults,     \* [Range(Fields) -> Int]
  SetCodes,     \* key codes that scripts set
  SetTexts,     \* texts that scripts set
  UserTexts,    \* texts that the user writes into the file
  CacheKeys, CacheValues,   \* strings: sequences of characters
  MaxLine,      \* what fgets reads of a line of the cache, 2047 in the code
  MaxSets       \* bound on changes by scripts and the user

ASSUME SettingsAssumption ==
  /\ Fields \in Seq(STRING)
  /\ Defaults \in [Range(Fields) -> Int] /\ SetCodes \subseteq Int
  /\ SetTexts \cup UserTexts \subseteq STRING \X Int
  /\ {"key_exit", "key_help", "info_label_width"} \subseteq Range(Fields)
  /\ CacheKeys \cup CacheValues \subseteq Seq(STRING)
  /\ {MaxLine, MaxSets} \subseteq Nat

VARIABLES
  session,   \* "off", "on", or what is being written: "first", "set", "cache"
  kb,        \* g_kb
  rc,        \* the configuration file: its lines by their fields
  cache,     \* the lines of the cache file
  tmp,       \* cache.kv.tmp: its lines, for whom it is written, and the keys
             \* whose values will be lost with it
  stored,    \* history: the codes config_get may answer, {}: any
  cached,    \* history: the values cache_get may answer, {}: any
  sets       \* how much of MaxSets is used

settingsVars == << session, kb, rc, cache, tmp, stored, cached, sets >>

FieldNames == Range(Fields)
Width == "info_label_width"
Nil == << "nil" >>
Bad == -1

-----------------------------------------------------------------------------
(* Key codes and their texts *)

KeyF(n) == 264 + n
Named == {258, 259, 260, 261, 263, 32}      \* the arrows, Backspace, Space
CtrlShift == 8193 .. 8218
Comment == {35, 59}                         \* # and ;

KeycodeText(c) ==
  CASE c \in KeyF(1) .. KeyF(63) -> << "F", c - 264 >>
    [] c \in 1 .. 26 -> << "^", c >>
    [] c \in Named -> << "name", c >>
    [] c \in 33 .. 126 -> << "char", c >>
    [] OTHER -> << "number", c >>
PluginText(c) == IF c \in CtrlShift THEN << "^_", c >> ELSE KeycodeText(c)

(* A digit is a character; no other number is the name of a key.              *)
CommonKey(t) ==
  CASE t[1] \in {"^", "name", "char"} -> t[2]
    [] t[1] = "number" /\ t[2] \in 0 .. 9 -> 48 + t[2]
    [] t[1] = "KEY_F" /\ t[2] \in 1 .. 63 -> KeyF(t[2])
    [] OTHER -> Bad
ParseKey(t) == IF t[1] = "F" /\ t[2] \in 1 .. 12 THEN KeyF(t[2]) ELSE CommonKey(t)
PluginParseKey(t) ==
  CASE t[1] = "F" /\ t[2] \in 1 .. 63 -> KeyF(t[2])
    [] t[1] = "^_" -> t[2]
    [] OTHER -> CommonKey(t)

(* cupidconf_load ends a value at the first # or ;, wherever it is.           *)
LineValue(t) == IF t[1] = "char" /\ t[2] \in Comment THEN << "none", 0 >> ELSE t

Valid(f, t) == IF f = Width THEN t[1] = "number" ELSE ParseKey(LineValue(t)) # Bad
Parsed(f, t) == IF f = Width THEN t[2] ELSE ParseKey(LineValue(t))
Rendered(f, c) == IF f = Width THEN << "number", c >> ELSE KeycodeText(c)

-----------------------------------------------------------------------------
(* The files *)

NoFile == [there |-> FALSE, lines |-> [f \in {} |-> << >>]]
Truncated == [NoFile EXCEPT !.there = TRUE]
(* The first n lines of the file for k: all of them, or as many as fit.       *)
Written(k, n) ==
  [Truncated EXCEPT !.lines = [f \in Range(SubSeq(Fields, 1, n)) |-> Rendered(f, k[f])]]

Errors(file) == IF file.there THEN Cardinality({f \in DOMAIN file.lines : ~Valid(f, file.lines[f])})
                ELSE 1
Loaded(file) ==
  [f \in FieldNames |-> IF f \in DOMAIN file.lines /\ Valid(f, file.lines[f])
                    THEN Parsed(f, file.lines[f]) ELSE Defaults[f]]
(* A help key that is the exit key becomes h, in memory only.                 *)
Unconflicted(k) == IF k["key_help"] = k["key_exit"] THEN [k EXCEPT !["key_help"] = 104] ELSE k

(* A line of the cache: its key and its value with a tab between, neither of   *)
(* which has a tab or a newline in it.  The value has a tag for its type; one  *)
(* that lost it to the end of the line is read as it is.                       *)
Escaped(c) ==
  CASE c = "tab" -> << "bs", "t" >>
    [] c = "nl" -> << "bs", "n" >>
    [] c = "bs" -> << "bs", "bs" >>
    [] OTHER -> << c >>
Escape(s) == FlattenSeq([i \in DOMAIN s |-> Escaped(s[i])])

Meant(c) == CASE c = "t" -> "tab" [] c = "n" -> "nl" [] OTHER -> c
ReadOne(a, c) ==
  IF a.bs THEN [out |-> Append(a.out, Meant(c)), bs |-> FALSE]
  ELSE IF c = "bs" THEN [out |-> a.out, bs |-> TRUE]
  ELSE [out |-> Append(a.out, c), bs |-> FALSE]
Unescape(s) ==
  LET r == FoldLeft(ReadOne, [out |-> << >>, bs |-> FALSE], s)
  IN IF r.bs THEN Append(r.out, "bs") ELSE r.out
Tag == << "s", ":" >>
Tagged(v) == Tag \o Escape(v)
Decoded(raw) == Unescape(IF IsPrefix(Tag, raw) THEN SubSeq(raw, 3, Len(raw)) ELSE raw)
Line(k, v) == Escape(k) \o << "tab" >> \o Tagged(v)
TabIn(l) == SelectInSeq(l, LAMBDA c : c = "tab")
KeyOf(l) == SubSeq(l, 1, TabIn(l) - 1)
ValueOf(l) == SubSeq(l, TabIn(l) + 1, Len(l))
(* What is beyond is read as a line of its own, without a tab, and skipped.   *)
AsRead(l) == SubSeq(l, 1, Min({Len(l), MaxLine}))
(* A key so long that its line is cut before the tab is left out.             *)
ASSUME KeysFit == \A k \in CacheKeys : Len(Escape(k)) < MaxLine

(* The lines without those of the key.                                        *)
Dropped(lines, k) ==
  FoldLeft(LAMBDA kept, l : IF KeyOf(l) = Escape(k) THEN kept ELSE Append(kept, l),
           << >>, lines)

(* A bug: the line of the key is kept and the new one added behind it.        *)
AlwaysAppended(lines, k, v) ==
  IF v = Nil THEN Dropped(lines, k)
  ELSE Append([i \in DOMAIN lines |-> AsRead(lines[i])], Line(k, v))
Rewritten(lines, k, v) ==
  LET Same(l) == KeyOf(l) = Escape(k)
      kept == IF v = Nil THEN Dropped(lines, k) ELSE lines
      new == [i \in DOMAIN kept |-> IF Same(kept[i]) THEN Line(k, v) ELSE AsRead(kept[i])]
  IN IF v = Nil \/ \E l \in Range(lines) : Same(l) THEN new ELSE Append(new, Line(k, v))

ConfigAnswer(f, c) == IF f = Width THEN c ELSE PluginText(c)
ConfigGet(f) == ConfigAnswer(f, kb[f])
(* What config_key_to_field knows. *)
Settable == FieldNames \ {"key_help", "edit_uppercase"}
CacheGet(k) ==
  LET i == SelectInSeq(cache, LAMBDA l : Unescape(KeyOf(l)) = k)
  IN IF i = 0 THEN Nil ELSE Decoded(ValueOf(AsRead(cache[i])))

-----------------------------------------------------------------------------
(* A session *)

NoTmp == [lines |-> << >>, key |-> Nil, val |-> Nil, lost |-> {}]

SettingsInit ==
  /\ session = "off" /\ kb = Defaults /\ rc = NoFile
  /\ cache = << >> /\ tmp = NoTmp
  /\ stored = [f \in Settable |-> {}] /\ cached = [k \in CacheKeys |-> {Nil}]
  /\ sets = 0

Spent == sets < MaxSets /\ sets' = sets + 1
CacheSame == UNCHANGED << cache, tmp, cached >>

(* One error is returned as 1, which is also what a missing file returns: main *)
(* then writes the file anew, from what it could read of it.                  *)
Launch ==
  /\ session = "off"
  /\ IF Errors(rc) = 1
     THEN \/ session' = "first" /\ kb' = Loaded(rc) /\ rc' = Truncated
          \/ session' = "on" /\ kb' = Unconflicted(Loaded(rc)) /\ UNCHANGED rc
     ELSE session' = "on" /\ kb' = Unconflicted(Loaded(rc)) /\ UNCHANGED rc
  /\ CacheSame /\ UNCHANGED << stored, sets >>

(* The file is truncated when it is opened, and written when it is closed: in *)
(* between the program may be killed, and the disk may be full.               *)
Forgotten == [f \in Settable |-> {}]
WriteEnds ==
  /\ session \in {"first", "set"} /\ session' = "on"
  /\ \/ rc' = Written(kb, Len(Fields)) /\ UNCHANGED stored
     \/ \E n \in 0 .. Len(Fields) - 1 : rc' = Written(kb, n) /\ stored' = Forgotten
  /\ kb' = IF session = "first" THEN Unconflicted(kb) ELSE kb
  /\ CacheSame /\ UNCHANGED sets

ConfigSet ==
  /\ session = "on" /\ Spent
  /\ \E f \in Settable, c \in SetCodes \cup ({PluginParseKey(t) : t \in SetTexts} \ {Bad}) :
       /\ kb' = [kb EXCEPT ![f] = c]
       /\ \/ /\ session' = "set" /\ rc' = Truncated
             /\ stored' = [stored EXCEPT ![f] = {c}]
          \/ /\ UNCHANGED << session, rc >>
             /\ stored' = [stored EXCEPT ![f] = IF @ = {} THEN {} ELSE @ \cup {c}]
  /\ CacheSame

(* The new cache file is written beside the old one.  An old one that cannot   *)
(* be opened counts as empty, and nobody asks whether the writing went well.   *)
CacheSet ==
  /\ session = "on" /\ session' = "cache" /\ Spent
  /\ \E k \in CacheKeys, v \in CacheValues \cup {Nil}, opened \in BOOLEAN :
       LET all == Rewritten(IF opened THEN cache ELSE << >>, k, v)
           unread == IF opened THEN {} ELSE CacheKeys \ {k}
       IN \/ tmp' = [lines |-> all, key |-> k, val |-> v, lost |-> unread]
          \/ \E n \in 0 .. Len(all) - 1 :
               tmp' = [lines |-> SubSeq(all, 1, n), key |-> k, val |-> v, lost |-> CacheKeys]
  /\ UNCHANGED << kb, rc, cache, stored, cached >>

CacheRename ==
  /\ session = "cache" /\ session' = "on" /\ tmp' = NoTmp
  /\ \/ /\ cache' = tmp.lines
        /\ cached' = [k \in CacheKeys |-> IF k \in tmp.lost THEN {}
                                          ELSE IF k = tmp.key THEN {tmp.val} ELSE cached[k]]
     \/ UNCHANGED << cache, cached >>
  /\ UNCHANGED << kb, rc, stored, sets >>

(* The end of a session, in any way: what was being written is lost.          *)
SessionEnds ==
  /\ session # "off" /\ session' = "off" /\ tmp' = NoTmp /\ kb' = Defaults
  /\ stored' = IF session \in {"first", "set"} THEN Forgotten ELSE stored
  /\ UNCHANGED << rc, cache, cached, sets >>

(* The user edits the file, or deletes it, at any time: README.md 263-301.    *)
UserEdits ==
  /\ session \in {"off", "on"} /\ Spent
  /\ \/ \E f \in FieldNames, t \in UserTexts :
          /\ rc' = [there |-> TRUE,
                    lines |-> [g \in DOMAIN rc.lines \cup {f} |-> IF g = f THEN t ELSE rc.lines[g]]]
          /\ stored' = IF f \in Settable THEN [stored EXCEPT ![f] = {}] ELSE stored
     \/ rc' = NoFile /\ stored' = Forgotten
  /\ CacheSame /\ UNCHANGED << session, kb >>

SettingsNext == \/ Launch \/ WriteEnds \/ ConfigSet \/ CacheSet \/ CacheRename
                \/ SessionEnds \/ UserEdits

SettingsSpec == SettingsInit /\ [][SettingsNext]_settingsVars

-----------------------------------------------------------------------------
(* Properties *)

(* KeyBindings, and what can be in the two files. *)
SettingsTypeOK ==
  /\ session \in {"off", "on", "first", "set", "cache"}
  /\ kb \in [FieldNames -> Int]
  /\ rc.there \in BOOLEAN /\ DOMAIN rc.lines \subseteq FieldNames
  /\ \A l \in Range(cache) \cup Range(tmp.lines) : Unescape(KeyOf(l)) \in CacheKeys
  /\ \A f \in Settable : stored[f] \subseteq Int
  /\ \A k \in CacheKeys : cached[k] \subseteq CacheValues \cup {Nil}
  /\ sets \in 0 .. MaxSets

(* The codes that are the same after the file was written and read: not F13   *)
(* and above, not # and ;, not what is written as a number.                   *)
Reloads(f, c) ==
  f = Width \/ c \in (1 .. 26) \cup Named \cup ((33 .. 126) \ Comment) \cup (KeyF(1) .. KeyF(12))

(* What fm.config_set and fm.cache_set said they stored is what fm.config_get *)
(* and fm.cache_get answer, in this and in later sessions: over kills, failed *)
(* writes of other values, the rewriting of a file with an error in it, and   *)
(* the user's edits of other lines.  The exceptions are key codes that do not *)
(* reload, values too long for a line, which are cut, everything after a      *)
(* write that filled the disk or a configuration killed while it was written, *)
(* and the other keys after a cache_set that could not open the cache.        *)
StoredIsFound ==
  session = "on" =>
    /\ \A f \in Settable :
         \/ stored[f] = {}
         \/ \E c \in stored[f] : ConfigGet(f) = ConfigAnswer(f, c) \/ ~Reloads(f, c)
    /\ \A k \in CacheKeys :
         \/ cached[k] = {} \/ CacheGet(k) \in cached[k]
         \/ \E v \in cached[k] : v # Nil /\ Len(Line(k, v)) > MaxLine
=============================================================================
