------------------------------ MODULE Archive ------------------------------
(***************************************************************************)
(* The archive readers of cupidarchive: one reader over one byte stream,   *)
(* its list of entries (arc_next), the stream of an entry's data           *)
(* (arc_open_data, a window on the reader's own stream), and the loop that *)
(* extracts every entry (arc_extract_to_path).                             *)
(*                                                                         *)
(* The reader and every data stream opened on it share the position of one *)
(* underlying stream, and a caller may use them in any order.  What the    *)
(* module asks is whether each of them still finds its own bytes.          *)
(*                                                                         *)
(* Bytes are counted in units; a TAR block is TarBlock units, a ZIP local  *)
(* header with its name is one unit, and a member's data any number.       *)
(***************************************************************************)
EXTENDS Integers, Sequences, FiniteSets

CONSTANTS
  Archives,  \* the archives a caller may open: [kind, members]
  TarBlock,  \* units in a TAR block
  MaxRead    \* most units one read asks for

(* A member is [type, size, meta, data]: size is what its header says,     *)
(* meta the size of the pax or GNU header that precedes it, zero when      *)
(* there is none, and data what the archive holds of it.  The last two     *)
(* differ when a pax header has the size of a member that is too large for *)
(* its own.  Only TAR has hard links, and they have no data.               *)
TarKinds == {"tar", "targz", "tarxz"}
ArchiveKinds == TarKinds \cup {"zip", "zipstream", "gz", "7z"}
Types == {"file", "dir", "symlink", "hardlink", "other"}

ASSUME ArchiveAssumption ==
  /\ TarBlock \in Nat \ {0}
  /\ MaxRead \in Nat \ {0}
  /\ \A a \in Archives :
       /\ a.kind \in ArchiveKinds
       /\ a.members \in Seq([type : Types, size : Nat, meta : Nat, data : Nat])
       /\ a.kind \in {"gz", "7z"} => Len(a.members) = 1
       /\ a.kind \notin TarKinds =>
            \A i \in 1 .. Len(a.members) : a.members[i].type # "hardlink"
       /\ \A i \in 1 .. Len(a.members) :
            LET m == a.members[i]
            IN \/ m.data = m.size
               \/ a.kind \in TarKinds /\ m.meta > 0 /\ m.size < m.data

VARIABLES
  archive,    \* the archive the reader was opened on
  position,   \* position of the reader's stream, which data streams share
  reader,     \* the reader's fields
  current,    \* member of the last entry arc_next returned, 0 before
  stream,     \* the data stream the caller holds
  given,      \* the units its last read returned
  found,      \* what the last arc_next returned
  moved,      \* a data stream has moved a TAR reader's stream
  orderly,    \* every entry returned was the one after the last
  client,     \* who drives the reader
  extracted,  \* members whose content is at the destination
  failures,   \* error_count of arc_extract_to_path
  outcome     \* its result, or "running"

archiveVars == <<archive, position, reader, current, stream, given, found,
                 moved, orderly, client, extracted, failures, outcome>>

Members == archive.members
Total == Len(Members)
Tar == archive.kind \in TarKinds
(* Filters decompress as they go: no seek, and the xz one no tell either. *)
Seekable == archive.kind \notin {"targz", "tarxz", "gz"}

Padding(size) == (TarBlock - (size % TarBlock)) % TarBlock
Padded(size) == size + Padding(size)
(* A hard link has no data, whatever its header says. *)
Length(m) == IF m.type = "hardlink" THEN 0 ELSE m.data
(* stored_size, what the reader takes for it: the size in the header, even *)
(* when the pax header in front of it has said another.                    *)
Stored(m) == IF m.type = "hardlink" THEN 0 ELSE m.size

(* Units member i takes before its data and in all. *)
Lead(m) ==
  CASE Tar -> (IF m.meta > 0 THEN TarBlock + Padded(m.meta) ELSE 0) + TarBlock
    [] archive.kind \in {"zip", "zipstream"} -> 1
    [] OTHER -> 0
Extent(m) == Lead(m) + (IF Tar THEN Padded(Length(m)) ELSE Length(m))

MemberStart[i \in 1 .. Total + 1] ==
  IF i = 1 THEN 0 ELSE MemberStart[i - 1] + Extent(Members[i - 1])
DataAt(i) == MemberStart[i] + Lead(Members[i])
(* Two zero blocks end a TAR; a central directory may end a ZIP. *)
FileEnd == MemberStart[Total + 1] + (IF Tar THEN 2 * TarBlock ELSE 0)

Smaller(a, b) == IF a < b THEN a ELSE b

(* The unit at a position: its member's k-th unit of data, or not data. *)
Unit(i, k) == <<i, k>>
NotData == Unit(0, 0)
UnitAt(p) ==
  LET owners == {i \in 1 .. Total :
                   DataAt(i) <= p /\ p < DataAt(i) + Length(Members[i])}
  IN IF owners = {} THEN NotData
     ELSE LET i == CHOOSE j \in owners : TRUE IN Unit(i, p - DataAt(i) + 1)

NoStream == [of |-> 0, offset |-> 0, length |-> 0, at |-> 0, used |-> 0]
HoldsStream == stream.of # 0

(* What a reader that was just opened knows. *)
Opened == [valid |-> archive.kind \in {"gz", "7z"}, offset |-> 0,
           remaining |-> 0, index |-> 1, eof |-> FALSE, freed |-> FALSE]

----------------------------------------------------------------------------
(* TAR. *)

(* tar_skip_bytes: a seek from wherever the stream is, or reads up to the  *)
(* end of the file when the stream cannot seek; -1 stands for a failure.   *)
SkipFrom(p, n) ==
  IF Seekable \/ p + n <= FileEnd THEN p + n ELSE -1

(* Mutant: the padding after the data is forgotten. *)
SkipsNoPadding(p, n) == SkipFrom(p, n)

SkipPaddedFrom(p, n) ==
  LET q == SkipFrom(p, n)
  IN IF q < 0 THEN -1 ELSE SkipFrom(q, Padding(n))

(* What a header read at p sees.  "junk" is a block that is no header of   *)
(* this archive (content is not taken to look like one); "short" is the    *)
(* end of the file inside a header.                                        *)
HeaderAt(p) ==
  CASE p >= FileEnd -> "end"
    [] p < FileEnd /\ p + TarBlock > FileEnd -> "short"
    [] p \in {MemberStart[Total + 1], MemberStart[Total + 1] + TarBlock} -> "zero"
    [] \E i \in 1 .. Total : p = MemberStart[i] /\ Members[i].meta > 0 -> "meta"
    [] \E i \in 1 .. Total : p = DataAt(i) - TarBlock -> "header"
    [] OTHER -> "junk"

(* The headers a read at p goes through: a metadata header's payload and   *)
(* padding are consumed and the next header is read.                       *)
AfterMeta(p) ==
  IF HeaderAt(p) # "meta" THEN p
  ELSE LET i == CHOOSE j \in 1 .. Total : p = MemberStart[j]
       IN SkipPaddedFrom(p + TarBlock, Members[i].meta)

NoEntry(what, p) ==
  /\ found' = what
  /\ position' = p
  /\ UNCHANGED <<current, orderly>>

ReturnEntry(i) ==
  /\ found' = "entry"
  /\ current' = i
  /\ orderly' = (orderly /\ i = current + 1)

(* tar_read_entry at p.  A junk block fails the checksum, unless it is a   *)
(* block of zeros, which is taken for the end of the archive.              *)
TarReadEntry(p, r) ==
  IF r.eof THEN NoEntry("done", p) /\ reader' = r
  ELSE LET h == AfterMeta(p)
           after == Smaller(h + TarBlock, FileEnd)
       IN \/ /\ HeaderAt(h) = "header"
             /\ \E i \in 1 .. Total :
                  /\ h = DataAt(i) - TarBlock
                  /\ ReturnEntry(i)
                  /\ reader' = [r EXCEPT
                       !.valid = TRUE,
                       !.offset = IF archive.kind = "tarxz" THEN -1
                                  ELSE h + TarBlock,
                       !.remaining = Stored(Members[i])]
             /\ position' = h + TarBlock
          \/ /\ HeaderAt(h) \in {"zero", "end", "junk"}
             /\ NoEntry("done", IF HeaderAt(h) = "end" THEN h ELSE after)
             /\ reader' = [r EXCEPT !.eof = TRUE]
          \/ /\ HeaderAt(h) \in {"junk", "short"}
             /\ NoEntry("error", after)
             /\ reader' = r

(* arc_tar_next: the data of the entry before is skipped first. *)
TarNext ==
  IF reader.valid /\ reader.remaining > 0
  THEN LET p == SkipPaddedFrom(position, reader.remaining)
       IN IF p < 0 THEN NoEntry("error", FileEnd) /\ UNCHANGED reader
          ELSE TarReadEntry(p, [reader EXCEPT !.remaining = 0,
                                              !.valid = FALSE])
  ELSE TarReadEntry(position, reader)

----------------------------------------------------------------------------
(* ZIP and the readers of one file. *)

Listed(i, offset, p) ==
  /\ ReturnEntry(i)
  /\ position' = p
  /\ reader' = [reader EXCEPT !.valid = TRUE, !.offset = offset,
                  !.remaining = Members[i].size, !.index = i + 1]

(* zip_read_entry: the central directory, by index, without the stream. *)
ZipNext ==
  IF reader.eof \/ reader.index > Total
  THEN NoEntry("done", position) /\ reader' = [reader EXCEPT !.eof = TRUE]
  ELSE Listed(reader.index, MemberStart[reader.index], position)

(* zip_read_entry_streaming: the local headers, at stream_pos. *)
ZipStreamNext ==
  IF reader.eof \/ reader.index > Total
  THEN NoEntry("done", position) /\ reader' = [reader EXCEPT !.eof = TRUE]
  ELSE Listed(reader.index, DataAt(reader.index), DataAt(reader.index))

(* arc_compressed_next, arc_7z_next: the one entry, once. *)
OneNext ==
  IF ~reader.valid \/ reader.index > 1
  THEN NoEntry("done", position) /\ UNCHANGED reader
  ELSE /\ ReturnEntry(1)
       /\ reader' = [reader EXCEPT !.index = 2]
       /\ UNCHANGED position

ArcNext ==
  CASE Tar -> TarNext
    [] archive.kind = "zip" -> ZipNext
    [] archive.kind = "zipstream" -> ZipStreamNext
    [] OTHER -> OneNext

----------------------------------------------------------------------------
(* The data of the current entry. *)

Window(offset, length) ==
  [of |-> current, offset |-> offset, length |-> length, at |-> 0, used |-> 0]

(* arc_zip_open_data reads the local header where the entry says it is;    *)
(* in streaming mode that is where the data starts, and no header is read. *)
OpenedData ==
  IF ~reader.valid THEN NoStream
  ELSE CASE Tar -> IF reader.remaining = 0 \/ reader.offset < 0 THEN NoStream
                   ELSE Window(reader.offset, reader.remaining)
         [] archive.kind = "zip" ->
              IF reader.remaining = 0 THEN NoStream
              ELSE Window(reader.offset + 1, reader.remaining)
         [] archive.kind = "zipstream" -> NoStream
         [] OTHER -> Window(0, Members[1].size)

(* Where opening leaves the shared position. *)
OpenMoves(w) ==
  IF w # NoStream /\ archive.kind \in {"zip", "7z"} THEN w.offset
  ELSE position

(* How many of n units a read of the window w may return: its byte limit   *)
(* counts every unit read so far, its bounds where it is now.              *)
Allowed(w, n) ==
  Smaller(n, Smaller(w.length - w.used, w.length - w.at))

(* Mutant: the shared stream is read where it happens to be. *)
ReadsInPlace(w) == position

(* substream_read seeks the shared stream to its own place, then reads.    *)
ReadFrom(w) == w.offset + w.at
Units(p, n) == [k \in 1 .. n |-> UnitAt(p + k - 1)]

(* A data stream of a filter cannot seek and fails; the stream of a single *)
(* compressed file is the filter itself, which just reads on.              *)
ReadsOn == archive.kind = "gz"

ReadData(n) ==
  LET from == IF ReadsOn THEN position ELSE ReadFrom(stream)
      m == IF ReadsOn THEN Smaller(n, FileEnd - position)
           ELSE Allowed(stream, n)
  IN /\ HoldsStream
     /\ IF m <= 0 \/ ~(Seekable \/ ReadsOn)
        THEN /\ given' = <<>>
             /\ UNCHANGED <<position, stream, moved>>
        ELSE /\ given' = Units(from, m)
             /\ position' = from + m
             /\ stream' = [stream EXCEPT !.at = @ + m, !.used = @ + m]
             /\ moved' = (moved \/ Tar)
     /\ UNCHANGED <<archive, reader, current, orderly, found>>

(* substream_seek: the window's own place, and not its byte limit. *)
SeekData(p) ==
  /\ HoldsStream
  /\ ~ReadsOn
  /\ p <= stream.length
  /\ stream' = [stream EXCEPT !.at = p]
  /\ given' = <<>>
  /\ UNCHANGED <<archive, position, reader, current, orderly, found, moved>>

(* Closing a single file's data stream frees the reader's own stream. *)
CloseData ==
  /\ HoldsStream
  /\ stream' = NoStream
  /\ given' = <<>>
  /\ reader' = [reader EXCEPT !.freed = ReadsOn]
  /\ UNCHANGED <<archive, position, current, orderly, found, moved>>

----------------------------------------------------------------------------
(* The calls of a client that follows the header's rules. *)

CallNext ==
  /\ ArcNext
  /\ given' = <<>>
  /\ UNCHANGED <<archive, stream, moved>>

(* Only after an entry was returned; not on a stream already freed. *)
CallOpenData ==
  /\ found = "entry" /\ ~HoldsStream /\ ~reader.freed
  /\ stream' = OpenedData
  /\ position' = OpenMoves(OpenedData)
  /\ given' = <<>>
  /\ UNCHANGED <<archive, reader, current, orderly, found, moved>>

(* arc_skip_data: only TAR has anything to skip. *)
CallSkipData ==
  /\ found = "entry" /\ reader.valid
  /\ LET p == IF Tar THEN SkipPaddedFrom(position, reader.remaining)
              ELSE position
     IN IF p < 0 THEN position' = FileEnd /\ UNCHANGED reader
        ELSE /\ position' = p
             /\ reader' = [reader EXCEPT !.remaining = 0, !.valid = FALSE]
  /\ given' = <<>>
  /\ UNCHANGED <<archive, current, orderly, stream, found, moved>>

ReaderCalls ==
  /\ client = "caller"
  /\ \/ CallNext
     \/ CallOpenData
     \/ \E n \in 1 .. MaxRead : ReadData(n)
     \/ \E p \in 0 .. stream.length : SeekData(p)
     \/ CloseData
     \/ CallSkipData
  /\ UNCHANGED <<client, extracted, failures, outcome>>

----------------------------------------------------------------------------
(* arc_extract_to_path: one entry after the other. *)

(* extract_file_at: the whole window is read and written out. *)
CopyData ==
  LET w == OpenedData
      n == IF ReadsOn THEN FileEnd - position ELSE w.length
  IN IF w = NoStream \/ ~(Seekable \/ ReadsOn)
     THEN /\ failures' = failures + 1
          /\ UNCHANGED <<position, reader, moved, extracted>>
     ELSE /\ position' = (IF ReadsOn THEN position ELSE w.offset) + n
          /\ reader' = [reader EXCEPT !.freed = ReadsOn]
          /\ moved' = (moved \/ Tar)
          /\ extracted' = IF n < Length(Members[current]) THEN extracted
                          ELSE extracted \cup {current}
          /\ UNCHANGED failures

(* arc_extract_entry, by the entry's type. *)
ExtractEntry ==
  /\ client = "extract" /\ outcome = "running" /\ found = "entry"
  /\ \/ /\ Members[current].type \in {"file", "hardlink"}
        /\ CopyData
     \/ /\ Members[current].type \in {"dir", "symlink"}
        /\ extracted' = extracted \cup {current}
        /\ UNCHANGED <<position, reader, moved, failures>>
     \/ /\ Members[current].type = "other"
        /\ LET p == IF Tar THEN SkipPaddedFrom(position, reader.remaining)
                    ELSE position
           IN IF p < 0 THEN position' = FileEnd /\ UNCHANGED reader
              ELSE /\ position' = p
                   /\ reader' = [reader EXCEPT !.remaining = 0,
                                               !.valid = FALSE]
        /\ UNCHANGED <<moved, extracted, failures>>
  /\ found' = "handled"
  /\ UNCHANGED <<archive, current, orderly, stream, given, client, outcome>>

ExtractNext ==
  /\ client = "extract" /\ outcome = "running" /\ found # "entry"
  /\ ArcNext
  /\ outcome' = IF found' = "entry" THEN "running"
                ELSE IF failures > 0 THEN "failed" ELSE "extracted"
  /\ UNCHANGED <<archive, stream, given, moved, client, extracted, failures>>

----------------------------------------------------------------------------
ArchiveInit ==
  /\ archive \in Archives
  /\ client \in {"caller", "extract"}
  /\ position = 0
  /\ reader = Opened
  /\ current = 0
  /\ stream = NoStream
  /\ given = <<>>
  /\ found = "nothing"
  /\ moved = FALSE
  /\ orderly = TRUE
  /\ extracted = {}
  /\ failures = 0
  /\ outcome = "running"

ArchiveExtracted == outcome # "running" /\ UNCHANGED archiveVars

ArchiveNext == ReaderCalls \/ ExtractEntry \/ ExtractNext \/ ArchiveExtracted

ArchiveSpec == ArchiveInit /\ [][ArchiveNext]_archiveVars

----------------------------------------------------------------------------
ArchiveTypeOK ==
  /\ archive \in Archives
  /\ position \in Nat
  /\ reader \in [valid : BOOLEAN, offset : Int, remaining : Nat, index : Nat,
                 eof : BOOLEAN, freed : BOOLEAN]
  /\ current \in 0 .. Total
  /\ stream \in [of : 0 .. Total, offset : Nat, length : Nat, at : Nat,
                 used : Nat]
  /\ Len(given) <= MaxRead
  /\ found \in {"nothing", "entry", "handled", "done", "error"}
  /\ {moved, orderly} \subseteq BOOLEAN
  /\ client \in {"caller", "extract"}
  /\ extracted \subseteq 1 .. Total
  /\ failures \in 0 .. Total
  /\ outcome \in {"running", "extracted", "failed"}

(* However calls on the reader and on a data stream are interleaved, and   *)
(* even after arc_next has gone on to other entries, a data stream returns *)
(* the bytes of the entry it was opened for, from the place it is at:      *)
(* substream_read finds the shared stream wherever it was left.            *)
DataIsOfTheEntry ==
  given # <<>> =>
    given = [k \in 1 .. Len(given) |->
               Unit(stream.of, stream.at - Len(given) + k)]

(* arc_next returns every member of an intact archive, in order, and says  *)
(* it is done only after the last, whatever data was opened, read, seeked  *)
(* or skipped between two calls.  There are two exceptions, the TAR of     *)
(* which data was read, whose next skip starts from where the reading      *)
(* ended, and the one with a size in a pax header.                         *)
SizesAreInHeaders == \A i \in 1 .. Total : Members[i].size = Members[i].data
AllReturned == /\ orderly
               /\ found # "error"
               /\ found = "done" => current = Total
Undisturbed == ~moved /\ SizesAreInHeaders
EveryEntryIsReturned == Undisturbed => AllReturned

(* arc_extract_to_path "Extract all entries", 0 on success: when it says   *)
(* it succeeded, every member is at the destination.                       *)
ExtractedIsAll ==
  outcome = "extracted" =>
    \A i \in 1 .. Total : Members[i].type # "other" => i \in extracted
============================================================================
