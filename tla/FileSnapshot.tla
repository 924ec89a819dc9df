---------------------------- MODULE FileSnapshot ----------------------------
(***************************************************************************)
(* read_file_snapshot of radishmemory-file-entry: one stable snapshot of a *)
(* selected file that other programs may change at any moment.  FileEntry  *)
(* puts it beside the exports.                                             *)
(***************************************************************************)
EXTENDS UserFiles

CONSTANT Selected   \* the name that the user chose

ASSUME SelectedAssumption == Selected \in Names

VARIABLE reader

ReaderState == [pc : {"idle", "opened", "observed", "reading", "read", "snapshot", "refused"},
                file : 0..MaxFiles, before : Observation, bytes : Contents]

(* Every variable keeps to its domain, and a started read has a file.       *)
ReaderTypeOK ==
    /\ reader \in ReaderState
    /\ reader.pc \notin {"idle", "refused"} => reader.file \in 1..Len(file)

IdleReader == [pc |-> "idle", file |-> 0, before |-> Nothing, bytes |-> <<>>]

-----------------------------------------------------------------------------
ValidSize(n) == n > 0 /\ n <= MaxBytes

ReaderTo(pc) == reader' = [reader EXCEPT !.pc = pc]
Refuse == ReaderTo("refused")

(* resolve_selection and File::open.                                        *)
OpenSelected ==
    /\ reader.pc = "idle"
    /\ IF name[Selected] # 0
       THEN reader' = [IdleReader EXCEPT !.pc = "opened", !.file = name[Selected]]
       ELSE Refuse
    /\ UNCHANGED fileVars

(* The metadata of the open file.                                           *)
ObserveOpened ==
    /\ reader.pc = "opened"
    /\ IF ValidSize(Len(file[reader.file].content))
       THEN reader' = [reader EXCEPT !.pc = "observed", !.before = Observe(reader.file)]
       ELSE Refuse
    /\ UNCHANGED fileVars

(* The path must still lead to what was observed.                           *)
ComparePath ==
    /\ reader.pc = "observed"
    /\ IF name[Selected] # 0 /\ Observe(name[Selected]) = reader.before
       THEN ReaderTo("reading") ELSE Refuse
    /\ UNCHANGED fileVars

(* read_to_end of at most MAX_FILE_BYTES + 1, a chunk at a time.            *)
ReadChunk ==
    LET content == file[reader.file].content
        n == Len(reader.bytes) + 1
    IN
    /\ reader.pc = "reading"
    /\ n <= MaxBytes + 1
    /\ n <= Len(content)
    /\ reader' = [reader EXCEPT !.bytes = Append(@, content[n])]
    /\ UNCHANGED fileVars

StableHandle == Observe(reader.file) = reader.before

(* The end of the file; the open file must be what it was.                  *)
EndOfFile ==
    /\ reader.pc = "reading"
    /\ \/ Len(reader.bytes) = MaxBytes + 1
       \/ Len(reader.bytes) >= Len(file[reader.file].content)
    /\ IF StableHandle THEN ReaderTo("read") ELSE Refuse
    /\ UNCHANGED fileVars

(* verify_selection_stable                                                  *)
SelectionStable == name[Selected] # 0 /\ Observe(name[Selected]) = reader.before

(* The last checks: the path, the size and the bytes.                       *)
ReturnSnapshot ==
    /\ reader.pc = "read"
    /\ IF /\ SelectionStable
          /\ ValidSize(Len(reader.bytes))
          /\ \A i \in 1..Len(reader.bytes) : reader.bytes[i] # Bad
       THEN ReaderTo("snapshot") ELSE Refuse
    /\ UNCHANGED fileVars

(* The application imports the snapshot or shows the refusal.               *)
ReadAgain ==
    /\ reader.pc \in {"snapshot", "refused"}
    /\ reader' = IdleReader
    /\ UNCHANGED fileVars

-----------------------------------------------------------------------------
ReadStep ==
    \/ OpenSelected \/ ObserveOpened \/ ComparePath \/ ReadChunk
    \/ EndOfFile \/ ReturnSnapshot \/ ReadAgain
=============================================================================
