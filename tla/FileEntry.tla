------------------------------ MODULE FileEntry ------------------------------
(***************************************************************************)
(* The local file boundary as a whole: the host reads a selected file      *)
(* while exports, of this and of other processes, publish to a target and  *)
(* other programs change both.  With Selected = "target" the file that is  *)
(* read is the one being exported.                                         *)
(***************************************************************************)
EXTENDS FileSnapshot, FileExport

vars == <<fileVars, reader, exportVars>>

(* Every variable keeps to its domain; a read and an export that have begun *)
(* have their files.                                                        *)
TypeOK == FilesTypeOK /\ ReaderTypeOK /\ ExportTypeOK

(* The selected file may exist already.                                     *)
Init ==
    /\ \/ /\ name = [n \in Names |-> 0]
          /\ file = <<>>
       \/ /\ name = [n \in Names |-> IF n = Selected THEN 1 ELSE 0]
          /\ \E c \in Contents : file = <<[content |-> c, changes |-> 0, by |-> User]>>
    /\ edits = 0
    /\ reader = IdleReader
    /\ ExportInit

Next ==
    \/ UserStep /\ UNCHANGED <<reader, exportVars>>
    \/ ReadStep /\ UNCHANGED exportVars
    \/ \E e \in Exporters : (ExportStep(e) \/ Crash(e)) /\ UNCHANGED reader

Spec == Init /\ [][Next]_vars

-----------------------------------------------------------------------------
(* A snapshot is what the selected file holds at one moment, all of it, and *)
(* acceptable: no edit, truncation, replacement or export while the chunks  *)
(* were read is mixed into it.                                              *)
SnapshotIsOneMoment ==
    [][reader.pc # "snapshot" /\ reader'.pc = "snapshot" =>
         /\ name[Selected] # 0
         /\ reader.bytes = file[name[Selected]].content
         /\ Len(reader.bytes) \in 1..MaxBytes
         /\ \A i \in 1..Len(reader.bytes) : reader.bytes[i] # Bad]_vars

(* No half of an export is ever seen: whatever an exporter has put under    *)
(* the target name, wherever it failed or stopped, is the exact body.       *)
TargetIsWhole ==
    /\ TypeOK
    /\ name["target"] # 0 /\ file[name["target"]].by # User =>
         file[name["target"]].content = Body

(* An export changes and removes nothing but its own: a file of the user    *)
(* keeps its bytes, and a name that leads to one keeps leading to it.       *)
NeverTouchesOthers ==
    [][edits' = edits =>
         /\ \A f \in 1..Len(file) : file[f].by = User => file'[f].content = file[f].content
         /\ \A n \in Names \ Temps : name[n] # 0 => name'[n] = name[n]]_vars

(* A receipt, and the answer that the target exists, are given only when    *)
(* the temporary file is gone: one that could not be removed is reported.   *)
NothingLeftUnreported ==
    \A e \in Exporters :
       /\ export[e].pc = "idle"
       /\ export[e].reason \in {"receipt", "destination_exists"}
       /\ export[e].temp # "none"
       => name[export[e].temp] # export[e].file
=============================================================================
