--------------------------- MODULE FileEntryProofs ---------------------------
(***************************************************************************)
(* What the local file boundary promises, proved for any names, exporters, *)
(* contents and number of edits and faults.                                *)
(*                                                                         *)
(* Nothing locks a file: between any two system calls another program may  *)
(* have changed or removed it.  A snapshot is consistent because a change  *)
(* of a file changes its observation; an export is whole because its file  *)
(* has no name that others write to until it is linked.                    *)
(*                                                                         *)
(* The second part is about VaultReading, whose exports are published at   *)
(* this boundary.                                                          *)
(***************************************************************************)
EXTENDS FileEntry, VaultReading, SequenceTheorems, FiniteSetTheorems, TLAPS

Busy(e) == export[e].pc \notin {"idle", "create"}

(* The temporary name of a running export leads to its file or nowhere, and *)
(* before the link no other name leads to that file, which holds no more    *)
(* than was written to it.                                                  *)
Own(e) ==
    /\ export[e].file <= Len(file)
    /\ export[e].file = 0 => export[e].temp = "none"
    /\ Busy(e) => name[export[e].temp] \in {0, export[e].file}
    /\ export[e].pc \in {"write", "verify", "recheck", "link"} =>
         \A n \in Names : name[n] = export[e].file => n = export[e].temp
    /\ export[e].pc = "write" => file[export[e].file].by = e
    /\ export[e].pc \in {"verify", "recheck", "link"} => file[export[e].file].content = Body

(* Exports that run at the same time have different names and files.        *)
Apart ==
    \A d, e \in Exporters : d # e /\ Busy(d) /\ Busy(e) =>
        export[d].temp # export[e].temp /\ export[d].file # export[e].file

(* While the open file is as it was observed, what was read is the          *)
(* beginning of its content, and at the end all of it.                      *)
Prefix ==
    LET now == file[reader.file] IN
    /\ reader.before[1] = reader.file
    /\ now.changes >= reader.before[3]
    /\ now.changes = reader.before[3] =>
         /\ Len(now.content) <= MaxBytes
         /\ Len(reader.bytes) <= Len(now.content)
         /\ \A i \in 1..Len(reader.bytes) : reader.bytes[i] = now.content[i]
         /\ reader.pc = "read" => Len(reader.bytes) = Len(now.content)

Reading ==
    /\ reader.pc = "opened" => reader.bytes = <<>>
    /\ reader.pc \in {"observed", "reading", "read"} => Prefix

Inv ==
    /\ TypeOK
    /\ \A e \in Exporters : Own(e)
    /\ Apart
    /\ Reading
    /\ TargetIsWhole
    /\ NothingLeftUnreported

-----------------------------------------------------------------------------
(* Contents are the sequences of at most MaxBytes + 1 chunks.               *)
LEMMA ContentsAre ==
    ASSUME NEW c
    PROVE  c \in Contents <=> c \in Seq(Chunks) /\ Len(c) <= MaxBytes + 1
<1>1. ASSUME c \in Contents PROVE c \in Seq(Chunks) /\ Len(c) <= MaxBytes + 1
  BY <1>1, FilesAssumption DEF Contents
<1>2. ASSUME c \in Seq(Chunks), Len(c) <= MaxBytes + 1 PROVE c \in Contents
  BY <1>2, FilesAssumption DEF Contents
<1>3. QED  BY <1>1, <1>2

(* A file is rewritten; the others stay.                                    *)
LEMMA WriteKeeps ==
    ASSUME FilesTypeOK, NEW f \in 1..Len(file), NEW c \in Contents,
           NEW who \in {User} \cup Writers, Write(f, c, who)
    PROVE  /\ file' \in Seq(FileRecord)
           /\ Len(file') = Len(file)
           /\ file'[f] = [content |-> c, changes |-> file[f].changes + 1, by |-> who]
           /\ \A g \in 1..Len(file) : g # f => file'[g] = file[g]
<1>1. file \in Seq(FileRecord)  BY DEF FilesTypeOK
<1>2. file[f] \in FileRecord  BY <1>1
<1>3. [content |-> c, changes |-> file[f].changes + 1, by |-> who] \in FileRecord
  BY <1>2 DEF FileRecord
<1>4. QED  BY <1>1, <1>3, ExceptSeq DEF Write

(* A link is added or removed.                                              *)
LEMMA TouchKeeps ==
    ASSUME FilesTypeOK, NEW f \in 1..Len(file), file' = [file EXCEPT ![f].changes = @ + 1]
    PROVE  /\ file' \in Seq(FileRecord)
           /\ Len(file') = Len(file)
           /\ file'[f].changes = file[f].changes + 1
           /\ file'[f].content = file[f].content
           /\ file'[f].by = file[f].by
           /\ \A g \in 1..Len(file) : g # f => file'[g] = file[g]
<1>1. file \in Seq(FileRecord)  BY DEF FilesTypeOK
<1>2. file[f] \in FileRecord  BY <1>1
<1> DEFINE r == [file[f] EXCEPT !.changes = @ + 1]
<1>3. r \in FileRecord  BY <1>2 DEF FileRecord
<1>4. file' = [file EXCEPT ![f] = r]  OBVIOUS
<1>5. r.changes = file[f].changes + 1 /\ r.content = file[f].content /\ r.by = file[f].by
  BY <1>2 DEF FileRecord
<1> HIDE DEF r
<1>6. QED  BY <1>1, <1>3, <1>4, <1>5, ExceptSeq

(* Files are added and never taken away, and one that is observed to be     *)
(* unchanged is unchanged.                                                  *)
Evolves ==
    /\ Len(file) <= Len(file')
    /\ \A f \in 1..Len(file) :
         /\ file'[f].changes >= file[f].changes
         /\ file'[f].changes = file[f].changes => file'[f] = file[f]

LEMMA CreateKeeps ==
    ASSUME FilesTypeOK, Len(file) < MaxFiles, NEW c \in Contents,
           NEW who \in {User} \cup Writers,
           file' = Append(file, [content |-> c, changes |-> 0, by |-> who])
    PROVE  /\ file' \in Seq(FileRecord)
           /\ Len(file') = Len(file) + 1
           /\ Len(file') <= MaxFiles
           /\ file'[Len(file) + 1] = [content |-> c, changes |-> 0, by |-> who]
           /\ \A g \in 1..Len(file) : file'[g] = file[g]
<1>1. file \in Seq(FileRecord) /\ Len(file) \in Nat  BY DEF FilesTypeOK
<1>2. [content |-> c, changes |-> 0, by |-> who] \in FileRecord  BY DEF FileRecord
<1>3. QED  BY <1>1, <1>2, AppendProperties, FilesAssumption

LEMMA NumberOfChanges ==
    ASSUME FilesTypeOK, NEW f \in 1..Len(file)
    PROVE  file[f] \in FileRecord /\ file[f].changes \in Nat
<1>1. file[f] \in FileRecord  BY DEF FilesTypeOK
<1>2. QED  BY <1>1 DEF FileRecord

LEMMA WriteEvolves ==
    ASSUME FilesTypeOK, NEW f \in 1..Len(file), NEW c \in Contents,
           NEW who \in {User} \cup Writers, Write(f, c, who)
    PROVE  Evolves
<1>1. Len(file) \in Nat  BY DEF FilesTypeOK
<1>2. ASSUME NEW g \in 1..Len(file)
      PROVE  file'[g].changes >= file[g].changes
             /\ (file'[g].changes = file[g].changes => file'[g] = file[g])
  <2>1. file[g].changes \in Nat  BY NumberOfChanges
  <2>2. CASE g = f
    <3>1. file'[f] = [content |-> c, changes |-> file[f].changes + 1, by |-> who]
      BY WriteKeeps
    <3>2. file'[f].changes = file[f].changes + 1  BY <3>1
    <3>3. QED  BY <2>1, <2>2, <3>2
  <2>3. CASE g # f
    <3>1. file'[g] = file[g]  BY <2>3, WriteKeeps
    <3>2. QED  BY <2>1, <3>1
  <2>4. QED  BY <2>2, <2>3
<1>3. Len(file') = Len(file)  BY WriteKeeps
<1>4. QED  BY <1>1, <1>2, <1>3 DEF Evolves

LEMMA TouchEvolves ==
    ASSUME FilesTypeOK, NEW f \in 1..Len(file), file' = [file EXCEPT ![f].changes = @ + 1]
    PROVE  Evolves
<1>1. Len(file) \in Nat  BY DEF FilesTypeOK
<1>2. ASSUME NEW g \in 1..Len(file)
      PROVE  file'[g].changes >= file[g].changes
             /\ (file'[g].changes = file[g].changes => file'[g] = file[g])
  BY NumberOfChanges, TouchKeeps
<1>3. QED  BY <1>1, <1>2, TouchKeeps DEF Evolves

LEMMA CreateEvolves ==
    ASSUME FilesTypeOK, Len(file) < MaxFiles, NEW c \in Contents,
           NEW who \in {User} \cup Writers,
           file' = Append(file, [content |-> c, changes |-> 0, by |-> who])
    PROVE  Evolves
<1>1. Len(file) \in Nat  BY DEF FilesTypeOK
<1>2. \A g \in 1..Len(file) : file[g].changes \in Nat  BY NumberOfChanges
<1>3. QED  BY <1>1, <1>2, CreateKeeps DEF Evolves

(* The reader depends on its file only.                                     *)
LEMMA ReaderKept ==
    ASSUME Inv, UNCHANGED reader, Evolves, FilesTypeOK'
    PROVE  ReaderTypeOK' /\ Reading'
<1>1. Len(file) \in Nat /\ Len(file') \in Nat /\ Len(file) <= Len(file')
  BY DEF Inv, TypeOK, FilesTypeOK, Evolves
<1>2. ReaderTypeOK'  BY <1>1 DEF Inv, TypeOK, ReaderTypeOK
<1>3. Reading'
  <2> SUFFICES ASSUME reader.pc \in {"observed", "reading", "read"} PROVE Prefix'
    BY DEF Inv, Reading
  <2>1. reader.file \in 1..Len(file)  BY DEF Inv, TypeOK, ReaderTypeOK
  <2>2. file[reader.file].changes \in Nat /\ reader.before[3] \in Nat
    BY <2>1, NumberOfChanges DEF Inv, TypeOK, ReaderTypeOK, ReaderState, Observation
  <2>3. file'[reader.file].changes \in Nat
    <3>1. reader.file \in 1..Len(file')  BY <1>1, <2>1
    <3>2. file'[reader.file] \in FileRecord  BY <3>1 DEF FilesTypeOK
    <3>3. QED  BY <3>2 DEF FileRecord
  <2>4. /\ file'[reader.file].changes >= file[reader.file].changes
        /\ file'[reader.file].changes = file[reader.file].changes =>
             file'[reader.file] = file[reader.file]
    BY <2>1 DEF Evolves
  <2>5. QED  BY <2>2, <2>3, <2>4 DEF Inv, Reading, Prefix
<1>4. QED  BY <1>2, <1>3

(* What NothingLeftUnreported says of one exporter.                         *)
Reported(e) ==
    /\ export[e].pc = "idle"
    /\ export[e].reason \in {"receipt", "destination_exists"}
    /\ export[e].temp # "none"
    => name[export[e].temp] # export[e].file

(* An export that takes no part in a step keeps what it owns, if the step   *)
(* leads no name to its file, gives its temporary name to nobody, and does  *)
(* not write to its file.                                                   *)
LEMMA ExporterKept ==
    ASSUME Inv, NEW g \in Exporters, export'[g] = export[g], Evolves, FilesTypeOK',
           \A n \in Names : name'[n] # name[n] /\ name'[n] = export[g].file =>
                              n \notin Temps /\ (Busy(g) => n = "target" /\ export[g].pc \notin
                                 {"write", "verify", "recheck", "link"}),
           Busy(g) => name'[export[g].temp] \in {0, name[export[g].temp]},
           export[g].pc \in {"write", "verify", "recheck", "link"} =>
              /\ file'[export[g].file].content = file[export[g].file].content
              /\ file'[export[g].file].by = file[export[g].file].by
    PROVE  Own(g)' /\ Reported(g)'
<1>1. /\ export[g] \in ExportState /\ Own(g) /\ Reported(g)
      /\ Busy(g) => export[g].temp \in Temps
  BY DEF Inv, TypeOK, ExportTypeOK, NothingLeftUnreported, Reported, Busy
<1>2. export[g].file \in Nat /\ export[g].temp \in Temps \cup {"none"}
  BY <1>1, FilesAssumption DEF ExportState
<1>3. Len(file) \in Nat /\ Len(file') \in Nat /\ Len(file) <= Len(file')
  BY DEF Inv, TypeOK, FilesTypeOK, Evolves
<1>4. Own(g)'
  BY <1>1, <1>2, <1>3, ExportAssumption DEF Own, Busy
<1>5. Reported(g)'
  BY <1>1, <1>2, ExportAssumption DEF Reported
<1>6. QED  BY <1>4, <1>5

-----------------------------------------------------------------------------
(* An export goes on without a change of any file.                          *)
LEMMA ExportMoves ==
    ASSUME Inv, NEW e \in Exporters, NEW x \in ExportState,
           export' = [export EXCEPT ![e] = x],
           UNCHANGED <<fileVars, reader>>, faults' \in 0..MaxFaults,
           x.file <= Len(file), x.file = 0 => x.temp = "none",
           x.pc \notin {"idle", "create"} =>
              Busy(e) /\ x.temp = export[e].temp /\ x.file = export[e].file,
           x.pc # "write",
           x.pc \in {"verify", "recheck", "link"} =>
              /\ export[e].pc \in {"write", "verify", "recheck", "link"}
              /\ file[x.file].content = Body,
           x.pc = "idle" /\ x.reason \in {"receipt", "destination_exists"} /\ x.temp # "none" =>
              name[x.temp] # x.file
    PROVE  Inv'
<1>1. /\ export'[e] = x
      /\ \A g \in Exporters : g # e => export'[g] = export[g]
      /\ export' \in [Exporters -> ExportState]
  BY DEF Inv, TypeOK, ExportTypeOK
<1>2. UNCHANGED <<name, file, edits>>  BY DEF fileVars
<1>3. ExportTypeOK'
  <2>1. ASSUME NEW g \in Exporters, export'[g].pc \notin {"idle", "create"}
        PROVE  export'[g].temp \in Temps /\ export'[g].file \in 1..Len(file')
    BY <1>1, <1>2, <2>1 DEF Inv, TypeOK, ExportTypeOK, Busy
  <2>2. QED  BY <1>1, <2>1 DEF ExportTypeOK
<1>4. TypeOK'
  BY <1>2, <1>3 DEF Inv, TypeOK, FilesTypeOK, ReaderTypeOK
<1>5. ASSUME NEW g \in Exporters PROVE Own(g)' /\ Reported(g)'
  <2>1. Own(g) /\ Reported(g)  BY DEF Inv, NothingLeftUnreported, Reported
  <2>2. CASE g = e
    BY <1>1, <1>2, <2>1, <2>2 DEF Own, Busy, Reported
  <2>3. CASE g # e
    BY <1>1, <1>2, <2>1, <2>3 DEF Own, Busy, Reported
  <2>4. QED  BY <2>2, <2>3
<1>6. Apart'
  BY <1>1 DEF Inv, Apart, Busy
<1>7. Reading' /\ TargetIsWhole'
  BY <1>2, <1>4 DEF Inv, Reading, Prefix, TargetIsWhole
<1>8. NothingLeftUnreported'  BY <1>5 DEF NothingLeftUnreported, Reported
<1>9. QED  BY <1>4, <1>5, <1>6, <1>7, <1>8 DEF Inv

LEMMA ExportFacts ==
    ASSUME Inv, NEW e \in Exporters
    PROVE  /\ export[e] \in ExportState
           /\ Own(e)
           /\ Busy(e) => export[e].temp \in Temps /\ export[e].file \in 1..Len(file)
           /\ faults \in 0..MaxFaults
BY DEF Inv, TypeOK, ExportTypeOK, Busy

LEMMA ObservationType ==
    ASSUME Inv, NEW f \in 1..Len(file)
    PROVE  Observe(f) \in Observation
<1>1. FilesTypeOK /\ Len(file) \in Nat /\ Len(file) <= MaxFiles
  BY DEF Inv, TypeOK, FilesTypeOK
<1>2. file[f] \in FileRecord  BY <1>1, NumberOfChanges
<1>3. file[f].content \in Contents /\ file[f].changes \in Nat  BY <1>2 DEF FileRecord
<1>4. Len(file[f].content) \in 0..(MaxBytes + 1)
  BY <1>3, ContentsAre, FilesAssumption
<1>5. f \in 0..MaxFiles  BY <1>1, FilesAssumption
<1>6. QED  BY <1>3, <1>4, <1>5 DEF Observe, Observation

(* The call returns a reason; a temporary file that is left is reported.    *)
LEMMA ReturnInv ==
    ASSUME Inv, NEW e \in Exporters, export[e].pc # "idle", NEW reason \in Reasons,
           Return(e, reason), UNCHANGED <<fileVars, reader>>, faults' \in 0..MaxFaults,
           \/ reason \in {"none", "integrity_mismatch", "io_failure"}
           \/ Busy(e) /\ name[export[e].temp] = 0
    PROVE  Inv'
<1>1. PICK x : x = [export[e] EXCEPT !.pc = "idle", !.reason = reason]
  OBVIOUS
<1>2. /\ x.pc = "idle" /\ x.reason = reason /\ x.temp = export[e].temp
      /\ x.file = export[e].file /\ x \in ExportState
  BY <1>1, ExportFacts DEF ExportState, ExportPc
<1>3. export' = [export EXCEPT ![e] = x]  BY <1>1 DEF Return
<1>4. x.file <= Len(file) /\ (x.file = 0 => x.temp = "none")  BY <1>2, ExportFacts DEF Own
<1>5. reason \in {"receipt", "destination_exists"} => name[x.temp] # x.file
  <2>1. Busy(e) => export[e].file # 0  BY ExportFacts
  <2>2. QED  BY <1>2, <2>1
<1>6. QED  BY <1>2, <1>3, <1>4, <1>5, ExportMoves

(* The call has failed and goes on to its cleanup.                          *)
LEMMA FailInv ==
    ASSUME Inv, NEW e \in Exporters, Busy(e), NEW reason \in Reasons, NEW o \in Observation,
           Fail(e, reason, o), UNCHANGED <<fileVars, reader>>, faults' \in 0..MaxFaults
    PROVE  Inv'
<1>1. PICK x : x = [export[e] EXCEPT !.pc = "cleanup", !.reason = reason, !.seen = o]
  OBVIOUS
<1>2. /\ x.pc = "cleanup" /\ x.temp = export[e].temp
      /\ x.file = export[e].file /\ x \in ExportState
  BY <1>1, ExportFacts DEF ExportState, ExportPc
<1>3. export' = [export EXCEPT ![e] = x]  BY <1>1 DEF Fail
<1>4. x.file <= Len(file) /\ (x.file = 0 => x.temp = "none")  BY <1>2, ExportFacts DEF Own
<1>5. QED  BY <1>2, <1>3, <1>4, ExportMoves

(* The call goes on to its next step, perhaps with a new observation.       *)
LEMMA StepInv ==
    ASSUME Inv, NEW e \in Exporters, Busy(e),
           NEW pc \in {"verify", "recheck", "link", "published", "remove"},
           NEW o \in Observation,
           export' = [export EXCEPT ![e].pc = pc, ![e].seen = o],
           UNCHANGED <<fileVars, reader, faults>>,
           pc \in {"verify", "recheck", "link"} =>
              /\ export[e].pc \in {"write", "verify", "recheck", "link"}
              /\ file[export[e].file].content = Body
    PROVE  Inv'
<1>1. PICK x : x = [export[e] EXCEPT !.pc = pc, !.seen = o]
  OBVIOUS
<1>2. /\ x.pc = pc /\ x.temp = export[e].temp
      /\ x.file = export[e].file /\ x \in ExportState
  BY <1>1, ExportFacts DEF ExportState, ExportPc
<1>3. export' = [export EXCEPT ![e] = x]  BY <1>1
<1>4. /\ x.file <= Len(file) /\ (x.file = 0 => x.temp = "none")
      /\ faults' \in 0..MaxFaults
  BY <1>2, ExportFacts DEF Own
<1>5. QED  BY <1>2, <1>3, <1>4, ExportMoves

(* A call begins, or its process ends.                                      *)
LEMMA FreshInv ==
    ASSUME Inv, NEW e \in Exporters, ResolveDestination(e) \/ Crash(e), UNCHANGED reader
    PROVE  Inv'
<1>1. PICK x : /\ export' = [export EXCEPT ![e] = x]
               /\ x \in {IdleExport, [IdleExport EXCEPT !.pc = "create"],
                         [IdleExport EXCEPT !.reason = "destination_exists"]}
  BY DEF ResolveDestination, Crash
<1>2. /\ x \in ExportState /\ x.pc \in {"idle", "create"} /\ x.temp = "none" /\ x.file = 0
  BY <1>1, FilesAssumption
     DEF IdleExport, ExportState, ExportPc, Reasons, Nothing, Observation
<1>3. UNCHANGED fileVars /\ faults' \in 0..MaxFaults
  BY ExportFacts, ExportAssumption DEF ResolveDestination, Crash, Fault
<1>4. x.file <= Len(file)  BY <1>2 DEF Inv, TypeOK, FilesTypeOK
<1>5. QED  BY <1>1, <1>2, <1>3, <1>4, ExportMoves

LEMMA SeenType ==
    ASSUME Inv, NEW e \in Exporters
    PROVE  export[e].seen \in Observation /\ export[e].reason \in Reasons
BY ExportFacts DEF ExportState

(* A verification returns the observation of what it found.                 *)
LEMMA VerifiedType ==
    ASSUME Inv, NEW n \in Names
    PROVE  /\ VerifyExactFile(n) \in Observation
           /\ VerifyExactFile(n) # Nothing => name[n] # 0 /\ file[name[n]].content = Body
           /\ Mismatch(n) \in Reasons
<1>1. name[n] \in 0..Len(file)
  BY DEF Inv, TypeOK, FilesTypeOK
<1>2. Nothing \in Observation  BY FilesAssumption DEF Nothing, Observation
<1>3. name[n] # 0 => Observe(name[n]) \in Observation  BY <1>1, ObservationType
<1>4. QED  BY <1>2, <1>3 DEF VerifyExactFile, Mismatch, Reasons

LEMMA NoTemporaryInv ==
    ASSUME Inv, NEW e \in Exporters, NoTemporary(e), UNCHANGED reader
    PROVE  Inv'
BY ReturnInv, ExportFacts DEF NoTemporary, Reasons

LEMMA WriteFailsInv ==
    ASSUME Inv, NEW e \in Exporters, WriteFails(e), UNCHANGED reader
    PROVE  Inv'
<1>1. Busy(e)  BY DEF WriteFails, Busy
<1>2. {Observe(export[e].file), Nothing} \subseteq Observation
  BY <1>1, ExportFacts, ObservationType, FilesAssumption DEF Nothing, Observation
<1>3. faults' \in 0..MaxFaults  BY ExportFacts, ExportAssumption DEF WriteFails, Fault
<1>4. PICK seen \in Observation : Fail(e, "io_failure", seen)
  BY <1>2 DEF WriteFails
<1>5. QED  BY <1>1, <1>3, <1>4, FailInv DEF WriteFails, Reasons

LEMMA SyncTemporaryInv ==
    ASSUME Inv, NEW e \in Exporters, SyncTemporary(e), UNCHANGED reader
    PROVE  Inv'
<1>1. Busy(e)  BY DEF SyncTemporary, Busy
<1>2. Observe(export[e].file) \in Observation  BY <1>1, ExportFacts, ObservationType
<1>3. QED  BY <1>1, <1>2, StepInv DEF SyncTemporary

LEMMA VerifyTemporaryInv ==
    ASSUME Inv, NEW e \in Exporters, VerifyTemporary(e), UNCHANGED reader
    PROVE  Inv'
<1> DEFINE t == export[e].temp
           o == VerifyExactFile(t)
<1>1. Busy(e) /\ export[e].pc = "verify"  BY DEF VerifyTemporary, Busy
<1>2. t \in Names  BY <1>1, ExportFacts, ExportAssumption
<1>3. o \in Observation /\ Mismatch(t) \in Reasons  BY <1>2, VerifiedType
<1>4. file[export[e].file].content = Body  BY <1>1, ExportFacts DEF Own
<1>5. faults' \in 0..MaxFaults  BY ExportFacts DEF VerifyTemporary
<1>6. CASE o # Nothing
  BY <1>1, <1>3, <1>4, <1>6, StepInv DEF VerifyTemporary
<1>7. CASE o = Nothing
  BY <1>1, <1>3, <1>5, <1>7, SeenType, FailInv DEF VerifyTemporary
<1>8. QED  BY <1>6, <1>7

LEMMA RecheckDestinationInv ==
    ASSUME Inv, NEW e \in Exporters, RecheckDestination(e), UNCHANGED reader
    PROVE  Inv'
<1>1. Busy(e) /\ export[e].pc = "recheck"  BY DEF RecheckDestination, Busy
<1>2. file[export[e].file].content = Body  BY <1>1, ExportFacts DEF Own
<1>3. \/ ExportTo(e, "link")
      \/ \E reason \in Reasons : Fail(e, reason, export[e].seen)
  BY DEF RecheckDestination, Reasons
<1>4. CASE ExportTo(e, "link")
  <2>1. export' = [export EXCEPT ![e].pc = "link", ![e].seen = export[e].seen]
    BY <1>4, ExportFacts DEF ExportTo, ExportState, Inv, TypeOK, ExportTypeOK
  <2>2. QED  BY <1>1, <1>2, <2>1, SeenType, StepInv DEF RecheckDestination
<1>5. ASSUME NEW reason \in Reasons, Fail(e, reason, export[e].seen) PROVE Inv'
  BY <1>1, <1>5, SeenType, FailInv, ExportFacts DEF RecheckDestination
<1>6. QED  BY <1>3, <1>4, <1>5

LEMMA PublishedInv ==
    ASSUME Inv, NEW e \in Exporters, UNCHANGED reader,
           ObservePublished(e) \/ ObservePublishedFails(e) \/ VerifyTarget(e)
    PROVE  Inv'
<1>1. Busy(e)  BY DEF ObservePublished, ObservePublishedFails, VerifyTarget, Busy
<1>2. CASE ObservePublished(e)
  <2>1. Observe(export[e].file) \in Observation  BY <1>1, ExportFacts, ObservationType
  <2>2. QED  BY <1>1, <1>2, <2>1, StepInv DEF ObservePublished
<1>3. CASE ObservePublishedFails(e)
  <2>1. faults' \in 0..MaxFaults
    BY <1>3, ExportFacts, ExportAssumption DEF ObservePublishedFails, Fault
  <2>2. QED  BY <1>1, <1>3, <2>1, SeenType, FailInv DEF ObservePublishedFails, Reasons
<1>4. CASE VerifyTarget(e) /\ ExportTo(e, "remove")
  <2>1. export' = [export EXCEPT ![e].pc = "remove", ![e].seen = export[e].seen]
    BY <1>4, ExportFacts DEF ExportTo, ExportState, Inv, TypeOK, ExportTypeOK
  <2>2. QED  BY <1>1, <1>4, <2>1, SeenType, StepInv DEF VerifyTarget
<1>5. CASE VerifyTarget(e) /\ Fail(e, Mismatch("target"), export[e].seen)
  <2>1. Mismatch("target") \in Reasons  BY VerifiedType, ExportAssumption
  <2>2. QED  BY <1>1, <1>5, <2>1, SeenType, FailInv, ExportFacts DEF VerifyTarget
<1>6. QED  BY <1>2, <1>3, <1>4, <1>5 DEF VerifyTarget

LEMMA RemovalFailsInv ==
    ASSUME Inv, NEW e \in Exporters, RemovalFails(e), UNCHANGED reader
    PROVE  Inv'
<1>1. faults' \in 0..MaxFaults
  BY ExportFacts, ExportAssumption DEF RemovalFails, Fault
<1>2. QED  BY <1>1, ReturnInv DEF RemovalFails, Reasons

-----------------------------------------------------------------------------
(* The parts of Inv after a step that changes names or files.               *)
LEMMA FilesMove ==
    ASSUME Inv, UNCHANGED reader, FilesTypeOK', Evolves, ExportTypeOK', Apart',
           \A g \in Exporters : Own(g)' /\ Reported(g)',
           name'["target"] # 0 /\ file'[name'["target"]].by # User =>
              file'[name'["target"]].content = Body
    PROVE  Inv'
<1>1. TypeOK' /\ Reading'  BY ReaderKept DEF TypeOK
<1>2. TargetIsWhole'  BY <1>1 DEF TargetIsWhole
<1>3. NothingLeftUnreported'  BY DEF NothingLeftUnreported, Reported
<1>4. QED  BY <1>1, <1>2, <1>3 DEF Inv

LEMMA NameFacts ==
    ASSUME Inv
    PROVE  /\ FilesTypeOK
           /\ Len(file) \in Nat /\ Len(file) <= MaxFiles
           /\ name \in [Names -> 0..MaxFiles]
           /\ \A n \in Names : name[n] \in 0..Len(file)
           /\ name["target"] # 0 /\ file[name["target"]].by # User =>
                file[name["target"]].content = Body
BY FilesAssumption DEF Inv, TypeOK, FilesTypeOK, TargetIsWhole

(* A name is removed: its file loses a link and nothing else.               *)
LEMMA UnlinkKeeps ==
    ASSUME Inv, NEW n \in Names, name[n] # 0, Unlink(n), edits' \in 0..MaxEdits
    PROVE  /\ FilesTypeOK'
           /\ Evolves
           /\ Len(file') = Len(file)
           /\ \A m \in Names : name'[m] = IF m = n THEN 0 ELSE name[m]
           /\ \A f \in 1..Len(file) :
                file'[f].content = file[f].content /\ file'[f].by = file[f].by
           /\ name'["target"] # 0 /\ file'[name'["target"]].by # User =>
                file'[name'["target"]].content = Body
<1>1. name[n] \in 1..Len(file) /\ FilesTypeOK  BY NameFacts
<1>2. file' = [file EXCEPT ![name[n]].changes = @ + 1] /\ name' = [name EXCEPT ![n] = 0]
  BY DEF Unlink
<1>3. Evolves  BY <1>1, <1>2, TouchEvolves
<1>4. /\ file' \in Seq(FileRecord) /\ Len(file') = Len(file)
      /\ file'[name[n]].content = file[name[n]].content
      /\ file'[name[n]].by = file[name[n]].by
      /\ \A g \in 1..Len(file) : g # name[n] => file'[g] = file[g]
  BY <1>1, <1>2, TouchKeeps
<1>5. \A m \in Names : name'[m] = IF m = n THEN 0 ELSE name[m]
  BY <1>2, NameFacts
<1>6. name' \in [Names -> 0..MaxFiles]  BY <1>2, NameFacts, FilesAssumption
<1>7. \A m \in Names : name'[m] <= Len(file')  BY <1>4, <1>5, NameFacts
<1>8. FilesTypeOK'  BY <1>4, <1>6, <1>7, NameFacts DEF FilesTypeOK
<1>9. \A f \in 1..Len(file) : file'[f].content = file[f].content /\ file'[f].by = file[f].by
  BY <1>4
<1>10. name'["target"] # 0 /\ file'[name'["target"]].by # User =>
         file'[name'["target"]].content = Body
  <2>1. "target" \in Names  BY ExportAssumption
  <2>2. QED  BY <1>5, <1>9, <2>1, NameFacts
<1>11. QED  BY <1>3, <1>4, <1>5, <1>8, <1>9, <1>10

(* A name is removed that an export may own or not: the export keeps to     *)
(* what it owns.                                                            *)
LEMMA UnlinkOthers ==
    ASSUME Inv, NEW n \in Names, name[n] # 0, Unlink(n), edits' \in 0..MaxEdits,
           NEW g \in Exporters, export'[g] = export[g]
    PROVE  Own(g)' /\ Reported(g)'
<1>1. /\ export[g].file \in Nat
      /\ Busy(g) => export[g].temp \in Names /\ export[g].file \in 1..Len(file)
  BY ExportFacts, ExportAssumption, FilesAssumption DEF ExportState
<1>2. \A m \in Names : name'[m] # name[m] => m = n /\ name'[m] = 0
  BY UnlinkKeeps
<1>3. Busy(g) => name'[export[g].temp] \in {0, name[export[g].temp]}
  BY <1>1, UnlinkKeeps
<1>4. CASE export[g].file # 0
  BY <1>1, <1>2, <1>3, <1>4, UnlinkKeeps, ExporterKept DEF Busy
<1>5. CASE export[g].file = 0
  <2>1. Own(g) /\ ~Busy(g) /\ Len(file') = Len(file)
    BY <1>1, <1>5, ExportFacts, UnlinkKeeps
  <2>2. QED  BY <1>5, <2>1 DEF Own, Busy, Reported
<1>6. QED  BY <1>4, <1>5

(* The user removes a name.                                                 *)
LEMMA UserRemovesInv ==
    ASSUME Inv, NEW n \in Removable, UserRemoves(n), UNCHANGED <<reader, exportVars>>
    PROVE  Inv'
<1>1. n \in Names /\ name[n] # 0 /\ Unlink(n) /\ edits' \in 0..MaxEdits
  BY FilesAssumption DEF UserRemoves, Edit, Inv, TypeOK, FilesTypeOK
<1>2. UNCHANGED <<export, faults>>  BY DEF exportVars
<1>3. \A g \in Exporters : Own(g)' /\ Reported(g)'  BY <1>1, <1>2, UnlinkOthers
<1>4. Apart'  BY <1>2 DEF Inv, Apart, Busy
<1>5. ExportTypeOK'
  BY <1>1, <1>2, UnlinkKeeps DEF Inv, TypeOK, ExportTypeOK
<1>6. QED  BY <1>1, <1>3, <1>4, <1>5, UnlinkKeeps, FilesMove

(* What a program can write.                                                *)
LEMMA EditedContent ==
    ASSUME NEW c \in Contents
    PROVE  /\ \A i \in 1..Len(c), x \in Chunks : [c EXCEPT ![i] = x] \in Contents
           /\ Len(c) > 0 => SubSeq(c, 1, Len(c) - 1) \in Contents
           /\ \A x \in Chunks : Len(c) <= MaxBytes => Append(c, x) \in Contents
<1>1. c \in Seq(Chunks) /\ Len(c) <= MaxBytes + 1 /\ Len(c) \in Nat  BY ContentsAre
<1>2. ASSUME NEW i \in 1..Len(c), NEW x \in Chunks PROVE [c EXCEPT ![i] = x] \in Contents
  <2>1. [c EXCEPT ![i] = x] \in Seq(Chunks) /\ Len([c EXCEPT ![i] = x]) = Len(c)
    BY <1>1, ExceptSeq
  <2>2. QED  BY <1>1, <2>1, ContentsAre
<1>3. ASSUME Len(c) > 0 PROVE SubSeq(c, 1, Len(c) - 1) \in Contents
  <2>1. /\ SubSeq(c, 1, Len(c) - 1) \in Seq(Chunks)
        /\ Len(SubSeq(c, 1, Len(c) - 1)) = Len(c) - 1
    BY <1>1, <1>3, SubSeqProperties
  <2>2. Len(SubSeq(c, 1, Len(c) - 1)) <= MaxBytes + 1  BY <1>1, <2>1, FilesAssumption
  <2>3. QED  BY <2>1, <2>2, ContentsAre
<1>4. ASSUME NEW x \in Chunks, Len(c) <= MaxBytes PROVE Append(c, x) \in Contents
  <2>1. Append(c, x) \in Seq(Chunks) /\ Len(Append(c, x)) = Len(c) + 1
    BY <1>1, AppendProperties
  <2>2. Len(Append(c, x)) <= MaxBytes + 1  BY <1>1, <1>4, <2>1, FilesAssumption
  <2>3. QED  BY <2>1, <2>2, ContentsAre
<1>5. QED  BY <1>2, <1>3, <1>4

(* A file is written to by someone who may; no name changes.                *)
LEMMA WrittenKeeps ==
    ASSUME Inv, NEW f \in 1..Len(file), NEW c \in Contents,
           NEW who \in {User} \cup Writers, Write(f, c, who), UNCHANGED name,
           edits' \in 0..MaxEdits
    PROVE  FilesTypeOK' /\ Evolves /\ Len(file') = Len(file)
<1>1. FilesTypeOK  BY NameFacts
<1>2. file' \in Seq(FileRecord) /\ Len(file') = Len(file)  BY <1>1, WriteKeeps
<1>3. Evolves  BY <1>1, WriteEvolves
<1>4. FilesTypeOK'  BY <1>1, <1>2 DEF FilesTypeOK
<1>5. QED  BY <1>2, <1>3, <1>4

(* The user rewrites a file in place.  It is not one that is being written: *)
(* that has only its temporary name, which is not edited.                   *)
LEMMA UserWritesInv ==
    ASSUME Inv, NEW n \in Edited, UserWrites(n), UNCHANGED <<reader, exportVars>>
    PROVE  Inv'
<1>1. /\ n \in Names /\ n \notin Temps /\ name[n] # 0 /\ UNCHANGED name
      /\ edits' \in 0..MaxEdits
  BY FilesAssumption, ExportAssumption DEF UserWrites, Edit, Inv, TypeOK, FilesTypeOK
<1>2. PICK f \in 1..Len(file) : f = name[n]  BY <1>1, NameFacts
<1>3. file[f].content \in Contents
  BY NameFacts, NumberOfChanges DEF FileRecord
<1>4. PICK c \in Contents : Write(f, c, User)
  BY <1>2, <1>3, EditedContent DEF UserWrites
<1>5. /\ FilesTypeOK' /\ Evolves /\ Len(file') = Len(file)
      /\ file'[f] = [content |-> c, changes |-> file[f].changes + 1, by |-> User]
      /\ \A g \in 1..Len(file) : g # f => file'[g] = file[g]
  BY <1>1, <1>4, NameFacts, WrittenKeeps, WriteKeeps
<1>6. UNCHANGED <<export, faults>>  BY DEF exportVars
<1>7. ASSUME NEW g \in Exporters PROVE Own(g)' /\ Reported(g)'
  <2>1. export[g].pc \in {"write", "verify", "recheck", "link"} =>
          /\ export[g].file \in 1..Len(file)
          /\ export[g].file # f
    BY <1>1, <1>2, ExportFacts DEF Own, Busy
  <2>2. export[g].pc \in {"write", "verify", "recheck", "link"} =>
          file'[export[g].file] = file[export[g].file]
    BY <1>5, <2>1
  <2>3. Busy(g) => name'[export[g].temp] \in {0, name[export[g].temp]}  BY <1>1
  <2>4. QED  BY <1>1, <1>5, <1>6, <2>2, <2>3, ExporterKept
<1>8. Apart'  BY <1>6 DEF Inv, Apart, Busy
<1>9. ExportTypeOK'  BY <1>5, <1>6 DEF Inv, TypeOK, ExportTypeOK
<1>10. name'["target"] # 0 /\ file'[name'["target"]].by # User =>
         file'[name'["target"]].content = Body
  <2>1. name["target"] \in 0..Len(file)  BY NameFacts, ExportAssumption
  <2>2. file'[f].by = User  BY <1>5
  <2>3. QED  BY <1>1, <1>5, <2>1, <2>2, NameFacts
<1>11. QED  BY <1>5, <1>7, <1>8, <1>9, <1>10, FilesMove

(* A new file is created under a name.                                      *)
LEMMA CreatedKeeps ==
    ASSUME Inv, NEW n \in Names, NEW c \in Contents, NEW who \in {User} \cup Writers,
           Len(file) < MaxFiles,
           file' = Append(file, [content |-> c, changes |-> 0, by |-> who]),
           name' = [name EXCEPT ![n] = Len(file) + 1], edits' \in 0..MaxEdits
    PROVE  /\ FilesTypeOK' /\ Evolves /\ Len(file') = Len(file) + 1
           /\ file'[Len(file) + 1] = [content |-> c, changes |-> 0, by |-> who]
           /\ \A f \in 1..Len(file) : file'[f] = file[f]
           /\ \A m \in Names : name'[m] = IF m = n THEN Len(file) + 1 ELSE name[m]
<1>1. FilesTypeOK /\ Len(file) \in Nat  BY NameFacts
<1>2. /\ file' \in Seq(FileRecord) /\ Len(file') = Len(file) + 1 /\ Len(file') <= MaxFiles
      /\ file'[Len(file) + 1] = [content |-> c, changes |-> 0, by |-> who]
      /\ \A f \in 1..Len(file) : file'[f] = file[f]
  BY <1>1, CreateKeeps
<1>3. Evolves  BY <1>1, CreateEvolves
<1>4. \A m \in Names : name'[m] = IF m = n THEN Len(file) + 1 ELSE name[m]
  BY NameFacts
<1>5. name' \in [Names -> 0..MaxFiles]  BY <1>1, <1>2, NameFacts, FilesAssumption
<1>6. \A m \in Names : name'[m] <= Len(file')  BY <1>1, <1>2, <1>4, NameFacts
<1>7. FilesTypeOK'  BY <1>2, <1>5, <1>6 DEF FilesTypeOK
<1>8. QED  BY <1>2, <1>3, <1>4, <1>7

(* The user puts a new file under a name.                                   *)
LEMMA UserReplacesInv ==
    ASSUME Inv, NEW n \in Edited, UserReplaces(n), UNCHANGED <<reader, exportVars>>
    PROVE  Inv'
<1>1. /\ n \in Names /\ n \notin Temps /\ Len(file) < MaxFiles
      /\ name' = [name EXCEPT ![n] = Len(file) + 1]
      /\ edits' \in 0..MaxEdits
  BY FilesAssumption, ExportAssumption DEF UserReplaces, Edit, Inv, TypeOK, FilesTypeOK
<1>2. PICK c \in Contents : file' = Append(file, [content |-> c, changes |-> 0, by |-> User])
  BY DEF UserReplaces
<1>3. /\ FilesTypeOK' /\ Evolves /\ Len(file') = Len(file) + 1
      /\ file'[Len(file) + 1] = [content |-> c, changes |-> 0, by |-> User]
      /\ \A f \in 1..Len(file) : file'[f] = file[f]
      /\ \A m \in Names : name'[m] = IF m = n THEN Len(file) + 1 ELSE name[m]
  BY <1>1, <1>2, CreatedKeeps
<1>4. UNCHANGED <<export, faults>> /\ Len(file) \in Nat  BY NameFacts DEF exportVars
<1>5. ASSUME NEW g \in Exporters PROVE Own(g)' /\ Reported(g)'
  <2>1. /\ export[g].file <= Len(file) /\ export[g].file \in Nat
        /\ Busy(g) => export[g].temp \in Temps /\ export[g].file \in 1..Len(file)
    BY ExportFacts, FilesAssumption DEF Own, ExportState
  <2>2. \A m \in Names : name'[m] # name[m] => name'[m] # export[g].file
    BY <1>3, <1>4, <2>1
  <2>3. Busy(g) => name'[export[g].temp] = name[export[g].temp]
    BY <1>1, <1>3, <2>1, ExportAssumption
  <2>4. export[g].pc \in {"write", "verify", "recheck", "link"} =>
          file'[export[g].file] = file[export[g].file]
    BY <1>3, <2>1 DEF Busy
  <2>5. QED  BY <1>3, <1>4, <2>2, <2>3, <2>4, ExporterKept
<1>6. Apart'  BY <1>4 DEF Inv, Apart, Busy
<1>7. ExportTypeOK'
  <2>1. \A g \in Exporters : export'[g].pc \notin {"idle", "create"} =>
          export'[g].temp \in Temps /\ export'[g].file \in 1..Len(file')
    BY <1>3, <1>4 DEF Inv, TypeOK, ExportTypeOK
  <2>2. QED  BY <1>4, <2>1 DEF Inv, TypeOK, ExportTypeOK
<1>8. name'["target"] # 0 /\ file'[name'["target"]].by # User =>
        file'[name'["target"]].content = Body
  <2>1. name["target"] \in 0..Len(file) /\ "target" \in Names  BY NameFacts, ExportAssumption
  <2>2. CASE n = "target"
    BY <1>3, <2>1, <2>2
  <2>3. CASE n # "target"
    BY <1>3, <2>1, <2>3, NameFacts
  <2>4. QED  BY <2>2, <2>3
<1>9. QED  BY <1>3, <1>5, <1>6, <1>7, <1>8, FilesMove
-----------------------------------------------------------------------------
(* An export removes its temporary name and returns.                        *)
LEMMA UnlinkReturnInv ==
    ASSUME Inv, NEW e \in Exporters, Busy(e), NEW reason \in Reasons,
           name[export[e].temp] # 0, Unlink(export[e].temp), Return(e, reason),
           UNCHANGED <<reader, edits, faults>>
    PROVE  Inv'
<1>1. PICK t \in Names : t = export[e].temp  BY ExportFacts, ExportAssumption
<1>2. edits' \in 0..MaxEdits  BY NameFacts DEF FilesTypeOK
<1>3. /\ FilesTypeOK' /\ Evolves /\ Len(file') = Len(file)
      /\ name'[t] = 0
      /\ name'["target"] # 0 /\ file'[name'["target"]].by # User =>
           file'[name'["target"]].content = Body
  BY <1>1, <1>2, UnlinkKeeps
<1>4. PICK x : x = [export[e] EXCEPT !.pc = "idle", !.reason = reason]
  OBVIOUS
<1>5. /\ x.pc = "idle" /\ x.reason = reason /\ x.temp = export[e].temp
      /\ x.file = export[e].file /\ x \in ExportState
  BY <1>4, ExportFacts DEF ExportState, ExportPc
<1>6. export' = [export EXCEPT ![e] = x]  BY <1>4 DEF Return
<1>7. /\ export'[e] = x
      /\ \A g \in Exporters : g # e => export'[g] = export[g]
      /\ export' \in [Exporters -> ExportState]
  BY <1>5, <1>6 DEF Inv, TypeOK, ExportTypeOK
<1>8. ASSUME NEW g \in Exporters PROVE Own(g)' /\ Reported(g)'
  <2>1. CASE g = e
    <3>1. export[e].file \in 1..Len(file) /\ Len(file) \in Nat  BY ExportFacts, NameFacts
    <3>2. QED  BY <1>1, <1>3, <1>5, <1>7, <2>1, <3>1 DEF Own, Busy, Reported
  <2>2. CASE g # e
    BY <1>1, <1>2, <1>7, <2>2, UnlinkOthers
  <2>3. QED  BY <2>1, <2>2
<1>9. Apart'  BY <1>5, <1>7 DEF Inv, Apart, Busy
<1>10. ExportTypeOK'
  BY <1>3, <1>5, <1>7 DEF Inv, TypeOK, ExportTypeOK
<1>11. QED  BY <1>3, <1>8, <1>9, <1>10, FilesMove

LEMMA RemoveTemporaryInv ==
    ASSUME Inv, NEW e \in Exporters, RemoveTemporary(e) \/ Cleanup(e), UNCHANGED reader
    PROVE  Inv'
<1>1. Busy(e) /\ export[e].pc # "idle"  BY DEF RemoveTemporary, Cleanup, Busy
<1>2. export[e].reason \in Reasons /\ faults \in 0..MaxFaults  BY SeenType, ExportFacts
<1>3. {"receipt", "integrity_mismatch"} \subseteq Reasons  BY DEF Reasons
<1>4. UNCHANGED <<edits, faults>>  BY DEF RemoveTemporary, Cleanup
<1>5. PICK reason \in Reasons :
        \/ name[export[e].temp] = 0 /\ Return(e, reason) /\ UNCHANGED <<name, file>>
        \/ name[export[e].temp] # 0 /\ Unlink(export[e].temp) /\ Return(e, reason)
        \/ reason = "integrity_mismatch" /\ Return(e, reason) /\ UNCHANGED <<name, file>>
  BY <1>2, <1>3 DEF RemoveTemporary, Cleanup
<1>6. CASE name[export[e].temp] # 0 /\ Unlink(export[e].temp) /\ Return(e, reason)
  BY <1>1, <1>4, <1>6, UnlinkReturnInv
<1>7. CASE /\ \/ name[export[e].temp] = 0
              \/ reason = "integrity_mismatch"
           /\ Return(e, reason) /\ UNCHANGED <<name, file>>
  BY <1>1, <1>2, <1>4, <1>7, ReturnInv DEF fileVars
<1>8. QED  BY <1>5, <1>6, <1>7

(* A temporary file is created under a name that no running export has.     *)
LEMMA CreateTemporaryInv ==
    ASSUME Inv, NEW e \in Exporters, CreateTemporary(e), UNCHANGED reader
    PROVE  Inv'
<1>1. PICK t \in Temps \ Drawn :
        /\ name[t] = 0
        /\ name' = [name EXCEPT ![t] = Len(file) + 1]
        /\ export' = [export EXCEPT ![e].pc = "write", ![e].temp = t,
                                    ![e].file = Len(file) + 1]
  BY DEF CreateTemporary
<1>2. /\ t \in Names /\ t # "target" /\ Len(file) < MaxFiles /\ export[e].pc = "create"
      /\ file' = Append(file, [content |-> <<>>, changes |-> 0, by |-> e])
      /\ faults' \in 0..MaxFaults /\ edits' \in 0..MaxEdits
      /\ Len(file) \in Nat
  BY ExportAssumption, ExportFacts, NameFacts DEF CreateTemporary, FilesTypeOK
<1>3. <<>> \in Contents
  <2>1. <<>> \in Seq(Chunks) /\ Len(<<>>) <= MaxBytes + 1  BY FilesAssumption
  <2>2. QED  BY <2>1, ContentsAre
<1>4. /\ FilesTypeOK' /\ Evolves /\ Len(file') = Len(file) + 1
      /\ file'[Len(file) + 1] = [content |-> <<>>, changes |-> 0, by |-> e]
      /\ \A f \in 1..Len(file) : file'[f] = file[f]
      /\ \A m \in Names : name'[m] = IF m = t THEN Len(file) + 1 ELSE name[m]
  BY <1>1, <1>2, <1>3, CreatedKeeps DEF Exporters
<1>5. PICK x : x = [export[e] EXCEPT !.pc = "write", !.temp = t, !.file = Len(file) + 1]
  OBVIOUS
<1>6. Len(file) + 1 \in 1..MaxFiles  BY <1>2, FilesAssumption
<1>7. /\ x.pc = "write" /\ x.temp = t /\ x.file = Len(file) + 1 /\ x \in ExportState
  <2>1. Len(file) + 1 \in 0..MaxFiles /\ "write" \in ExportPc  BY <1>6 DEF ExportPc
  <2>2. QED  BY <1>5, <2>1, ExportFacts DEF ExportState
<1>8. export' = [export EXCEPT ![e] = x]  BY <1>1, <1>5
<1>9. /\ export'[e] = x
      /\ \A g \in Exporters : g # e => export'[g] = export[g]
      /\ export' \in [Exporters -> ExportState]
  BY <1>7, <1>8 DEF Inv, TypeOK, ExportTypeOK
<1>10. ASSUME NEW g \in Exporters
       PROVE  /\ export[g].file \in 0..Len(file)
              /\ Busy(g) => /\ export[g].temp \in Temps /\ export[g].temp # t
                            /\ export[g].file \in 1..Len(file)
  <2>1. Busy(g) => export[g].temp \in Drawn  BY DEF Busy, Drawn
  <2>2. export[g].file \in 0..Len(file)
    BY <1>2, ExportFacts, FilesAssumption DEF Own, ExportState
  <2>3. QED  BY <2>1, <2>2, ExportFacts
<1>11. ASSUME NEW g \in Exporters PROVE Own(g)' /\ Reported(g)'
  <2>1. CASE g = e
    <3>1. \A m \in Names : name'[m] = x.file => m = t
      BY <1>2, <1>4, <1>7, NameFacts
    <3>2. file'[x.file].by = e /\ name'[t] = x.file  BY <1>2, <1>4, <1>7
    <3>3. QED  BY <1>2, <1>4, <1>7, <1>9, <2>1, <3>1, <3>2 DEF Own, Busy, Reported
  <2>2. CASE g # e
    <3>1. export'[g] = export[g]  BY <1>9, <2>2
    <3>2. \A m \in Names : name'[m] # name[m] => name'[m] # export[g].file
      BY <1>2, <1>4, <1>10
    <3>3. Busy(g) => name'[export[g].temp] = name[export[g].temp]
      BY <1>4, <1>10, ExportAssumption
    <3>4. export[g].pc \in {"write", "verify", "recheck", "link"} =>
            file'[export[g].file] = file[export[g].file]
      BY <1>4, <1>10 DEF Busy
    <3>5. QED  BY <1>4, <3>1, <3>2, <3>3, <3>4, ExporterKept
  <2>3. QED  BY <2>1, <2>2
<1>12. Apart'
  <2> SUFFICES ASSUME NEW d \in Exporters, NEW g \in Exporters, d # g, Busy(d)', Busy(g)'
               PROVE  export'[d].temp # export'[g].temp /\ export'[d].file # export'[g].file
    BY DEF Apart
  <2>1. d # e => Busy(d) /\ export'[d] = export[d]  BY <1>9 DEF Busy
  <2>2. g # e => Busy(g) /\ export'[g] = export[g]  BY <1>9 DEF Busy
  <2>3. CASE d = e
    BY <1>2, <1>7, <1>9, <1>10, <2>2, <2>3
  <2>4. CASE g = e
    BY <1>2, <1>7, <1>9, <1>10, <2>1, <2>4
  <2>5. CASE d # e /\ g # e
    BY <2>1, <2>2, <2>5 DEF Inv, Apart
  <2>6. QED  BY <2>3, <2>4, <2>5
<1>13. ExportTypeOK'
  <2>1. ASSUME NEW g \in Exporters, export'[g].pc \notin {"idle", "create"}
        PROVE  export'[g].temp \in Temps /\ export'[g].file \in 1..Len(file')
    <3>1. CASE g = e  BY <1>2, <1>4, <1>7, <1>9, <3>1
    <3>2. CASE g # e  BY <1>2, <1>4, <1>9, <1>10, <2>1, <3>2 DEF Busy
    <3>3. QED  BY <3>1, <3>2
  <2>2. QED  BY <1>2, <1>9, <2>1 DEF ExportTypeOK
<1>14. name'["target"] # 0 /\ file'[name'["target"]].by # User =>
         file'[name'["target"]].content = Body
  <2>1. name["target"] \in 0..Len(file) /\ "target" \in Names  BY NameFacts, ExportAssumption
  <2>2. QED  BY <1>2, <1>4, <2>1, NameFacts
<1>15. QED  BY <1>4, <1>11, <1>12, <1>13, <1>14, FilesMove

(* The exporter writes the next chunk to its file, which only it can name.  *)
LEMMA WriteTemporaryInv ==
    ASSUME Inv, NEW e \in Exporters, WriteTemporary(e), UNCHANGED reader
    PROVE  Inv'
<1>1. Busy(e) /\ export[e].pc = "write"  BY DEF WriteTemporary, Busy
<1>2. PICK f \in 1..Len(file) : f = export[e].file  BY <1>1, ExportFacts
<1>3. PICK c \in Contents : Write(f, c, e)
  <2> DEFINE old == file[f].content
             n == Len(old) + 1
  <2>1. old \in Contents  BY NameFacts, NumberOfChanges DEF FileRecord
  <2>2. Len(old) \in Nat /\ n <= Len(Body)  BY <1>2, <2>1, ContentsAre DEF WriteTemporary
  <2>3. Len(old) <= MaxBytes /\ n \in 1..Len(Body)
    BY <2>2, ExportAssumption, FilesAssumption
  <2>4. Body[n] \in Chunks  BY <2>3, ExportAssumption
  <2>5. Append(old, Body[n]) \in Contents  BY <2>1, <2>3, <2>4, EditedContent
  <2>6. Write(f, Append(old, Body[n]), e)  BY <1>2 DEF WriteTemporary
  <2>7. QED  BY <2>5, <2>6
<1>4. UNCHANGED <<name, export, edits, faults>> /\ edits' \in 0..MaxEdits
  BY NameFacts DEF WriteTemporary, FilesTypeOK
<1>5. /\ FilesTypeOK' /\ Evolves /\ Len(file') = Len(file)
      /\ file'[f] = [content |-> c, changes |-> file[f].changes + 1, by |-> e]
      /\ \A g \in 1..Len(file) : g # f => file'[g] = file[g]
  BY <1>3, <1>4, NameFacts, WrittenKeeps, WriteKeeps DEF Exporters
<1>6. ASSUME NEW g \in Exporters PROVE Own(g)' /\ Reported(g)'
  <2>1. CASE g = e
    BY <1>1, <1>2, <1>4, <1>5, <2>1, ExportFacts DEF Own, Busy, Reported
  <2>2. CASE g # e
    <3>1. export[g].pc \in {"write", "verify", "recheck", "link"} =>
            export[g].file \in 1..Len(file) /\ export[g].file # f
      BY <1>1, <1>2, <2>2, ExportFacts DEF Inv, Apart, Busy
    <3>2. export[g].pc \in {"write", "verify", "recheck", "link"} =>
            file'[export[g].file] = file[export[g].file]
      BY <1>5, <3>1
    <3>3. Busy(g) => name'[export[g].temp] \in {0, name[export[g].temp]}  BY <1>4
    <3>4. QED  BY <1>4, <1>5, <3>2, <3>3, ExporterKept
  <2>3. QED  BY <2>1, <2>2
<1>7. Apart'  BY <1>4 DEF Inv, Apart, Busy
<1>8. ExportTypeOK'  BY <1>4, <1>5 DEF Inv, TypeOK, ExportTypeOK
<1>9. name'["target"] # 0 /\ file'[name'["target"]].by # User =>
        file'[name'["target"]].content = Body
  <2>1. name["target"] \in 0..Len(file) /\ "target" \in Names  BY NameFacts, ExportAssumption
  <2>2. name["target"] # f
    BY <1>1, <1>2, <2>1, ExportFacts, ExportAssumption DEF Own
  <2>3. QED  BY <1>4, <1>5, <2>1, <2>2, NameFacts
<1>10. QED  BY <1>5, <1>6, <1>7, <1>8, <1>9, FilesMove

(* The link: the target is given to the file whose content is the body.     *)
LEMMA PublishInv ==
    ASSUME Inv, NEW e \in Exporters, Publish(e), UNCHANGED reader
    PROVE  Inv'
<1>1. Busy(e) /\ export[e].pc = "link" /\ UNCHANGED <<edits, faults>>
  BY DEF Publish, Busy
<1>2. PICK t \in Names : t = export[e].temp /\ t \in Temps /\ t # "target"
  BY <1>1, ExportFacts, ExportAssumption
<1>3. CASE ~(name["target"] = 0 /\ name[t] # 0)
  <2>1. PICK reason \in Reasons : Fail(e, reason, export[e].seen)
    BY <1>2, <1>3 DEF Publish, Reasons
  <2>2. UNCHANGED fileVars  BY <1>2, <1>3 DEF Publish, fileVars
  <2>3. QED  BY <1>1, <2>1, <2>2, SeenType, ExportFacts, FailInv
<1>4. CASE name["target"] = 0 /\ name[t] # 0
  <2>1. PICK f \in 1..Len(file) : f = export[e].file  BY <1>1, ExportFacts
  <2>2. name[t] = f /\ file[f].content = Body
    BY <1>1, <1>2, <1>4, <2>1, ExportFacts DEF Own
  <2>3. /\ name' = [name EXCEPT !["target"] = f]
        /\ file' = [file EXCEPT ![f].changes = @ + 1]
        /\ export' = [export EXCEPT ![e].pc = "linked"]
    BY <1>2, <1>4, <2>2 DEF Publish, ExportTo
  <2>4. /\ file' \in Seq(FileRecord) /\ Len(file') = Len(file)
        /\ file'[f].content = file[f].content /\ file'[f].by = file[f].by
        /\ \A g \in 1..Len(file) : g # f => file'[g] = file[g]
    BY <2>3, NameFacts, TouchKeeps
  <2>5. Evolves  BY <2>3, NameFacts, TouchEvolves
  <2>6. \A m \in Names : name'[m] = IF m = "target" THEN f ELSE name[m]
    BY <2>3, NameFacts
  <2>7. FilesTypeOK'
    <3>1. f \in 0..MaxFiles  BY NameFacts, FilesAssumption
    <3>2. name' \in [Names -> 0..MaxFiles]  BY <2>3, <3>1, NameFacts
    <3>3. \A m \in Names : name'[m] <= Len(file')  BY <2>4, <2>6, NameFacts
    <3>4. QED  BY <1>1, <2>4, <3>2, <3>3, NameFacts DEF FilesTypeOK
  <2>8. PICK x : x = [export[e] EXCEPT !.pc = "linked"]
    OBVIOUS
  <2>9. /\ x.pc = "linked" /\ x.temp = t /\ x.file = f /\ x \in ExportState
    BY <1>2, <2>1, <2>8, ExportFacts DEF ExportState, ExportPc
  <2>10. export' = [export EXCEPT ![e] = x]  BY <2>3, <2>8
  <2>11. /\ export'[e] = x
         /\ \A g \in Exporters : g # e => export'[g] = export[g]
         /\ export' \in [Exporters -> ExportState]
    BY <2>9, <2>10 DEF Inv, TypeOK, ExportTypeOK
  <2>12. ASSUME NEW g \in Exporters PROVE Own(g)' /\ Reported(g)'
    <3>1. CASE g = e
      BY <1>2, <2>2, <2>4, <2>6, <2>9, <2>11, <3>1 DEF Own, Busy, Reported
    <3>2. CASE g # e
      <4>1. export'[g] = export[g]  BY <2>11, <3>2
      <4>2. Busy(g) => /\ export[g].temp \in Temps /\ export[g].temp \in Names
                       /\ export[g].file \in 1..Len(file) /\ export[g].file # f
        BY <1>1, <2>1, <3>2, ExportFacts, ExportAssumption DEF Inv, Apart
      <4>3. \A m \in Names : name'[m] # name[m] => m = "target" /\ name'[m] = f
        BY <2>6
      <4>4. \A m \in Names : name'[m] # name[m] /\ name'[m] = export[g].file =>
              m \notin Temps /\ ~Busy(g)
        BY <4>2, <4>3, ExportAssumption
      <4>5. Busy(g) => name'[export[g].temp] = name[export[g].temp]
        BY <2>6, <4>2, ExportAssumption
      <4>6. export[g].pc \in {"write", "verify", "recheck", "link"} =>
              file'[export[g].file] = file[export[g].file]
        BY <2>4, <4>2 DEF Busy
      <4>7. QED  BY <2>5, <2>7, <4>1, <4>4, <4>5, <4>6, ExporterKept
    <3>3. QED  BY <3>1, <3>2
  <2>13. Apart'
    BY <1>1, <1>2, <2>1, <2>9, <2>11 DEF Inv, Apart, Busy
  <2>14. ExportTypeOK'
    <3>1. ASSUME NEW g \in Exporters, export'[g].pc \notin {"idle", "create"}
          PROVE  export'[g].temp \in Temps /\ export'[g].file \in 1..Len(file')
      BY <1>2, <2>4, <2>9, <2>11, <3>1, ExportFacts DEF Busy
    <3>2. QED  BY <1>1, <2>11, <3>1, ExportFacts DEF ExportTypeOK
  <2>15. name'["target"] # 0 /\ file'[name'["target"]].by # User =>
           file'[name'["target"]].content = Body
    BY <2>2, <2>4, <2>6, ExportAssumption
  <2>16. QED  BY <2>5, <2>7, <2>12, <2>13, <2>14, <2>15, FilesMove
<1>5. QED  BY <1>3, <1>4

-----------------------------------------------------------------------------
(* The reader goes on; nothing else changes.                                *)
LEMMA ReaderMoves ==
    ASSUME Inv, UNCHANGED <<fileVars, exportVars>>, ReaderTypeOK', Reading'
    PROVE  Inv'
<1>1. UNCHANGED <<name, file, edits, export, faults>>  BY DEF fileVars, exportVars
<1>2. TypeOK'  BY <1>1 DEF Inv, TypeOK, FilesTypeOK, ExportTypeOK
<1>3. QED
  BY <1>1, <1>2 DEF Inv, Own, Busy, Apart, TargetIsWhole, NothingLeftUnreported

LEMMA ReaderFacts ==
    ASSUME Inv
    PROVE  /\ reader \in ReaderState
           /\ reader.pc \notin {"idle", "refused"} =>
                /\ reader.file \in 1..Len(file)
                /\ file[reader.file].content \in Contents
                /\ file[reader.file].changes \in Nat
<1>1. /\ reader \in ReaderState
      /\ reader.pc \notin {"idle", "refused"} => reader.file \in 1..Len(file)
  BY DEF Inv, TypeOK, ReaderTypeOK
<1>2. \A f \in 1..Len(file) : file[f].content \in Contents /\ file[f].changes \in Nat
  BY NameFacts, NumberOfChanges DEF FileRecord
<1>3. QED  BY <1>1, <1>2

(* A call that ends, or one that begins, has read nothing.                  *)
LEMMA ReaderRests ==
    ASSUME Inv, UNCHANGED <<fileVars, exportVars>>, NEW r \in ReaderState, reader' = r,
           \/ r.pc \in {"idle", "refused"}
           \/ r.pc \in {"opened", "snapshot"} /\ r.file \in 1..Len(file),
           r.pc = "opened" => r.bytes = <<>>
    PROVE  Inv'
<1>1. file' = file  BY DEF fileVars
<1>2. ReaderTypeOK' /\ Reading'  BY <1>1 DEF ReaderTypeOK, Reading
<1>3. QED  BY <1>2, ReaderMoves

LEMMA RefuseInv ==
    ASSUME Inv, UNCHANGED <<fileVars, exportVars>>, Refuse
    PROVE  Inv'
<1>1. PICK r : r = [reader EXCEPT !.pc = "refused"]  OBVIOUS
<1>2. r \in ReaderState /\ r.pc = "refused"  BY <1>1, ReaderFacts DEF ReaderState
<1>3. reader' = r  BY <1>1 DEF Refuse, ReaderTo
<1>4. QED  BY <1>2, <1>3, ReaderRests

LEMMA OpenSelectedInv ==
    ASSUME Inv, OpenSelected, UNCHANGED exportVars
    PROVE  Inv'
<1>1. UNCHANGED fileVars  BY DEF OpenSelected
<1>2. CASE name[Selected] = 0
  BY <1>1, <1>2, RefuseInv DEF OpenSelected
<1>3. CASE name[Selected] # 0
  <2>1. PICK f \in 1..Len(file) : f = name[Selected]
    BY <1>3, NameFacts, SelectedAssumption
  <2>2. f \in 0..MaxFiles  BY NameFacts, FilesAssumption
  <2>3. IdleReader \in ReaderState
    <3>1. <<>> \in Seq(Chunks) /\ Len(<<>>) <= MaxBytes + 1  BY FilesAssumption
    <3>2. Nothing \in Observation  BY FilesAssumption DEF Nothing, Observation
    <3>3. 0 \in 0..MaxFiles  BY FilesAssumption
    <3>4. QED  BY <3>1, <3>2, <3>3, ContentsAre DEF IdleReader, ReaderState
  <2>4. PICK r : r = [IdleReader EXCEPT !.pc = "opened", !.file = f]  OBVIOUS
  <2>5. r \in ReaderState /\ r.pc = "opened" /\ r.file = f /\ r.bytes = <<>>
    BY <2>2, <2>3, <2>4 DEF ReaderState, IdleReader
  <2>6. reader' = r  BY <1>3, <2>1, <2>4 DEF OpenSelected
  <2>7. QED  BY <1>1, <2>5, <2>6, ReaderRests
<1>4. QED  BY <1>2, <1>3

LEMMA ReadAgainInv ==
    ASSUME Inv, ReadAgain, UNCHANGED exportVars
    PROVE  Inv'
<1>1. <<>> \in Seq(Chunks) /\ Len(<<>>) <= MaxBytes + 1  BY FilesAssumption
<1>2. Nothing \in Observation  BY FilesAssumption DEF Nothing, Observation
<1>3. 0 \in 0..MaxFiles  BY FilesAssumption
<1>4. IdleReader \in ReaderState /\ IdleReader.pc = "idle"
  BY <1>1, <1>2, <1>3, ContentsAre DEF IdleReader, ReaderState
<1>5. reader' = IdleReader /\ UNCHANGED fileVars  BY DEF ReadAgain
<1>6. PICK r : r = IdleReader  OBVIOUS
<1>7. QED  BY <1>4, <1>5, <1>6, ReaderRests

LEMMA ObserveOpenedInv ==
    ASSUME Inv, ObserveOpened, UNCHANGED exportVars
    PROVE  Inv'
<1>1. UNCHANGED fileVars /\ file' = file  BY DEF ObserveOpened, fileVars
<1>2. reader.pc = "opened"  BY DEF ObserveOpened
<1>3. CASE ~ValidSize(Len(file[reader.file].content))
  BY <1>1, <1>3, RefuseInv DEF ObserveOpened
<1>4. CASE ValidSize(Len(file[reader.file].content))
  <2>1. PICK f \in 1..Len(file) : f = reader.file /\ file[f].changes \in Nat
    BY <1>2, ReaderFacts
  <2>2. PICK o \in Observation : o = Observe(f)  BY ObservationType
  <2>3. PICK r : r = [reader EXCEPT !.pc = "observed", !.before = o]  OBVIOUS
  <2>4. /\ r \in ReaderState /\ r.pc = "observed" /\ r.file = f /\ r.before = o
        /\ r.bytes = reader.bytes
    BY <2>1, <2>3, ReaderFacts DEF ReaderState
  <2>5. reader' = r  BY <1>4, <2>1, <2>2, <2>3 DEF ObserveOpened
  <2>6. o[1] = f /\ o[3] = file[f].changes  BY <2>2 DEF Observe
  <2>7. Len(file[f].content) <= MaxBytes  BY <1>4, <2>1 DEF ValidSize
  <2>8. reader.bytes = <<>>  BY <1>2 DEF Inv, Reading
  <2>9. Prefix'
    <3>1. file[f].content \in Contents  BY <1>2, <2>1, ReaderFacts
    <3>2. Len(file[f].content) \in Nat  BY <3>1, ContentsAre
    <3>3. QED  BY <1>1, <2>1, <2>4, <2>5, <2>6, <2>7, <2>8, <3>2 DEF Prefix
  <2>10. ReaderTypeOK' /\ Reading'
    BY <1>1, <2>4, <2>5, <2>9 DEF ReaderTypeOK, Reading
  <2>11. QED  BY <1>1, <2>10, ReaderMoves
<1>5. QED  BY <1>3, <1>4

LEMMA ComparePathInv ==
    ASSUME Inv, ComparePath, UNCHANGED exportVars
    PROVE  Inv'
<1>1. UNCHANGED fileVars /\ file' = file  BY DEF ComparePath, fileVars
<1>2. reader.pc = "observed"  BY DEF ComparePath
<1>3. CASE Refuse
  BY <1>1, <1>3, RefuseInv
<1>4. CASE ReaderTo("reading")
  <2>1. PICK r : r = [reader EXCEPT !.pc = "reading"]  OBVIOUS
  <2>2. /\ r \in ReaderState /\ r.pc = "reading" /\ r.file = reader.file
        /\ r.before = reader.before /\ r.bytes = reader.bytes
    BY <2>1, ReaderFacts DEF ReaderState
  <2>3. reader' = r  BY <1>4, <2>1 DEF ReaderTo
  <2>4. Prefix'  BY <1>1, <1>2, <2>2, <2>3 DEF Inv, Reading, Prefix
  <2>5. ReaderTypeOK' /\ Reading'
    BY <1>1, <1>2, <2>2, <2>3, <2>4, ReaderFacts DEF ReaderTypeOK, Reading
  <2>6. QED  BY <1>1, <2>5, ReaderMoves
<1>5. QED  BY <1>3, <1>4 DEF ComparePath

(* The next chunk is read: the one that follows, if the file is unchanged.  *)
LEMMA ReadChunkInv ==
    ASSUME Inv, ReadChunk, UNCHANGED exportVars
    PROVE  Inv'
<1> DEFINE c == file[reader.file].content
           n == Len(reader.bytes) + 1
<1>1. UNCHANGED fileVars /\ file' = file  BY DEF ReadChunk, fileVars
<1>2. reader.pc = "reading" /\ n <= MaxBytes + 1 /\ n <= Len(c)  BY DEF ReadChunk
<1>3. /\ c \in Seq(Chunks) /\ Len(c) \in Nat
      /\ reader.bytes \in Seq(Chunks) /\ Len(reader.bytes) \in Nat
  BY <1>2, ReaderFacts, ContentsAre DEF ReaderState
<1>4. n \in 1..Len(c) /\ c[n] \in Chunks  BY <1>2, <1>3
<1>5. PICK b : b = Append(reader.bytes, c[n])  OBVIOUS
<1>6. /\ b \in Seq(Chunks) /\ Len(b) = n /\ b[n] = c[n]
      /\ \A i \in 1..Len(reader.bytes) : b[i] = reader.bytes[i]
  BY <1>3, <1>4, <1>5, AppendProperties
<1>7. b \in Contents
  <2>1. Len(b) <= MaxBytes + 1  BY <1>2, <1>6
  <2>2. QED  BY <1>6, <2>1, ContentsAre
<1>8. PICK r : r = [reader EXCEPT !.bytes = b]  OBVIOUS
<1>9. /\ r \in ReaderState /\ r.pc = "reading" /\ r.file = reader.file
      /\ r.before = reader.before /\ r.bytes = b
  BY <1>2, <1>7, <1>8, ReaderFacts DEF ReaderState
<1>10. reader' = r  BY <1>5, <1>8 DEF ReadChunk
<1>11. Prefix'
  <2>1. Prefix  BY <1>2 DEF Inv, Reading
  <2>2. ASSUME file[reader.file].changes = reader.before[3]
        PROVE  Len(b) <= Len(c) /\ \A i \in 1..Len(b) : b[i] = c[i]
    <3>1. \A i \in 1..Len(reader.bytes) : reader.bytes[i] = c[i]
      BY <2>1, <2>2 DEF Prefix
    <3>2. \A i \in 1..Len(b) : i = n \/ i \in 1..Len(reader.bytes)  BY <1>3, <1>6
    <3>3. QED  BY <1>2, <1>6, <3>1, <3>2
  <2>3. QED  BY <1>1, <1>9, <1>10, <2>1, <2>2 DEF Prefix
<1>12. ReaderTypeOK' /\ Reading'
  BY <1>1, <1>2, <1>9, <1>10, <1>11, ReaderFacts DEF ReaderTypeOK, Reading
<1>13. QED  BY <1>1, <1>12, ReaderMoves

(* At the end of a file that is as it was observed, all of it was read.     *)
LEMMA EndOfFileInv ==
    ASSUME Inv, EndOfFile, UNCHANGED exportVars
    PROVE  Inv'
<1> DEFINE c == file[reader.file].content
<1>1. UNCHANGED fileVars /\ file' = file  BY DEF EndOfFile, fileVars
<1>2. reader.pc = "reading" /\ (Len(reader.bytes) = MaxBytes + 1 \/ Len(reader.bytes) >= Len(c))
  BY DEF EndOfFile
<1>3. CASE Refuse
  BY <1>1, <1>3, RefuseInv
<1>4. CASE StableHandle /\ ReaderTo("read")
  <2>1. Prefix  BY <1>2 DEF Inv, Reading
  <2>2. reader.before[3] = file[reader.file].changes
    BY <1>4 DEF StableHandle, Observe
  <2>3. Len(c) \in Nat /\ Len(reader.bytes) \in Nat
    BY <1>2, ReaderFacts, ContentsAre DEF ReaderState
  <2>4. Len(reader.bytes) = Len(c)
    BY <1>2, <2>1, <2>2, <2>3, FilesAssumption DEF Prefix
  <2>5. PICK r : r = [reader EXCEPT !.pc = "read"]  OBVIOUS
  <2>6. /\ r \in ReaderState /\ r.pc = "read" /\ r.file = reader.file
        /\ r.before = reader.before /\ r.bytes = reader.bytes
    BY <2>5, ReaderFacts DEF ReaderState
  <2>7. reader' = r  BY <1>4, <2>5 DEF ReaderTo
  <2>8. Prefix'  BY <1>1, <2>1, <2>4, <2>6, <2>7 DEF Prefix
  <2>9. ReaderTypeOK' /\ Reading'
    BY <1>1, <1>2, <2>6, <2>7, <2>8, ReaderFacts DEF ReaderTypeOK, Reading
  <2>10. QED  BY <1>1, <2>9, ReaderMoves
<1>5. QED  BY <1>3, <1>4 DEF EndOfFile

LEMMA ReturnSnapshotInv ==
    ASSUME Inv, ReturnSnapshot, UNCHANGED exportVars
    PROVE  Inv'
<1>1. UNCHANGED fileVars /\ reader.pc = "read"  BY DEF ReturnSnapshot
<1>2. CASE Refuse
  BY <1>1, <1>2, RefuseInv
<1>3. CASE ReaderTo("snapshot")
  <2>1. PICK r : r = [reader EXCEPT !.pc = "snapshot"]  OBVIOUS
  <2>2. r \in ReaderState /\ r.pc = "snapshot" /\ r.file = reader.file
    BY <2>1, ReaderFacts DEF ReaderState
  <2>3. reader' = r  BY <1>3, <2>1 DEF ReaderTo
  <2>4. QED  BY <1>1, <2>2, <2>3, ReaderFacts, ReaderRests
<1>4. QED  BY <1>2, <1>3 DEF ReturnSnapshot

-----------------------------------------------------------------------------
LEMMA InvInit == Init => Inv
<1> SUFFICES ASSUME Init PROVE Inv  OBVIOUS
<1>1. <<>> \in Seq(Chunks) /\ Len(<<>>) <= MaxBytes + 1  BY FilesAssumption
<1>2. Nothing \in Observation /\ 0 \in 0..MaxFiles /\ 1 \in 0..MaxFiles
  BY FilesAssumption DEF Nothing, Observation
<1>3. IdleReader \in ReaderState /\ IdleReader.pc = "idle"
  BY <1>1, <1>2, ContentsAre DEF IdleReader, ReaderState
<1>4. IdleExport \in ExportState /\ IdleExport.pc = "idle" /\ IdleExport.file = 0
      /\ IdleExport.temp = "none"
  BY <1>2 DEF IdleExport, ExportState, ExportPc, Reasons
<1>5. /\ file \in Seq(FileRecord) /\ Len(file) \in {0, 1}
      /\ \A f \in 1..Len(file) : file[f].by = User
      /\ name \in [Names -> 0..MaxFiles]
      /\ \A n \in Names : name[n] \in 0..Len(file)
  <2>1. CASE name = [n \in Names |-> 0] /\ file = <<>>
    BY <1>2, <2>1
  <2>2. CASE /\ name = [n \in Names |-> IF n = Selected THEN 1 ELSE 0]
             /\ \E c \in Contents : file = <<[content |-> c, changes |-> 0, by |-> User]>>
    <3>1. PICK c \in Contents : file = <<[content |-> c, changes |-> 0, by |-> User]>>
      BY <2>2
    <3>2. PICK x : x = [content |-> c, changes |-> 0, by |-> User]  OBVIOUS
    <3>3. x \in FileRecord /\ x.by = User  BY <3>2 DEF FileRecord
    <3>4. file = <<x>>  BY <3>1, <3>2
    <3>5. file \in Seq(FileRecord) /\ Len(file) = 1 /\ file[1] = x  BY <3>3, <3>4
    <3>6. \A f \in 1..Len(file) : file[f].by = User  BY <3>3, <3>5
    <3>7. QED  BY <1>2, <2>2, <3>5, <3>6
  <2>3. QED  BY <2>1, <2>2 DEF Init
<1>6. FilesTypeOK  BY <1>5, FilesAssumption DEF Init, FilesTypeOK
<1>7. ReaderTypeOK /\ Reading  BY <1>3 DEF Init, ReaderTypeOK, Reading
<1>8. \A e \in Exporters : export[e] = IdleExport  BY DEF Init, ExportInit
<1>9. ExportTypeOK
  BY <1>4, <1>8, ExportAssumption DEF Init, ExportInit, ExportTypeOK
<1>10. \A e \in Exporters : Own(e)  BY <1>4, <1>5, <1>8 DEF Own, Busy
<1>11. Apart  BY <1>4, <1>8 DEF Apart, Busy
<1>12. TargetIsWhole
  BY <1>5, <1>6, <1>7, <1>9, ExportAssumption DEF TargetIsWhole, TypeOK
<1>13. NothingLeftUnreported  BY <1>4, <1>8 DEF NothingLeftUnreported
<1>14. QED  BY <1>6, <1>7, <1>9, <1>10, <1>11, <1>12, <1>13 DEF Inv, TypeOK

LEMMA InvNext == Inv /\ [Next]_vars => Inv'
<1> SUFFICES ASSUME Inv, [Next]_vars PROVE Inv'  OBVIOUS
<1>1. CASE UserStep /\ UNCHANGED <<reader, exportVars>>
  BY <1>1, UserWritesInv, UserReplacesInv, UserRemovesInv DEF UserStep
<1>2. CASE ReadStep /\ UNCHANGED exportVars
  BY <1>2, OpenSelectedInv, ObserveOpenedInv, ComparePathInv, ReadChunkInv, EndOfFileInv,
     ReturnSnapshotInv, ReadAgainInv DEF ReadStep
<1>3. ASSUME NEW e \in Exporters, ExportStep(e) \/ Crash(e), UNCHANGED reader PROVE Inv'
  BY <1>3, FreshInv, CreateTemporaryInv, NoTemporaryInv, WriteTemporaryInv, WriteFailsInv,
     SyncTemporaryInv, VerifyTemporaryInv, RecheckDestinationInv, PublishInv, PublishedInv,
     RemoveTemporaryInv, RemovalFailsInv DEF ExportStep
<1>4. CASE UNCHANGED vars
  <2>1. UNCHANGED <<fileVars, reader, exportVars>> /\ UNCHANGED <<file, name, edits>>
    BY <1>4 DEF vars, fileVars
  <2>2. ReaderTypeOK' /\ Reading'
    BY <2>1 DEF Inv, TypeOK, ReaderTypeOK, Reading, Prefix
  <2>3. QED  BY <2>1, <2>2, ReaderMoves
<1>5. QED  BY <1>1, <1>2, <1>3, <1>4 DEF Next
-----------------------------------------------------------------------------
(* The inductive invariant holds in every state, for any number of exports, *)
(* names, files, edits and faults.                                          *)
THEOREM FileEntryInvariance == Spec => []Inv
<1>1. QED  BY InvInit, InvNext, PTL DEF Spec

(* Every variable keeps to its domain: a temporary name and a file belong   *)
(* to every export that has created one, and a file to every read.          *)
THEOREM FileEntryTypeCorrect == Spec => []TypeOK
<1>1. Inv => TypeOK  BY DEF Inv
<1>2. QED  BY <1>1, FileEntryInvariance, PTL

(* export_managed_source: whatever an exporter has put under the target     *)
(* name is the exact body, however it and the other programs interleave,    *)
(* fail and stop.                                                           *)
THEOREM TargetAlwaysWhole == Spec => []TargetIsWhole
<1>1. Inv => TargetIsWhole  BY DEF Inv
<1>2. QED  BY <1>1, FileEntryInvariance, PTL

(* remove_owned_temporary and cleanup_temporary_after_failure: a receipt,   *)
(* or the answer that the target exists, means that the temporary file is   *)
(* gone.                                                                    *)
THEOREM AnswersMeanCleaned == Spec => []NothingLeftUnreported
<1>1. Inv => NothingLeftUnreported  BY DEF Inv
<1>2. QED  BY <1>1, FileEntryInvariance, PTL

(* What a step of the program does to the files of others.                  *)
LEMMA ExportKeepsOthers ==
    ASSUME Inv, NEW e \in Exporters, ExportStep(e) \/ Crash(e)
    PROVE  /\ \A f \in 1..Len(file) : file[f].by = User => file'[f].content = file[f].content
           /\ \A n \in Names \ Temps : name[n] # 0 => name'[n] = name[n]
<1>1. FilesTypeOK /\ Len(file) \in Nat /\ name \in [Names -> 0..MaxFiles]  BY NameFacts
<1>2. CASE UNCHANGED fileVars
  BY <1>2 DEF fileVars
<1>3. CASE CreateTemporary(e)
  <2>1. PICK t \in Temps : name' = [name EXCEPT ![t] = Len(file) + 1]
    BY <1>3 DEF CreateTemporary
  <2>2. \A n \in Names \ Temps : name'[n] = name[n]  BY <1>1, <2>1
  <2>3. PICK x : file' = Append(file, x)  BY <1>3 DEF CreateTemporary
  <2>4. \A f \in 1..Len(file) : file'[f] = file[f]  BY <1>1, <2>3 DEF FilesTypeOK
  <2>5. QED  BY <2>2, <2>4
<1>4. CASE WriteTemporary(e)
  <2>1. export[e].pc = "write" /\ Own(e) /\ UNCHANGED name
    BY <1>4, ExportFacts DEF WriteTemporary
  <2>2. PICK f \in 1..Len(file) : f = export[e].file  BY <2>1, ExportFacts DEF Busy
  <2>3. file[f].by # User  BY <2>1, <2>2, FilesAssumption DEF Own, Exporters
  <2>4. PICK x : file' = [file EXCEPT ![f] = x]  BY <1>4, <2>2 DEF WriteTemporary, Write
  <2>5. \A g \in 1..Len(file) : g # f => file'[g] = file[g]
    BY <1>1, <2>4 DEF FilesTypeOK
  <2>6. QED  BY <2>1, <2>3, <2>5
<1>5. ASSUME NEW n \in Names, name[n] # 0, Unlink(n), n \in Temps
      PROVE  /\ \A f \in 1..Len(file) : file'[f].content = file[f].content
             /\ \A m \in Names \ Temps : name'[m] = name[m]
  <2>1. name[n] \in 1..Len(file)  BY <1>5, NameFacts
  <2>2. file' = [file EXCEPT ![name[n]].changes = @ + 1]  BY <1>5 DEF Unlink
  <2>3. \A f \in 1..Len(file) : file'[f].content = file[f].content
    BY <1>1, <2>1, <2>2, TouchKeeps
  <2>4. \A m \in Names \ Temps : name'[m] = name[m]  BY <1>1, <1>5 DEF Unlink
  <2>5. QED  BY <2>3, <2>4
<1>6. CASE RemoveTemporary(e) \/ Cleanup(e)
  <2>1. export[e].temp \in Temps /\ export[e].temp \in Names
    BY <1>6, ExportFacts, ExportAssumption DEF RemoveTemporary, Cleanup, Busy
  <2>2. \/ UNCHANGED <<name, file>>
        \/ name[export[e].temp] # 0 /\ Unlink(export[e].temp)
    BY <1>6 DEF RemoveTemporary, Cleanup
  <2>3. QED  BY <1>5, <2>1, <2>2
<1>7. CASE Publish(e) /\ ~UNCHANGED <<name, file>>
  <2>1. /\ name["target"] = 0 /\ name[export[e].temp] # 0
        /\ name' = [name EXCEPT !["target"] = name[export[e].temp]]
        /\ file' = [file EXCEPT ![name[export[e].temp]].changes = @ + 1]
    BY <1>7 DEF Publish
  <2>2. export[e].temp \in Names
    BY <1>7, ExportFacts, ExportAssumption DEF Publish, Busy
  <2>3. name[export[e].temp] \in 1..Len(file)  BY <2>1, <2>2, NameFacts
  <2>4. \A f \in 1..Len(file) : file'[f].content = file[f].content
    BY <1>1, <2>1, <2>3, TouchKeeps
  <2>5. \A n \in Names : name[n] # 0 => name'[n] = name[n]  BY <1>1, <2>1
  <2>6. QED  BY <2>4, <2>5
<1>8. CASE Publish(e) /\ UNCHANGED <<name, file>>
  BY <1>8
<1>9. QED
  BY <1>2, <1>3, <1>4, <1>6, <1>7, <1>8
     DEF ExportStep, ResolveDestination, NoTemporary, WriteFails, SyncTemporary,
         VerifyTemporary, RecheckDestination, ObservePublished, ObservePublishedFails,
         VerifyTarget, RemovalFails, Crash

(* No step of the program changes the bytes of a file of the user, or takes *)
(* away a name that is not a temporary one.                                 *)
THEOREM NothingOfOthersTouched == Spec => NeverTouchesOthers
<1> DEFINE Kept ==
      edits' = edits =>
        /\ \A f \in 1..Len(file) : file[f].by = User => file'[f].content = file[f].content
        /\ \A n \in Names \ Temps : name[n] # 0 => name'[n] = name[n]
<1>1. Inv /\ [Next]_vars => [Kept]_vars
  <2> SUFFICES ASSUME Inv, Next PROVE Kept  OBVIOUS
  <2>1. CASE UserStep
    <3>1. Edit  BY <2>1 DEF UserStep, UserWrites, UserReplaces, UserRemoves
    <3>2. edits' # edits  BY <3>1, NameFacts, FilesAssumption DEF Edit, FilesTypeOK
    <3>3. QED  BY <3>2
  <2>2. CASE ReadStep
    <3>1. UNCHANGED <<name, file>>
      BY <2>2 DEF ReadStep, OpenSelected, ObserveOpened, ComparePath, ReadChunk, EndOfFile,
                  ReturnSnapshot, ReadAgain, fileVars
    <3>2. QED  BY <3>1
  <2>3. ASSUME NEW e \in Exporters, ExportStep(e) \/ Crash(e) PROVE Kept
    BY <2>3, ExportKeepsOthers
  <2>4. QED  BY <2>1, <2>2, <2>3 DEF Next
<1>2. QED  BY <1>1, FileEntryInvariance, PTL DEF Spec, NeverTouchesOthers

(* read_file_snapshot: a snapshot is the whole content of the selected file *)
(* at the moment it is returned, whoever wrote in between.                  *)
THEOREM SnapshotsAreMoments == Spec => SnapshotIsOneMoment
<1> DEFINE Moment ==
      reader.pc # "snapshot" /\ reader'.pc = "snapshot" =>
         /\ name[Selected] # 0
         /\ reader.bytes = file[name[Selected]].content
         /\ Len(reader.bytes) \in 1..MaxBytes
         /\ \A i \in 1..Len(reader.bytes) : reader.bytes[i] # Bad
<1>1. Inv /\ [Next]_vars => [Moment]_vars
  <2> SUFFICES ASSUME Inv, Next, reader.pc # "snapshot", reader'.pc = "snapshot"
               PROVE  /\ name[Selected] # 0
                      /\ reader.bytes = file[name[Selected]].content
                      /\ Len(reader.bytes) \in 1..MaxBytes
                      /\ \A i \in 1..Len(reader.bytes) : reader.bytes[i] # Bad
    OBVIOUS
  <2>1. ReadStep  BY DEF Next
  <2>2. reader \in ReaderState  BY ReaderFacts
  <2>3. ~Refuse /\ ~ReaderTo("reading") /\ ~ReaderTo("read")
    BY <2>2 DEF Refuse, ReaderTo, ReaderState
  <2>4. ReturnSnapshot
    <3>1. ~OpenSelected  BY <2>3 DEF OpenSelected, IdleReader
    <3>2. ~ObserveOpened  BY <2>2, <2>3 DEF ObserveOpened, ReaderState
    <3>3. ~ReadChunk  BY <2>2 DEF ReadChunk, ReaderState
    <3>4. ~ReadAgain  BY DEF ReadAgain, IdleReader
    <3>5. QED
      BY <2>1, <2>3, <3>1, <3>2, <3>3, <3>4 DEF ReadStep, ComparePath, EndOfFile
  <2>5. /\ SelectionStable /\ ValidSize(Len(reader.bytes)) /\ reader.pc = "read"
        /\ \A i \in 1..Len(reader.bytes) : reader.bytes[i] # Bad
    BY <2>3, <2>4 DEF ReturnSnapshot
  <2>6. Prefix  BY <2>5 DEF Inv, Reading
  <2>7. /\ name[Selected] = reader.file
        /\ file[reader.file].changes = reader.before[3]
    BY <2>5, <2>6 DEF SelectionStable, Observe, Prefix
  <2>8. /\ Len(reader.bytes) = Len(file[reader.file].content)
        /\ \A i \in 1..Len(reader.bytes) : reader.bytes[i] = file[reader.file].content[i]
    BY <2>5, <2>6, <2>7 DEF Prefix
  <2>9. /\ reader.bytes \in Seq(Chunks) /\ file[reader.file].content \in Seq(Chunks)
        /\ Len(reader.bytes) \in Nat
    BY <2>5, ReaderFacts, ContentsAre DEF ReaderState
  <2>10. reader.bytes = file[reader.file].content  BY <2>8, <2>9, SeqEqual
  <2>11. Len(reader.bytes) \in 1..MaxBytes  BY <2>5, <2>9, FilesAssumption DEF ValidSize
  <2>12. QED  BY <2>5, <2>7, <2>10, <2>11 DEF SelectionStable
<1>2. QED  BY <1>1, FileEntryInvariance, PTL DEF Spec, SnapshotIsOneMoment

-----------------------------------------------------------------------------
(***************************************************************************)
(* What the sessions of a migrated library promise (VaultReading), proved  *)
(* for any processes, sources and amount of trouble.                       *)
(*                                                                         *)
(* A session reads in several steps and acts on what it has read at the    *)
(* end.  That nothing has changed in between rests on the lock alone: only *)
(* the session that holds it changes rows, and a session that has read     *)
(* changes none.                                                           *)
(***************************************************************************)
(* The lock is held by exactly the host whose session runs.                 *)
Locked == \A h \in Hosts : session[h].pc # "idle" <=> lock = h

(* A session has a source and past the key a key; answers are there only    *)
(* while it reads, and an export reads its own source and nothing else.     *)
Shape(r) ==
    /\ r.pc \in {"idle", "locked"} <=> r.key = "none"
    /\ r.pc # "idle" => r.source \in Sources
    /\ r.pc \notin {"ready", "queried", "publish", "release"} => r.got = <<>>
    /\ r.op = "export" /\ r.pc \in {"locked", "keyed", "ready", "queried"} =>
         r.todo = <<r.source>>
    /\ r.pc = "queried" =>
         r.todo # <<>> /\ r.got # <<>> /\ r.got[Len(r.got)].query = Head(r.todo)
    /\ r.pc = "publish" =>
         /\ r.got # <<>>
         /\ r.got[Len(r.got)].query = r.source
         /\ r.got[Len(r.got)].answer # {}

(* The answers of a session are those of the library as it is now.          *)
Current(r) == \A i \in 1..Len(r.got) : r.got[i].answer = Answer(r.got[i].query)

ReadingInv ==
    /\ ReadingTypeOK
    /\ Locked
    /\ \A h \in Hosts : Shape(session[h]) /\ Current(session[h])

-----------------------------------------------------------------------------
LEMMA NoSessionShape == NoSession \in Session /\ Shape(NoSession) /\ Current(NoSession)'
BY DEF NoSession, Session, Shape, Current, Pcs, Ops, ReadOps, Keys

(* What is typed beside the sessions.                                       *)
Values ==
    /\ state \in [Sources -> RowStates]
    /\ object \in [Sources -> Objects]
    /\ recall \subseteq Sources
    /\ storeKey \in Keys
    /\ exported \subseteq Sources
    /\ budget \in [Kinds -> Nat]

(* A running session moves on to record r: the others have nothing read.    *)
LEMMA SessionMoves ==
    ASSUME ReadingInv, NEW h \in Hosts, NEW r \in Session,
           session[h].pc # "idle" \/ lock = NoHost,
           session' = [session EXCEPT ![h] = r],
           lock' = IF r.pc = "idle" THEN NoHost ELSE h,
           Shape(r), Current(r)', Values'
    PROVE  ReadingInv'
<1>1. /\ session'[h] = r
      /\ \A g \in Hosts : g # h => session'[g] = session[g]
  BY DEF ReadingInv, ReadingTypeOK
<1>2. \A g \in Hosts : g # h => session[g].pc = "idle"
  BY ReadingAssumption DEF ReadingInv, Locked
<1>3. session' \in [Hosts -> Session]
  BY DEF ReadingInv, ReadingTypeOK
<1>4. Locked'
  BY <1>1, <1>2, ReadingAssumption DEF Locked
<1>5. \A g \in Hosts : Shape(session[g])'
  BY <1>1 DEF ReadingInv, Shape
<1>6. \A g \in Hosts : Current(session[g])'
  <2>1. ASSUME NEW g \in Hosts, g # h PROVE session'[g].got = <<>>
    BY <1>1, <1>2, <2>1 DEF ReadingInv, Shape
  <2>2. QED  BY <1>1, <2>1 DEF Current
<1>7. ReadingTypeOK'
  BY <1>3, <1>5 DEF ReadingTypeOK, Values, Shape
<1>8. QED  BY <1>4, <1>5, <1>6, <1>7 DEF ReadingInv

(* A session ends.                                                          *)
LEMMA SessionEnds ==
    ASSUME ReadingInv, NEW h \in Hosts, session[h].pc # "idle", End(h), Values'
    PROVE  ReadingInv'
<1>1. NoSession.pc = "idle"  BY DEF NoSession
<1>2. QED  BY <1>1, NoSessionShape, SessionMoves DEF End

(* What a session has read stays current while the rows that answers are    *)
(* made of do not change.                                                   *)
LEMMA StaysCurrent ==
    ASSUME ReadingInv, NEW h \in Hosts, NEW r, r.got = session[h].got, UNCHANGED <<state, recall>>
    PROVE  Current(r)'
BY DEF ReadingInv, Current, Answer, With

(* Nothing beside the session has changed.                                  *)
LEMMA ValuesKept ==
    ASSUME ReadingInv, UNCHANGED <<library, storeKey, exported, budget>>
    PROVE  Values'
BY DEF ReadingInv, ReadingTypeOK, Values, library

LEMMA ReadingInvInit == ReadingInit => ReadingInv
<1> SUFFICES ASSUME ReadingInit PROVE ReadingInv
  OBVIOUS
<1>1. \A h \in Hosts : session[h] = NoSession  BY DEF ReadingInit
<1>2. ReadingTypeOK
  BY <1>1, NoSessionShape, ReadingAssumption
     DEF ReadingInit, ReadingTypeOK, Shape, RowStates, Objects, Keys, Session
<1>3. Locked
  BY <1>1, ReadingAssumption DEF ReadingInit, Locked, NoSession
<1>4. \A h \in Hosts : Shape(session[h]) /\ Current(session[h])
  BY <1>1, NoSessionShape DEF NoSession, Current
<1>5. QED  BY <1>2, <1>3, <1>4 DEF ReadingInv

(* The plan of an operation is a sequence of queries, for an export of its  *)
(* source alone.                                                            *)
LEMMA PlanType ==
    ASSUME NEW op \in Ops, NEW s \in Sources
    PROVE  /\ Plan(op, s) \in Seq(Queries \cup Sources)
           /\ op = "export" => Plan(op, s) = <<s>>
<1>1. /\ <<"search">> \in Seq(Queries \cup Sources)
      /\ <<s>> \in Seq(Queries \cup Sources)
      /\ <<"lineages", "pending", "unfinished">> \in Seq(Queries \cup Sources)
      /\ <<>> \in Seq(Queries \cup Sources)
  BY DEF Queries
<1>2. QED  BY <1>1 DEF Plan

LEMMA OpenSessionInv == ASSUME ReadingInv, NEW h \in Hosts, OpenSession(h) PROVE ReadingInv'
<1>1. PICK op \in Ops, s \in Sources :
        session' = [session EXCEPT ![h] =
                      [NoSession EXCEPT !.pc = "locked", !.op = op, !.source = s,
                                        !.todo = Plan(op, s)]]
  BY DEF OpenSession
<1> DEFINE r == [NoSession EXCEPT !.pc = "locked", !.op = op, !.source = s, !.todo = Plan(op, s)]
<1>2. r \in Session
  <2>1. "locked" \in Pcs /\ Plan(op, s) \in Seq(Queries \cup Sources)  BY PlanType DEF Pcs
  <2>2. QED  BY <2>1, NoSessionShape DEF Session
<1>3. Shape(r) /\ Current(r)'  BY PlanType DEF NoSession, Shape, Current
<1>4. r.pc # "idle"  BY DEF NoSession
<1>5. Values' /\ lock = NoHost /\ lock' = h  BY ValuesKept DEF OpenSession
<1> HIDE DEF r
<1>6. session' = [session EXCEPT ![h] = r]  BY <1>1 DEF r
<1>7. QED  BY <1>2, <1>3, <1>4, <1>5, <1>6, SessionMoves

(* A running session moves on to record r without a change of the library,  *)
(* and with what it has read.                                               *)
LEMMA SessionGoesOn ==
    ASSUME ReadingInv, NEW h \in Hosts, session[h].pc # "idle", NEW r \in Session, Shape(r),
           r.pc # "idle", r.got = session[h].got,
           session' = [session EXCEPT ![h] = r], lock' = lock,
           UNCHANGED <<library, storeKey, exported, budget>>
    PROVE  ReadingInv'
<1>1. Current(r)'  BY StaysCurrent DEF library
<1>2. lock' = h  BY DEF ReadingInv, Locked
<1>3. QED  BY <1>1, <1>2, ValuesKept, SessionMoves

(* The facts about the session of a host that every step starts from.       *)
LEMMA Facts ==
    ASSUME ReadingInv, NEW h \in Hosts
    PROVE  session[h] \in Session /\ Shape(session[h]) /\ Current(session[h])
BY DEF ReadingInv, ReadingTypeOK

LEMMA LoadKeyInv == ASSUME ReadingInv, NEW h \in Hosts, LoadKey(h) PROVE ReadingInv'
<1>1. CASE storeKey = "none"
  BY <1>1, ValuesKept, SessionEnds DEF LoadKey, SessionFails
<1>2. CASE storeKey # "none"
  <2> SUFFICES ASSUME NEW r, r = [session[h] EXCEPT !.pc = "keyed", !.key = storeKey]
               PROVE  ReadingInv'
    OBVIOUS
  <2>1. r \in Session
    <3>1. storeKey \in Keys  BY DEF ReadingInv, ReadingTypeOK
    <3>2. "keyed" \in Pcs  BY DEF Pcs
    <3>3. QED  BY Facts, <3>1, <3>2 DEF Session
  <2>2. Shape(r)  BY Facts, <1>2 DEF Shape, LoadKey, Session
  <2>3. r.pc # "idle" /\ session[h].pc # "idle" /\ r.got = session[h].got
    BY Facts DEF LoadKey, Session
  <2>4. session' = [session EXCEPT ![h] = r] /\ lock' = lock
    BY <1>2 DEF LoadKey
  <2>5. QED  BY <2>1, <2>2, <2>3, <2>4, SessionGoesOn DEF LoadKey
<1>3. QED  BY <1>1, <1>2

LEMMA AuthenticateInv == ASSUME ReadingInv, NEW h \in Hosts, Authenticate(h) PROVE ReadingInv'
<1> DEFINE ok == Authentic(h) /\ (session[h].op \in {"verify", "rebuild"} \/ FactsVerify)
<1>1. CASE ~ok
  BY <1>1, ValuesKept, SessionEnds DEF Authenticate, SessionFails
<1>2. CASE ok
  <2>1. PICK r : r = [session[h] EXCEPT
                        !.pc = CASE session[h].op \in ReadOps -> "ready"
                                 [] session[h].op \in {"capture", "delete"} -> "write"
                                 [] session[h].op \in {"verify", "rebuild"} -> "verified",
                        !.rows = IF session[h].op = "rebuild" THEN With("active") ELSE {}]
    OBVIOUS
  <2>2. session[h].op \in Ops  BY Facts DEF Session
  <2>3. /\ r.pc \in {"ready", "write", "verified"}
        /\ r.pc = "ready" \/ r.op # "export"
    BY <2>1, <2>2, Facts DEF Ops, ReadOps, Session
  <2>4. r \in Session
    BY <2>1, <2>3, Facts DEF Session, With, Pcs
  <2>5. /\ r.got = session[h].got /\ r.key = session[h].key /\ r.todo = session[h].todo
        /\ r.source = session[h].source /\ r.op = session[h].op
    BY <2>1, Facts DEF Session
  <2>6. Shape(r)  BY <2>3, <2>5, Facts DEF Shape, Authenticate
  <2>7. session' = [session EXCEPT ![h] = r] /\ lock' = lock
    BY <1>2, <2>1 DEF Authenticate
  <2>8. QED  BY <2>3, <2>4, <2>5, <2>6, <2>7, SessionGoesOn DEF Authenticate
<1>3. QED  BY <1>1, <1>2

(* A query of the plan is answered with sources.                            *)
LEMMA AnswerType ==
    ASSUME ReadingInv, NEW q \in Queries \cup Sources
    PROVE  Answer(q) \in SUBSET Sources
BY ReadingAssumption DEF Answer, With, Queries, ReadingInv, ReadingTypeOK

LEMMA QueryInv == ASSUME ReadingInv, NEW h \in Hosts, Query(h) PROVE ReadingInv'
<1>1. CASE ~(Authentic(h) /\ FactsVerify)
  BY <1>1, ValuesKept, SessionEnds DEF Query, SessionFails
<1>2. CASE Authentic(h) /\ FactsVerify
  <2> DEFINE q == Head(session[h].todo)
             a == [query |-> q, answer |-> Answer(q)]
  <2>1. PICK r : r = [session[h] EXCEPT !.pc = "queried", !.got = Append(@, a)]
    OBVIOUS
  <2>2. session[h].todo \in Seq(Queries \cup Sources) /\ session[h].got \in Seq(Read)
    BY Facts DEF Session
  <2>3. q \in Queries \cup Sources  BY <2>2 DEF Query
  <2>4. a \in Read  BY <2>3, AnswerType DEF Read
  <2>5. /\ r.pc = "queried" /\ r.op = session[h].op /\ r.source = session[h].source
        /\ r.key = session[h].key /\ r.todo = session[h].todo
        /\ r.got = Append(session[h].got, a)
    BY <2>1, Facts DEF Session
  <2>6. r.got \in Seq(Read)  BY <2>2, <2>4, <2>5
  <2>7. r \in Session
    <3>1. "queried" \in Pcs  BY DEF Pcs
    <3>2. r = [session[h] EXCEPT !.pc = "queried", !.got = r.got]
      BY <2>1, <2>5, Facts DEF Session
    <3>3. QED  BY <2>6, <3>1, <3>2, Facts DEF Session
  <2>8. /\ Len(r.got) = Len(session[h].got) + 1
        /\ r.got[Len(r.got)] = a
        /\ \A i \in 1..Len(session[h].got) : r.got[i] = session[h].got[i]
    BY <2>2, <2>4, <2>5
  <2>9. Shape(r)
    <3>1. r.got # <<>> /\ r.got[Len(r.got)].query = q  BY <2>2, <2>6, <2>8
    <3>2. QED  BY <2>5, <3>1, Facts DEF Shape, Query
  <2>10. \A x : Answer(x)' = Answer(x)  BY DEF Query, library, Answer, With
  <2>11. Current(r)'
    <3> SUFFICES ASSUME NEW i \in 1..Len(r.got) PROVE r.got[i].answer = Answer(r.got[i].query)
      BY <2>10 DEF Current
    <3>1. CASE i = Len(r.got)  BY <2>8, <3>1
    <3>2. CASE i # Len(r.got)
      <4>1. i \in 1..Len(session[h].got)  BY <2>2, <2>8, <3>2
      <4>2. QED  BY <2>8, <4>1, Facts DEF Current
    <3>3. QED  BY <3>1, <3>2
  <2>12. session' = [session EXCEPT ![h] = r] /\ lock' = h
    BY <1>2, <2>1 DEF Query, ReadingInv, Locked
  <2>13. QED
    BY <2>5, <2>7, <2>9, <2>11, <2>12, ValuesKept, SessionMoves DEF Query
<1>3. QED  BY <1>1, <1>2

(* The hits of a search are resolved in some order.                         *)
LEMMA HitsType ==
    ASSUME NEW S \in SUBSET Sources
    PROVE  SetToSeq(S) \in Seq(Sources)
<1>1. IsFiniteSet(S)  BY ReadingAssumption, FS_Subset
<1>2. Cardinality(S) \in Nat /\ \E f \in [1..Cardinality(S) -> S] : IsInjective(f)
  <2>1. Cardinality(S) \in Nat /\ ExistsBijection(1..Cardinality(S), S)
    BY <1>1, FS_CardinalityType
  <2>2. QED  BY <2>1 DEF ExistsBijection, Bijection, Injection, IsInjective
<1>3. SetToSeq(S) \in [1..Cardinality(S) -> S]  BY <1>2 DEF SetToSeq
<1>4. QED  BY <1>2, <1>3

LEMMA RestType ==
    ASSUME ReadingInv, NEW h \in Hosts, session[h].pc = "queried"
    PROVE  /\ Rest(h) \in Seq(Queries \cup Sources)
           /\ session[h].op = "export" => Rest(h) = <<>>
<1> DEFINE last == session[h].got[Len(session[h].got)]
<1>1. /\ session[h].got \in Seq(Read) /\ session[h].got # <<>>
      /\ session[h].todo \in Seq(Queries \cup Sources) /\ session[h].todo # <<>>
      /\ last.query = Head(session[h].todo)
      /\ session[h].op = "export" => session[h].todo = <<session[h].source>>
      /\ session[h].source \in Sources
  <2>1. session[h] \in Session /\ Shape(session[h])  BY Facts
  <2>2. session[h].got \in Seq(Read) /\ session[h].todo \in Seq(Queries \cup Sources)
    BY <2>1 DEF Session
  <2>3. QED  BY <2>1, <2>2 DEF Shape
<1>2. last \in Read  BY <1>1
<1>3. SetToSeq(last.answer) \in Seq(Queries \cup Sources)
  BY <1>2, HitsType DEF Read
<1>4. Tail(session[h].todo) \in Seq(Queries \cup Sources)  BY <1>1
<1>5. session[h].op = "export" =>
         last.query \notin {"search", "lineages"} /\ Tail(session[h].todo) = <<>>
  <2> SUFFICES ASSUME NEW s \in Sources, session[h].todo = <<s>>
               PROVE  last.query \notin {"search", "lineages"} /\ Tail(session[h].todo) = <<>>
    BY <1>1
  <2>1. Head(<<s>>) = s /\ Tail(<<s>>) = <<>>  OBVIOUS
  <2>2. s \notin {"search", "lineages"}  BY ReadingAssumption DEF Queries
  <2>3. QED  BY <1>1, <2>1, <2>2
<1>6. <<"versions">> \o Tail(session[h].todo) \in Seq(Queries \cup Sources)
  <2>1. "versions" \in Queries \cup Sources  BY DEF Queries
  <2>2. QED  BY <1>4, <2>1
<1>7. QED  BY <1>3, <1>4, <1>5, <1>6 DEF Rest

LEMMA RecheckInv == ASSUME ReadingInv, NEW h \in Hosts, Recheck(h) PROVE ReadingInv'
<1> DEFINE last == session[h].got[Len(session[h].got)]
           missing == last.query \in Sources /\ last.answer = {}
           done == Rest(h) = <<>> /\ AfterReads(h) = "idle"
<1>1. session[h].pc = "queried"  BY DEF Recheck
<1>2. CASE ~Authentic(h) \/ ~FactsVerify \/ missing \/ done
  <2>1. End(h)  BY <1>2 DEF Recheck, SessionFails
  <2>2. QED  BY <1>1, <2>1, ValuesKept, SessionEnds DEF Recheck
<1>3. CASE Authentic(h) /\ FactsVerify /\ ~missing /\ ~done
  <2>1. PICK r : r = [session[h] EXCEPT !.todo = Rest(h),
                        !.pc = IF Rest(h) # <<>> THEN "ready" ELSE AfterReads(h)]
    OBVIOUS
  <2>2. session' = [session EXCEPT ![h] = r] /\ lock' = lock
    BY <1>3, <2>1 DEF Recheck
  <2>3. /\ r.pc = IF Rest(h) # <<>> THEN "ready" ELSE AfterReads(h)
        /\ r.op = session[h].op /\ r.source = session[h].source
        /\ r.key = session[h].key /\ r.todo = Rest(h) /\ r.got = session[h].got
    BY <2>1, Facts DEF Session
  <2>4. /\ r.pc \in {"ready", "publish", "release"}
        /\ r.op = "export" <=> r.pc = "publish"
    BY <1>1, <1>3, <2>3, RestType DEF AfterReads
  <2>5. r \in Session
    <3>1. r.pc \in Pcs  BY <2>4 DEF Pcs
    <3>2. QED  BY <1>1, <2>1, <2>3, <3>1, RestType, Facts DEF Session
  <2>6. r.pc = "publish" => r.got # <<>> /\ last.query = r.source /\ last.answer # {}
    <3> SUFFICES ASSUME r.pc = "publish" PROVE r.got # <<>> /\ last.query = r.source /\ last.answer # {}
      OBVIOUS
    <3>1. session[h].todo = <<r.source>> /\ r.source \in Sources /\ r.got # <<>>
      BY <1>1, <2>3, <2>4, Facts DEF Shape
    <3>2. last.query = r.source
      BY <1>1, <3>1, Facts DEF Shape
    <3>3. QED  BY <1>3, <3>1, <3>2
  <2>7. Shape(r)
    BY <1>1, <2>3, <2>4, <2>6, Facts DEF Shape
  <2>8. QED  BY <1>1, <2>2, <2>3, <2>4, <2>5, <2>7, SessionGoesOn DEF Recheck
<1>4. QED  BY <1>2, <1>3

-----------------------------------------------------------------------------
(* Sessions that change the library have read nothing.                      *)
LEMMA WriterGoesOn ==
    ASSUME ReadingInv, NEW h \in Hosts,
           session[h].pc \in {"write", "object", "verified", "rebuilt", "commit"},
           NEW pc \in {"object", "finish", "rebuilt", "commit", "readback"},
           session' = [session EXCEPT ![h].pc = pc], lock' = lock, Values'
    PROVE  ReadingInv'
<1>1. PICK r : r = [session[h] EXCEPT !.pc = pc]
  OBVIOUS
<1>2. r \in Session  BY <1>1, Facts DEF Session, Pcs
<1>3. /\ r.pc = pc /\ r.op = session[h].op /\ r.source = session[h].source
      /\ r.key = session[h].key /\ r.got = session[h].got
  BY <1>1, Facts DEF Session
<1>4. r.got = <<>>  BY <1>3, Facts DEF Shape
<1>5. Shape(r)  BY <1>3, <1>4, Facts DEF Shape
<1>6. Current(r)'  BY <1>4 DEF Current
<1>7. session' = [session EXCEPT ![h] = r] /\ lock' = h  BY <1>1 DEF ReadingInv, Locked
<1>8. QED  BY <1>2, <1>3, <1>5, <1>6, <1>7, SessionMoves

LEMMA RebuildInv ==
    ASSUME ReadingInv, NEW h \in Hosts, StartRebuild(h) \/ BeforeCommit(h) \/ CommitRebuild(h)
    PROVE  ReadingInv'
<1>1. CASE StartRebuild(h)
  <2>1. PICK pc \in {"rebuilt", "readback"} : session' = [session EXCEPT ![h].pc = pc]
    BY <1>1 DEF StartRebuild, Goto
  <2>2. QED  BY <1>1, <2>1, ValuesKept, WriterGoesOn DEF StartRebuild
<1>2. CASE BeforeCommit(h)
  <2>1. Values' /\ session[h].pc = "rebuilt"  BY <1>2, ValuesKept DEF BeforeCommit
  <2>2. CASE End(h)  BY <2>1, <2>2, SessionEnds
  <2>3. CASE Goto(h, "commit") /\ UNCHANGED lock
    BY <2>1, <2>3, WriterGoesOn DEF Goto
  <2>4. QED  BY <1>2, <2>2, <2>3 DEF BeforeCommit, SessionFails
<1>3. CASE CommitRebuild(h)
  <2>1. session[h].rows \subseteq Sources  BY Facts DEF Session
  <2>2. Values'  BY <1>3, <2>1 DEF CommitRebuild, ReadingInv, ReadingTypeOK, Values
  <2>3. QED  BY <1>3, <2>2, WriterGoesOn DEF CommitRebuild, Goto
<1>4. QED  BY <1>1, <1>2, <1>3

LEMMA WriteInv ==
    ASSUME ReadingInv, NEW h \in Hosts, PrepareCapture(h) \/ ChangeObject(h) \/ BeginDeletion(h)
    PROVE  ReadingInv'
<1>0. session[h].key \in Objects /\ "none" \in Objects
  BY Facts DEF Session, Objects, Keys
<1>1. session[h].pc \in {"write", "object"}
  BY DEF PrepareCapture, ChangeObject, BeginDeletion
<1>2. Values'
  BY <1>0
     DEF PrepareCapture, ChangeObject, BeginDeletion, ReadingInv, ReadingTypeOK, Values,
         RowStates
<1>3. \/ End(h)
      \/ /\ \E pc \in {"object", "finish"} : session' = [session EXCEPT ![h].pc = pc]
         /\ lock' = lock
  BY DEF PrepareCapture, ChangeObject, BeginDeletion, Goto, SessionFails
<1>4. QED  BY <1>1, <1>2, <1>3, SessionEnds, WriterGoesOn

(* The steps with which a session ends.                                     *)
LEMMA LastStepInv ==
    ASSUME ReadingInv, NEW h \in Hosts,
           \/ OpenLibrary(h) \/ PublishExport(h) \/ ExportFails(h) \/ ReleaseSnapshot(h)
           \/ ReadBack(h) \/ FinishWrite(h) \/ SessionCrash(h)
    PROVE  ReadingInv'
<1>1. session[h].pc # "idle" /\ End(h)
  BY
     DEF OpenLibrary, PublishExport, ExportFails, ReleaseSnapshot, ReadBack, FinishWrite,
         SessionCrash, SessionFails
<1>2. CASE OpenLibrary(h) \/ ReleaseSnapshot(h) \/ ReadBack(h)
  BY <1>1, <1>2, ValuesKept, SessionEnds DEF OpenLibrary, ReleaseSnapshot, ReadBack
<1>3. CASE PublishExport(h)
  <2>1. session[h].source \in Sources  BY <1>1, Facts DEF Shape
  <2>2. Values'  BY <1>3, <2>1 DEF PublishExport, ReadingInv, ReadingTypeOK, Values, library
  <2>3. QED  BY <1>1, <2>2, SessionEnds
<1>4. CASE ExportFails(h) \/ SessionCrash(h)
  <2>1. Values'
    BY <1>4
       DEF ExportFails, SessionCrash, Trouble, ReadingInv, ReadingTypeOK, Values, library, Kinds
  <2>2. QED  BY <1>1, <2>1, SessionEnds
<1>5. CASE FinishWrite(h)
  <2>1. session[h].source \in Sources  BY <1>1, Facts DEF Shape
  <2>2. Values'
    BY <1>5, <2>1 DEF FinishWrite, ReadingInv, ReadingTypeOK, Values, RowStates
  <2>3. QED  BY <1>1, <2>2, SessionEnds
<1>6. QED  BY <1>2, <1>3, <1>4, <1>5

(* Trouble from outside changes no answer of a running session: files and   *)
(* the key are no part of one, and rows drift only without a session.       *)
LEMMA TroubleInv ==
    ASSUME ReadingInv, \/ \E s \in Sources : Damage(s)
                \/ ChangeKey
                \/ Drift
    PROVE  ReadingInv'
<1>1. UNCHANGED <<state, lock, session>>
  BY DEF Damage, ChangeKey, Drift, library
<1>2. ReadingTypeOK'
  BY DEF Damage, ChangeKey, Drift, Trouble, library, ReadingInv, ReadingTypeOK, Objects, Kinds
<1>3. ASSUME NEW h \in Hosts PROVE Shape(session[h])' /\ Current(session[h])'
  <2>1. Shape(session[h]) /\ Current(session[h])  BY DEF ReadingInv
  <2>2. CASE session[h].pc = "idle"
    BY <1>1, <2>1, <2>2 DEF Shape, Current
  <2>3. CASE session[h].pc # "idle"
    <3>1. recall' = recall
      BY <2>3, ReadingAssumption DEF Damage, ChangeKey, Drift, library, ReadingInv, Locked
    <3>2. QED  BY <1>1, <2>1, <3>1 DEF Shape, Current, Answer, With
  <2>4. QED  BY <2>2, <2>3
<1>4. QED  BY <1>1, <1>2, <1>3 DEF ReadingInv, Locked

LEMMA ReadingInvNext == ReadingInv /\ [ReadingNext]_readingVars => ReadingInv'
<1> SUFFICES ASSUME ReadingInv, [ReadingNext]_readingVars PROVE ReadingInv'
  OBVIOUS
<1>1. ASSUME NEW h \in Hosts, SessionStep(h) PROVE ReadingInv'
  BY <1>1, LoadKeyInv, AuthenticateInv, QueryInv, RecheckInv, RebuildInv, WriteInv, LastStepInv
     DEF SessionStep
<1>2. ASSUME NEW h \in Hosts, OpenSession(h) \/ ExportFails(h) \/ SessionCrash(h) PROVE ReadingInv'
  BY <1>2, OpenSessionInv, LastStepInv
<1>3. CASE UNCHANGED readingVars
  <2>1. ReadingTypeOK' /\ Locked'  BY <1>3 DEF readingVars, library, ReadingInv, ReadingTypeOK, Locked
  <2>2. ASSUME NEW h \in Hosts PROVE Shape(session[h])' /\ Current(session[h])'
    BY <1>3, Facts DEF readingVars, library, Shape, Current, Answer, With
  <2>3. QED  BY <2>1, <2>2 DEF ReadingInv
<1>4. QED  BY <1>1, <1>2, <1>3, TroubleInv DEF ReadingNext

-----------------------------------------------------------------------------
(* The invariant holds in every behaviour of the sessions of reader.rs and  *)
(* maintenance.rs with captures, deletions and trouble in between.          *)
THEOREM ReadingInvariance == ReadingSpec => []ReadingInv
<1>1. QED  BY ReadingInvInit, ReadingInvNext, PTL DEF ReadingSpec

(* Every variable of the sessions keeps to its domain.                      *)
THEOREM ReadingTypeCorrect == ReadingSpec => []ReadingTypeOK
<1>1. ReadingInv => ReadingTypeOK  BY DEF ReadingInv
<1>2. QED  BY <1>1, ReadingInvariance, PTL

(* All that a session reads is of one library state: vault_session::open    *)
(* keeps the exclusive lock from the first answer to the last.              *)
THEOREM SessionsReadOneState == ReadingSpec => []OneLibraryState
<1>1. ReadingInv => OneLibraryState  BY DEF ReadingInv, OneLibraryState, Current
<1>2. QED  BY <1>1, ReadingInvariance, PTL

(* export_managed_source publishes only bytes of a source that is active    *)
(* at that moment, although it was read in an earlier step.                 *)
THEOREM OnlyActiveIsExported == ReadingSpec => ExportsOnlyActive
<1>1. ASSUME ReadingInv, [ReadingNext]_readingVars, NEW s \in Sources, s \in exported', s \notin exported
      PROVE  state[s] = "active"
  <2>1. PICK h \in Hosts : PublishExport(h)
    <3>1. ASSUME NEW h \in Hosts, SessionStep(h), ~PublishExport(h) PROVE exported' = exported
      BY <3>1 DEF SessionStep, LoadKey, Authenticate, OpenLibrary, Query, Recheck,
         ReleaseSnapshot, StartRebuild, BeforeCommit, CommitRebuild, ReadBack, PrepareCapture,
         ChangeObject, FinishWrite, BeginDeletion
    <3>2. ASSUME NEW h \in Hosts, OpenSession(h) \/ ExportFails(h) \/ SessionCrash(h)
          PROVE  exported' = exported
      BY <3>2 DEF OpenSession, ExportFails, SessionCrash
    <3>3. ASSUME \/ \E x \in Sources : Damage(x)
                 \/ ChangeKey \/ Drift \/ UNCHANGED readingVars
          PROVE  exported' = exported
      BY <3>3 DEF Damage, ChangeKey, Drift, readingVars
    <3>4. QED  BY <1>1, <3>1, <3>2, <3>3 DEF ReadingNext
  <2>2. s = session[h].source  BY <1>1, <2>1 DEF PublishExport
  <2> DEFINE last == session[h].got[Len(session[h].got)]
  <2>3. last.query = s /\ last.answer # {} /\ session[h].got # <<>>
    BY <1>1, <2>1, <2>2, Facts DEF Shape, PublishExport
  <2>4. Len(session[h].got) \in 1..Len(session[h].got)
    BY <1>1, <2>3, Facts DEF Session
  <2>5. last.answer = Answer(s)
    BY <1>1, <2>3, <2>4, Facts DEF Current
  <2>6. Answer(s) = {s} \cap With("active")
    BY <1>1, ReadingAssumption DEF Answer, Queries
  <2>7. QED  BY <2>3, <2>5, <2>6 DEF With
<1>2. ReadingInv /\ [ReadingNext]_readingVars =>
        [\A s \in Sources : s \in exported' /\ s \notin exported => state[s] = "active"]_readingVars
  BY <1>1
<1>3. QED  BY <1>2, ReadingInvariance, PTL DEF ReadingSpec, ExportsOnlyActive
=============================================================================
