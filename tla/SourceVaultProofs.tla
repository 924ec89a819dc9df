-------------------------- MODULE SourceVaultProofs --------------------------
(***************************************************************************)
(* What SourceVault promises, proved for any sources, lineages, attempts   *)
(* and version graph.                                                      *)
(*                                                                         *)
(* The properties are not inductive by themselves.  A reference resolves   *)
(* after a loss of power only because the link was synced before the       *)
(* commit, the file before the link, and a file is never linked for a row  *)
(* that does not exist: Inv says, for every step of every coordinator,     *)
(* how far the files of the source it works on have got.                   *)
(***************************************************************************)
EXTENDS SourceVault, TLAPS

(* Attempt ids are drawn once: a row has its own, and only a drawn attempt  *)
(* has a file.                                                              *)
Tokens ==
    /\ \A s \in Sources : row[s] = "none" <=> tok[s] = NoAttempt
    /\ \A s \in Sources : tok[s] # NoAttempt => tok[s] \in used
    /\ \A s, t \in Sources : tok[s] = tok[t] /\ tok[s] # NoAttempt => s = t
    /\ whole \subseteq used
    /\ wholeDisk \subseteq whole

(* Every directory entry, seen or on the disk, is the attempt of a row; an  *)
(* object is linked only once its file is on the disk.                      *)
Entries ==
    /\ \A a \in stage \cup stageDisk : \E s \in Sources : tok[s] = a
    /\ \A s \in Sources : obj[s] # NoAttempt => obj[s] = tok[s] /\ tok[s] \in wholeDisk
    /\ \A s \in Sources : objDisk[s] # NoAttempt => objDisk[s] = tok[s] /\ tok[s] \in wholeDisk

(* What the files of a source may be, by the state of its row.              *)
Gone(s) == /\ tok[s] \notin stage \cup stageDisk
           /\ obj[s] = NoAttempt
           /\ objDisk[s] = NoAttempt

InPlace(s) == /\ tok[s] \notin stage \cup stageDisk
              /\ obj[s] = tok[s]
              /\ objDisk[s] = tok[s]

Files ==
    \A s \in Sources :
        /\ row[s] = "prepared" =>
             /\ objDisk[s] # NoAttempt => obj[s] = objDisk[s]
             /\ tok[s] \in stageDisk \ stage => objDisk[s] = tok[s]
        /\ row[s] = "committed" => tok[s] \notin stage \cup stageDisk
        /\ row[s] = "committed" /\ del[s] = "none" => InPlace(s)
        /\ row[s] = "abandoned" => Gone(s)
        /\ del[s] = "deleted" => Gone(s)

(* The rows of one source agree.                                            *)
Rows ==
    /\ \A s \in Sources :
         /\ ref[s] # NoAttempt => row[s] = "committed" /\ del[s] = "none"
         /\ row[s] = "committed" /\ del[s] = "none" => ref[s] = tok[s]
         /\ del[s] # "none" => row[s] = "committed" /\ Lineage[s] \in plan
         /\ row[s] = "committed" <=> art[s] # "none"
         /\ art[s] = "active" <=> row[s] = "committed" /\ del[s] = "none"
         /\ Lineage[s] \in plan => art[s] # "active"
         /\ art[s] = "deleted" => del[s] = "deleted"
         /\ row[s] \in {"prepared", "abandoning", "abandoned"} => schema > 8
    /\ OnePendingCapture

(* The tip of a lineage is its newest active version; a deleted lineage has *)
(* none and is not started again.                                           *)
Versions ==
    /\ VerifyFacts
    /\ NoForkedLineage
    /\ \A s \in Sources : art[s] # "none" /\ Supersedes[s] # NoSource =>
                            art[Supersedes[s]] # "none"
    /\ \A l \in plan : \E s \in Sources : Lineage[s] = l /\ art[s] # "none"

LineageRetired(l) ==
    \A s \in Sources : Lineage[s] = l /\ art[s] # "none" => del[s] = "deleted"

Evidence ==
    \A l \in Lineages :
        /\ evid[l] # "none" => l \in plan
        /\ evid[l] = "completed" => LineageRetired(l)

(* Which coordinator is at which step, and on what.                         *)
Control ==
    /\ pc = "idle" => kind = "none"
    /\ pc \in {"prepare", "commit"} \cup PublishSteps => kind = "capture"
    /\ pc \in FinishSteps => kind \in {"capture", "reconcile"}
    /\ pc \in RetireSteps => kind \in {"abandon", "delete"}
    /\ pc = "rec_next" => kind = "reconcile"
    /\ pc \in {"del_next", "del_run", "evidence"} => kind = "delete"
    /\ pc \in {"prepare", "commit"} \cup PublishSteps \cup FinishSteps \cup RetireSteps
         => cur \in Sources
    /\ kind = "capture" =>
         /\ schema > 8
         /\ PendingRows \subseteq {cur}
         /\ pc = "prepare" => /\ row[cur] \in {"none", "prepared"}
                              /\ row[cur] = "prepared" => Gone(cur)
         /\ pc # "prepare" => row[cur] = "prepared"
    /\ kind = "reconcile" =>
         /\ \A s \in todo : row[s] = "committed" /\ del[s] = "none"
         /\ pc \in FinishSteps => row[cur] = "committed" /\ del[cur] = "none"
    /\ kind = "abandon" =>
         pc \in RetireSteps /\ schema > 8 /\ row[cur] = "abandoning"
    /\ kind = "delete" =>
         /\ job \in plan
         /\ pc \in RetireSteps => Lineage[cur] = job /\ del[cur] = "deleting"
         /\ pc \in {"del_run", "evidence"} =>
              \A s \in Sources : Lineage[s] = job => del[s] # "deleting"
         /\ pc = "evidence" /\ results[job] = "succeeded" => LineageRetired(job)

(* How far the files of the current source have got.                        *)
Progress ==
    LET a == tok[cur] IN
    /\ pc = "create" => Gone(cur) /\ a \notin whole
    /\ pc \in {"write", "filesync", "stagesync", "link"} =>
         a \in stage /\ obj[cur] = NoAttempt /\ objDisk[cur] = NoAttempt
    /\ pc = "filesync" => a \in whole
    /\ pc \in {"stagesync", "link", "fin_link"} => a \in wholeDisk
    /\ pc \in {"objsync", "fin_objsync"} => obj[cur] = a
    /\ pc \in {"unstage", "unstagesync", "fin_unstage", "fin_stagesync", "commit"} =>
         obj[cur] = a /\ objDisk[cur] = a
    /\ pc = "fin_link" => a \in stage /\ obj[cur] = NoAttempt
    /\ pc \in {"unstagesync", "fin_stagesync", "commit"} => a \notin stage
    /\ pc = "commit" => a \notin stageDisk
    /\ pc \in RetireSteps \ {"ret_stage"} => a \notin stage
    /\ pc \in {"ret_syncstage", "ret_syncobj", "ret_commit"} => obj[cur] = NoAttempt
    /\ pc \in {"ret_syncobj", "ret_commit"} => a \notin stageDisk
    /\ pc = "ret_commit" => objDisk[cur] = NoAttempt

Inv == /\ TypeOK
       /\ Tokens
       /\ Entries
       /\ Files
       /\ Rows
       /\ Versions
       /\ Evidence
       /\ Control
       /\ Progress

-----------------------------------------------------------------------------
(* The rows a step leaves alone keep their part of the invariant.           *)
LEMMA RowsStutter ==
    Rows /\ Versions /\ Evidence /\ UNCHANGED dbVars
        => Rows' /\ Versions' /\ Evidence'
BY DEF Rows, Versions, Evidence, dbVars, OnePendingCapture, PendingRows, VerifyFacts,
       TipVerified, ActiveVersions, ObjectState, NoForkedLineage, LineageRetired

(* So do the files and the attempts.                                        *)
LEMMA FilesStutter ==
    Tokens /\ Entries /\ Files /\ UNCHANGED <<dirVars, row, tok, used, del>>
        => Tokens' /\ Entries' /\ Files'
BY DEF Tokens, Entries, Files, Gone, InPlace, dirVars

(* The coordinator ends: nothing is claimed of a coordinator at rest.       *)
LEMMA EndControl ==
    ASSUME Control, End
    PROVE  Control' /\ Progress'
BY DEF Control, Progress, End, PublishSteps, FinishSteps, RetireSteps

(* The source a step on files works on has an attempt of its own, and a row *)
(* in the state its coordinator needs.                                      *)
Current ==
    /\ cur \in Sources
    /\ row[cur] # "none"
    /\ tok[cur] \in Attempts
    /\ tok[cur] # NoAttempt
    /\ kind = "capture" => row[cur] = "prepared"
    /\ kind = "reconcile" => row[cur] = "committed" /\ del[cur] = "none"
    /\ kind = "abandon" => row[cur] = "abandoning"
    /\ kind = "delete" => row[cur] = "committed" /\ del[cur] = "deleting"

LEMMA CurrentAttempt ==
    ASSUME Inv, pc \in {"commit"} \cup PublishSteps \cup FinishSteps \cup RetireSteps
    PROVE  Current
BY NoAttemptAssumption DEF Current, Inv, Control, Rows, Tokens, TypeOK, Entry,
                           PublishSteps, FinishSteps, RetireSteps

-----------------------------------------------------------------------------
(* The steps on the files: publication, recovery and retirement.  None of   *)
(* them changes a row.                                                      *)

LEMMA PublishCreateInv == Inv /\ PublishCreate => Inv'
<1> SUFFICES ASSUME Inv, PublishCreate
             PROVE  Inv'
  OBVIOUS
<1> USE DEF Inv, PublishCreate, CreateStaging, Goto, dbVars
<1>0. Current
  BY CurrentAttempt DEF PublishSteps
<1>1. TypeOK'
  BY <1>0 DEF TypeOK, DirTypeOK, Entry, Steps, PublishSteps, Current
<1>2. Tokens'
  BY <1>0 DEF Current, Tokens, Progress
<1>3. Entries'
  BY <1>0 DEF Current, Entries, Progress
<1>4. Files'
  BY <1>0 DEF Current, Files, Gone, InPlace, Progress, Tokens,
                  Entries, Rows, Control, PublishSteps
<1>5. Rows' /\ Versions' /\ Evidence'
  BY RowsStutter
<1>6. Control'
  BY DEF Control, PublishSteps, FinishSteps, RetireSteps, PendingRows, LineageRetired
<1>7. Progress'
  BY <1>0 DEF Current, Progress, Gone, InPlace, Files, Entries, Tokens,
                  Control, FinishSteps, RetireSteps, TypeOK, DirTypeOK
<1> QED
  BY <1>1, <1>2, <1>3, <1>4, <1>5, <1>6, <1>7

LEMMA PublishWriteInv == Inv /\ PublishWrite => Inv'
<1> SUFFICES ASSUME Inv, PublishWrite
             PROVE  Inv'
  OBVIOUS
<1> USE DEF Inv, PublishWrite, WriteStaging, Goto, dbVars
<1>0. Current
  BY CurrentAttempt DEF PublishSteps
<1>1. TypeOK'
  BY <1>0 DEF TypeOK, DirTypeOK, Entry, Steps, PublishSteps, Current
<1>2. Tokens'
  BY <1>0 DEF Current, Tokens, Progress
<1>3. Entries'
  BY <1>0 DEF Current, Entries, Progress
<1>4. Files'
  BY <1>0 DEF Current, Files, Gone, InPlace, Progress, Tokens,
                  Entries, Rows, Control, PublishSteps
<1>5. Rows' /\ Versions' /\ Evidence'
  BY RowsStutter
<1>6. Control'
  BY DEF Control, PublishSteps, FinishSteps, RetireSteps, PendingRows, LineageRetired
<1>7. Progress'
  BY <1>0 DEF Current, Progress, Gone, InPlace, Files, Entries, Tokens,
                  Control, FinishSteps, RetireSteps, TypeOK, DirTypeOK
<1> QED
  BY <1>1, <1>2, <1>3, <1>4, <1>5, <1>6, <1>7

LEMMA PublishFileSyncInv == Inv /\ PublishFileSync => Inv'
<1> SUFFICES ASSUME Inv, PublishFileSync
             PROVE  Inv'
  OBVIOUS
<1> USE DEF Inv, PublishFileSync, SyncFile, Goto, dbVars
<1>0. Current
  BY CurrentAttempt DEF PublishSteps
<1>1. TypeOK'
  BY <1>0 DEF TypeOK, DirTypeOK, Entry, Steps, PublishSteps, Current
<1>2. Tokens'
  BY <1>0 DEF Current, Tokens, Progress
<1>3. Entries'
  BY <1>0 DEF Current, Entries, Progress
<1>4. Files'
  BY <1>0 DEF Current, Files, Gone, InPlace, Progress, Tokens,
                  Entries, Rows, Control, PublishSteps
<1>5. Rows' /\ Versions' /\ Evidence'
  BY RowsStutter
<1>6. Control'
  BY DEF Control, PublishSteps, FinishSteps, RetireSteps, PendingRows, LineageRetired
<1>7. Progress'
  BY <1>0 DEF Current, Progress, Gone, InPlace, Files, Entries, Tokens,
                  Control, FinishSteps, RetireSteps, TypeOK, DirTypeOK
<1> QED
  BY <1>1, <1>2, <1>3, <1>4, <1>5, <1>6, <1>7

LEMMA PublishStagingSyncInv == Inv /\ PublishStagingSync => Inv'
<1> SUFFICES ASSUME Inv, PublishStagingSync
             PROVE  Inv'
  OBVIOUS
<1> USE DEF Inv, PublishStagingSync, SyncStaging, Goto, dbVars
<1>0. Current
  BY CurrentAttempt DEF PublishSteps
<1>1. TypeOK'
  BY <1>0 DEF TypeOK, DirTypeOK, Entry, Steps, PublishSteps, Current
<1>2. Tokens'
  BY <1>0 DEF Current, Tokens, Progress
<1>3. Entries'
  BY <1>0 DEF Current, Entries, Progress
<1>4. Files'
  BY <1>0 DEF Current, Files, Gone, InPlace, Progress, Tokens,
                  Entries, Rows, Control, PublishSteps
<1>5. Rows' /\ Versions' /\ Evidence'
  BY RowsStutter
<1>6. Control'
  BY DEF Control, PublishSteps, FinishSteps, RetireSteps, PendingRows, LineageRetired
<1>7. Progress'
  BY <1>0 DEF Current, Progress, Gone, InPlace, Files, Entries, Tokens,
                  Control, FinishSteps, RetireSteps, TypeOK, DirTypeOK
<1> QED
  BY <1>1, <1>2, <1>3, <1>4, <1>5, <1>6, <1>7

LEMMA PublishLinkInv == Inv /\ PublishLink => Inv'
<1> SUFFICES ASSUME Inv, PublishLink
             PROVE  Inv'
  OBVIOUS
<1> USE DEF Inv, PublishLink, LinkObject, Goto, dbVars
<1>0. Current
  BY CurrentAttempt DEF PublishSteps
<1>1. TypeOK'
  BY <1>0 DEF TypeOK, DirTypeOK, Entry, Steps, PublishSteps, Current
<1>2. Tokens'
  BY <1>0 DEF Current, Tokens, Progress
<1>3. Entries'
  BY <1>0 DEF Current, Entries, Progress
<1>4. Files'
  BY <1>0 DEF Current, Files, Gone, InPlace, Progress, Tokens,
                  Entries, Rows, Control, PublishSteps
<1>5. Rows' /\ Versions' /\ Evidence'
  BY RowsStutter
<1>6. Control'
  BY DEF Control, PublishSteps, FinishSteps, RetireSteps, PendingRows, LineageRetired
<1>7. Progress'
  BY <1>0 DEF Current, Progress, Gone, InPlace, Files, Entries, Tokens,
                  Control, FinishSteps, RetireSteps, TypeOK, DirTypeOK
<1> QED
  BY <1>1, <1>2, <1>3, <1>4, <1>5, <1>6, <1>7

LEMMA PublishObjectSyncInv == Inv /\ PublishObjectSync => Inv'
<1> SUFFICES ASSUME Inv, PublishObjectSync
             PROVE  Inv'
  OBVIOUS
<1> USE DEF Inv, PublishObjectSync, SyncObjects, Goto, dbVars
<1>0. Current
  BY CurrentAttempt DEF PublishSteps
<1>1. TypeOK'
  BY <1>0 DEF TypeOK, DirTypeOK, Entry, Steps, PublishSteps, Current
<1>2. Tokens'
  BY <1>0 DEF Current, Tokens, Progress
<1>3. Entries'
  BY <1>0 DEF Current, Entries, Progress
<1>4. Files'
  BY <1>0 DEF Current, Files, Gone, InPlace, Progress, Tokens,
                  Entries, Rows, Control, PublishSteps
<1>5. Rows' /\ Versions' /\ Evidence'
  BY RowsStutter
<1>6. Control'
  BY DEF Control, PublishSteps, FinishSteps, RetireSteps, PendingRows, LineageRetired
<1>7. Progress'
  BY <1>0 DEF Current, Progress, Gone, InPlace, Files, Entries, Tokens,
                  Control, FinishSteps, RetireSteps, TypeOK, DirTypeOK
<1> QED
  BY <1>1, <1>2, <1>3, <1>4, <1>5, <1>6, <1>7

LEMMA PublishRemoveStagingInv == Inv /\ PublishRemoveStaging => Inv'
<1> SUFFICES ASSUME Inv, PublishRemoveStaging
             PROVE  Inv'
  OBVIOUS
<1> USE DEF Inv, PublishRemoveStaging, RemoveStaging, Goto, dbVars
<1>0. Current
  BY CurrentAttempt DEF PublishSteps
<1>1. TypeOK'
  BY <1>0 DEF TypeOK, DirTypeOK, Entry, Steps, PublishSteps, Current
<1>2. Tokens'
  BY <1>0 DEF Current, Tokens, Progress
<1>3. Entries'
  BY <1>0 DEF Current, Entries, Progress
<1>4. Files'
  BY <1>0 DEF Current, Files, Gone, InPlace, Progress, Tokens,
                  Entries, Rows, Control, PublishSteps
<1>5. Rows' /\ Versions' /\ Evidence'
  BY RowsStutter
<1>6. Control'
  BY DEF Control, PublishSteps, FinishSteps, RetireSteps, PendingRows, LineageRetired
<1>7. Progress'
  BY <1>0 DEF Current, Progress, Gone, InPlace, Files, Entries, Tokens,
                  Control, FinishSteps, RetireSteps, TypeOK, DirTypeOK
<1> QED
  BY <1>1, <1>2, <1>3, <1>4, <1>5, <1>6, <1>7

LEMMA PublishCleanupSyncInv == Inv /\ PublishCleanupSync => Inv'
<1> SUFFICES ASSUME Inv, PublishCleanupSync
             PROVE  Inv'
  OBVIOUS
<1> USE DEF Inv, PublishCleanupSync, SyncStaging, dbVars
<1>0. Current
  BY CurrentAttempt DEF PublishSteps
<1>1. TypeOK'
  BY <1>0 DEF TypeOK, DirTypeOK, Entry, Steps, FinishSteps, Current
<1>2. Tokens'
  BY <1>0 DEF Current, Tokens, Progress
<1>3. Entries'
  BY <1>0 DEF Current, Entries, Progress
<1>4. Files'
  BY <1>0 DEF Current, Files, Gone, InPlace, Progress, Tokens,
                  Entries, Rows, Control, PublishSteps
<1>5. Rows' /\ Versions' /\ Evidence'
  BY RowsStutter
<1>6. Control'
  BY DEF Control, PublishSteps, FinishSteps, RetireSteps, PendingRows, LineageRetired
<1>7. Progress'
  BY <1>0 DEF Current, Progress, Gone, InPlace, Files, Entries, Tokens,
                  Control, FinishSteps, RetireSteps, TypeOK, DirTypeOK
<1> QED
  BY <1>1, <1>2, <1>3, <1>4, <1>5, <1>6, <1>7

LEMMA FinishInspectInv == Inv /\ FinishInspect => Inv'
<1> SUFFICES ASSUME Inv, FinishInspect
             PROVE  Inv'
  OBVIOUS
<1> USE DEF Inv, FinishInspect, SyncFile, Goto, dbVars
<1>0. Current
  BY CurrentAttempt DEF FinishSteps
<1>1. TypeOK'
  BY <1>0 DEF TypeOK, DirTypeOK, Entry, Steps, FinishSteps, Current
<1>2. Tokens'
  BY <1>0 DEF Current, Tokens, Progress, Authenticates, Absent
<1>3. Entries'
  BY <1>0 DEF Current, Entries, Progress
<1>4. Files'
  BY <1>0 DEF Current, Files, Gone, InPlace, Progress, Tokens,
                  Entries, Rows, Control, FinishSteps
<1>5. Rows' /\ Versions' /\ Evidence'
  BY RowsStutter
<1>6. Control'
  BY DEF Control, PublishSteps, FinishSteps, RetireSteps, PendingRows, LineageRetired
<1>7. Progress'
  BY <1>0 DEF Current, Progress, Gone, InPlace, Files, Entries, Tokens,
                  Control, FinishSteps, RetireSteps, TypeOK, DirTypeOK, Authenticates, Absent
<1> QED
  BY <1>1, <1>2, <1>3, <1>4, <1>5, <1>6, <1>7

LEMMA FinishLinkInv == Inv /\ FinishLink => Inv'
<1> SUFFICES ASSUME Inv, FinishLink
             PROVE  Inv'
  OBVIOUS
<1> USE DEF Inv, FinishLink, LinkObject, Goto, dbVars
<1>0. Current
  BY CurrentAttempt DEF FinishSteps
<1>1. TypeOK'
  BY <1>0 DEF TypeOK, DirTypeOK, Entry, Steps, FinishSteps, Current
<1>2. Tokens'
  BY <1>0 DEF Current, Tokens, Progress
<1>3. Entries'
  BY <1>0 DEF Current, Entries, Progress
<1>4. Files'
  BY <1>0 DEF Current, Files, Gone, InPlace, Progress, Tokens,
                  Entries, Rows, Control, FinishSteps
<1>5. Rows' /\ Versions' /\ Evidence'
  BY RowsStutter
<1>6. Control'
  BY DEF Control, PublishSteps, FinishSteps, RetireSteps, PendingRows, LineageRetired
<1>7. Progress'
  BY <1>0 DEF Current, Progress, Gone, InPlace, Files, Entries, Tokens,
                  Control, FinishSteps, RetireSteps, TypeOK, DirTypeOK
<1> QED
  BY <1>1, <1>2, <1>3, <1>4, <1>5, <1>6, <1>7

LEMMA FinishObjectSyncInv == Inv /\ FinishObjectSync => Inv'
<1> SUFFICES ASSUME Inv, FinishObjectSync
             PROVE  Inv'
  OBVIOUS
<1> USE DEF Inv, FinishObjectSync, SyncObjects, Goto, dbVars
<1>0. Current
  BY CurrentAttempt DEF FinishSteps
<1>1. TypeOK'
  BY <1>0 DEF TypeOK, DirTypeOK, Entry, Steps, FinishSteps, Current
<1>2. Tokens'
  BY <1>0 DEF Current, Tokens, Progress
<1>3. Entries'
  BY <1>0 DEF Current, Entries, Progress
<1>4. Files'
  BY <1>0 DEF Current, Files, Gone, InPlace, Progress, Tokens,
                  Entries, Rows, Control, FinishSteps
<1>5. Rows' /\ Versions' /\ Evidence'
  BY RowsStutter
<1>6. Control'
  BY DEF Control, PublishSteps, FinishSteps, RetireSteps, PendingRows, LineageRetired
<1>7. Progress'
  BY <1>0 DEF Current, Progress, Gone, InPlace, Files, Entries, Tokens,
                  Control, FinishSteps, RetireSteps, TypeOK, DirTypeOK
<1> QED
  BY <1>1, <1>2, <1>3, <1>4, <1>5, <1>6, <1>7

LEMMA FinishRemoveStagingInv == Inv /\ FinishRemoveStaging => Inv'
<1> SUFFICES ASSUME Inv, FinishRemoveStaging
             PROVE  Inv'
  OBVIOUS
<1> USE DEF Inv, FinishRemoveStaging, RemoveStaging, Goto, dbVars
<1>0. Current
  BY CurrentAttempt DEF FinishSteps
<1>1. TypeOK'
  BY <1>0 DEF TypeOK, DirTypeOK, Entry, Steps, FinishSteps, Current
<1>2. Tokens'
  BY <1>0 DEF Current, Tokens, Progress
<1>3. Entries'
  BY <1>0 DEF Current, Entries, Progress
<1>4. Files'
  BY <1>0 DEF Current, Files, Gone, InPlace, Progress, Tokens,
                  Entries, Rows, Control, FinishSteps
<1>5. Rows' /\ Versions' /\ Evidence'
  BY RowsStutter
<1>6. Control'
  BY DEF Control, PublishSteps, FinishSteps, RetireSteps, PendingRows, LineageRetired
<1>7. Progress'
  BY <1>0 DEF Current, Progress, Gone, InPlace, Files, Entries, Tokens,
                  Control, FinishSteps, RetireSteps, TypeOK, DirTypeOK
<1> QED
  BY <1>1, <1>2, <1>3, <1>4, <1>5, <1>6, <1>7

LEMMA FinishStagingSyncInv == Inv /\ FinishStagingSync => Inv'
<1> SUFFICES ASSUME Inv, FinishStagingSync
             PROVE  Inv'
  OBVIOUS
<1> USE DEF Inv, FinishStagingSync, SyncStaging, dbVars
<1>0. Current
  BY CurrentAttempt DEF FinishSteps
<1>1. TypeOK'
  BY <1>0 DEF TypeOK, DirTypeOK, Entry, Steps, FinishSteps, Current
<1>2. Tokens'
  BY <1>0 DEF Current, Tokens, Progress
<1>3. Entries'
  BY <1>0 DEF Current, Entries, Progress
<1>4. Files'
  BY <1>0 DEF Current, Files, Gone, InPlace, Progress, Tokens,
                  Entries, Rows, Control, FinishSteps
<1>5. Rows' /\ Versions' /\ Evidence'
  BY RowsStutter
<1>6. Control'
  BY DEF Control, PublishSteps, FinishSteps, RetireSteps, PendingRows, LineageRetired
<1>7. Progress'
  BY <1>0 DEF Current, Progress, Gone, InPlace, Files, Entries, Tokens,
                  Control, FinishSteps, RetireSteps, TypeOK, DirTypeOK
<1> QED
  BY <1>1, <1>2, <1>3, <1>4, <1>5, <1>6, <1>7

LEMMA RetireStagingInv == Inv /\ RetireStaging => Inv'
<1> SUFFICES ASSUME Inv, RetireStaging
             PROVE  Inv'
  OBVIOUS
<1> USE DEF Inv, RetireStaging, RemoveStaging, Goto, dbVars
<1>0. Current
  BY CurrentAttempt DEF RetireSteps
<1>1. TypeOK'
  BY <1>0 DEF TypeOK, DirTypeOK, Entry, Steps, RetireSteps, Current
<1>2. Tokens'
  BY <1>0 DEF Current, Tokens, Progress
<1>3. Entries'
  BY <1>0 DEF Current, Entries, Progress
<1>4. Files'
  BY <1>0 DEF Current, Files, Gone, InPlace, Progress, Tokens,
                  Entries, Rows, Control, RetireSteps
<1>5. Rows' /\ Versions' /\ Evidence'
  BY RowsStutter
<1>6. Control'
  BY DEF Control, PublishSteps, FinishSteps, RetireSteps, PendingRows, LineageRetired
<1>7. Progress'
  BY <1>0 DEF Current, Progress, Gone, InPlace, Files, Entries, Tokens,
                  Control, FinishSteps, RetireSteps, TypeOK, DirTypeOK
<1> QED
  BY <1>1, <1>2, <1>3, <1>4, <1>5, <1>6, <1>7

LEMMA RetireObjectInv == Inv /\ RetireObject => Inv'
<1> SUFFICES ASSUME Inv, RetireObject
             PROVE  Inv'
  OBVIOUS
<1> USE DEF Inv, RetireObject, RemoveObject, Goto, dbVars
<1>0. Current
  BY CurrentAttempt DEF RetireSteps
<1>1. TypeOK'
  BY <1>0 DEF TypeOK, DirTypeOK, Entry, Steps, RetireSteps, Current
<1>2. Tokens'
  BY <1>0 DEF Current, Tokens, Progress
<1>3. Entries'
  BY <1>0 DEF Current, Entries, Progress
<1>4. Files'
  BY <1>0 DEF Current, Files, Gone, InPlace, Progress, Tokens,
                  Entries, Rows, Control, RetireSteps
<1>5. Rows' /\ Versions' /\ Evidence'
  BY RowsStutter
<1>6. Control'
  BY DEF Control, PublishSteps, FinishSteps, RetireSteps, PendingRows, LineageRetired
<1>7. Progress'
  BY <1>0 DEF Current, Progress, Gone, InPlace, Files, Entries, Tokens,
                  Control, FinishSteps, RetireSteps, TypeOK, DirTypeOK
<1> QED
  BY <1>1, <1>2, <1>3, <1>4, <1>5, <1>6, <1>7

LEMMA RetireSyncStagingInv == Inv /\ RetireSyncStaging => Inv'
<1> SUFFICES ASSUME Inv, RetireSyncStaging
             PROVE  Inv'
  OBVIOUS
<1> USE DEF Inv, RetireSyncStaging, SyncStaging, Goto, dbVars
<1>0. Current
  BY CurrentAttempt DEF RetireSteps
<1>1. TypeOK'
  BY <1>0 DEF TypeOK, DirTypeOK, Entry, Steps, RetireSteps, Current
<1>2. Tokens'
  BY <1>0 DEF Current, Tokens, Progress
<1>3. Entries'
  BY <1>0 DEF Current, Entries, Progress
<1>4. Files'
  BY <1>0 DEF Current, Files, Gone, InPlace, Progress, Tokens,
                  Entries, Rows, Control, RetireSteps
<1>5. Rows' /\ Versions' /\ Evidence'
  BY RowsStutter
<1>6. Control'
  BY DEF Control, PublishSteps, FinishSteps, RetireSteps, PendingRows, LineageRetired
<1>7. Progress'
  BY <1>0 DEF Current, Progress, Gone, InPlace, Files, Entries, Tokens,
                  Control, FinishSteps, RetireSteps, TypeOK, DirTypeOK
<1> QED
  BY <1>1, <1>2, <1>3, <1>4, <1>5, <1>6, <1>7

LEMMA RetireSyncObjectsInv == Inv /\ RetireSyncObjects => Inv'
<1> SUFFICES ASSUME Inv, RetireSyncObjects
             PROVE  Inv'
  OBVIOUS
<1> USE DEF Inv, RetireSyncObjects, SyncObjects, Goto, dbVars
<1>0. Current
  BY CurrentAttempt DEF RetireSteps
<1>1. TypeOK'
  BY <1>0 DEF TypeOK, DirTypeOK, Entry, Steps, RetireSteps, Current
<1>2. Tokens'
  BY <1>0 DEF Current, Tokens, Progress
<1>3. Entries'
  BY <1>0 DEF Current, Entries, Progress
<1>4. Files'
  BY <1>0 DEF Current, Files, Gone, InPlace, Progress, Tokens,
                  Entries, Rows, Control, RetireSteps
<1>5. Rows' /\ Versions' /\ Evidence'
  BY RowsStutter
<1>6. Control'
  BY DEF Control, PublishSteps, FinishSteps, RetireSteps, PendingRows, LineageRetired
<1>7. Progress'
  BY <1>0 DEF Current, Progress, Gone, InPlace, Files, Entries, Tokens,
                  Control, FinishSteps, RetireSteps, TypeOK, DirTypeOK
<1> QED
  BY <1>1, <1>2, <1>3, <1>4, <1>5, <1>6, <1>7

-----------------------------------------------------------------------------
(* The steps on the rows: the SQLite transactions of the coordinators.      *)

LEMMA StartCaptureInv == ASSUME NEW s \in Sources, Inv, StartCapture(s) PROVE Inv'
<1> USE DEF Inv, StartCapture
<1>1. TypeOK'
  BY DEF TypeOK, DirTypeOK, dirVars, Steps, FinishSteps, AtLeast
<1>2. Tokens' /\ Entries' /\ Files'
  BY FilesStutter
<1>3. Rows'
  BY DEF Rows, OnePendingCapture, PendingRows, AtLeast, TypeOK
<1>4. Versions' /\ Evidence'
  BY
     DEF Versions, Evidence, VerifyFacts, TipVerified, ActiveVersions, ObjectState,
         NoForkedLineage, LineageRetired
<1>5. row[s] = "prepared" /\ pc' = "prepare" => Gone(s)
  BY DEF Absent, Gone, Files, Tokens
<1>6. Control'
  BY <1>5 DEF Control, dirVars, DecideWrites, PendingRows, Gone, TypeOK, AtLeast,
              PublishSteps, FinishSteps, RetireSteps
<1>7. Progress'
  BY DEF Progress, Control, RetireSteps, TypeOK
<1> QED
  BY <1>1, <1>2, <1>3, <1>4, <1>6, <1>7

LEMMA PrepareCaptureInv == ASSUME NEW a \in Attempts, Inv, PrepareCapture(a) PROVE Inv'
<1> USE DEF Inv, PrepareCapture, Goto
<1>0. /\ cur \in Sources /\ kind = "capture" /\ row[cur] \in {"none", "prepared"}
      /\ Gone(cur) \/ row[cur] = "none"
  BY DEF Control
<1>1. TypeOK'
  BY <1>0 DEF TypeOK, DirTypeOK, dirVars, Steps, PublishSteps, RowStates, Entry
<1>2. \A t \in Sources : tok[t] # a
  BY NoAttemptAssumption DEF Tokens
<1>3. /\ a \notin stage \cup stageDisk
      /\ tok[cur] \notin stage \cup stageDisk
      /\ obj[cur] = NoAttempt
      /\ objDisk[cur] = NoAttempt
  BY <1>0, <1>2, NoAttemptAssumption DEF Gone, Entries, Tokens, TypeOK, DirTypeOK
<1>4. Tokens'
  BY <1>0, <1>2, NoAttemptAssumption DEF Tokens, TypeOK, dirVars
<1>5. Entries'
  BY <1>0, <1>2, <1>3 DEF Entries, TypeOK, dirVars
<1>6. Files'
  BY <1>0, <1>2, <1>3 DEF Files, Gone, InPlace, TypeOK, dirVars, Rows
<1>7. Rows'
  BY <1>0 DEF Rows, Control, OnePendingCapture, PendingRows, TypeOK
<1>8. Versions' /\ Evidence'
  <2>1. VerifyFacts'
    BY <1>0 DEF Versions, VerifyFacts, TipVerified, ActiveVersions, ObjectState, Rows, TypeOK
  <2> QED
    BY <2>1 DEF Versions, Evidence, NoForkedLineage, LineageRetired
<1>9. Control'
  BY <1>0 DEF Control, PendingRows, TypeOK, PublishSteps, FinishSteps, RetireSteps
<1>10. Progress'
  BY <1>0, <1>3 DEF Progress, Tokens, TypeOK, RetireSteps, Gone, dirVars
<1> QED
  BY <1>1, <1>4, <1>5, <1>6, <1>7, <1>8, <1>9, <1>10

LEMMA CommitCaptureInv == Inv /\ CommitCapture => Inv'
<1> SUFFICES ASSUME Inv, CommitCapture
             PROVE  Inv'
  OBVIOUS
<1> USE DEF Inv, CommitCapture
<1>0. Current /\ kind = "capture" /\ row[cur] = "prepared"
  BY CurrentAttempt DEF Control
<1> USE <1>0 DEF Current
<1>1. TypeOK'
  BY ConstantsAssumption DEF TypeOK, DirTypeOK, dirVars, End, Steps, RowStates, ArtStates, Entry
<1>2. Tokens' /\ Entries'
  BY DEF Tokens, Entries, TypeOK, dirVars
<1>3. Files'
  BY DEF Files, Gone, InPlace, TypeOK, dirVars, Progress, Rows
<1>4. del[cur] = "none" /\ Lineage[cur] \notin plan
  BY ConstantsAssumption
     DEF Rows, Versions, VerifyFacts, TipVerified, ActiveVersions, DecideWrites, TypeOK
<1>5. Rows'
  BY <1>4 DEF Rows, OnePendingCapture, PendingRows, TypeOK
<1>6. Versions'
  <2>1. \A s \in Sources : art[s] # "none" => Supersedes[s] # cur
    BY ConstantsAssumption DEF Versions, DecideWrites
  <2>2. Supersedes[cur] # cur
    BY ConstantsAssumption DEF Versions, DecideWrites, VerifyFacts, TipVerified, ActiveVersions
  <2>3. VerifyFacts'
    <3>1. (\A s \in Sources : art[s] = "active" <=> ObjectState(s) = "committed")'
      BY <1>4 DEF Versions, VerifyFacts, TipVerified, ActiveVersions, ObjectState, TypeOK
    <3>2. PICK c \in Sources : c = cur
      OBVIOUS
    <3>3. ASSUME NEW l \in Lineages, l # Lineage[c]
          PROVE  /\ tip'[l] = tip[l]
                 /\ ActiveVersions(l)' = ActiveVersions(l)
      BY <3>2, <3>3, ConstantsAssumption DEF TypeOK, ActiveVersions
    <3>4. /\ tip'[Lineage[c]] = c
          /\ c \in ActiveVersions(Lineage[c])'
          /\ \A s \in ActiveVersions(Lineage[c])' : Supersedes[s] # c
      BY <2>1, <2>2, <3>2, ConstantsAssumption DEF TypeOK, ActiveVersions
    <3>5. \A k \in Lineages : TipVerified(k)'
      BY <3>3, <3>4 DEF Versions, VerifyFacts, TipVerified
    <3> QED
      BY <3>1, <3>5 DEF VerifyFacts
  <2>4. NoForkedLineage'
    <3>1. \A t \in Sources : art[t] = "active" /\ Lineage[t] = Lineage[cur]
                              => Supersedes[t] # Supersedes[cur]
      BY ConstantsAssumption
         DEF Versions, VerifyFacts, TipVerified, ActiveVersions, DecideWrites
    <3> QED
      BY <3>1 DEF Versions, NoForkedLineage, TypeOK
  <2>5. (\A s \in Sources : art[s] # "none" /\ Supersedes[s] # NoSource =>
                               art[Supersedes[s]] # "none")'
    <3>1. Supersedes[cur] # NoSource => art[Supersedes[cur]] = "active"
      BY ConstantsAssumption
         DEF Versions, VerifyFacts, TipVerified, ActiveVersions, DecideWrites
    <3> QED
      BY <3>1, ConstantsAssumption DEF Versions, TypeOK
  <2>6. (\A l \in plan : \E s \in Sources : Lineage[s] = l /\ art[s] # "none")'
    BY DEF Versions, TypeOK
  <2> QED
    BY <2>3, <2>4, <2>5, <2>6 DEF Versions
<1>7. Evidence'
  BY <1>4 DEF Evidence, LineageRetired, TypeOK
<1>8. Control' /\ Progress'
  BY EndControl
<1> QED
  BY <1>1, <1>2, <1>3, <1>5, <1>6, <1>7, <1>8

LEMMA StartReconcileInv == Inv /\ StartReconcile => Inv'
<1> SUFFICES ASSUME Inv, StartReconcile
             PROVE  Inv'
  OBVIOUS
<1> USE DEF Inv, StartReconcile
<1>1. TypeOK'
  BY DEF TypeOK, DirTypeOK, dirVars, dbVars, Steps
<1>2. Tokens' /\ Entries' /\ Files' /\ Rows' /\ Versions' /\ Evidence'
  BY FilesStutter, RowsStutter DEF dbVars
<1>3. Control'
  BY DEF Control, ObjectState, dbVars, Rows, TypeOK, PublishSteps, FinishSteps, RetireSteps
<1>4. Progress'
  BY DEF Progress, RetireSteps
<1> QED
  BY <1>1, <1>2, <1>3, <1>4

LEMMA ReconcileNextInv == ASSUME NEW s \in Sources, Inv, ReconcileNext(s) PROVE Inv'
<1> USE DEF Inv, ReconcileNext
<1>1. TypeOK'
  BY DEF TypeOK, DirTypeOK, dirVars, dbVars, Steps, FinishSteps
<1>2. Tokens' /\ Entries' /\ Files' /\ Rows' /\ Versions' /\ Evidence'
  BY FilesStutter, RowsStutter DEF dbVars
<1>3. Control'
  BY DEF Control, dbVars, PublishSteps, FinishSteps, RetireSteps
<1>4. Progress'
  BY DEF Progress, RetireSteps
<1> QED
  BY <1>1, <1>2, <1>3, <1>4

LEMMA StartAbandonInv ==
    ASSUME NEW s \in Sources, NEW a \in Attempts, Inv, StartAbandon(s, a) PROVE Inv'
<1> USE DEF Inv, StartAbandon
<1>1. TypeOK'
  BY DEF TypeOK, DirTypeOK, dirVars, Steps, RetireSteps, RowStates, AtLeast
<1>2. Tokens' /\ Entries'
  BY DEF Tokens, Entries, TypeOK, dirVars
<1>3. Files'
  BY DEF Files, Gone, InPlace, TypeOK, dirVars, Rows
<1>4. Rows'
  BY DEF Rows, OnePendingCapture, PendingRows, TypeOK, AtLeast
<1>5. Versions' /\ Evidence'
  <2>1. VerifyFacts'
    BY DEF Versions, VerifyFacts, TipVerified, ActiveVersions, ObjectState, TypeOK, Rows
  <2> QED
    BY <2>1 DEF Versions, Evidence, NoForkedLineage, LineageRetired
<1>6. Control'
  BY DEF Control, TypeOK, AtLeast, PublishSteps, FinishSteps, RetireSteps
<1>7. Progress'
  BY DEF Progress, RetireSteps
<1> QED
  BY <1>1, <1>2, <1>3, <1>4, <1>5, <1>6, <1>7

LEMMA FinishAbandonInv == Inv /\ FinishAbandon => Inv'
<1> SUFFICES ASSUME Inv, FinishAbandon
             PROVE  Inv'
  OBVIOUS
<1> USE DEF Inv, FinishAbandon
<1>0. Current
  BY CurrentAttempt DEF RetireSteps
<1> USE <1>0 DEF Current
<1>1. TypeOK'
  BY DEF TypeOK, DirTypeOK, dirVars, End, Steps, RowStates
<1>2. Tokens' /\ Entries'
  BY DEF Tokens, Entries, TypeOK, dirVars
<1>3. Files'
  BY DEF Files, Gone, InPlace, TypeOK, dirVars, Progress, RetireSteps, Rows
<1>4. Rows'
  BY DEF Rows, OnePendingCapture, PendingRows, TypeOK
<1>5. Versions' /\ Evidence'
  <2>1. VerifyFacts'
    BY DEF Versions, VerifyFacts, TipVerified, ActiveVersions, ObjectState, TypeOK, Rows
  <2> QED
    BY <2>1 DEF Versions, Evidence, NoForkedLineage, LineageRetired
<1>6. Control' /\ Progress'
  BY EndControl
<1> QED
  BY <1>1, <1>2, <1>3, <1>4, <1>5, <1>6

LEMMA StartDeleteInv == ASSUME NEW l \in Lineages, Inv, StartDelete(l) PROVE Inv'
<1> USE DEF Inv, StartDelete
<1>1. TypeOK'
  BY DEF TypeOK, DirTypeOK, dirVars, Steps, ArtStates, Entry, AtLeast
<1>2. \A s \in Sources : s \in ActiveVersions(l) <=>
          Lineage[s] = l /\ row[s] = "committed" /\ del[s] = "none"
  BY DEF ActiveVersions, Rows
<1>3. Tokens' /\ Entries'
  BY DEF Tokens, Entries, dirVars
<1>4. Files'
  BY <1>2 DEF Files, Gone, InPlace, dirVars, TypeOK
<1>5. Rows'
  BY <1>2 DEF Rows, OnePendingCapture, PendingRows, TypeOK, ActiveVersions, AtLeast
<1>6. Versions'
  <2>1. VerifyFacts'
    <3>1. (\A s \in Sources : art[s] = "active" <=> ObjectState(s) = "committed")'
      BY <1>2 DEF Versions, VerifyFacts, TipVerified, ActiveVersions, ObjectState, TypeOK, Rows
    <3>2. ASSUME NEW k \in Lineages, k # l
          PROVE  /\ tip'[k] = tip[k]
                 /\ ActiveVersions(k)' = ActiveVersions(k)
      BY <3>2 DEF TypeOK, ActiveVersions
    <3>3. /\ tip'[l] = NoSource
          /\ ActiveVersions(l)' = {}
      BY DEF TypeOK, ActiveVersions
    <3>4. \A k \in Lineages : TipVerified(k)'
      BY <3>2, <3>3 DEF Versions, VerifyFacts, TipVerified
    <3> QED
      BY <3>1, <3>4 DEF VerifyFacts
  <2>2. NoForkedLineage'
    BY DEF Versions, NoForkedLineage
  <2>3. (\A s \in Sources : art[s] # "none" /\ Supersedes[s] # NoSource =>
                               art[Supersedes[s]] # "none")'
    BY ConstantsAssumption DEF Versions, ActiveVersions
  <2>4. (\A k \in plan : \E s \in Sources : Lineage[s] = k /\ art[s] # "none")'
    BY DEF Versions, ActiveVersions
  <2> QED
    BY <2>1, <2>2, <2>3, <2>4 DEF Versions
<1>7. Evidence'
  BY DEF Evidence, LineageRetired, ActiveVersions, TypeOK
<1>8. Control'
  BY DEF Control, Evidence, PublishSteps, FinishSteps, RetireSteps, TypeOK
<1>9. Progress'
  BY DEF Progress, RetireSteps
<1> QED
  BY <1>1, <1>3, <1>4, <1>5, <1>6, <1>7, <1>8, <1>9

LEMMA ResumeDeleteInv == ASSUME NEW l \in Lineages, Inv, ResumeDelete(l) PROVE Inv'
<1> USE DEF Inv, ResumeDelete
<1>1. TypeOK'
  BY DEF TypeOK, DirTypeOK, dirVars, dbVars, Steps
<1>2. Tokens' /\ Entries' /\ Files' /\ Rows' /\ Versions' /\ Evidence'
  BY FilesStutter, RowsStutter DEF dbVars
<1>3. Control'
  BY DEF Control, dbVars, PublishSteps, FinishSteps, RetireSteps
<1>4. Progress'
  BY DEF Progress, RetireSteps
<1> QED
  BY <1>1, <1>2, <1>3, <1>4

LEMMA DeleteNextInv == ASSUME NEW s \in Sources, Inv, DeleteNext(s) PROVE Inv'
<1> USE DEF Inv, DeleteNext
<1>1. TypeOK'
  BY DEF TypeOK, DirTypeOK, dirVars, dbVars, Steps, RetireSteps
<1>2. Tokens' /\ Entries' /\ Files' /\ Rows' /\ Versions' /\ Evidence'
  BY FilesStutter, RowsStutter DEF dbVars
<1>3. Control'
  BY DEF Control, dbVars, PublishSteps, FinishSteps, RetireSteps
<1>4. Progress'
  BY DEF Progress, RetireSteps
<1> QED
  BY <1>1, <1>2, <1>3, <1>4

LEMMA FinishRetirementInv == Inv /\ FinishRetirement => Inv'
<1> SUFFICES ASSUME Inv, FinishRetirement
             PROVE  Inv'
  OBVIOUS
<1> USE DEF Inv, FinishRetirement, Goto
<1>0. Current
  BY CurrentAttempt DEF RetireSteps
<1> USE <1>0 DEF Current
<1>1. TypeOK'
  BY DEF TypeOK, DirTypeOK, dirVars, Steps
<1>2. Tokens' /\ Entries'
  BY DEF Tokens, Entries, dirVars
<1>3. Files'
  BY DEF Files, Gone, InPlace, TypeOK, dirVars, Progress, RetireSteps, Rows
<1>4. Rows'
  BY DEF Rows, OnePendingCapture, PendingRows, TypeOK
<1>5. Versions' /\ Evidence'
  <2>1. VerifyFacts'
    BY DEF Versions, VerifyFacts, TipVerified, ActiveVersions, ObjectState, TypeOK, Rows
  <2> QED
    BY <2>1 DEF Versions, Evidence, NoForkedLineage, LineageRetired
<1>6. Control'
  BY DEF Control, PublishSteps, FinishSteps, RetireSteps
<1>7. Progress'
  BY DEF Progress, RetireSteps
<1> QED
  BY <1>1, <1>2, <1>3, <1>4, <1>5, <1>6, <1>7

LEMMA BeginExecutionInv == Inv /\ BeginExecution => Inv'
<1> SUFFICES ASSUME Inv, BeginExecution
             PROVE  Inv'
  OBVIOUS
<1> USE DEF Inv, BeginExecution, Goto
<1>1. TypeOK'
  BY DEF TypeOK, DirTypeOK, dirVars, Steps
<1>2. Tokens' /\ Entries' /\ Files'
  BY FilesStutter
<1>3. Rows'
  BY DEF Rows, OnePendingCapture, PendingRows
<1>4. Versions' /\ Evidence'
  BY DEF Versions, VerifyFacts, TipVerified, ActiveVersions, ObjectState, NoForkedLineage,
         Evidence, LineageRetired
<1>5. Control'
  BY DEF Control, PublishSteps, FinishSteps, RetireSteps
<1>6. Progress'
  BY DEF Progress, RetireSteps
<1> QED
  BY <1>1, <1>2, <1>3, <1>4, <1>5, <1>6

LEMMA FinishExecutionInv ==
    ASSUME NEW outcome, NEW final, Inv, FinishExecution(outcome, final),
           \/ outcome = "succeeded" /\ final = "deleted"
           \/ outcome = "failed" /\ final \in {"none", "failed"}
    PROVE  Inv'
<1> USE DEF Inv, FinishExecution, Goto
<1>0. /\ kind = "delete" /\ job \in plan /\ job \in Lineages
      /\ \A s \in Sources : Lineage[s] = job => del[s] # "deleting"
  BY DEF Control, TypeOK
<1>1. TypeOK'
  BY DEF TypeOK, DirTypeOK, dirVars, Steps, ArtStates
<1>2. Tokens' /\ Entries' /\ Files'
  BY FilesStutter
<1>3. \A s \in Sources : (art'[s] = "active" <=> art[s] = "active")
                        /\ (art'[s] = "none" <=> art[s] = "none")
  BY DEF Rows, TypeOK
<1>4. Rows'
  BY <1>0, <1>3 DEF Rows, OnePendingCapture, PendingRows, TypeOK
<1>5. Versions'
  <2>1. VerifyFacts'
    BY <1>3 DEF Versions, VerifyFacts, TipVerified, ActiveVersions, ObjectState
  <2> QED
    BY <1>3, <2>1, ConstantsAssumption DEF Versions, NoForkedLineage
<1>6. ASSUME outcome = "succeeded"
      PROVE  LineageRetired(job)'
  BY <1>0, <1>6 DEF LineageRetired, Rows, TypeOK
<1>7. Evidence'
  BY <1>0, <1>3 DEF Evidence, LineageRetired, Control, TypeOK
<1>8. Control'
  BY <1>0, <1>6 DEF Control, PublishSteps, FinishSteps, RetireSteps, TypeOK
<1>9. Progress'
  BY DEF Progress, RetireSteps
<1> QED
  BY <1>1, <1>2, <1>4, <1>5, <1>7, <1>8, <1>9

LEMMA StoreEvidenceInv == Inv /\ StoreEvidence => Inv'
<1> SUFFICES ASSUME Inv, StoreEvidence
             PROVE  Inv'
  OBVIOUS
<1> USE DEF Inv, StoreEvidence
<1>1. TypeOK'
  BY DEF TypeOK, DirTypeOK, dirVars, End, Steps
<1>2. Tokens' /\ Entries' /\ Files'
  BY FilesStutter
<1>3. Rows'
  BY DEF Rows, OnePendingCapture, PendingRows
<1>4. Versions'
  BY DEF Versions, VerifyFacts, TipVerified, ActiveVersions, ObjectState, NoForkedLineage
<1>5. Evidence'
  BY DEF Evidence, LineageRetired, Control, TypeOK
<1>6. Control' /\ Progress'
  BY EndControl
<1> QED
  BY <1>1, <1>2, <1>3, <1>4, <1>5, <1>6

-----------------------------------------------------------------------------
(* Failure.  A coordinator that ends keeps the files and the rows as they   *)
(* are; a loss of power also settles every entry on which the view and the  *)
(* disk differ, one way or the other.                                       *)

LEMMA EndInv == Inv /\ End /\ UNCHANGED <<dirVars, dbVars>> => Inv'
<1> SUFFICES ASSUME Inv, End, UNCHANGED <<dirVars, dbVars>>
             PROVE  Inv'
  OBVIOUS
<1> USE DEF Inv
<1>1. TypeOK'
  BY DEF TypeOK, DirTypeOK, dirVars, dbVars, End, Steps
<1>2. Tokens' /\ Entries' /\ Files' /\ Rows' /\ Versions' /\ Evidence'
  BY FilesStutter, RowsStutter DEF dbVars
<1>3. Control' /\ Progress'
  BY EndControl
<1> QED
  BY <1>1, <1>2, <1>3

LEMMA PowerLossInv == Inv /\ PowerLoss => Inv'
<1> SUFFICES ASSUME Inv, PowerLoss
             PROVE  Inv'
  OBVIOUS
<1>0. /\ stage' \subseteq stage \cup stageDisk
      /\ stage \cap stageDisk \subseteq stage'
      /\ obj' \in [Sources -> Entry]
      /\ \A s \in Sources : obj'[s] = obj[s] \/ obj'[s] = objDisk[s]
      /\ whole' \subseteq whole
      /\ wholeDisk \subseteq whole'
      /\ stageDisk' = stage' /\ objDisk' = obj' /\ wholeDisk' = whole'
      /\ End /\ UNCHANGED dbVars
  BY DEF Inv, TypeOK, DirTypeOK, Tokens, PowerLoss, DirPowerLoss
<1> USE <1>0 DEF Inv, dbVars
<1>1. TypeOK'
  BY DEF TypeOK, DirTypeOK, End, Steps
<1>2. Tokens'
  BY DEF Tokens
<1>3. Entries'
  BY DEF Entries, Tokens
<1>4. Files'
  BY DEF Files, Gone, InPlace
<1>5. Rows' /\ Versions' /\ Evidence'
  BY RowsStutter
<1>6. Control' /\ Progress'
  BY EndControl
<1> QED
  BY <1>1, <1>2, <1>3, <1>4, <1>5, <1>6

-----------------------------------------------------------------------------
(* The theorems.                                                            *)

LEMMA InvInit == Init => Inv
<1> SUFFICES ASSUME Init
             PROVE  Inv
  OBVIOUS
<1> USE DEF Init, DirInit
<1>1. TypeOK
  <2>1. DirTypeOK
    BY DEF DirTypeOK, Entry
  <2>2. schema \in 8..12
    OBVIOUS
  <2> QED
    BY <2>1, <2>2 DEF TypeOK, Entry, Steps, RowStates, ArtStates
<1>2. Tokens /\ Entries /\ Files
  BY DEF Tokens, Entries, Files
<1>3. Rows /\ Versions /\ Evidence
  BY DEF Rows, OnePendingCapture, PendingRows, Versions, VerifyFacts, TipVerified,
         ActiveVersions, ObjectState, NoForkedLineage, Evidence, LineageRetired
<1>4. Control /\ Progress
  BY DEF Control, Progress, PublishSteps, FinishSteps, RetireSteps
<1> QED
  BY <1>1, <1>2, <1>3, <1>4 DEF Inv

LEMMA InvNext == Inv /\ [Next]_vars => Inv'
<1> SUFFICES ASSUME Inv, [Next]_vars
             PROVE  Inv'
  OBVIOUS
<1>1. ASSUME Start
      PROVE  Inv'
  BY <1>1, StartCaptureInv, StartReconcileInv, StartAbandonInv, StartDeleteInv,
     ResumeDeleteInv DEF Start
<1>2. ASSUME Advance
      PROVE  Inv'
  <2>1. ASSUME NEW a \in Attempts, PrepareCapture(a)
        PROVE  Inv'
    BY <2>1, PrepareCaptureInv
  <2>2. CASE \/ PublishCreate \/ PublishWrite \/ PublishFileSync \/ PublishStagingSync
             \/ PublishLink \/ PublishObjectSync \/ PublishRemoveStaging
             \/ PublishCleanupSync
    BY <2>2, PublishCreateInv, PublishWriteInv, PublishFileSyncInv, PublishStagingSyncInv,
       PublishLinkInv, PublishObjectSyncInv, PublishRemoveStagingInv, PublishCleanupSyncInv
  <2>3. CASE \/ FinishInspect \/ FinishLink \/ FinishObjectSync \/ FinishRemoveStaging
             \/ FinishStagingSync \/ CommitCapture
    BY <2>3, FinishInspectInv, FinishLinkInv, FinishObjectSyncInv, FinishRemoveStagingInv,
       FinishStagingSyncInv, CommitCaptureInv
  <2>4. ASSUME NEW s \in Sources, ReconcileNext(s) \/ DeleteNext(s)
        PROVE  Inv'
    BY <2>4, ReconcileNextInv, DeleteNextInv
  <2>5. CASE FinishReconcile
    BY <2>5, EndInv DEF FinishReconcile
  <2>6. CASE RetireStaging \/ RetireObject \/ RetireSyncStaging \/ RetireSyncObjects
    BY <2>6, RetireStagingInv, RetireObjectInv, RetireSyncStagingInv, RetireSyncObjectsInv
  <2>7. CASE FinishAbandon \/ FinishRetirement \/ BeginExecution \/ StoreEvidence
    BY <2>7, FinishAbandonInv, FinishRetirementInv, BeginExecutionInv, StoreEvidenceInv
  <2>8. CASE \/ FinishExecution("succeeded", "deleted")
             \/ FinishExecution("failed", "failed")
             \/ FinishExecution("failed", "none")
    BY <2>8, FinishExecutionInv
  <2> QED
    BY <1>2, <2>1, <2>2, <2>3, <2>4, <2>5, <2>6, <2>7, <2>8 DEF Advance
<1>3. CASE Fail
  BY <1>3, EndInv DEF Fail
<1>4. CASE PowerLoss
  BY <1>4, PowerLossInv
<1>5. CASE UNCHANGED vars
  <2> USE <1>5 DEF vars, dirVars, dbVars, opVars
  <2>1. TypeOK' /\ Control' /\ Progress'
    BY DEF Inv, TypeOK, DirTypeOK, Control, Progress, Gone, PendingRows, LineageRetired
  <2>2. Tokens' /\ Entries' /\ Files' /\ Rows' /\ Versions' /\ Evidence'
    BY FilesStutter, RowsStutter DEF Inv
  <2> QED
    BY <2>1, <2>2 DEF Inv
<1> QED
  BY <1>1, <1>2, <1>3, <1>4, <1>5 DEF Next

(* Inv holds in every reachable state.                                      *)
THEOREM Invariance == Spec => []Inv
BY InvInit, InvNext, PTL DEF Spec

(* Every variable keeps to its domain: SQLite and the coordinators never    *)
(* reach a row state, step or directory entry outside the ones they name.   *)
THEOREM TypeCorrect == Spec => []TypeOK
<1>1. Inv => TypeOK
  BY DEF Inv
<1> QED
  BY <1>1, Invariance, PTL

(* A committed reference resolves to its own complete object, in the        *)
(* directory and on the disk, after every step and every failure.           *)
THEOREM ReferencesAlwaysResolve == Spec => []ReferencesResolve
<1>1. Inv => ReferencesResolve
  BY DEF Inv, Rows, Files, InPlace, Entries, Tokens, ReferencesResolve
<1> QED
  BY <1>1, Invariance, PTL

(* When SQLite says abandoned or deleted, no file is left to come back.     *)
THEOREM RetirementIsFinal == Spec => []RetiredLeavesNoFile
<1>1. ASSUME Inv, NEW s \in Sources, ObjectState(s) \in {"abandoned", "deleted"}
      PROVE  Gone(s)
  <2>1. row[s] = "abandoned" \/ del[s] = "deleted"
    BY <1>1 DEF ObjectState, Inv, TypeOK, RowStates
  <2> QED
    BY <1>1, <2>1 DEF Inv, Files
<1>2. Inv => RetiredLeavesNoFile
  BY <1>1 DEF RetiredLeavesNoFile, Gone
<1> QED
  BY <1>2, Invariance, PTL

(* No sequence of failures makes a library refuse to open, as long as no    *)
(* staging file is torn.                                                    *)
THEOREM LibraryAlwaysOpens == Spec => []LibraryOpens
<1>1. ASSUME Inv, stage \subseteq whole
      PROVE  OpenLibrary
  <2> USE <1>1 DEF Inv
  <2>1. VerifyStructure
    BY DEF VerifyStructure, Rows, Tokens, TypeOK, RowStates
  <2>2. VerifyFacts
    BY DEF Versions
  <2>3. VerifyInventory
    BY NoAttemptAssumption DEF VerifyInventory, Entries, Tokens, TypeOK, DirTypeOK, Entry
  <2>4. ASSUME NEW s \in Sources
        PROVE  Authenticates(s, tok[s])
    BY <2>4 DEF Authenticates, Entries, Tokens
  <2>5. ASSUME NEW s \in Sources, row[s] # "none"
        PROVE  /\ ObjectState(s) = "committed" => ref[s] # NoAttempt /\ Published(s, ref[s])
               /\ ObjectState(s) \in {"abandoned", "deleted"} => Absent(s, tok[s])
    <3>0. del[s] \in {"none", "deleting", "deleted"} /\ row[s] # "deleted"
      BY DEF TypeOK, RowStates
    <3>1. CASE del[s] = "none"
      BY <2>4, <2>5, <3>0, <3>1
         DEF ObjectState, Published, Absent, Rows, Files, InPlace, Gone, Tokens
    <3>2. CASE del[s] # "none"
      BY <2>5, <3>0, <3>2 DEF ObjectState, Absent, Files, Gone
    <3> QED
      BY <3>1, <3>2
  <2>6. AuthenticateAll
    BY <2>3, <2>4, <2>5 DEF AuthenticateAll
  <2> QED
    BY <2>1, <2>2, <2>6 DEF OpenLibrary
<1>2. Inv => LibraryOpens
  BY <1>1 DEF LibraryOpens
<1> QED
  BY <1>2, Invariance, PTL

(* A file torn by a loss of power belongs to an unfinished capture.         *)
THEOREM TornFilesArePending == Spec => []TornFileIsPending
<1>1. ASSUME Inv, NEW a \in stage \ whole
      PROVE  \E s \in PendingRows : tok[s] = a
  <2>1. PICK s \in Sources : tok[s] = a
    BY <1>1 DEF Inv, Entries
  <2>2. tok[s] # NoAttempt
    BY <1>1, <2>1, NoAttemptAssumption DEF Inv, TypeOK, DirTypeOK
  <2>3. row[s] \in {"prepared", "abandoning"}
    BY <1>1, <2>1, <2>2 DEF Inv, Files, Gone, Tokens, TypeOK, RowStates
  <2> QED
    BY <2>1, <2>3 DEF PendingRows
<1>2. Inv => TornFileIsPending
  BY <1>1 DEF TornFileIsPending
<1> QED
  BY <1>2, Invariance, PTL

(* Competing captures: at most one is pending, and a version has at most    *)
(* one committed successor.                                                 *)
THEOREM CapturesDoNotCompete == Spec => [](OnePendingCapture /\ NoForkedLineage)
<1>1. Inv => OnePendingCapture /\ NoForkedLineage
  BY DEF Inv, Rows, Versions
<1> QED
  BY <1>1, Invariance, PTL

(* Evidence that says completed stays true of the objects and files of the  *)
(* lineage, whatever further executions of the request do afterwards        *)
(* (deletion.rs, store_evidence; a host that read older evidence executes   *)
(* the request again).                                                      *)
THEOREM CompletedEvidenceIsTrue == Spec => []EvidenceIsTrue
<1>1. Inv => EvidenceIsTrue
  BY DEF Inv, Evidence, LineageRetired, Rows, Files, Gone, EvidenceIsTrue
<1> QED
  BY <1>1, Invariance, PTL

(* No step reopens an abandoned or a deleted source.                        *)
THEOREM RetiredNeverReturns == Spec => NoResurrection
<1>1. ASSUME Inv, Inv', [Next]_vars, NEW s \in Sources
      PROVE  StaysRetired(s)
  <2> USE <1>1
  <2>1. ASSUME del[s] # "none" => del'[s] # "none",
               row[s] \in {"abandoning", "abandoned"} =>
                   row'[s] = row[s] \/ row'[s] = "abandoned"
        PROVE  StaysRetired(s)
    BY <2>1 DEF StaysRetired, Inv, Rows
  <2>2. CASE Start
    <3>1. CASE \/ \E t \in Sources : StartCapture(t)
               \/ StartReconcile
               \/ \E l \in Lineages : ResumeDelete(l)
      BY <2>1, <3>1 DEF StartCapture, StartReconcile, ResumeDelete, dbVars
    <3>2. CASE \E t \in Sources, a \in Attempts : StartAbandon(t, a)
      BY <2>1, <3>2 DEF StartAbandon, Inv, TypeOK
    <3>3. CASE \E l \in Lineages : StartDelete(l)
      BY <2>1, <3>3 DEF StartDelete
    <3> QED
      BY <2>2, <3>1, <3>2, <3>3 DEF Start
  <2>3. CASE Advance
    <3>1. CASE UNCHANGED <<row, del>>
      BY <2>1, <3>1
    <3>2. CASE \E a \in Attempts : PrepareCapture(a)
      BY <2>1, <3>2 DEF PrepareCapture, Inv, Control, TypeOK
    <3>3. CASE CommitCapture
      BY <2>1, <3>3 DEF CommitCapture, Inv, TypeOK
    <3>4. CASE FinishAbandon
      BY <2>1, <3>4 DEF FinishAbandon, Inv, TypeOK
    <3>5. CASE FinishRetirement
      BY <2>1, <3>5 DEF FinishRetirement, Inv, TypeOK
    <3> QED
      BY <2>3, <3>1, <3>2, <3>3, <3>4, <3>5
         DEF Advance, dbVars, PublishCreate, PublishWrite, PublishFileSync,
             PublishStagingSync, PublishLink, PublishObjectSync, PublishRemoveStaging,
             PublishCleanupSync, FinishInspect, FinishLink, FinishObjectSync,
             FinishRemoveStaging, FinishStagingSync, ReconcileNext, FinishReconcile,
             RetireStaging, RetireObject, RetireSyncStaging, RetireSyncObjects,
             DeleteNext, BeginExecution, FinishExecution, StoreEvidence
  <2>4. CASE Fail \/ PowerLoss \/ UNCHANGED vars
    BY <2>1, <2>4 DEF Fail, PowerLoss, dbVars, vars
  <2> QED
    BY <2>2, <2>3, <2>4 DEF Next
<1>2. Inv /\ Inv' /\ [Next]_vars => [\A s \in Sources : StaysRetired(s)]_vars
  BY <1>1
<1> QED
  BY <1>2, Invariance, PTL DEF Spec, NoResurrection

(* The attempt of a row is replaced only when no file of it is left.        *)
THEOREM NoOrphanedAttempt == Spec => AttemptReplacedOnlyWhenGone
<1>1. ASSUME Inv, [Next]_vars, NEW s \in Sources
      PROVE  ReplacedWhenGone(s)
  <2> USE <1>1
  <2>1. CASE tok' = tok
    BY <2>1 DEF ReplacedWhenGone
  <2>2. CASE \E a \in Attempts : PrepareCapture(a)
    BY <2>2 DEF PrepareCapture, ReplacedWhenGone, Inv, Control, Gone, TypeOK, Tokens
  <2> QED
    BY <2>1, <2>2
       DEF Next, Start, Advance, vars, dbVars, StartCapture, StartReconcile, StartAbandon,
           StartDelete, ResumeDelete, PublishCreate, PublishWrite, PublishFileSync,
           PublishStagingSync, PublishLink, PublishObjectSync, PublishRemoveStaging,
           PublishCleanupSync, FinishInspect, FinishLink, FinishObjectSync,
           FinishRemoveStaging, FinishStagingSync, CommitCapture, ReconcileNext,
           FinishReconcile, RetireStaging, RetireObject, RetireSyncStaging,
           RetireSyncObjects, FinishAbandon, DeleteNext, FinishRetirement,
           BeginExecution, FinishExecution, StoreEvidence, Fail, PowerLoss
<1>2. Inv /\ [Next]_vars => [\A s \in Sources : ReplacedWhenGone(s)]_vars
  BY <1>1
<1> QED
  BY <1>2, Invariance, PTL DEF Spec, AttemptReplacedOnlyWhenGone
=============================================================================
