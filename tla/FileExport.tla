----------------------------- MODULE FileExport -----------------------------
(***************************************************************************)
(* export_managed_source of radishmemory-file-entry: the bytes of a source *)
(* are written to a temporary file, verified, linked to a target that must *)
(* not exist, and verified again.  Other programs create, edit and remove  *)
(* the target at any moment; a temporary file they may only remove.        *)
(* FileEntry puts the exports beside the reading of a file.                *)
(***************************************************************************)
EXTENDS UserFiles

CONSTANTS Temps,      \* the names create_export_temporary can try
          Body,       \* the managed bytes that are exported
          MaxFaults   \* bound on failing calls and process ends

Exporters == Writers

ASSUME ExportAssumption ==
    /\ Body \in Seq(Chunks \ {Bad})
    /\ Len(Body) \in 1..MaxBytes
    /\ "target" \in Names \ Temps
    /\ Temps \subseteq Names \ Edited
    /\ MaxFaults \in Nat

VARIABLES
    export,  \* the call of each exporter
    faults   \* failing calls and process ends so far

exportVars == <<export, faults>>

ExportPc == {"idle", "create", "write", "verify", "recheck", "link", "linked", "published",
             "remove", "cleanup"}
Reasons == {"none", "receipt", "destination_exists", "integrity_mismatch", "io_failure"}
ExportState == [pc : ExportPc, temp : Temps \cup {"none"}, file : 0..MaxFiles,
                seen : Observation,   \* the observation that cleanup expects
                reason : Reasons]     \* what the call returns, or will after cleanup

(* Every variable keeps to its domain, and an export that cleans up has     *)
(* created what it cleans.                                                  *)
ExportTypeOK ==
    /\ export \in [Exporters -> ExportState]
    /\ \A e \in Exporters : export[e].pc \notin {"idle", "create"} =>
         export[e].temp \in Temps /\ export[e].file \in 1..Len(file)
    /\ faults \in 0..MaxFaults

IdleExport == [pc |-> "idle", temp |-> "none", file |-> 0, seen |-> Nothing,
               reason |-> "none"]

ExportInit ==
    /\ export = [e \in Exporters |-> IdleExport]
    /\ faults = 0

-----------------------------------------------------------------------------
ExportTo(e, pc) == export' = [export EXCEPT ![e].pc = pc]

(* The call returns.                                                        *)
Return(e, reason) == export' = [export EXCEPT ![e].pc = "idle", ![e].reason = reason]

(* The call has failed with a reason and cleans up, expecting observation o *)
(* of its temporary file.                                                   *)
Fail(e, reason, o) ==
    export' = [export EXCEPT ![e].pc = "cleanup", ![e].reason = reason, ![e].seen = o]

(* A system call reports an error.                                          *)
Fault ==
    /\ faults < MaxFaults
    /\ faults' = faults + 1

(* resolve_export_destination: the target must not exist.                   *)
ResolveDestination(e) ==
    /\ export[e].pc = "idle"
    /\ IF name["target"] = 0
       THEN export' = [export EXCEPT ![e] = [IdleExport EXCEPT !.pc = "create"]]
       ELSE export' = [export EXCEPT ![e] = [IdleExport EXCEPT !.reason = "destination_exists"]]
    /\ UNCHANGED <<fileVars, faults>>

(* The names (process and sequence number) that running exports have drawn. *)
Drawn == {export[x].temp : x \in {y \in Exporters : export[y].pc # "idle"}}

(* Mutant: the names carry the process only, and are drawn again.           *)
CreateTemporaryDrawn(e) ==
    /\ export[e].pc = "create"
    /\ Len(file) < MaxFiles
    /\ \E t \in Temps :
         /\ name[t] = 0
         /\ name' = [name EXCEPT ![t] = Len(file) + 1]
         /\ export' = [export EXCEPT ![e].pc = "write", ![e].temp = t,
                                     ![e].file = Len(file) + 1]
    /\ file' = Append(file, [content |-> <<>>, changes |-> 0, by |-> e])
    /\ UNCHANGED <<edits, faults>>

(* create_export_temporary: a name that no running export has drawn and     *)
(* under which an interrupted one has left nothing.                         *)
CreateTemporary(e) ==
    /\ export[e].pc = "create"
    /\ Len(file) < MaxFiles
    /\ \E t \in Temps \ Drawn :
         /\ name[t] = 0
         /\ name' = [name EXCEPT ![t] = Len(file) + 1]
         /\ export' = [export EXCEPT ![e].pc = "write", ![e].temp = t,
                                     ![e].file = Len(file) + 1]
    /\ file' = Append(file, [content |-> <<>>, changes |-> 0, by |-> e])
    /\ UNCHANGED <<edits, faults>>

(* Every name it tries is taken, by exports that were interrupted.          *)
NoTemporary(e) ==
    /\ export[e].pc = "create"
    /\ Temps \ Drawn # {}
    /\ \A t \in Temps \ Drawn : name[t] # 0
    /\ Return(e, "io_failure")
    /\ UNCHANGED <<fileVars, faults>>

(* write_all, a chunk at a time.                                            *)
WriteTemporary(e) ==
    LET f == export[e].file
        n == Len(file[f].content) + 1
    IN
    /\ export[e].pc = "write"
    /\ n <= Len(Body)
    /\ Write(f, Append(file[f].content, Body[n]), e)
    /\ UNCHANGED <<name, export, edits, faults>>

(* write_all, flush or sync_all fails, and perhaps the metadata after it.   *)
WriteFails(e) ==
    /\ export[e].pc = "write"
    /\ Fault
    /\ \E seen \in {Observe(export[e].file), Nothing} : Fail(e, "io_failure", seen)
    /\ UNCHANGED fileVars

(* flush and sync_all; the handle is dropped.                               *)
SyncTemporary(e) ==
    /\ export[e].pc = "write"
    /\ file[export[e].file].content = Body
    /\ export' = [export EXCEPT ![e].pc = "verify", ![e].seen = Observe(export[e].file)]
    /\ UNCHANGED <<fileVars, faults>>

(* open_and_verify_exact_file for a name: the observation it returns, or    *)
(* Nothing when the name is gone or other bytes are found.                  *)
VerifyExactFile(n) ==
    IF name[n] # 0 /\ file[name[n]].content = Body THEN Observe(name[n]) ELSE Nothing

(* The reason of a failed verification.                                     *)
Mismatch(n) == IF name[n] = 0 THEN "io_failure" ELSE "integrity_mismatch"

VerifyTemporary(e) ==
    LET t == export[e].temp
        o == VerifyExactFile(t)
    IN
    /\ export[e].pc = "verify"
    /\ IF o # Nothing
       THEN export' = [export EXCEPT ![e].pc = "recheck", ![e].seen = o]
       ELSE Fail(e, Mismatch(t), export[e].seen)
    /\ UNCHANGED <<fileVars, faults>>

(* The temporary name still leads to the file that was observed.            *)
OwnTemporary(e) == Observe(name[export[e].temp]) = export[e].seen

(* verify_export_destination_stable and verify_path_matches_open_file.      *)
RecheckDestination(e) ==
    LET t == export[e].temp IN
    /\ export[e].pc = "recheck"
    /\ CASE name["target"] # 0 -> Fail(e, "destination_exists", export[e].seen)
         [] name["target"] = 0 /\ name[t] = 0 -> Fail(e, "io_failure", export[e].seen)
         [] name["target"] = 0 /\ name[t] # 0 ->
              IF OwnTemporary(e) THEN ExportTo(e, "link")
              ELSE Fail(e, "integrity_mismatch", export[e].seen)
    /\ UNCHANGED <<fileVars, faults>>

(* Mutant: the temporary file is renamed over the target.                   *)
PublishByRename(e) ==
    LET t == export[e].temp IN
    /\ export[e].pc = "link"
    /\ IF name[t] # 0
       THEN /\ name' = [name EXCEPT !["target"] = name[t]]
            /\ file' = [file EXCEPT ![name[t]].changes = @ + 1]
            /\ ExportTo(e, "linked")
       ELSE /\ Fail(e, "io_failure", export[e].seen)
            /\ UNCHANGED <<name, file>>
    /\ UNCHANGED <<edits, faults>>

(* hard_link: the target gets a second name of the file, or exists already. *)
Publish(e) ==
    LET t == export[e].temp IN
    /\ export[e].pc = "link"
    /\ IF name["target"] = 0 /\ name[t] # 0
       THEN /\ name' = [name EXCEPT !["target"] = name[t]]
            /\ file' = [file EXCEPT ![name[t]].changes = @ + 1]
            /\ ExportTo(e, "linked")
       ELSE /\ Fail(e, IF name[t] = 0 THEN "io_failure" ELSE "destination_exists",
                    export[e].seen)
            /\ UNCHANGED <<name, file>>
    /\ UNCHANGED <<edits, faults>>

(* The new link changed the file; it is observed through the open handle.   *)
ObservePublished(e) ==
    /\ export[e].pc = "linked"
    /\ export' = [export EXCEPT ![e].pc = "published", ![e].seen = Observe(export[e].file)]
    /\ UNCHANGED <<fileVars, faults>>

(* The metadata call fails: cleanup then expects the older observation.     *)
ObservePublishedFails(e) ==
    /\ export[e].pc = "linked"
    /\ Fault
    /\ Fail(e, "io_failure", export[e].seen)
    /\ UNCHANGED fileVars

(* The target must be the published file with the exact bytes.              *)
VerifyTarget(e) ==
    LET o == VerifyExactFile("target") IN
    /\ export[e].pc = "published"
    /\ IF o # Nothing /\ o = export[e].seen
       THEN ExportTo(e, "remove")
       ELSE Fail(e, Mismatch("target"), export[e].seen)
    /\ UNCHANGED <<fileVars, faults>>

(* Mutant: a temporary file that is not as observed is left, with a receipt. *)
RemoveTemporaryQuiet(e) ==
    LET t == export[e].temp IN
    /\ export[e].pc = "remove"
    /\ Return(e, "receipt")
    /\ \/ /\ name[t] # 0
          /\ OwnTemporary(e)
          /\ Unlink(t)
       \/ /\ name[t] # 0 => ~OwnTemporary(e)
          /\ UNCHANGED <<name, file>>
    /\ UNCHANGED <<edits, faults>>

(* remove_owned_temporary: only then is there a receipt.                    *)
RemoveTemporary(e) ==
    LET t == export[e].temp IN
    /\ export[e].pc = "remove"
    /\ \/ /\ name[t] = 0
          /\ Return(e, "receipt")
          /\ UNCHANGED <<name, file>>
       \/ /\ name[t] # 0
          /\ OwnTemporary(e)
          /\ Unlink(t)
          /\ Return(e, "receipt")
       \/ /\ name[t] # 0
          /\ ~OwnTemporary(e)
          /\ Return(e, "integrity_mismatch")
          /\ UNCHANGED <<name, file>>
    /\ UNCHANGED <<edits, faults>>

(* cleanup_temporary_after_failure: the first error is returned when the    *)
(* file is gone, and another one when it is not.                            *)
Cleanup(e) ==
    LET t == export[e].temp IN
    /\ export[e].pc = "cleanup"
    /\ \/ /\ name[t] = 0
          /\ Return(e, export[e].reason)
          /\ UNCHANGED <<name, file>>
       \/ /\ name[t] # 0
          /\ OwnTemporary(e)
          /\ Unlink(t)
          /\ Return(e, export[e].reason)
       \/ /\ name[t] # 0
          /\ ~OwnTemporary(e)
          /\ Return(e, "integrity_mismatch")
          /\ UNCHANGED <<name, file>>
    /\ UNCHANGED <<edits, faults>>

(* remove_file reports an error.                                            *)
RemovalFails(e) ==
    /\ export[e].pc \in {"remove", "cleanup"}
    /\ name[export[e].temp] # 0
    /\ OwnTemporary(e)
    /\ Fault
    /\ Return(e, "io_failure")
    /\ UNCHANGED fileVars

(* The process of an export ends.                                           *)
Crash(e) ==
    /\ export[e].pc # "idle"
    /\ Fault
    /\ export' = [export EXCEPT ![e] = IdleExport]
    /\ UNCHANGED fileVars

-----------------------------------------------------------------------------
ExportStep(e) ==
    \/ ResolveDestination(e) \/ CreateTemporary(e) \/ NoTemporary(e) \/ WriteTemporary(e)
    \/ WriteFails(e) \/ SyncTemporary(e) \/ VerifyTemporary(e) \/ RecheckDestination(e)
    \/ Publish(e) \/ ObservePublished(e) \/ ObservePublishedFails(e) \/ VerifyTarget(e)
    \/ RemoveTemporary(e) \/ Cleanup(e) \/ RemovalFails(e)
=============================================================================
