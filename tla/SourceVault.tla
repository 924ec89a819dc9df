----------------------------- MODULE SourceVault -----------------------------
(***************************************************************************)
(* The encrypted source vault: the SQLite side of a library                *)
(* (crates/radishmemory-sqlite) and its object directory                   *)
(* (crates/radishmemory-source-vault), which have no common transaction,   *)
(* and the coordinators that keep them consistent: capture, abandonment of *)
(* a capture, reconciliation, deletion of a lineage and its evidence.      *)
(*                                                                         *)
(* Each coordinator holds the exclusive SQLite session while it runs, so   *)
(* one runs at a time; what interleaves with it is failure.  Fail is an    *)
(* I/O error, a killed process or a refused check at any step: the handler *)
(* returns without cleaning up and what the system sees of the files       *)
(* stays.  PowerLoss also takes away what was not synced.  An SQLite       *)
(* transaction is durable when it commits (synchronous=FULL).              *)
(*                                                                         *)
(* A capture request is identified with the source id it creates; lineage, *)
(* superseded version and body of a request are constants.  A deletion     *)
(* request is identified with the lineage it deletes.  Memory records,     *)
(* fragments and the ten deletion components are not in this module.       *)
(***************************************************************************)
EXTENDS ObjectDirectory, Naturals

CONSTANTS Lineages,
          NoSource,
          NoLineage,
          Lineage,     \* the lineage of each source
          Supersedes,  \* the version a request replaces, NoSource for a first version
          Body         \* the exact bytes of each source

ASSUME ConstantsAssumption ==
    /\ NoSource \notin Sources
    /\ NoLineage \notin Lineages
    /\ Lineage \in [Sources -> Lineages]
    /\ Supersedes \in [Sources -> Sources \cup {NoSource}]

VARIABLES
    \* SQLite
    schema,   \* user_version of the database
    row,      \* source_vault_attempts.state
    tok,      \* source_vault_attempts.attempt_id
    used,     \* attempt ids drawn so far
    ref,      \* source_vault_references.attempt_id
    art,      \* source_artifacts.deletion_state
    tip,      \* source_lineage_tips
    plan,     \* lineages with a registered delete plan
    del,      \* source_vault_deletions.state
    results,  \* outcome of the latest deletion execution attempt
    evid,     \* status of the latest stored deletion evidence
    \* the running coordinator
    pc,       \* its next step
    kind,     \* which coordinator it is
    cur,      \* the source it works on
    job,      \* the lineage it deletes
    again,    \* capture: the attempt has been published or recovered once
    todo      \* reconciliation: committed sources still to be cleaned

dbVars == <<schema, row, tok, used, ref, art, tip, plan, del, results, evid>>
opVars == <<pc, kind, cur, job, again, todo>>
vars == <<dirVars, dbVars, opVars>>

RowStates == {"none", "prepared", "committed", "abandoning", "abandoned"}
ArtStates == {"none", "active", "pending", "failed", "deleted"}
PublishSteps == {"create", "write", "filesync", "stagesync", "link", "objsync",
                 "unstage", "unstagesync"}
FinishSteps == {"fin_sync", "fin_link", "fin_objsync", "fin_unstage", "fin_stagesync"}
RetireSteps == {"ret_stage", "ret_obj", "ret_syncstage", "ret_syncobj", "ret_commit"}
Steps == {"idle", "prepare", "commit", "rec_next", "del_next", "del_run", "evidence"}
            \cup PublishSteps \cup FinishSteps \cup RetireSteps

(* Every variable keeps to its domain.                                      *)
TypeOK ==
    /\ DirTypeOK
    /\ schema \in 8..12
    /\ row \in [Sources -> RowStates]
    /\ tok \in [Sources -> Entry]
    /\ used \in SUBSET Attempts
    /\ ref \in [Sources -> Entry]
    /\ art \in [Sources -> ArtStates]
    /\ tip \in [Lineages -> Sources \cup {NoSource}]
    /\ plan \in SUBSET Lineages
    /\ del \in [Sources -> {"none", "deleting", "deleted"}]
    /\ results \in [Lineages -> {"none", "running", "failed", "succeeded"}]
    /\ evid \in [Lineages -> {"none", "failed", "completed"}]
    /\ pc \in Steps
    /\ kind \in {"none", "capture", "abandon", "reconcile", "delete"}
    /\ cur \in Sources \cup {NoSource}
    /\ job \in Lineages \cup {NoLineage}
    /\ again \in BOOLEAN
    /\ todo \in SUBSET Sources

(* A migrated library without sources, objects_ready at schema 8.           *)
Init ==
    /\ DirInit
    /\ schema = 8
    /\ row = [s \in Sources |-> "none"]
    /\ tok = [s \in Sources |-> NoAttempt]
    /\ used = {}
    /\ ref = [s \in Sources |-> NoAttempt]
    /\ art = [s \in Sources |-> "none"]
    /\ tip = [l \in Lineages |-> NoSource]
    /\ plan = {}
    /\ del = [s \in Sources |-> "none"]
    /\ results = [l \in Lineages |-> "none"]
    /\ evid = [l \in Lineages |-> "none"]
    /\ pc = "idle"
    /\ kind = "none"
    /\ cur = NoSource
    /\ job = NoLineage
    /\ again = FALSE
    /\ todo = {}

(* ensure_capture_schema and its successors: migrate up, never down.        *)
AtLeast(version) == IF schema < version THEN version ELSE schema

-----------------------------------------------------------------------------
(* The checks every coordinator makes when it opens the library.            *)

(* objects(): the deletion row, when there is one, overrides the attempt's. *)
ObjectState(s) == IF del[s] # "none" THEN del[s] ELSE row[s]

(* verify_inventory: every directory entry is one that SQLite knows.        *)
VerifyInventory ==
    /\ \A a \in stage : \E s \in Sources : row[s] # "none" /\ tok[s] = a
    /\ \A s \in Sources : obj[s] # NoAttempt => row[s] # "none"

(* authenticate_all: the files of every row are as its state requires.      *)
AuthenticateAll ==
    /\ VerifyInventory
    /\ \A s \in Sources : row[s] # "none" =>
         /\ ObjectState(s) = "committed" => ref[s] # NoAttempt /\ Published(s, ref[s])
         /\ ObjectState(s) \in {"abandoned", "deleted"} => Absent(s, tok[s])
         /\ ObjectState(s) \in {"prepared", "abandoning", "deleting"} =>
              Authenticates(s, tok[s])

(* verify_structure with verify_deletion_inventory.                         *)
VerifyStructure ==
    /\ \A s \in Sources :
         /\ row[s] \in {"prepared", "abandoning", "abandoned"} =>
              art[s] = "none" /\ ref[s] = NoAttempt
         /\ row[s] = "committed" =>
              /\ art[s] # "none"
              /\ del[s] = "none" => ref[s] = tok[s]
              /\ del[s] # "none" => ref[s] = NoAttempt /\ art[s] # "active"
         /\ art[s] = "active" => ref[s] # NoAttempt
         /\ del[s] # "none" => row[s] = "committed" /\ Lineage[s] \in plan
         /\ Lineage[s] \in plan /\ art[s] # "none" => del[s] # "none"
         /\ schema = 8 => row[s] \in {"none", "committed"}

ActiveVersions(l) == {s \in Sources : Lineage[s] = l /\ art[s] = "active"}

(* A lineage tip is the active version that no active version supersedes.   *)
TipVerified(l) ==
    IF ActiveVersions(l) = {}
    THEN tip[l] = NoSource
    ELSE /\ tip[l] \in ActiveVersions(l)
         /\ \A s \in ActiveVersions(l) : Supersedes[s] # tip[l]

(* verify_facts: the active sources are exactly those with an authenticated *)
(* body, and every lineage has its tip.                                     *)
VerifyFacts ==
    /\ \A s \in Sources : art[s] = "active" <=> ObjectState(s) = "committed"
    /\ \A l \in Lineages : TipVerified(l)

OpenLibrary == VerifyStructure /\ AuthenticateAll /\ VerifyFacts

PendingRows == {s \in Sources : row[s] \in {"prepared", "abandoning"}}

DeletionInProgress == \E s \in Sources : art[s] \in {"pending", "failed"}

(* Mutant: any active version may be superseded, not only the tip.          *)
DecideWritesStaleTip(s) ==
    /\ ~DeletionInProgress
    /\ PendingRows \subseteq {s}
    /\ row[s] \in {"none", "prepared"}
    /\ art[s] = "none"
    /\ IF Supersedes[s] = NoSource THEN tip[Lineage[s]] = NoSource
                                   ELSE art[Supersedes[s]] = "active"

(* Mutant: an abandoned request may be captured again.                      *)
DecideWritesAbandoned(s) ==
    /\ ~DeletionInProgress
    /\ PendingRows \subseteq {s}
    /\ art[s] = "none"
    /\ tip[Lineage[s]] = Supersedes[s]

(* decide: the request for source s is one that writes (not refused, not    *)
(* idempotent).  Its lineage is new, or the request supersedes the tip with *)
(* other bytes.  require_unused_lineage looks at the tip only; that no      *)
(* version of a new lineage was ever stored is because its id is drawn for  *)
(* this request.                                                            *)
DecideWrites(s) ==
    /\ ~DeletionInProgress
    /\ PendingRows \subseteq {s}
    /\ row[s] \in {"none", "prepared"}
    /\ art[s] = "none"
    /\ IF tip[Lineage[s]] = NoSource
       THEN /\ Supersedes[s] = NoSource
            /\ \A t \in Sources : Lineage[t] = Lineage[s] => art[t] = "none"
       ELSE /\ Supersedes[s] = tip[Lineage[s]]
            /\ Body[s] # Body[tip[Lineage[s]]]

-----------------------------------------------------------------------------
(* The running coordinator moves to another step, or ends.                  *)

Goto(step) == pc' = step /\ UNCHANGED <<kind, cur, job, again, todo>>

End == /\ pc' = "idle"
       /\ kind' = "none"
       /\ cur' = NoSource
       /\ job' = NoLineage
       /\ again' = FALSE
       /\ todo' = {}

-----------------------------------------------------------------------------
(* capture_with_step.                                                       *)

(* Bound: attempt ids are fresh random values, here a finite set of them.   *)
AttemptsLeft == used # Attempts

(* Mutant: a pending row is always sealed again.                            *)
StartCaptureResealing(s) ==
    /\ pc = "idle"
    /\ OpenLibrary
    /\ DecideWrites(s)
    /\ schema' = AtLeast(9)
    /\ kind' = "capture"
    /\ cur' = s
    /\ pc' = "prepare"
    /\ UNCHANGED <<dirVars, row, tok, used, ref, art, tip, plan, del, results, evid,
                   job, again, todo>>

(* Open, decide, raise the schema; a pending attempt of the same request is *)
(* resumed when one of its two paths exists, otherwise the body is sealed.  *)
StartCapture(s) ==
    /\ pc = "idle"
    /\ OpenLibrary
    /\ DecideWrites(s)
    /\ schema' = AtLeast(9)
    /\ kind' = "capture"
    /\ cur' = s
    /\ pc' = IF row[s] = "prepared" /\ ~Absent(s, tok[s]) THEN "fin_sync" ELSE "prepare"
    /\ pc' = "prepare" => AttemptsLeft
    /\ UNCHANGED <<dirVars, row, tok, used, ref, art, tip, plan, del, results, evid,
                   job, again, todo>>

(* prepare_capture: insert the row, or give the pending row a new attempt.  *)
PrepareCapture(a) ==
    /\ pc = "prepare"
    /\ a \notin used
    /\ used' = used \cup {a}
    /\ row' = [row EXCEPT ![cur] = "prepared"]
    /\ tok' = [tok EXCEPT ![cur] = a]
    /\ Goto("create")
    /\ UNCHANGED <<dirVars, schema, ref, art, tip, plan, del, results, evid>>

(* publish_with_operations, one action per step that changes a file.        *)
PublishCreate ==
    /\ pc = "create"
    /\ obj[cur] = NoAttempt
    /\ CreateStaging(tok[cur])
    /\ Goto("write")
    /\ UNCHANGED dbVars

PublishWrite ==
    /\ pc = "write"
    /\ WriteStaging(tok[cur])
    /\ Goto("filesync")
    /\ UNCHANGED dbVars

PublishFileSync ==
    /\ pc = "filesync"
    /\ SyncFile(tok[cur])
    /\ Goto("stagesync")
    /\ UNCHANGED dbVars

PublishStagingSync ==
    /\ pc = "stagesync"
    /\ SyncStaging
    /\ Goto("link")
    /\ UNCHANGED dbVars

(* The staged file is read back and authenticated before it is linked.      *)
PublishLink ==
    /\ pc = "link"
    /\ tok[cur] \in whole
    /\ LinkObject(cur, tok[cur])
    /\ Goto("objsync")
    /\ UNCHANGED dbVars

PublishObjectSync ==
    /\ pc = "objsync"
    /\ SyncObjects
    /\ Goto("unstage")
    /\ UNCHANGED dbVars

PublishRemoveStaging ==
    /\ pc = "unstage"
    /\ Published(cur, tok[cur])
    /\ RemoveStaging(tok[cur])
    /\ Goto("unstagesync")
    /\ UNCHANGED dbVars

(* The published attempt is then recovered once more before the commit.     *)
PublishCleanupSync ==
    /\ pc = "unstagesync"
    /\ SyncStaging
    /\ pc' = "fin_sync"
    /\ again' = TRUE
    /\ UNCHANGED <<dbVars, kind, cur, job, todo>>

-----------------------------------------------------------------------------
(* finish_attempt: recover_attempt for a capture, cleanup_committed_staging *)
(* for reconciliation, which never publishes.                               *)
FinishInspect ==
    /\ pc = "fin_sync"
    /\ Authenticates(cur, tok[cur])
    /\ ~Absent(cur, tok[cur])
    /\ kind = "reconcile" => obj[cur] # NoAttempt
    /\ SyncFile(tok[cur])
    /\ Goto(IF obj[cur] = NoAttempt THEN "fin_link" ELSE "fin_objsync")
    /\ UNCHANGED dbVars

FinishLink ==
    /\ pc = "fin_link"
    /\ LinkObject(cur, tok[cur])
    /\ Goto("fin_objsync")
    /\ UNCHANGED dbVars

FinishObjectSync ==
    /\ pc = "fin_objsync"
    /\ SyncObjects
    /\ Goto(IF tok[cur] \in stage THEN "fin_unstage" ELSE "fin_stagesync")
    /\ UNCHANGED dbVars

FinishRemoveStaging ==
    /\ pc = "fin_unstage"
    /\ Published(cur, tok[cur])
    /\ RemoveStaging(tok[cur])
    /\ Goto("fin_stagesync")
    /\ UNCHANGED dbVars

FinishStagingSync ==
    /\ pc = "fin_stagesync"
    /\ SyncStaging
    /\ pc' = CASE kind = "reconcile" -> "rec_next"
               [] kind = "capture" /\ again -> "commit"
               [] OTHER -> "fin_sync"
    /\ again' = (kind = "capture")
    /\ UNCHANGED <<dbVars, kind, cur, job, todo>>

(* commit_with_check: facts, reference, tip and row state in one            *)
(* transaction; the library is then read back and the handler returns.      *)
CommitCapture ==
    /\ pc = "commit"
    /\ DecideWrites(cur)
    /\ row[cur] = "prepared"
    /\ row' = [row EXCEPT ![cur] = "committed"]
    /\ ref' = [ref EXCEPT ![cur] = tok[cur]]
    /\ art' = [art EXCEPT ![cur] = "active"]
    /\ tip' = [tip EXCEPT ![Lineage[cur]] = cur]
    /\ End
    /\ UNCHANGED <<dirVars, schema, tok, used, plan, del, results, evid>>

-----------------------------------------------------------------------------
(* reconcile_with_step: remove the leftover staging link of every committed *)
(* object.                                                                  *)
StartReconcile ==
    /\ pc = "idle"
    /\ OpenLibrary
    /\ pc' = "rec_next"
    /\ kind' = "reconcile"
    /\ todo' = {s \in Sources : ObjectState(s) = "committed"}
    /\ UNCHANGED <<dirVars, dbVars, cur, job, again>>

ReconcileNext(s) ==
    /\ pc = "rec_next"
    /\ s \in todo
    /\ ref[s] # NoAttempt
    /\ cur' = s
    /\ todo' = todo \ {s}
    /\ pc' = "fin_sync"
    /\ UNCHANGED <<dirVars, dbVars, kind, job, again>>

FinishReconcile ==
    /\ pc = "rec_next"
    /\ todo = {}
    /\ OpenLibrary
    /\ End
    /\ UNCHANGED <<dirVars, dbVars>>

-----------------------------------------------------------------------------
(* Mutant: an abandonment that was begun cannot be resumed.                 *)
StartAbandonOnce(s, a) ==
    /\ pc = "idle"
    /\ row[s] = "prepared"
    /\ tok[s] = a
    /\ OpenLibrary
    /\ row' = [row EXCEPT ![s] = "abandoning"]
    /\ schema' = AtLeast(10)
    /\ kind' = "abandon"
    /\ cur' = s
    /\ pc' = "ret_stage"
    /\ UNCHANGED <<dirVars, tok, used, ref, art, tip, plan, del, results, evid,
                   job, again, todo>>

(* abandon_with_step for the exact target (s, a); a target whose attempt is *)
(* no longer the row's is refused.  The decision is durable before any file *)
(* is touched.                                                              *)
StartAbandon(s, a) ==
    /\ pc = "idle"
    /\ row[s] \in {"prepared", "abandoning"}
    /\ tok[s] = a
    /\ OpenLibrary
    /\ row' = [row EXCEPT ![s] = "abandoning"]
    /\ schema' = AtLeast(10)
    /\ kind' = "abandon"
    /\ cur' = s
    /\ pc' = "ret_stage"
    /\ UNCHANGED <<dirVars, tok, used, ref, art, tip, plan, del, results, evid,
                   job, again, todo>>

(* retire_attempt: staging entry first, then the object, then both syncs.   *)
(* Both callers check the whole library again after the decision.           *)
RetireStaging ==
    /\ pc = "ret_stage"
    /\ OpenLibrary
    /\ Authenticates(cur, tok[cur])
    /\ RemoveStaging(tok[cur])
    /\ Goto("ret_obj")
    /\ UNCHANGED dbVars

RetireObject ==
    /\ pc = "ret_obj"
    /\ tok[cur] \notin stage
    /\ RemoveObject(cur)
    /\ Goto("ret_syncstage")
    /\ UNCHANGED dbVars

RetireSyncStaging ==
    /\ pc = "ret_syncstage"
    /\ SyncStaging
    /\ Goto("ret_syncobj")
    /\ UNCHANGED dbVars

RetireSyncObjects ==
    /\ pc = "ret_syncobj"
    /\ SyncObjects
    /\ Goto("ret_commit")
    /\ UNCHANGED dbVars

(* finish_abandonment, after both paths were seen absent.                   *)
FinishAbandon ==
    /\ pc = "ret_commit"
    /\ kind = "abandon"
    /\ OpenLibrary
    /\ Absent(cur, tok[cur])
    /\ row[cur] = "abandoning"
    /\ row' = [row EXCEPT ![cur] = "abandoned"]
    /\ End
    /\ UNCHANGED <<dirVars, schema, tok, used, ref, art, tip, plan, del, results, evid>>

-----------------------------------------------------------------------------
(* execute_with_step of deletion.                                           *)

(* begin_with_check for a new request: plan, recall closed, references      *)
(* removed and objects registered in one transaction.                       *)
StartDelete(l) ==
    /\ pc = "idle"
    /\ l \notin plan
    /\ OpenLibrary
    /\ PendingRows = {}
    /\ ~DeletionInProgress
    /\ ActiveVersions(l) # {}
    /\ schema' = AtLeast(11)
    /\ plan' = plan \cup {l}
    /\ art' = [s \in Sources |-> IF s \in ActiveVersions(l) THEN "pending" ELSE art[s]]
    /\ ref' = [s \in Sources |-> IF s \in ActiveVersions(l) THEN NoAttempt ELSE ref[s]]
    /\ del' = [s \in Sources |-> IF s \in ActiveVersions(l) THEN "deleting" ELSE del[s]]
    /\ tip' = [tip EXCEPT ![l] = NoSource]
    /\ pc' = "del_next"
    /\ kind' = "delete"
    /\ job' = l
    /\ UNCHANGED <<dirVars, row, tok, used, results, evid, cur, again, todo>>

(* The registered request again.  The host goes on only when the evidence   *)
(* it has read is not completed (execute_source_lineage_deletion), but that *)
(* was in an earlier session: another host may have completed the request   *)
(* since, so it is no condition here.                                       *)
ResumeDelete(l) ==
    /\ pc = "idle"
    /\ l \in plan
    /\ OpenLibrary
    /\ pc' = "del_next"
    /\ kind' = "delete"
    /\ job' = l
    /\ UNCHANGED <<dirVars, dbVars, cur, again, todo>>

DeleteNext(s) ==
    /\ pc = "del_next"
    /\ Lineage[s] = job
    /\ del[s] = "deleting"
    /\ cur' = s
    /\ pc' = "ret_stage"
    /\ UNCHANGED <<dirVars, dbVars, kind, job, again, todo>>

(* finish_object_retirement, after both paths were seen absent.             *)
FinishRetirement ==
    /\ pc = "ret_commit"
    /\ kind = "delete"
    /\ Absent(cur, tok[cur])
    /\ del' = [del EXCEPT ![cur] = "deleted"]
    /\ Goto("del_next")
    /\ UNCHANGED <<dirVars, schema, row, tok, used, ref, art, tip, plan, results, evid>>

(* execute_request: the attempt is recorded, then the components run.       *)
BeginExecution ==
    /\ pc = "del_next"
    /\ \A s \in Sources : Lineage[s] = job => del[s] # "deleting"
    /\ OpenLibrary
    /\ results' = [results EXCEPT ![job] = "running"]
    /\ Goto("del_run")
    /\ UNCHANGED <<dirVars, schema, row, tok, used, ref, art, tip, plan, del, evid>>

(* All components succeed, one of the first nine fails, or the last one     *)
(* (minimal audit, which writes the final state) fails.  The purge of the   *)
(* entry state fails when the lineage still has a tip.                      *)
FinishExecution(outcome, final) ==
    /\ pc = "del_run"
    /\ outcome = "succeeded" => tip[job] = NoSource
    /\ results' = [results EXCEPT ![job] = outcome]
    /\ art' = [s \in Sources |-> IF Lineage[s] = job /\ del[s] # "none" /\ final # "none"
                                 THEN final ELSE art[s]]
    /\ Goto("evidence")
    /\ UNCHANGED <<dirVars, schema, row, tok, used, ref, tip, plan, del, evid>>

(* store_evidence: the overall status is that of the persisted results.     *)
(* The previous evidence must still be the latest one; it was not completed *)
(* when the host read it.  A store that comes too late, after a further     *)
(* attempt or its evidence, is refused: it is a Fail.                       *)
StoreEvidence ==
    /\ pc = "evidence"
    /\ OpenLibrary
    /\ evid[job] # "completed"
    /\ evid' = [evid EXCEPT ![job] =
                  IF results[job] = "succeeded" THEN "completed" ELSE "failed"]
    /\ End
    /\ UNCHANGED <<dirVars, schema, row, tok, used, ref, art, tip, plan, del, results>>

-----------------------------------------------------------------------------
(* An error, a refused check or a killed process ends the coordinator.      *)
Fail ==
    /\ pc # "idle"
    /\ End
    /\ UNCHANGED <<dirVars, dbVars>>

PowerLoss ==
    /\ DirPowerLoss
    /\ End
    /\ UNCHANGED dbVars

Start ==
    \/ \E s \in Sources : StartCapture(s)
    \/ StartReconcile
    \/ \E s \in Sources, a \in Attempts : StartAbandon(s, a)
    \/ \E l \in Lineages : StartDelete(l) \/ ResumeDelete(l)

Advance ==
    \/ \E a \in Attempts : PrepareCapture(a)
    \/ PublishCreate \/ PublishWrite \/ PublishFileSync \/ PublishStagingSync
    \/ PublishLink \/ PublishObjectSync \/ PublishRemoveStaging \/ PublishCleanupSync
    \/ FinishInspect \/ FinishLink \/ FinishObjectSync \/ FinishRemoveStaging
    \/ FinishStagingSync \/ CommitCapture
    \/ \E s \in Sources : ReconcileNext(s)
    \/ FinishReconcile
    \/ RetireStaging \/ RetireObject \/ RetireSyncStaging \/ RetireSyncObjects
    \/ FinishAbandon
    \/ \E s \in Sources : DeleteNext(s)
    \/ FinishRetirement \/ BeginExecution
    \/ FinishExecution("succeeded", "deleted")
    \/ FinishExecution("failed", "failed")
    \/ FinishExecution("failed", "none")
    \/ StoreEvidence

Next == Start \/ Advance \/ Fail \/ PowerLoss

Spec == Init /\ [][Next]_vars

(* Fairness: a coordinator that runs goes on, and a user who was told that  *)
(* an abandonment or a deletion is unfinished tries it again.               *)
RetryAbandon(s) == row[s] = "abandoning" /\ \E a \in Attempts : StartAbandon(s, a)

Fairness ==
    /\ WF_vars(Advance)
    /\ \A s \in Sources : SF_vars(RetryAbandon(s))
    /\ \A l \in Lineages : SF_vars(ResumeDelete(l))

Failure ==
    \/ Fail
    \/ PowerLoss
    \/ FinishExecution("failed", "failed")
    \/ FinishExecution("failed", "none")

(* The I/O errors and failing components stop at some point.                *)
LiveSpec == Spec /\ Fairness /\ <>[][~Failure]_vars

-----------------------------------------------------------------------------
(* Properties.                                                              *)

(* A committed reference always resolves: its object is in the directory    *)
(* and on the disk, complete, and it is the attempt the reference names,    *)
(* whatever step fails and whenever power is lost (ADR 0008: a committed    *)
(* source never points at a missing or partial object).                     *)
ReferencesResolve ==
    \A s \in Sources : ref[s] # NoAttempt =>
        obj[s] = ref[s] /\ objDisk[s] = ref[s] /\ ref[s] \in wholeDisk

(* Once SQLite says abandoned or deleted, no file of the source is left in  *)
(* the directories nor on the disk, so a loss of power cannot bring it back *)
(* (retire_attempt syncs both directories before the terminal commit).      *)
RetiredLeavesNoFile ==
    \A s \in Sources : ObjectState(s) \in {"abandoned", "deleted"} =>
        /\ tok[s] \notin stage \cup stageDisk
        /\ obj[s] = NoAttempt /\ objDisk[s] = NoAttempt

(* The only thing that can keep a library closed is a torn staging file:    *)
(* after any failure every other check that opens a library passes          *)
(* (verify_structure, authenticate_all, verify_facts).                      *)
LibraryOpens ==
    pc = "idle" /\ stage \subseteq whole => OpenLibrary

(* A torn staging file belongs to the one capture that is pending (prepared, *)
(* or abandoning: a body that was written but not synced can still be torn  *)
(* by a loss of power after its abandonment began), never to a committed or *)
(* a retired source.                                                        *)
TornFileIsPending ==
    \A a \in stage \ whole : \E s \in PendingRows : tok[s] = a

(* One unfinished capture or abandonment at a time (the partial unique      *)
(* index of migration 0010), and never a new deletion plan beside it.       *)
OnePendingCapture == \A s, t \in PendingRows : s = t

(* Two active versions of a lineage never supersede the same version, so    *)
(* competing updates cannot both be committed.                              *)
NoForkedLineage ==
    \A s, t \in Sources :
        /\ art[s] = "active" /\ art[t] = "active"
        /\ Lineage[s] = Lineage[t] /\ Supersedes[s] = Supersedes[t]
        => s = t

(* Completed evidence stays true of the objects, also while a host that     *)
(* read older evidence executes the request once more: every version of the *)
(* lineage is out of recall and registered as deleted, and no file of it is *)
(* left, on the disk either.  That the deletion state of the sources can go *)
(* back to failed meanwhile is the finding of DeletionExecution.            *)
EvidenceIsTrue ==
    \A l \in Lineages : evid[l] = "completed" =>
        \A s \in Sources : Lineage[s] = l /\ art[s] # "none" =>
            /\ art[s] # "active" /\ del[s] = "deleted"
            /\ tok[s] \notin stage \cup stageDisk
            /\ obj[s] = NoAttempt /\ objDisk[s] = NoAttempt

(* No step brings back a source that was abandoned or whose deletion began. *)
StaysRetired(s) ==
    /\ row[s] = "abandoned" => row'[s] = "abandoned"
    /\ row[s] = "abandoning" => row'[s] \in {"abandoning", "abandoned"}
    /\ del[s] # "none" => art'[s] # "active" /\ ref'[s] = NoAttempt

NoResurrection == [][\A s \in Sources : StaysRetired(s)]_vars

(* The attempt of a pending row is replaced only when neither of its paths  *)
(* exists, in the directories or on the disk: otherwise the old file would  *)
(* become an unknown entry and close the library.                           *)
ReplacedWhenGone(s) ==
    tok'[s] # tok[s] /\ tok[s] # NoAttempt =>
        /\ tok[s] \notin stage \cup stageDisk
        /\ obj[s] = NoAttempt /\ objDisk[s] = NoAttempt

AttemptReplacedOnlyWhenGone == [][\A s \in Sources : ReplacedWhenGone(s)]_vars

(* A retirement that was decided is carried through: whatever was killed or *)
(* lost on the way, retrying it ends in abandoned, or in completed          *)
(* evidence, unless a torn staging file keeps the library closed.           *)
RetirementCompletes ==
    /\ \A s \in Sources :
         row[s] = "abandoning" ~> row[s] = "abandoned" \/ ~(stage \subseteq whole)
    /\ \A l \in Lineages :
         l \in plan ~> evid[l] = "completed" \/ ~(stage \subseteq whole)
=============================================================================
