---------------------------- MODULE BodyMigration ----------------------------
(***************************************************************************)
(* The explicit migration of the bodies of a library out of SQLite         *)
(* (body_migration.rs of the source vault, source_vault_migration.rs of    *)
(* the SQLite adapter, schema 7 to 8).  Every source with an inline body   *)
(* gets a row that is planned, prepared, referenced and retired; the body  *)
(* is sealed into an object between prepared and referenced and leaves     *)
(* SQLite with the step to retired.                                        *)
(*                                                                         *)
(* One migration runs at a time (vault_session::open holds the exclusive   *)
(* lock from open to close).  MigrationFails is any error or a killed      *)
(* process at any step, PowerLoss also takes away what was not synced; the *)
(* migration is then called again and resumes from the rows.  The order of *)
(* the items (by source id) is left open.  The database file being         *)
(* replaced by another one while it is open (verify_identity) is not       *)
(* modelled.                                                               *)
(***************************************************************************)
EXTENDS ObjectDirectory

CONSTANT NoBody

ASSUME NoBodyAssumption == NoBody \notin Sources

VARIABLES
    version,   \* user_version of the database: 7 or 8
    migration, \* source_vault_migration.state
    inline,    \* sources with a row in source_bodies
    art,       \* source_artifacts.deletion_state
    row,       \* source_vault_attempts.state
    tok,       \* source_vault_attempts.attempt_id
    ref,       \* source_vault_references.attempt_id
    used,      \* attempt ids drawn so far
    pc,        \* next step of the running migration
    cur        \* the item it works on

dbVars == <<version, migration, inline, art, row, tok, ref, used>>
migrationVars == <<dirVars, dbVars, pc, cur>>

PublishSteps == {"create", "write", "filesync", "stagesync", "link", "objsync",
                 "unstage", "unstagesync"}
FinishSteps == {"fin_sync", "fin_link", "fin_objsync", "fin_unstage", "fin_stagesync"}
Steps == {"idle", "inventory", "inspect", "next", "prepare", "reference", "readback",
          "retire"} \cup PublishSteps \cup FinishSteps

(* Every variable keeps to its domain, and the tokens of a row are there    *)
(* exactly when it has left the state planned (the CHECK of schema 8).      *)
MigrationTypeOK ==
    /\ DirTypeOK
    /\ version \in {7, 8}
    /\ migration \in {"none", "migrating", "objects_ready"}
    /\ inline \in SUBSET Sources
    /\ art \in [Sources -> {"active", "pending", "failed", "deleted"}]
    /\ row \in [Sources -> {"none", "planned", "prepared", "referenced", "retired"}]
    /\ tok \in [Sources -> Entry]
    /\ ref \in [Sources -> Entry]
    /\ used \in SUBSET Attempts
    /\ pc \in Steps
    /\ cur \in Sources \cup {NoBody}
    /\ \A s \in Sources : row[s] \in {"none", "planned"} <=> tok[s] = NoAttempt

(* A library at the key checkpoint.  Active sources have their body; one    *)
(* whose deletion was begun before may still have a residual body.          *)
MigrationInit ==
    /\ DirInit
    /\ version = 7
    /\ migration = "none"
    /\ art \in [Sources -> {"active", "pending", "failed", "deleted"}]
    /\ inline \in SUBSET Sources
    /\ \A s \in Sources : art[s] = "active" => s \in inline
    /\ row = [s \in Sources |-> "none"]
    /\ tok = [s \in Sources |-> NoAttempt]
    /\ ref = [s \in Sources |-> NoAttempt]
    /\ used = {}
    /\ pc = "idle"
    /\ cur = NoBody

-----------------------------------------------------------------------------
(* Checks.                                                                  *)

(* verify_plaintext_facts: at schema 7 an active source has its body.       *)
VerifyPlaintextFacts == \A s \in Sources : art[s] = "active" => s \in inline

(* verify_structure: the join of artifacts, bodies, rows and references.    *)
VerifyStructure ==
    version = 8 =>
      /\ migration \in {"migrating", "objects_ready"}
      /\ \A s \in Sources :
           /\ row[s] = "none" => s \notin inline /\ art[s] # "active"
           /\ row[s] # "none" =>
                /\ row[s] = "retired" <=> s \notin inline
                /\ row[s] \in {"referenced", "retired"} <=> ref[s] # NoAttempt
                /\ ref[s] # NoAttempt => ref[s] = tok[s]
                /\ migration = "objects_ready" => row[s] = "retired"

Items == {s \in Sources : row[s] # "none"}

(* verify_inventory: every directory entry belongs to an item that has      *)
(* left the state planned.                                                  *)
VerifyInventory ==
    /\ \A a \in stage : \E s \in Items : row[s] # "planned" /\ tok[s] = a
    /\ \A s \in Sources : obj[s] # NoAttempt => row[s] \notin {"none", "planned"}

(* read_reference: the committed reference, not the row, names the object.  *)
ReadReference(s) == ref[s] # NoAttempt /\ Published(s, ref[s])

(* The pass over all items before anything is changed.                      *)
InspectAll ==
    /\ VerifyInventory
    /\ \A s \in Items :
         /\ row[s] # "planned" => Authenticates(s, tok[s])
         /\ row[s] \in {"referenced", "retired"} => ReadReference(s)

-----------------------------------------------------------------------------
(* Opening and the inventory.                                               *)
Goto(step) == pc' = step /\ UNCHANGED cur

(* BodyMigrationDatabase::open, load_existing.  At schema 7 both            *)
(* directories must be empty.                                               *)
StartMigration ==
    /\ pc = "idle"
    /\ version = 7 => VerifyPlaintextFacts /\ stage = {} /\ \A s \in Sources : obj[s] = NoAttempt
    /\ VerifyStructure
    /\ Goto(IF version = 7 THEN "inventory" ELSE "inspect")
    /\ UNCHANGED <<dirVars, dbVars>>

(* initialize_inventory: one transaction.  Every remaining body is planned, *)
(* whatever the state of its source.                                        *)
InitializeInventory ==
    /\ pc = "inventory"
    /\ version' = 8
    /\ migration' = "migrating"
    /\ row' = [s \in Sources |-> IF s \in inline THEN "planned" ELSE "none"]
    /\ Goto("inspect")
    /\ UNCHANGED <<dirVars, inline, art, tok, ref, used>>

Inspect ==
    /\ pc = "inspect"
    /\ InspectAll
    /\ Goto("next")
    /\ UNCHANGED <<dirVars, dbVars>>

(* Mutant: a prepared attempt is always recovered, never sealed again.      *)
NextItemRecovering(s) ==
    /\ pc = "next"
    /\ s \in Items
    /\ row[s] # "retired"
    /\ cur' = s
    /\ pc' = IF row[s] = "planned" THEN "prepare" ELSE "fin_sync"
    /\ UNCHANGED <<dirVars, dbVars>>

(* One turn of the loop: a planned item, or a prepared one of which no file *)
(* exists, is sealed; any other file of the attempt is recovered.           *)
NextItem(s) ==
    /\ pc = "next"
    /\ s \in Items
    /\ row[s] # "retired"
    /\ row[s] = "prepared" => Authenticates(s, tok[s])
    /\ cur' = s
    /\ pc' = IF row[s] = "planned" \/ (row[s] = "prepared" /\ Absent(s, tok[s]))
             THEN "prepare" ELSE "fin_sync"
    /\ UNCHANGED <<dirVars, dbVars>>

(* Bound: attempt ids are fresh random values, here a finite set of them.   *)
PrepareItem(a) ==
    /\ pc = "prepare"
    /\ cur \in inline
    /\ a \notin used
    /\ row[cur] \in {"planned", "prepared"}
    /\ used' = used \cup {a}
    /\ row' = [row EXCEPT ![cur] = "prepared"]
    /\ tok' = [tok EXCEPT ![cur] = a]
    /\ Goto("create")
    /\ UNCHANGED <<dirVars, version, migration, inline, art, ref>>

-----------------------------------------------------------------------------
(* publish_with_operations, one action per step that changes a file.        *)
PublishCreate ==
    /\ pc = "create"
    /\ obj[cur] = NoAttempt
    /\ CreateStaging(tok[cur])
    /\ Goto("write")
    /\ UNCHANGED dbVars

PublishWrite ==
    /\ pc = "write"
    /\ WriteStaging(tok[cur])
    /\ Goto("filesync")
    /\ UNCHANGED dbVars

PublishFileSync ==
    /\ pc = "filesync"
    /\ SyncFile(tok[cur])
    /\ Goto("stagesync")
    /\ UNCHANGED dbVars

PublishStagingSync ==
    /\ pc = "stagesync"
    /\ SyncStaging
    /\ Goto("link")
    /\ UNCHANGED dbVars

PublishLink ==
    /\ pc = "link"
    /\ tok[cur] \in whole
    /\ LinkObject(cur, tok[cur])
    /\ Goto("objsync")
    /\ UNCHANGED dbVars

PublishObjectSync ==
    /\ pc = "objsync"
    /\ SyncObjects
    /\ Goto("unstage")
    /\ UNCHANGED dbVars

PublishRemoveStaging ==
    /\ pc = "unstage"
    /\ Published(cur, tok[cur])
    /\ RemoveStaging(tok[cur])
    /\ Goto("unstagesync")
    /\ UNCHANGED dbVars

PublishCleanupSync ==
    /\ pc = "unstagesync"
    /\ SyncStaging
    /\ Goto("reference")
    /\ UNCHANGED dbVars

-----------------------------------------------------------------------------
(* finish_attempt with publication allowed (recover_attempt): before the    *)
(* reference for a prepared item, before the read back for a referenced one *)
FinishInspect ==
    /\ pc = "fin_sync"
    /\ Authenticates(cur, tok[cur])
    /\ ~Absent(cur, tok[cur])
    /\ SyncFile(tok[cur])
    /\ Goto(IF obj[cur] = NoAttempt THEN "fin_link" ELSE "fin_objsync")
    /\ UNCHANGED dbVars

FinishLink ==
    /\ pc = "fin_link"
    /\ LinkObject(cur, tok[cur])
    /\ Goto("fin_objsync")
    /\ UNCHANGED dbVars

FinishObjectSync ==
    /\ pc = "fin_objsync"
    /\ SyncObjects
    /\ Goto(IF tok[cur] \in stage THEN "fin_unstage" ELSE "fin_stagesync")
    /\ UNCHANGED dbVars

FinishRemoveStaging ==
    /\ pc = "fin_unstage"
    /\ Published(cur, tok[cur])
    /\ RemoveStaging(tok[cur])
    /\ Goto("fin_stagesync")
    /\ UNCHANGED dbVars

FinishStagingSync ==
    /\ pc = "fin_stagesync"
    /\ SyncStaging
    /\ Goto(IF row[cur] = "prepared" THEN "reference" ELSE "readback")
    /\ UNCHANGED dbVars

-----------------------------------------------------------------------------
(* commit_reference: reference and state in one transaction; the attempt is *)
(* then recovered once more.                                                *)
CommitReference ==
    /\ pc = "reference"
    /\ row[cur] = "prepared"
    /\ row' = [row EXCEPT ![cur] = "referenced"]
    /\ ref' = [ref EXCEPT ![cur] = tok[cur]]
    /\ Goto("fin_sync")
    /\ UNCHANGED <<dirVars, version, migration, inline, art, tok, used>>

ReadBack ==
    /\ pc = "readback"
    /\ ReadReference(cur)
    /\ Goto("retire")
    /\ UNCHANGED <<dirVars, dbVars>>

(* Mutant: the checkpoint commits without the removal of the inline body.   *)
RetireInlineSplit ==
    /\ pc = "retire"
    /\ ReadReference(cur)
    /\ row[cur] = "referenced"
    /\ row' = [row EXCEPT ![cur] = "retired"]
    /\ pc' = "next"
    /\ cur' = NoBody
    /\ UNCHANGED <<dirVars, version, migration, inline, art, tok, ref, used>>

(* retire_inline, after the reference has been read once more: the state    *)
(* and the removal of the inline body commit together.                      *)
RetireInline ==
    /\ pc = "retire"
    /\ ReadReference(cur)
    /\ row[cur] = "referenced"
    /\ cur \in inline
    /\ row' = [row EXCEPT ![cur] = "retired"]
    /\ inline' = inline \ {cur}
    /\ pc' = "next"
    /\ cur' = NoBody
    /\ UNCHANGED <<dirVars, version, migration, art, tok, ref, used>>

(* Mutant: the migration is finished while an item is still referenced.     *)
FinishMigrationEarly ==
    /\ pc = "next"
    /\ \A s \in Items : row[s] \in {"referenced", "retired"}
    /\ \A s \in Items : ReadReference(s)
    /\ migration' = "objects_ready"
    /\ pc' = "idle"
    /\ UNCHANGED <<dirVars, version, inline, art, row, tok, ref, used, cur>>

(* The last verification and finish().                                      *)
FinishMigration ==
    /\ pc = "next"
    /\ \A s \in Items : row[s] = "retired"
    /\ VerifyInventory
    /\ \A s \in Items : ReadReference(s)
    /\ VerifyStructure
    /\ migration' = "objects_ready"
    /\ Goto("idle")
    /\ UNCHANGED <<dirVars, version, inline, art, row, tok, ref, used>>

-----------------------------------------------------------------------------
(* Failures.                                                                *)
MigrationFails ==
    /\ pc # "idle"
    /\ pc' = "idle"
    /\ cur' = NoBody
    /\ UNCHANGED <<dirVars, dbVars>>

PowerLoss ==
    /\ DirPowerLoss
    /\ pc' = "idle"
    /\ cur' = NoBody
    /\ UNCHANGED dbVars

Advance ==
    \/ InitializeInventory \/ Inspect
    \/ \E s \in Sources : NextItem(s)
    \/ \E a \in Attempts : PrepareItem(a)
    \/ PublishCreate \/ PublishWrite \/ PublishFileSync \/ PublishStagingSync
    \/ PublishLink \/ PublishObjectSync \/ PublishRemoveStaging \/ PublishCleanupSync
    \/ FinishInspect \/ FinishLink \/ FinishObjectSync \/ FinishRemoveStaging
    \/ FinishStagingSync
    \/ CommitReference \/ ReadBack \/ RetireInline \/ FinishMigration

MigrationNext == StartMigration \/ Advance \/ MigrationFails \/ PowerLoss

MigrationSpec == MigrationInit /\ [][MigrationNext]_migrationVars

(* The user calls the migration again after a failure, and a call that is   *)
(* not interrupted runs on; failures stop eventually.                       *)
LiveSpec ==
    /\ MigrationSpec
    /\ WF_migrationVars(migration # "objects_ready" /\ StartMigration)
    /\ WF_migrationVars(Advance)
    /\ <>[][~(MigrationFails \/ PowerLoss)]_migrationVars

-----------------------------------------------------------------------------
(* Properties.                                                              *)

Durable(s) == objDisk[s] = ref[s] /\ ref[s] \in wholeDisk

(* A torn staging file of a prepared item: the one thing no call can repair *)
Torn == \E s \in Sources : row[s] = "prepared" /\ tok[s] \in stage \ whole

(* A body never has no home: what was inline when the library entered the   *)
(* migration is still inline, or it is in an object whose name and bytes    *)
(* would survive a loss of power at this very moment.                       *)
NoBodyLost ==
    \A s \in Items : s \in inline \/ (ref[s] # NoAttempt /\ Durable(s))

(* An interrupted migration can always be called again: whatever step it    *)
(* stopped at, the checks of the next call accept rows and files, unless a  *)
(* staging file was torn.                                                   *)
ResumeAccepted ==
    pc = "idle" /\ ~Torn =>
        /\ VerifyStructure
        /\ version = 7 => stage = {} /\ \A s \in Sources : obj[s] = NoAttempt
        /\ version = 8 => InspectAll

(* A file that does not authenticate is always a staging file of a prepared *)
(* item: its inline body is still there, and no reference names it.         *)
TornFileIsPrepared ==
    /\ stage \subseteq whole \/ Torn
    /\ \A s \in Sources : obj[s] # NoAttempt => obj[s] = tok[s] /\ obj[s] \in whole

(* A prepared attempt is given up for a new one only when no file of it     *)
(* would be left behind: a file nobody names makes every later call refuse. *)
NoFileOrphaned ==
    [][\A s \in Sources : tok[s] # NoAttempt /\ tok'[s] # tok[s] =>
          tok[s] \notin stage /\ obj[s] = NoAttempt]_migrationVars

(* What a reader of the migrating library can rely on.                      *)
home == [s \in Sources |->
           IF s \in inline THEN (IF ref[s] # NoAttempt THEN "both" ELSE "inline")
           ELSE (IF ref[s] # NoAttempt THEN "object" ELSE "nowhere")]

Home == INSTANCE BodyHome WITH home <- home, ready <- migration = "objects_ready"

(* The migration implements BodyHome: step by step, through every failure,  *)
(* a body only moves inline, both, object, and readiness comes last.        *)
MovesEveryBody == Home!HomeSpec

(* Once failures stop, the migration completes unless a staging file was    *)
(* torn or the bound on attempts is reached.                                *)
MigrationCompletes == <>(migration = "objects_ready" \/ Torn \/ used = Attempts)
=============================================================================
