--------------------------- MODULE ObjectDirectory ---------------------------
(***************************************************************************)
(* The encrypted object directory of the source vault                      *)
(* (crates/radishmemory-source-vault/src/filesystem*.rs).                  *)
(*                                                                         *)
(* A sealed body of a source is an inode identified by its attempt (the    *)
(* hash of the locator and the random stream nonce).  It may have two      *)
(* names: `locator.attempt.stage` in the staging directory and             *)
(* `locator.rmo` in the objects directory.  The locator is a function of   *)
(* the source, so the objects directory is a function from sources.        *)
(*                                                                         *)
(* Every directory has the view the running system sees and the entries    *)
(* that are on the disk; only sync_all on the directory makes the two      *)
(* equal, and a loss of power may keep or lose any entry on which they     *)
(* differ.  Likewise a written file is complete on the disk only after     *)
(* sync_all on it.  The bytes, the envelope codec and the cipher are       *)
(* abstracted to "complete" or "torn": an inode that is not complete does  *)
(* not authenticate (envelope::decode, open_object).                       *)
(***************************************************************************)
CONSTANTS Sources,     \* source identifiers; the locator is a function of the source
          Attempts,    \* attempt identifiers: one fresh one per seal
          NoAttempt    \* "no directory entry"

ASSUME NoAttemptAssumption == NoAttempt \notin Attempts

VARIABLES stage,       \* attempts with an entry in the staging directory
          stageDisk,   \* the same, on the disk
          obj,         \* the attempt linked under the name of each source in objects
          objDisk,     \* the same, on the disk
          whole,       \* attempts whose file holds the complete envelope
          wholeDisk    \* the same, on the disk

dirVars == <<stage, stageDisk, obj, objDisk, whole, wholeDisk>>

Entry == Attempts \cup {NoAttempt}

DirTypeOK ==
    /\ stage \in SUBSET Attempts
    /\ stageDisk \in SUBSET Attempts
    /\ obj \in [Sources -> Entry]
    /\ objDisk \in [Sources -> Entry]
    /\ whole \in SUBSET Attempts
    /\ wholeDisk \in SUBSET Attempts

DirInit ==
    /\ stage = {}
    /\ stageDisk = {}
    /\ obj = [s \in Sources |-> NoAttempt]
    /\ objDisk = [s \in Sources |-> NoAttempt]
    /\ whole = {}
    /\ wholeDisk = {}

-----------------------------------------------------------------------------
(* What inspect_attempt reports for the two exact paths of attempt a of     *)
(* source s.  Any path that is present must authenticate as this attempt,   *)
(* otherwise the inspection itself is an error.                             *)

Authenticates(s, a) ==
    /\ a \in stage => a \in whole
    /\ obj[s] # NoAttempt => obj[s] = a /\ a \in whole

Absent(s, a) == a \notin stage /\ obj[s] = NoAttempt

Published(s, a) == Authenticates(s, a) /\ obj[s] = a

-----------------------------------------------------------------------------
(* The file operations, one per step of publish, recovery and retirement.   *)

CreateStaging(a) ==
    /\ a \notin stage
    /\ stage' = stage \cup {a}
    /\ whole' = whole \ {a}
    /\ UNCHANGED <<stageDisk, obj, objDisk, wholeDisk>>

WriteStaging(a) ==
    /\ whole' = whole \cup {a}
    /\ UNCHANGED <<stage, stageDisk, obj, objDisk, wholeDisk>>

SyncFile(a) ==
    /\ wholeDisk' = wholeDisk \cup {a}
    /\ UNCHANGED <<stage, stageDisk, obj, objDisk, whole>>

(* Mutant: the directory is not synced.                                     *)
SyncOmitted == UNCHANGED dirVars

SyncStaging ==
    /\ stageDisk' = stage
    /\ UNCHANGED <<stage, obj, objDisk, whole, wholeDisk>>

SyncObjects ==
    /\ objDisk' = obj
    /\ UNCHANGED <<stage, stageDisk, obj, whole, wholeDisk>>

(* hard_link never replaces an existing name.                               *)
LinkObject(s, a) ==
    /\ a \in stage
    /\ obj[s] = NoAttempt
    /\ obj' = [obj EXCEPT ![s] = a]
    /\ UNCHANGED <<stage, stageDisk, objDisk, whole, wholeDisk>>

RemoveStaging(a) ==
    /\ stage' = stage \ {a}
    /\ UNCHANGED <<stageDisk, obj, objDisk, whole, wholeDisk>>

RemoveObject(s) ==
    /\ obj' = [obj EXCEPT ![s] = NoAttempt]
    /\ UNCHANGED <<stage, stageDisk, objDisk, whole, wholeDisk>>

(* Power is lost.  An entry on which the view and the disk agree survives   *)
(* as it is, any other may go either way; a file that was not synced may be *)
(* complete or torn.  What is found afterwards is what the disk holds.      *)
DirPowerLoss ==
    \E kept \in SUBSET ((stage \ stageDisk) \cup (stageDisk \ stage)),
       back \in SUBSET {s \in Sources : obj[s] # objDisk[s]},
       torn \in SUBSET (whole \ wholeDisk) :
        /\ stage' = (stage \cap stageDisk) \cup kept
        /\ obj' = [s \in Sources |-> IF s \in back THEN objDisk[s] ELSE obj[s]]
        /\ whole' = whole \ torn
        /\ stageDisk' = stage'
        /\ objDisk' = obj'
        /\ wholeDisk' = whole'
=============================================================================
