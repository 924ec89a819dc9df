----------------------------- MODULE KeyBootstrap -----------------------------
(***************************************************************************)
(* The library key: how it is first made and how every later session finds *)
(* it again (bootstrap.rs and provider.rs of the source vault,             *)
(* source_vault_key.rs and vault_session.rs of the SQLite adapter).        *)
(*                                                                         *)
(* The key lives in the key store of the operating system, in a slot named *)
(* by the namespace and the device; the library lives in a directory with  *)
(* a database and objects.  There is no common transaction: initialization *)
(* holds the SQLite writer lock, makes sure that neither the database nor  *)
(* the directory knows of a key, writes the slot and then commits the      *)
(* checkpoint (schema 7).  Every call of the key store is a step of its    *)
(* own.  Several processes may run; Fail is an error or a killed process,  *)
(* which rolls the transaction back and leaves the key store as it is.     *)
(*                                                                         *)
(* Outside the program, slots may be emptied, replaced by another valid    *)
(* key (a restored key store) or lose their label, and the database file   *)
(* may be lost or restored from before the checkpoint while no session is  *)
(* open.  A session that seals bodies (migration, capture) is abstracted   *)
(* to what it does with the key.                                           *)
(***************************************************************************)
EXTENDS Naturals

CONSTANTS Hosts,       \* processes
          Profiles,    \* a namespace and a device: one key store slot each
          Profile,     \* the profile each process runs under
          Keys,        \* key values
          NoKey,       \* an empty slot
          NoHost,
          NoProfile,
          MaxFails,    \* bound: failed or killed calls
          MaxFaults    \* bound: changes from outside the program

ASSUME HostAssumption ==
    /\ NoHost \notin Hosts
    /\ NoProfile \notin Profiles
    /\ NoKey \notin Keys
    /\ Profile \in [Hosts -> Profiles]
    /\ MaxFails \in Nat
    /\ MaxFaults \in Nat

VARIABLES
    version,   \* user_version of the database: 0, 6, 7 (checkpoint) or 8
    profile,   \* the row of source_vault_key_profile
    sealed,    \* keys under which objects in the directory are sealed
    secret,    \* value of each slot
    label,     \* slots that carry the label
    writer,    \* the process that holds the SQLite lock
    pc,        \* next step of each process
    task,      \* what it loads the key for
    want,      \* bootstrap: the value it expects in the slot
    got,       \* load_existing: the value of the first read
    drawn,     \* key values drawn at random so far
    fails,
    faults

library == <<version, profile, sealed>>
keyStore == <<secret, label>>
vars == <<library, keyStore, writer, pc, task, want, got, drawn, fails, faults>>

Slot == Keys \cup {NoKey}
Steps == {"idle", "inspect", "boot_read", "boot_draw", "boot_check", "boot_set",
          "boot_verify", "boot_label", "read1", "read2", "boot_final", "commit", "seal"}

(* Every variable keeps to its domain, and the checkpoint row is there      *)
(* exactly from schema 7 on.                                                *)
TypeOK ==
    /\ version \in {0, 6, 7, 8}
    /\ profile \in Profiles \cup {NoProfile}
    /\ sealed \in SUBSET Keys
    /\ secret \in [Profiles -> Slot]
    /\ label \in SUBSET Profiles
    /\ writer \in Hosts \cup {NoHost}
    /\ pc \in [Hosts -> Steps]
    /\ task \in [Hosts -> {"none", "load", "boot", "seal"}]
    /\ want \in [Hosts -> Slot]
    /\ got \in [Hosts -> Slot]
    /\ drawn \in SUBSET Keys
    /\ fails \in 0..MaxFails
    /\ faults \in 0..MaxFaults
    /\ profile # NoProfile <=> version >= 7

(* A new library, or one of schema 6 with plaintext bodies.                 *)
Init ==
    /\ version \in {0, 6}
    /\ profile = NoProfile
    /\ sealed = {}
    /\ secret = [p \in Profiles |-> NoKey]
    /\ label = {}
    /\ writer = NoHost
    /\ pc = [h \in Hosts |-> "idle"]
    /\ task = [h \in Hosts |-> "none"]
    /\ want = [h \in Hosts |-> NoKey]
    /\ got = [h \in Hosts |-> NoKey]
    /\ drawn = {}
    /\ fails = 0
    /\ faults = 0

Secret(h) == secret[Profile[h]]
Labelled(h) == Profile[h] \in label
Goto(h, step) == pc' = [pc EXCEPT ![h] = step]

(* The call of h ends and its transaction or session is closed.             *)
Close(h) ==
    /\ writer' = NoHost
    /\ pc' = [pc EXCEPT ![h] = "idle"]
    /\ task' = [task EXCEPT ![h] = "none"]
    /\ want' = [want EXCEPT ![h] = NoKey]
    /\ got' = [got EXCEPT ![h] = NoKey]

-----------------------------------------------------------------------------
(* Mutant: the writer lock is not taken before the facts are read.          *)
BeginInitializationUnlocked(h) ==
    /\ pc[h] = "idle"
    /\ version \in {0, 6, 7}
    /\ version = 7 => profile = Profile[h]
    /\ Goto(h, "inspect")
    /\ UNCHANGED <<library, keyStore, writer, task, want, got, drawn, fails, faults>>

(* begin_key_initialization: the writer lock, a known schema version, and   *)
(* at the checkpoint exactly the profile of this process.                   *)
BeginInitialization(h) ==
    /\ pc[h] = "idle"
    /\ writer = NoHost
    /\ version \in {0, 6, 7}
    /\ version = 7 => profile = Profile[h]
    /\ writer' = h
    /\ Goto(h, "inspect")
    /\ UNCHANGED <<library, keyStore, task, want, got, drawn, fails, faults>>

(* initialize_in_database: a checkpoint or any entry in the directory is    *)
(* evidence of an existing key, which may then only be loaded.              *)
Inspect(h) ==
    /\ pc[h] = "inspect"
    /\ LET known == version = 7 \/ sealed # {}
       IN /\ task' = [task EXCEPT ![h] = IF known THEN "load" ELSE "boot"]
          /\ Goto(h, IF known THEN "read1" ELSE "boot_read")
    /\ UNCHANGED <<library, keyStore, writer, want, got, drawn, fails, faults>>

(* Mutant: an existing value is not adopted but refused.                    *)
BootReadRefusing(h) ==
    /\ pc[h] = "boot_read"
    /\ Secret(h) = NoKey
    /\ Goto(h, "boot_draw")
    /\ UNCHANGED <<library, keyStore, writer, task, want, got, drawn, fails, faults>>

(* bootstrap: a valid value that is already there is adopted.               *)
BootRead(h) ==
    /\ pc[h] = "boot_read"
    /\ want' = [want EXCEPT ![h] = Secret(h)]
    /\ Goto(h, IF Secret(h) = NoKey THEN "boot_draw" ELSE "boot_verify")
    /\ UNCHANGED <<library, keyStore, writer, task, got, drawn, fails, faults>>

(* Draw a key, then read the slot once more.                                *)
BootDraw(h) ==
    /\ pc[h] = "boot_draw"
    /\ \/ /\ Secret(h) # NoKey
          /\ want' = [want EXCEPT ![h] = Secret(h)]
          /\ Goto(h, "boot_verify")
          /\ UNCHANGED drawn
       \/ /\ Secret(h) = NoKey
          /\ \E k \in Keys \ drawn :
               /\ want' = [want EXCEPT ![h] = k]
               /\ drawn' = drawn \cup {k}
          /\ Goto(h, "boot_check")
    /\ UNCHANGED <<library, keyStore, writer, task, got, fails, faults>>

(* write_secret: refuse a slot that has been filled meanwhile ...           *)
WriteSecretCheck(h) ==
    /\ pc[h] = "boot_check"
    /\ Secret(h) = NoKey
    /\ Goto(h, "boot_set")
    /\ UNCHANGED <<library, keyStore, writer, task, want, got, drawn, fails, faults>>

(* ... and set it.  The key store itself replaces whatever is there.        *)
WriteSecret(h) ==
    /\ pc[h] = "boot_set"
    /\ secret' = [secret EXCEPT ![Profile[h]] = want[h]]
    /\ Goto(h, "boot_verify")
    /\ UNCHANGED <<library, label, writer, task, want, got, drawn, fails, faults>>

BootVerify(h) ==
    /\ pc[h] = "boot_verify"
    /\ Secret(h) = want[h]
    /\ Goto(h, "boot_label")
    /\ UNCHANGED <<library, keyStore, writer, task, want, got, drawn, fails, faults>>

(* The label is set when it is missing; an empty slot is an error.          *)
SetLabel(h) ==
    /\ pc[h] = "boot_label"
    /\ Secret(h) # NoKey
    /\ label' = label \cup {Profile[h]}
    /\ Goto(h, "read1")
    /\ UNCHANGED <<library, secret, writer, task, want, got, drawn, fails, faults>>

-----------------------------------------------------------------------------
(* load_existing: two reads that agree, each followed by the label.         *)
LoadFirst(h) ==
    /\ pc[h] = "read1"
    /\ Secret(h) # NoKey
    /\ Labelled(h)
    /\ got' = [got EXCEPT ![h] = Secret(h)]
    /\ Goto(h, "read2")
    /\ UNCHANGED <<library, keyStore, writer, task, want, drawn, fails, faults>>

LoadSecond(h) ==
    /\ pc[h] = "read2"
    /\ Secret(h) = got[h]
    /\ Labelled(h)
    /\ Goto(h, CASE task[h] = "boot" -> "boot_final"
                 [] task[h] = "load" -> "commit"
                 [] task[h] = "seal" -> "seal")
    /\ UNCHANGED <<library, keyStore, writer, task, want, got, drawn, fails, faults>>

BootFinal(h) ==
    /\ pc[h] = "boot_final"
    /\ Secret(h) = want[h]
    /\ Goto(h, "commit")
    /\ UNCHANGED <<library, keyStore, writer, task, want, got, drawn, fails, faults>>

(* The directory is still empty; commit records the checkpoint.             *)
CommitCheckpoint(h) ==
    /\ pc[h] = "commit"
    /\ sealed = {}
    /\ version' = IF version = 7 THEN version ELSE 7
    /\ profile' = IF version = 7 THEN profile ELSE Profile[h]
    /\ Close(h)
    /\ UNCHANGED <<sealed, keyStore, drawn, fails, faults>>

-----------------------------------------------------------------------------
(* A session that seals bodies: vault_session::open compares the profile,   *)
(* the key is only loaded.                                                  *)
OpenVaultSession(h) ==
    /\ pc[h] = "idle"
    /\ writer = NoHost
    /\ version \in {7, 8}
    /\ profile = Profile[h]
    /\ writer' = h
    /\ task' = [task EXCEPT ![h] = "seal"]
    /\ Goto(h, "read1")
    /\ UNCHANGED <<library, keyStore, want, got, drawn, fails, faults>>

(* Mutant: existing objects are not authenticated first.                    *)
SealBodiesUnchecked(h) ==
    /\ pc[h] = "seal"
    /\ version' = 8
    /\ sealed' \in {sealed, sealed \cup {got[h]}}
    /\ Close(h)
    /\ UNCHANGED <<profile, keyStore, drawn, fails, faults>>

(* Before the inventory the directory must be empty, afterwards every       *)
(* object must authenticate under the loaded key; then bodies are sealed,   *)
(* if there are any.                                                        *)
SealBodies(h) ==
    /\ pc[h] = "seal"
    /\ IF version = 7 THEN sealed = {} ELSE sealed \subseteq {got[h]}
    /\ version' = 8
    /\ sealed' \in {sealed, sealed \cup {got[h]}}
    /\ Close(h)
    /\ UNCHANGED <<profile, keyStore, drawn, fails, faults>>

(* The call ends with an error, or the process is killed.                   *)
Fail(h) ==
    /\ pc[h] # "idle"
    /\ fails < MaxFails
    /\ fails' = fails + 1
    /\ Close(h)
    /\ UNCHANGED <<library, keyStore, drawn, faults>>

(* A step's check refuses: the call ends without a failure of its own.      *)
Refuse(h) ==
    /\ \/ pc[h] = "boot_check" /\ Secret(h) # NoKey
       \/ pc[h] \in {"boot_verify", "boot_final"} /\ Secret(h) # want[h]
       \/ pc[h] = "boot_label" /\ Secret(h) = NoKey
       \/ pc[h] = "read1" /\ (Secret(h) = NoKey \/ ~Labelled(h))
       \/ pc[h] = "read2" /\ (Secret(h) # got[h] \/ ~Labelled(h))
       \/ pc[h] = "commit" /\ sealed # {}
       \/ pc[h] = "seal" /\ ~(IF version = 7 THEN sealed = {} ELSE sealed \subseteq {got[h]})
    /\ Close(h)
    /\ UNCHANGED <<library, keyStore, drawn, fails, faults>>

-----------------------------------------------------------------------------
(* Changes from outside.                                                    *)
Fault == faults < MaxFaults /\ faults' = faults + 1

SecretChanges(p) ==
    /\ Fault
    /\ \E k \in Slot \ {secret[p]} : secret' = [secret EXCEPT ![p] = k]
    /\ label' \in {label, label \ {p}}
    /\ UNCHANGED <<library, writer, pc, task, want, got, drawn, fails>>

DatabaseLost ==
    /\ Fault
    /\ writer = NoHost
    /\ version' \in {0, 6}
    /\ profile' = NoProfile
    /\ UNCHANGED <<sealed, keyStore, writer, pc, task, want, got, drawn, fails>>

Initialize(h) ==
    \/ BeginInitialization(h) \/ Inspect(h)
    \/ BootRead(h) \/ BootDraw(h) \/ WriteSecretCheck(h) \/ WriteSecret(h)
    \/ BootVerify(h) \/ SetLabel(h) \/ BootFinal(h)
    \/ LoadFirst(h) \/ LoadSecond(h) \/ CommitCheckpoint(h) \/ Refuse(h)

Seal(h) == OpenVaultSession(h) \/ SealBodies(h)

Next ==
    \/ \E h \in Hosts : Initialize(h) \/ Seal(h) \/ Fail(h)
    \/ \E p \in Profiles : SecretChanges(p)
    \/ DatabaseLost

Spec == Init /\ [][Next]_vars

(* Each process calls the initialization again until the library has its    *)
(* checkpoint, and a call that was begun runs on.                           *)
LiveSpec == Spec /\ \A h \in Hosts : WF_vars(Initialize(h)) /\ WF_vars(SealBodies(h))

-----------------------------------------------------------------------------
(* Properties.                                                              *)

(* All bodies in the directory are sealed under one key, whatever happens   *)
(* to the key store and to the database file: a second key beside existing  *)
(* objects would make one of the two sets unreadable for every session.     *)
ObjectsShareOneKey == \A j, k \in sealed : j = k

(* A checkpoint promises a key: while nothing outside has interfered, the   *)
(* slot of the checkpoint's profile holds a labelled key, and the objects   *)
(* are sealed under that one.                                               *)
CheckpointHasKey ==
    faults = 0 /\ version >= 7 =>
        /\ secret[profile] # NoKey
        /\ profile \in label
        /\ sealed \subseteq {secret[profile]}

(* One key: it seals every body, and the checkpoint leads to it.            *)
OneKey == TypeOK /\ ObjectsShareOneKey /\ CheckpointHasKey

(* The program never replaces a key: a slot that holds one keeps it through *)
(* every interleaving and crash of initializations, unless it is changed    *)
(* from outside.                                                            *)
KeyNeverReplaced ==
    [][faults' = 0 => \A p \in Profiles : secret[p] # NoKey => secret'[p] = secret[p]]_vars

(* A process killed between writing the key and committing the checkpoint   *)
(* does not lock the library out: it still gets its checkpoint.             *)
CheckpointReached == <>(version >= 7 \/ faults > 0)
=============================================================================
