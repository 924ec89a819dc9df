------------------------- MODULE KeyBootstrapProofs -------------------------
(***************************************************************************)
(* What the initialization of the library key promises, proved for any     *)
(* processes, devices and keys, any number of failures and any changes     *)
(* from outside.                                                           *)
(*                                                                         *)
(* The key store has no transaction, and its write replaces whatever is in *)
(* the slot.  That no key is ever replaced, and that a checkpoint leads to *)
(* the key of the bodies, rests on what was read in earlier steps and has  *)
(* stayed true under the lock; as far as the key store is concerned, only  *)
(* while nothing outside the program has interfered.                       *)
(*                                                                         *)
(* The second part is about SchemaMigration (Sch), whose processes open    *)
(* the file the bootstrap starts from: the invariant SchemaInv and the     *)
(* theorems about the version of the file.                                 *)
(***************************************************************************)
EXTENDS KeyBootstrap, TLAPS

BootSteps == {"boot_read", "boot_draw", "boot_check", "boot_set", "boot_verify",
              "boot_label", "boot_final"}
Loaded == {"read2", "boot_final", "commit", "seal"}

(* The writer lock is held by exactly the process that has a call running.  *)
Locked == \A h \in Hosts : pc[h] # "idle" <=> writer = h

(* What a running call has found in the database and in the directory, and  *)
(* the key value that it carries.                                           *)
Found(h) ==
    /\ pc[h] = "idle" => task[h] = "none"
    /\ pc[h] = "inspect" => version # 8
    /\ pc[h] \in BootSteps => task[h] = "boot"
    /\ pc[h] \in {"read1", "read2"} => task[h] \in {"boot", "load", "seal"}
    /\ pc[h] = "commit" => task[h] \in {"boot", "load"}
    /\ pc[h] = "seal" => task[h] = "seal"
    /\ task[h] = "boot" => version \in {0, 6}
    /\ task[h] = "load" => version # 8
    /\ task[h] = "seal" => version \in {7, 8} /\ profile = Profile[h]
    /\ pc[h] \in {"boot_check", "boot_set"} => want[h] # NoKey
    /\ pc[h] \in Loaded => got[h] # NoKey

(* While nothing outside has interfered: what a running call has read of    *)
(* its slot is still there, and nothing is sealed before schema 8.          *)
Undisturbed ==
    faults = 0 =>
        /\ version # 8 => sealed = {}
        /\ \A h \in Hosts :
             /\ pc[h] = "boot_set" => Secret(h) = NoKey
             /\ pc[h] \in Loaded => Secret(h) = got[h] /\ Labelled(h)

Inv ==
    /\ TypeOK
    /\ Locked
    /\ \A h \in Hosts : Found(h)
    /\ Undisturbed
    /\ ObjectsShareOneKey
    /\ CheckpointHasKey

-----------------------------------------------------------------------------
(* A process with a running call is the only one.                           *)
LEMMA OneCall ==
    ASSUME Inv, NEW h \in Hosts, pc[h] # "idle"
    PROVE  /\ writer = h
           /\ \A g \in Hosts : g # h => pc[g] = "idle" /\ task[g] = "none"
BY DEF Inv, Locked, Found

LEMMA InvInit == Init => Inv
BY HostAssumption DEF Init, Inv, TypeOK, Locked, Found, Undisturbed, ObjectsShareOneKey,
   CheckpointHasKey, BootSteps, Loaded, Slot, Steps

(* A call that ends leaves nothing of itself.                               *)
LEMMA EndInv ==
    ASSUME Inv, NEW h \in Hosts, Fail(h) \/ Refuse(h)
    PROVE  Inv'
<1>1. /\ Close(h)
      /\ UNCHANGED <<library, keyStore, drawn, faults>>
      /\ fails' \in 0..MaxFails
      /\ pc[h] # "idle"
  BY HostAssumption DEF Fail, Refuse, Inv, TypeOK
<1>2. TypeOK'
  BY <1>1, HostAssumption DEF Inv, TypeOK, Close, library, keyStore, Slot, Steps
<1>3. Locked'
  BY <1>1, OneCall, HostAssumption DEF Inv, TypeOK, Locked, Close
<1>4. ASSUME NEW g \in Hosts PROVE Found(g)'
  BY <1>1, <1>4, OneCall DEF Inv, TypeOK, Found, Close, library, BootSteps, Loaded
<1>5. Undisturbed'
  BY <1>1, OneCall
     DEF Inv, TypeOK, Undisturbed, Close, library, keyStore, Loaded, Secret, Labelled
<1>6. ObjectsShareOneKey' /\ CheckpointHasKey'
  BY <1>1 DEF Inv, ObjectsShareOneKey, CheckpointHasKey, library, keyStore
<1>7. QED  BY <1>2, <1>3, <1>4, <1>5, <1>6 DEF Inv

(* The lock is taken: no call runs, and no slot is looked at yet.           *)
LEMMA BeginInitializationInv == ASSUME Inv, NEW h \in Hosts, BeginInitialization(h) PROVE Inv'
<1>1. TypeOK'
  BY HostAssumption
     DEF Inv, TypeOK, Found, Loaded, BootSteps, BeginInitialization, Goto, Secret, library,
         keyStore, Slot, Steps
<1>2. Locked'
  BY OneCall, HostAssumption DEF Inv, TypeOK, Locked, BeginInitialization, Goto
<1>3. ASSUME NEW g \in Hosts PROVE Found(g)'
  BY <1>3, OneCall, HostAssumption
     DEF Inv, TypeOK, Found, BeginInitialization, Goto, Secret, library, keyStore, BootSteps,
         Loaded, Slot
<1>4. Undisturbed'
  BY OneCall, HostAssumption
     DEF Inv, TypeOK, Found, Undisturbed, BeginInitialization, Goto, library, keyStore,
         BootSteps, Loaded, Secret, Labelled
<1>5. ObjectsShareOneKey' /\ CheckpointHasKey'
  BY HostAssumption
     DEF Inv, TypeOK, Found, Undisturbed, ObjectsShareOneKey, CheckpointHasKey,
         BeginInitialization, library, keyStore, Loaded, BootSteps, Secret, Labelled
<1>6. QED  BY <1>1, <1>2, <1>3, <1>4, <1>5 DEF Inv

(* Only without a checkpoint and without objects is a key made.             *)
LEMMA InspectInv == ASSUME Inv, NEW h \in Hosts, Inspect(h) PROVE Inv'
<1>1. TypeOK'
  BY HostAssumption
     DEF Inv, TypeOK, Found, Loaded, BootSteps, Inspect, Goto, Secret, library, keyStore,
         Slot, Steps
<1>2. Locked'
  BY OneCall, HostAssumption DEF Inv, TypeOK, Locked, Inspect, Goto
<1>3. ASSUME NEW g \in Hosts PROVE Found(g)'
  BY <1>3, OneCall, HostAssumption
     DEF Inv, TypeOK, Found, Inspect, Goto, Secret, library, keyStore, BootSteps, Loaded, Slot
<1>4. Undisturbed'
  BY OneCall, HostAssumption
     DEF Inv, TypeOK, Found, Undisturbed, Inspect, Goto, library, keyStore, BootSteps, Loaded,
         Secret, Labelled
<1>5. ObjectsShareOneKey' /\ CheckpointHasKey'
  BY HostAssumption
     DEF Inv, TypeOK, Found, Undisturbed, ObjectsShareOneKey, CheckpointHasKey, Inspect,
         library, keyStore, Loaded, BootSteps, Secret, Labelled
<1>6. QED  BY <1>1, <1>2, <1>3, <1>4, <1>5 DEF Inv

LEMMA BootReadInv == ASSUME Inv, NEW h \in Hosts, BootRead(h) PROVE Inv'
<1>1. TypeOK'
  BY HostAssumption
     DEF Inv, TypeOK, Found, Loaded, BootSteps, BootRead, Goto, Secret, library, keyStore,
         Slot, Steps
<1>2. Locked'
  BY OneCall, HostAssumption DEF Inv, TypeOK, Locked, BootRead, Goto
<1>3. ASSUME NEW g \in Hosts PROVE Found(g)'
  BY <1>3, OneCall, HostAssumption
     DEF Inv, TypeOK, Found, BootRead, Goto, Secret, library, keyStore, BootSteps, Loaded, Slot
<1>4. Undisturbed'
  BY OneCall, HostAssumption
     DEF Inv, TypeOK, Found, Undisturbed, BootRead, Goto, library, keyStore, BootSteps,
         Loaded, Secret, Labelled
<1>5. ObjectsShareOneKey' /\ CheckpointHasKey'
  BY HostAssumption
     DEF Inv, TypeOK, Found, Undisturbed, ObjectsShareOneKey, CheckpointHasKey, BootRead,
         library, keyStore, Loaded, BootSteps, Secret, Labelled
<1>6. QED  BY <1>1, <1>2, <1>3, <1>4, <1>5 DEF Inv

LEMMA BootDrawInv == ASSUME Inv, NEW h \in Hosts, BootDraw(h) PROVE Inv'
<1>1. TypeOK'
  BY HostAssumption
     DEF Inv, TypeOK, Found, Loaded, BootSteps, BootDraw, Goto, Secret, library, keyStore,
         Slot, Steps
<1>2. Locked'
  BY OneCall, HostAssumption DEF Inv, TypeOK, Locked, BootDraw, Goto
<1>3. ASSUME NEW g \in Hosts PROVE Found(g)'
  BY <1>3, OneCall, HostAssumption
     DEF Inv, TypeOK, Found, BootDraw, Goto, Secret, library, keyStore, BootSteps, Loaded, Slot
<1>4. Undisturbed'
  BY OneCall, HostAssumption
     DEF Inv, TypeOK, Found, Undisturbed, BootDraw, Goto, library, keyStore, BootSteps,
         Loaded, Secret, Labelled
<1>5. ObjectsShareOneKey' /\ CheckpointHasKey'
  BY HostAssumption
     DEF Inv, TypeOK, Found, Undisturbed, ObjectsShareOneKey, CheckpointHasKey, BootDraw,
         library, keyStore, Loaded, BootSteps, Secret, Labelled
<1>6. QED  BY <1>1, <1>2, <1>3, <1>4, <1>5 DEF Inv

(* The slot is empty when it is looked at, and stays so under the lock.     *)
LEMMA WriteSecretCheckInv == ASSUME Inv, NEW h \in Hosts, WriteSecretCheck(h) PROVE Inv'
<1>1. TypeOK'
  BY HostAssumption
     DEF Inv, TypeOK, Found, Loaded, BootSteps, WriteSecretCheck, Goto, Secret, library,
         keyStore, Slot, Steps
<1>2. Locked'
  BY OneCall, HostAssumption DEF Inv, TypeOK, Locked, WriteSecretCheck, Goto
<1>3. ASSUME NEW g \in Hosts PROVE Found(g)'
  BY <1>3, OneCall, HostAssumption
     DEF Inv, TypeOK, Found, WriteSecretCheck, Goto, Secret, library, keyStore, BootSteps,
         Loaded, Slot
<1>4. Undisturbed'
  BY OneCall, HostAssumption
     DEF Inv, TypeOK, Found, Undisturbed, WriteSecretCheck, Goto, library, keyStore,
         BootSteps, Loaded, Secret, Labelled
<1>5. ObjectsShareOneKey' /\ CheckpointHasKey'
  BY HostAssumption
     DEF Inv, TypeOK, Found, Undisturbed, ObjectsShareOneKey, CheckpointHasKey,
         WriteSecretCheck, library, keyStore, Loaded, BootSteps, Secret, Labelled
<1>6. QED  BY <1>1, <1>2, <1>3, <1>4, <1>5 DEF Inv

(* The write fills an empty slot; there is no checkpoint yet.               *)
LEMMA WriteSecretInv == ASSUME Inv, NEW h \in Hosts, WriteSecret(h) PROVE Inv'
<1>1. TypeOK'
  BY HostAssumption
     DEF Inv, TypeOK, Found, Loaded, BootSteps, WriteSecret, Goto, Secret, library, Slot, Steps
<1>2. Locked'
  BY OneCall, HostAssumption DEF Inv, TypeOK, Locked, WriteSecret, Goto
<1>3. ASSUME NEW g \in Hosts PROVE Found(g)'
  BY <1>3, OneCall, HostAssumption
     DEF Inv, TypeOK, Found, WriteSecret, Goto, Secret, library, BootSteps, Loaded, Slot
<1>4. Undisturbed'
  BY OneCall, HostAssumption
     DEF Inv, TypeOK, Found, Undisturbed, WriteSecret, Goto, library, BootSteps, Loaded,
         Secret, Labelled
<1>5. ObjectsShareOneKey' /\ CheckpointHasKey'
  BY HostAssumption
     DEF Inv, TypeOK, Found, Undisturbed, ObjectsShareOneKey, CheckpointHasKey, WriteSecret,
         library, Loaded, BootSteps, Secret, Labelled
<1>6. QED  BY <1>1, <1>2, <1>3, <1>4, <1>5 DEF Inv

LEMMA BootVerifyInv == ASSUME Inv, NEW h \in Hosts, BootVerify(h) PROVE Inv'
<1>1. TypeOK'
  BY HostAssumption
     DEF Inv, TypeOK, Found, Loaded, BootSteps, BootVerify, Goto, Secret, library, keyStore,
         Slot, Steps
<1>2. Locked'
  BY OneCall, HostAssumption DEF Inv, TypeOK, Locked, BootVerify, Goto
<1>3. ASSUME NEW g \in Hosts PROVE Found(g)'
  BY <1>3, OneCall, HostAssumption
     DEF Inv, TypeOK, Found, BootVerify, Goto, Secret, library, keyStore, BootSteps, Loaded,
         Slot
<1>4. Undisturbed'
  BY OneCall, HostAssumption
     DEF Inv, TypeOK, Found, Undisturbed, BootVerify, Goto, library, keyStore, BootSteps,
         Loaded, Secret, Labelled
<1>5. ObjectsShareOneKey' /\ CheckpointHasKey'
  BY HostAssumption
     DEF Inv, TypeOK, Found, Undisturbed, ObjectsShareOneKey, CheckpointHasKey, BootVerify,
         library, keyStore, Loaded, BootSteps, Secret, Labelled
<1>6. QED  BY <1>1, <1>2, <1>3, <1>4, <1>5 DEF Inv

LEMMA SetLabelInv == ASSUME Inv, NEW h \in Hosts, SetLabel(h) PROVE Inv'
<1>1. TypeOK'
  <2>1. Profile[h] \in Profiles  BY HostAssumption
  <2>2. label' \in SUBSET Profiles  BY <2>1 DEF Inv, TypeOK, SetLabel
  <2>3. QED  BY <2>2 DEF Inv, TypeOK, SetLabel, Goto, library, Steps
<1>2. Locked'
  BY OneCall, HostAssumption DEF Inv, TypeOK, Locked, SetLabel, Goto
<1>3. ASSUME NEW g \in Hosts PROVE Found(g)'
  BY <1>3, OneCall, HostAssumption
     DEF Inv, TypeOK, Found, SetLabel, Goto, Secret, library, BootSteps, Loaded, Slot
<1>4. Undisturbed'
  BY OneCall, HostAssumption
     DEF Inv, TypeOK, Found, Undisturbed, SetLabel, Goto, library, BootSteps, Loaded, Secret,
         Labelled
<1>5. ObjectsShareOneKey' /\ CheckpointHasKey'
  BY HostAssumption
     DEF Inv, TypeOK, Found, Undisturbed, ObjectsShareOneKey, CheckpointHasKey, SetLabel,
         library, Loaded, BootSteps, Secret, Labelled
<1>6. QED  BY <1>1, <1>2, <1>3, <1>4, <1>5 DEF Inv

LEMMA LoadFirstInv == ASSUME Inv, NEW h \in Hosts, LoadFirst(h) PROVE Inv'
<1>1. TypeOK'
  BY HostAssumption
     DEF Inv, TypeOK, Found, Loaded, BootSteps, LoadFirst, Goto, Secret, library, keyStore,
         Slot, Steps
<1>2. Locked'
  BY OneCall, HostAssumption DEF Inv, TypeOK, Locked, LoadFirst, Goto
<1>3. ASSUME NEW g \in Hosts PROVE Found(g)'
  BY <1>3, OneCall, HostAssumption
     DEF Inv, TypeOK, Found, LoadFirst, Goto, Secret, library, keyStore, BootSteps, Loaded, Slot
<1>4. Undisturbed'
  BY OneCall, HostAssumption
     DEF Inv, TypeOK, Found, Undisturbed, LoadFirst, Goto, library, keyStore, BootSteps,
         Loaded, Secret, Labelled
<1>5. ObjectsShareOneKey' /\ CheckpointHasKey'
  BY HostAssumption
     DEF Inv, TypeOK, Found, Undisturbed, ObjectsShareOneKey, CheckpointHasKey, LoadFirst,
         library, keyStore, Loaded, BootSteps, Secret, Labelled
<1>6. QED  BY <1>1, <1>2, <1>3, <1>4, <1>5 DEF Inv

LEMMA LoadSecondInv == ASSUME Inv, NEW h \in Hosts, LoadSecond(h) PROVE Inv'
<1>1. TypeOK'
  BY HostAssumption
     DEF Inv, TypeOK, Found, Loaded, BootSteps, LoadSecond, Goto, Secret, library, keyStore,
         Slot, Steps
<1>2. Locked'
  <2>1. pc'[h] # "idle"  BY DEF Inv, TypeOK, Found, LoadSecond, Goto
  <2>2. QED  BY <2>1, OneCall DEF Inv, TypeOK, Locked, LoadSecond, Goto
<1>3. ASSUME NEW g \in Hosts PROVE Found(g)'
  BY <1>3, OneCall, HostAssumption
     DEF Inv, TypeOK, Found, LoadSecond, Goto, Secret, library, keyStore, BootSteps, Loaded,
         Slot
<1>4. Undisturbed'
  BY OneCall, HostAssumption
     DEF Inv, TypeOK, Found, Undisturbed, LoadSecond, Goto, library, keyStore, BootSteps,
         Loaded, Secret, Labelled
<1>5. ObjectsShareOneKey' /\ CheckpointHasKey'
  BY HostAssumption
     DEF Inv, TypeOK, Found, Undisturbed, ObjectsShareOneKey, CheckpointHasKey, LoadSecond,
         library, keyStore, Loaded, BootSteps, Secret, Labelled
<1>6. QED  BY <1>1, <1>2, <1>3, <1>4, <1>5 DEF Inv

LEMMA BootFinalInv == ASSUME Inv, NEW h \in Hosts, BootFinal(h) PROVE Inv'
<1>1. TypeOK'
  BY HostAssumption
     DEF Inv, TypeOK, Found, Loaded, BootSteps, BootFinal, Goto, Secret, library, keyStore,
         Slot, Steps
<1>2. Locked'
  BY OneCall, HostAssumption DEF Inv, TypeOK, Locked, BootFinal, Goto
<1>3. ASSUME NEW g \in Hosts PROVE Found(g)'
  BY <1>3, OneCall, HostAssumption
     DEF Inv, TypeOK, Found, BootFinal, Goto, Secret, library, keyStore, BootSteps, Loaded, Slot
<1>4. Undisturbed'
  BY OneCall, HostAssumption
     DEF Inv, TypeOK, Found, Undisturbed, BootFinal, Goto, library, keyStore, BootSteps,
         Loaded, Secret, Labelled
<1>5. ObjectsShareOneKey' /\ CheckpointHasKey'
  BY HostAssumption
     DEF Inv, TypeOK, Found, Undisturbed, ObjectsShareOneKey, CheckpointHasKey, BootFinal,
         library, keyStore, Loaded, BootSteps, Secret, Labelled
<1>6. QED  BY <1>1, <1>2, <1>3, <1>4, <1>5 DEF Inv

(* The checkpoint leads to the slot that was just loaded.                   *)
LEMMA CommitCheckpointInv == ASSUME Inv, NEW h \in Hosts, CommitCheckpoint(h) PROVE Inv'
<1>1. TypeOK'
  <2>1. Profile[h] \in Profiles /\ Profile[h] # NoProfile  BY HostAssumption
  <2>2. version # 8  BY DEF Inv, Found, CommitCheckpoint
  <2>3. /\ version' \in {0, 6, 7, 8}
        /\ profile' \in Profiles \cup {NoProfile}
        /\ profile' # NoProfile <=> version' >= 7
    BY <2>1, <2>2 DEF Inv, TypeOK, CommitCheckpoint
  <2>4. QED  BY <2>3, HostAssumption DEF Inv, TypeOK, CommitCheckpoint, Close, keyStore, Slot, Steps
<1>2. Locked'
  BY OneCall, HostAssumption DEF Inv, TypeOK, Locked, CommitCheckpoint, Goto, Close
<1>3. ASSUME NEW g \in Hosts PROVE Found(g)'
  BY <1>3, OneCall, HostAssumption
     DEF Inv, TypeOK, Found, CommitCheckpoint, Goto, Secret, keyStore, BootSteps, Loaded,
         Slot, Close
<1>4. Undisturbed'
  BY OneCall, HostAssumption
     DEF Inv, TypeOK, Found, Undisturbed, CommitCheckpoint, Goto, keyStore, BootSteps, Loaded,
         Secret, Labelled, Close
<1>5. ObjectsShareOneKey' /\ CheckpointHasKey'
  BY HostAssumption
     DEF Inv, TypeOK, Found, Undisturbed, ObjectsShareOneKey, CheckpointHasKey,
         CommitCheckpoint, keyStore, Loaded, BootSteps, Secret, Labelled
<1>6. QED  BY <1>1, <1>2, <1>3, <1>4, <1>5 DEF Inv

LEMMA OpenVaultSessionInv == ASSUME Inv, NEW h \in Hosts, OpenVaultSession(h) PROVE Inv'
<1>1. TypeOK'
  BY HostAssumption
     DEF Inv, TypeOK, Found, Loaded, BootSteps, OpenVaultSession, Goto, Secret, library,
         keyStore, Slot, Steps
<1>2. Locked'
  BY OneCall, HostAssumption DEF Inv, TypeOK, Locked, OpenVaultSession, Goto
<1>3. ASSUME NEW g \in Hosts PROVE Found(g)'
  BY <1>3, OneCall, HostAssumption
     DEF Inv, TypeOK, Found, OpenVaultSession, Goto, Secret, library, keyStore, BootSteps,
         Loaded, Slot
<1>4. Undisturbed'
  BY OneCall, HostAssumption
     DEF Inv, TypeOK, Found, Undisturbed, OpenVaultSession, Goto, library, keyStore,
         BootSteps, Loaded, Secret, Labelled
<1>5. ObjectsShareOneKey' /\ CheckpointHasKey'
  BY HostAssumption
     DEF Inv, TypeOK, Found, Undisturbed, ObjectsShareOneKey, CheckpointHasKey,
         OpenVaultSession, library, keyStore, Loaded, BootSteps, Secret, Labelled
<1>6. QED  BY <1>1, <1>2, <1>3, <1>4, <1>5 DEF Inv

(* Bodies are sealed under the loaded key, which the objects already there  *)
(* authenticate.                                                            *)
LEMMA SealBodiesInv == ASSUME Inv, NEW h \in Hosts, SealBodies(h) PROVE Inv'
<1>1. TypeOK'
  BY HostAssumption
     DEF Inv, TypeOK, Found, Loaded, BootSteps, SealBodies, Goto, Secret, keyStore, Slot,
         Steps, Close
<1>2. Locked'
  BY OneCall, HostAssumption DEF Inv, TypeOK, Locked, SealBodies, Goto, Close
<1>3. ASSUME NEW g \in Hosts PROVE Found(g)'
  BY <1>3, OneCall, HostAssumption
     DEF Inv, TypeOK, Found, SealBodies, Goto, Secret, keyStore, BootSteps, Loaded, Slot, Close
<1>4. Undisturbed'
  BY OneCall, HostAssumption
     DEF Inv, TypeOK, Found, Undisturbed, SealBodies, Goto, keyStore, BootSteps, Loaded,
         Secret, Labelled, Close
<1>5. ObjectsShareOneKey' /\ CheckpointHasKey'
  BY HostAssumption
     DEF Inv, TypeOK, Found, Undisturbed, ObjectsShareOneKey, CheckpointHasKey, SealBodies,
         keyStore, Loaded, BootSteps, Secret, Labelled
<1>6. QED  BY <1>1, <1>2, <1>3, <1>4, <1>5 DEF Inv

(* A slot changes from outside: nothing is promised of the key store after. *)
LEMMA SecretChangesInv == ASSUME Inv, NEW p \in Profiles, SecretChanges(p) PROVE Inv'
<1>1. TypeOK' /\ faults' > 0
  BY HostAssumption DEF Inv, TypeOK, SecretChanges, Fault, library, Slot
<1>2. QED
  BY <1>1 DEF Inv, Locked, Found, Undisturbed, ObjectsShareOneKey, CheckpointHasKey,
     SecretChanges, library

(* The database file is lost while nobody has it open.                      *)
LEMMA DatabaseLostInv == Inv /\ DatabaseLost => Inv'
<1> SUFFICES ASSUME Inv, DatabaseLost PROVE Inv'
  OBVIOUS
<1>1. TypeOK' /\ faults' > 0
  BY HostAssumption DEF Inv, TypeOK, DatabaseLost, Fault, keyStore, Slot
<1>2. \A h \in Hosts : pc[h] = "idle" /\ task[h] = "none"
  BY HostAssumption DEF Inv, TypeOK, DatabaseLost, Locked, Found
<1>3. QED
  BY <1>1, <1>2 DEF Inv, Locked, Found, Undisturbed, ObjectsShareOneKey, CheckpointHasKey,
     DatabaseLost, BootSteps, Loaded

LEMMA InvNext == Inv /\ [Next]_vars => Inv'
<1> SUFFICES ASSUME Inv, [Next]_vars PROVE Inv'
  OBVIOUS
<1>1. ASSUME NEW h \in Hosts, Initialize(h) PROVE Inv'
  BY <1>1, BeginInitializationInv, InspectInv, BootReadInv, BootDrawInv, WriteSecretCheckInv,
     WriteSecretInv, BootVerifyInv, SetLabelInv, BootFinalInv, LoadFirstInv, LoadSecondInv,
     CommitCheckpointInv, EndInv DEF Initialize
<1>2. ASSUME NEW h \in Hosts, Seal(h) \/ Fail(h) PROVE Inv'
  BY <1>2, OpenVaultSessionInv, SealBodiesInv, EndInv DEF Seal
<1>3. ASSUME NEW p \in Profiles, SecretChanges(p) PROVE Inv'
  BY <1>3, SecretChangesInv
<1>4. CASE UNCHANGED vars
  BY <1>4 DEF vars, library, keyStore, Inv, TypeOK, Locked, Found, Undisturbed,
     ObjectsShareOneKey, CheckpointHasKey, Secret, Labelled
<1>5. QED  BY <1>1, <1>2, <1>3, <1>4, DatabaseLostInv DEF Next

-----------------------------------------------------------------------------
(* The invariant holds in every behaviour of initialize_in_database and of  *)
(* the sessions that seal, whatever fails and whatever changes outside.     *)
THEOREM BootstrapInvariance == Spec => []Inv
<1>1. QED  BY InvInit, InvNext, PTL DEF Spec

(* Every variable of initialization and loading keeps to its domain, and    *)
(* the key profile row is there exactly from schema 7 on.                   *)
THEOREM BootstrapTypeCorrect == Spec => []TypeOK
<1>1. Inv => TypeOK  BY DEF Inv
<1>2. QED  BY <1>1, BootstrapInvariance, PTL

(* One key seals every body and the checkpoint leads to it, for any number  *)
(* of processes that initialize, seal and are killed (bootstrap.rs).        *)
THEOREM OneKeyAlways == Spec => []OneKey
<1>1. Inv => OneKey  BY DEF Inv, OneKey
<1>2. QED  BY <1>1, BootstrapInvariance, PTL

(* No step of the program replaces a key that is in a slot, although the    *)
(* key store itself would (write_secret of the provider).                   *)
THEOREM ProgramNeverReplacesKey == Spec => KeyNeverReplaced
<1>1. ASSUME Inv, [Next]_vars, faults' = 0, NEW p \in Profiles, secret[p] # NoKey
      PROVE  secret'[p] = secret[p]
  <2>1. ASSUME NEW h \in Hosts, WriteSecret(h) PROVE secret'[p] = secret[p]
    <3>1. Profile[h] # p
      BY <1>1, <2>1 DEF Inv, Undisturbed, WriteSecret, Secret
    <3>2. QED  BY <3>1, <2>1 DEF WriteSecret, Inv, TypeOK
  <2>2. ASSUME NEW q \in Profiles, SecretChanges(q) PROVE FALSE
    BY <1>1, <2>2, HostAssumption DEF SecretChanges, Fault, Inv, TypeOK
  <2>3. ASSUME NEW h \in Hosts, Initialize(h), ~WriteSecret(h) PROVE secret' = secret
    BY <2>3 DEF Initialize, BeginInitialization, Inspect, BootRead, BootDraw, WriteSecretCheck,
       BootVerify, SetLabel, BootFinal, LoadFirst, LoadSecond, CommitCheckpoint, Refuse, keyStore
  <2>4. ASSUME NEW h \in Hosts, Seal(h) \/ Fail(h) PROVE secret' = secret
    BY <2>4 DEF Seal, OpenVaultSession, SealBodies, Fail, keyStore
  <2>5. CASE DatabaseLost \/ UNCHANGED vars
    BY <2>5 DEF DatabaseLost, vars, keyStore
  <2>6. QED  BY <1>1, <2>1, <2>2, <2>3, <2>4, <2>5 DEF Next
<1>2. Inv /\ [Next]_vars =>
        [faults' = 0 => \A p \in Profiles : secret[p] # NoKey => secret'[p] = secret[p]]_vars
  BY <1>1
<1>3. QED  BY <1>2, BootstrapInvariance, PTL DEF Spec, KeyNeverReplaced

-----------------------------------------------------------------------------
(***************************************************************************)
(* What SchemaMigration promises about the schema of the same file, proved *)
(* for any number of processes, any number of interruptions and any        *)
(* versions.                                                               *)
(*                                                                         *)
(* The version that a call has seen may be old when its transaction        *)
(* begins, so nothing relates found to the transaction but that the        *)
(* committed version has not gone back since.  That is enough: the first   *)
(* migration that is really written is the one after the committed         *)
(* version, because every earlier one finds its tables in place.           *)
(* SchemaInv says for each write of a migration how far the schema of the  *)
(* transaction has got.                                                    *)
(***************************************************************************)
CONSTANTS Plain, KeyReady, Newest
VARIABLES db, work, call
Sch == INSTANCE SchemaMigration

Working(h) == call[h].pc \in {"tables", "history", "version", "validate"}

(* A version that was seen is not newer than the committed one.             *)
Seen(h) ==
    /\ call[h].pc = "looked" => call[h].found <= db.version
    /\ call[h].pc = "looked" /\ call[h].mode = "plain" => call[h].found <= Plain
    /\ call[h].pc = "open" /\ call[h].mode = "vault" => call[h].found <= db.version

(* A transaction, and the session of a vault, is the writer's.              *)
SchemaLocked(h) ==
    /\ Working(h) => writer = h
    /\ call[h].pc = "open" /\ call[h].mode = "vault" => writer = h

(* How far the transaction of a call has got.                               *)
Progress(h) ==
    /\ call[h].pc = "tables" =>
         /\ Sch!Valid(work, work.version)
         /\ db.version <= work.version
         /\ call[h].at <= work.version + 1
    /\ call[h].pc = "history" =>
         /\ work.history = 1..(call[h].at - 1)
         /\ work.tables = 1..call[h].at
         /\ db.version <= call[h].at - 1
    /\ call[h].pc = "version" =>
         /\ work.history = 1..call[h].at
         /\ work.tables = 1..call[h].at
         /\ db.version <= call[h].at
    /\ call[h].pc = "validate" =>
         /\ Sch!Valid(work, work.version)
         /\ db.version <= work.version
         /\ call[h].target <= work.version

SchemaInv ==
    /\ Sch!TypeOK
    /\ Sch!OneVersion
    /\ \A h \in Hosts : Seen(h) /\ SchemaLocked(h) /\ Progress(h)

-----------------------------------------------------------------------------
LEMMA Extend ==
    ASSUME NEW n \in Nat
    PROVE  (1..n) \cup {n + 1} = 1..(n + 1)
  OBVIOUS

(* A vault session supports the newest version, and the others less.        *)
LEMMA SupportedBound ==
    ASSUME Sch!SchemaAssumption, NEW mode \in Sch!Modes
    PROVE  Sch!Supported[mode] \in 0..Newest
  BY DEF Sch!Supported, Sch!SchemaAssumption, Sch!Modes

(* A host that no step of another one touches keeps its part of Inv.        *)
LEMMA OthersKeep ==
    ASSUME Sch!SchemaAssumption, SchemaInv, NEW h \in Hosts, NEW g \in Hosts, g # h,
           call'[g] = call[g],
           db' = db,
           \/ writer' = writer /\ work' = work
           \/ writer = h
           \/ writer = NoHost
    PROVE  (Seen(g) /\ SchemaLocked(g) /\ Progress(g))'
<1>1. Seen(g) /\ SchemaLocked(g) /\ Progress(g)  BY DEF SchemaInv
<1>2. Seen(g)'  BY <1>1 DEF Seen
<1>3. CASE writer' = writer /\ work' = work
  BY <1>1, <1>2, <1>3 DEF SchemaLocked, Progress, Working, Sch!Valid
<1>4. CASE writer = h \/ writer = NoHost
  <2>1. ~Working(g) /\ ~(call[g].pc = "open" /\ call[g].mode = "vault")
    BY <1>1, <1>4 DEF SchemaLocked, Sch!SchemaAssumption
  <2>2. QED  BY <1>2, <2>1 DEF SchemaLocked, Progress, Working
<1>5. QED  BY <1>3, <1>4

-----------------------------------------------------------------------------
(* The connection of a host is dropped: nothing of it is left.              *)
LEMMA CloseKeeps ==
    ASSUME Sch!SchemaAssumption, SchemaInv, NEW h \in Hosts, Sch!Close(h), db' = db, faults' \in 0..MaxFaults
    PROVE  SchemaInv'
<1>1. Sch!TypeOK'
  <2>1. Sch!TypeOK  BY DEF SchemaInv
  <2>2. Sch!Closed \in Sch!Call /\ Sch!Empty \in Sch!Schema
    BY
       DEF Sch!Closed, Sch!Call, Sch!Empty, Sch!Schema, Sch!Pcs, Sch!Modes,
           Sch!SchemaAssumption,
        Sch!Versions
  <2>3. call' \in [Hosts -> Sch!Call]  BY <2>1, <2>2 DEF Sch!Close, Sch!TypeOK
  <2>4. db' \in Sch!Schema /\ work' \in Sch!Schema  BY <2>1, <2>2 DEF Sch!Close, Sch!TypeOK
  <2>5. writer' \in Hosts \cup {NoHost}  BY <2>1 DEF Sch!Close, Sch!TypeOK
  <2>6. \A g \in Hosts : call'[g].pc \in {"tables", "history", "version"} =>
          call'[g].at \in 1..call'[g].target
    BY <2>1 DEF Sch!Close, Sch!TypeOK, Sch!Closed
  <2>7. QED  BY <2>3, <2>4, <2>5, <2>6 DEF Sch!TypeOK
<1>2. Sch!OneVersion'  BY DEF SchemaInv, Sch!OneVersion, Sch!Valid
<1>3. ASSUME NEW g \in Hosts PROVE (Seen(g) /\ SchemaLocked(g) /\ Progress(g))'
  <2>1. CASE g = h
    <3>1. call'[g] = Sch!Closed  BY <2>1 DEF Sch!Close, SchemaInv, Sch!TypeOK
    <3>2. QED  BY <3>1 DEF Sch!Closed, Seen, SchemaLocked, Progress, Working
  <2>2. CASE g # h
    <3>1. call'[g] = call[g]  BY <2>2 DEF Sch!Close, SchemaInv, Sch!TypeOK
    <3>2. (writer' = writer /\ work' = work) \/ writer = h  BY DEF Sch!Close
    <3>3. QED  BY <2>2, <3>1, <3>2, OthersKeep
  <2>3. QED  BY <2>1, <2>2
<1>4. QED  BY <1>1, <1>2, <1>3 DEF SchemaInv

(* A transaction begins from a version that is not newer than the database. *)
LEMMA BeginKeeps ==
    ASSUME Sch!SchemaAssumption, SchemaInv, NEW h \in Hosts, NEW found \in 0..db.version,
           NEW target \in 0..Newest, found <= target, found < Newest,
           writer \in {NoHost, h}, Sch!Begin(h, found, target), UNCHANGED <<db, faults>>
    PROVE  SchemaInv'
<1> DEFINE c == [call[h] EXCEPT !.pc = IF found < target THEN "tables" ELSE "validate",
                                !.found = found, !.at = found + 1, !.target = target]
<1>1. Sch!TypeOK /\ Sch!OneVersion  BY DEF SchemaInv
<1>2. db \in Sch!Schema /\ db.version \in 0..Newest /\ call[h] \in Sch!Call
  BY <1>1 DEF Sch!TypeOK, Sch!Schema
<1>3. found \in 0..Newest /\ found + 1 \in 0..Newest  BY <1>2 DEF Sch!SchemaAssumption
<1>4. c \in Sch!Call  BY <1>2, <1>3 DEF Sch!Call, Sch!Pcs
<1>5. call' = [call EXCEPT ![h] = c]  BY <1>1 DEF Sch!Begin, Sch!TypeOK, Sch!Call
<1>6. call' \in [Hosts -> Sch!Call] /\ call'[h] = c /\ \A g \in Hosts : g # h => call'[g] = call[g]
  BY <1>1, <1>4, <1>5 DEF Sch!TypeOK
<1>7. /\ c.pc = IF found < target THEN "tables" ELSE "validate"
      /\ c.found = found /\ c.at = found + 1 /\ c.target = target
  BY <1>2 DEF Sch!Call
<1> HIDE DEF c
<1>8. Sch!TypeOK'
  <2>1. \A g \in Hosts : call'[g].pc \in {"tables", "history", "version"} =>
          call'[g].at \in 1..call'[g].target
    <3>1. c.pc \in {"tables", "history", "version"} => c.at \in 1..c.target
      BY <1>3, <1>7
    <3>2. QED  BY <1>1, <1>6, <3>1 DEF Sch!TypeOK
  <2>2. QED  BY <1>1, <1>6, <2>1 DEF Sch!TypeOK, Sch!Begin
<1>9. Sch!OneVersion'  BY <1>1 DEF Sch!OneVersion, Sch!Valid
<1>10. (Seen(h) /\ SchemaLocked(h) /\ Progress(h))'
  <2>1. work' = db /\ writer' = h /\ db' = db  BY DEF Sch!Begin
  <2>2. Sch!Valid(db, db.version)  BY <1>1 DEF Sch!OneVersion
  <2>3. c.pc # "looked" /\ c.pc # "open" /\ c.pc # "history" /\ c.pc # "version"  BY <1>7
  <2>4. c.at <= db.version + 1  BY <1>2, <1>7
  <2>5. c.pc = "validate" => c.target <= db.version  BY <1>2, <1>7
  <2>6. QED  BY <1>2, <1>6, <2>1, <2>2, <2>3, <2>4, <2>5 DEF Seen, SchemaLocked, Progress, Working,
      Sch!Valid
<1>11. ASSUME NEW g \in Hosts, g # h PROVE (Seen(g) /\ SchemaLocked(g) /\ Progress(g))'
  BY <1>6, <1>11, OthersKeep
<1>12. QED  BY <1>8, <1>9, <1>10, <1>11 DEF SchemaInv

(* A write of the writer's own transaction.                                 *)
LEMMA WriteKeeps ==
    ASSUME Sch!SchemaAssumption, SchemaInv, NEW h \in Hosts, NEW c \in Sch!Call,
           Working(h), call' = [call EXCEPT ![h] = c], work' \in Sch!Schema,
           UNCHANGED <<db, writer, faults>>,
           c.pc \in {"tables", "history", "version"} => c.at \in 1..c.target,
           c.pc \notin {"looked", "open"},
           Progress(h)'
    PROVE  SchemaInv'
<1>1. Sch!TypeOK /\ Sch!OneVersion /\ SchemaLocked(h)  BY DEF SchemaInv
<1>2. call' \in [Hosts -> Sch!Call] /\ call'[h] = c /\ \A g \in Hosts : g # h => call'[g] = call[g]
  BY <1>1 DEF Sch!TypeOK
<1>3. Sch!TypeOK'  BY <1>1, <1>2 DEF Sch!TypeOK
<1>4. Sch!OneVersion'  BY <1>1 DEF Sch!OneVersion, Sch!Valid
<1>5. writer = h /\ writer' = h  BY <1>1 DEF SchemaLocked
<1>6. (Seen(h) /\ SchemaLocked(h))'  BY <1>2, <1>5 DEF Seen, SchemaLocked
<1>7. ASSUME NEW g \in Hosts, g # h PROVE (Seen(g) /\ SchemaLocked(g) /\ Progress(g))'
  BY <1>2, <1>5, <1>7, OthersKeep
<1>8. QED  BY <1>3, <1>4, <1>6, <1>7 DEF SchemaInv

-----------------------------------------------------------------------------
(* One lemma per action.                                                    *)
LEMMA PreflightKeeps ==
    ASSUME Sch!SchemaAssumption, SchemaInv, NEW h \in Hosts, NEW mode \in Sch!Modes, Sch!Preflight(h, mode)
    PROVE  SchemaInv'
<1> DEFINE c == [Sch!Closed EXCEPT !.pc = "looked", !.mode = mode, !.found = db.version]
<1>1. Sch!TypeOK /\ Sch!OneVersion  BY DEF SchemaInv
<1>2. db \in Sch!Schema /\ db.version \in 0..Newest  BY <1>1 DEF Sch!TypeOK, Sch!Schema
<1>3. c \in Sch!Call
  <2>1. Sch!Closed \in Sch!Call  BY DEF Sch!Closed, Sch!Call, Sch!Pcs, Sch!Modes, Sch!SchemaAssumption
  <2>2. QED  BY <1>2, <2>1 DEF Sch!Call, Sch!Pcs
<1>4. c.pc = "looked" /\ c.mode = mode /\ c.found = db.version  BY DEF Sch!Closed
<1>5. call' = [call EXCEPT ![h] = c] /\ UNCHANGED <<db, work, writer, faults>>
  BY DEF Sch!Preflight
<1> HIDE DEF c
<1>6. call' \in [Hosts -> Sch!Call] /\ call'[h] = c /\ \A g \in Hosts : g # h => call'[g] = call[g]
  BY <1>1, <1>3, <1>5 DEF Sch!TypeOK
<1>7. Sch!TypeOK'  BY <1>1, <1>4, <1>5, <1>6 DEF Sch!TypeOK
<1>8. Sch!OneVersion'  BY <1>1, <1>5 DEF Sch!OneVersion, Sch!Valid
<1>9. c.mode = "plain" => c.found <= Plain
  BY <1>4 DEF Sch!Preflight, Sch!Accepted, Sch!Supported
<1>10. (Seen(h) /\ SchemaLocked(h) /\ Progress(h))'
  BY <1>2, <1>4, <1>5, <1>6, <1>9 DEF Seen, SchemaLocked, Progress, Working
<1>11. ASSUME NEW g \in Hosts, g # h PROVE (Seen(g) /\ SchemaLocked(g) /\ Progress(g))'
  BY <1>5, <1>6, <1>11, OthersKeep
<1>12. QED  BY <1>7, <1>8, <1>10, <1>11 DEF SchemaInv

(* A library opens without a transaction: a plain one of the current        *)
(* version, or a vault, which takes the lock.                               *)
LEMMA OpenKeeps ==
    ASSUME Sch!SchemaAssumption, SchemaInv, NEW h \in Hosts, NEW c \in Sch!Call,
           call' = [call EXCEPT ![h] = c], UNCHANGED <<db, work, faults>>,
           c.pc = "open", writer' \in {h, writer},
           c.mode = "vault" => writer' = h /\ c.found <= db.version,
           ~Working(h), writer' = h => writer \in {h, NoHost}
    PROVE  SchemaInv'
<1>1. Sch!TypeOK /\ Sch!OneVersion  BY DEF SchemaInv
<1>2. call' \in [Hosts -> Sch!Call] /\ call'[h] = c /\ \A g \in Hosts : g # h => call'[g] = call[g]
  BY <1>1 DEF Sch!TypeOK
<1>3. Sch!TypeOK'  BY <1>1, <1>2 DEF Sch!TypeOK
<1>4. Sch!OneVersion'  BY <1>1 DEF Sch!OneVersion, Sch!Valid
<1>5. (Seen(h) /\ SchemaLocked(h) /\ Progress(h))'
  BY <1>2 DEF Seen, SchemaLocked, Progress, Working
<1>6. ASSUME NEW g \in Hosts, g # h PROVE (Seen(g) /\ SchemaLocked(g) /\ Progress(g))'
  BY <1>2, <1>6, OthersKeep
<1>7. QED  BY <1>3, <1>4, <1>5, <1>6 DEF SchemaInv

LEMMA MigratePlainKeeps ==
    ASSUME Sch!SchemaAssumption, SchemaInv, NEW h \in Hosts, Sch!MigratePlain(h)
    PROVE  SchemaInv'
<1>1. Sch!TypeOK /\ Seen(h)  BY DEF SchemaInv
<1>2. call[h] \in Sch!Call /\ db.version \in 0..Newest  BY <1>1 DEF Sch!TypeOK, Sch!Schema
<1>3. call[h].found \in 0..db.version /\ call[h].found <= Plain
  BY <1>1, <1>2 DEF Sch!MigratePlain, Seen, Sch!Call
<1>4. CASE Sch!Goto(h, "open") /\ UNCHANGED <<work, writer>>
  <2> DEFINE c == [call[h] EXCEPT !.pc = "open"]
  <2>1. c \in Sch!Call /\ c.pc = "open" /\ c.mode = "plain"  BY <1>2 DEF Sch!MigratePlain, Sch!Call, Sch!Pcs
  <2>2. call' = [call EXCEPT ![h] = c]  BY <1>1, <1>4 DEF Sch!Goto, Sch!TypeOK
  <2>3. ~Working(h)  BY DEF Sch!MigratePlain, Working
  <2>4. writer # h \/ writer = h  OBVIOUS
  <2> HIDE DEF c
  <2>5. UNCHANGED <<db, faults>>  BY DEF Sch!MigratePlain
  <2>6. QED  BY <1>4, <2>1, <2>2, <2>3, <2>5, OpenKeeps
<1>5. CASE call[h].found # Plain /\ writer = NoHost /\ Sch!Begin(h, call[h].found, Plain)
  <2>1. /\ Plain \in 0..Newest /\ call[h].found <= Plain /\ call[h].found < Newest
    BY <1>2, <1>3 DEF Sch!SchemaAssumption
  <2>2. UNCHANGED <<db, faults>>  BY DEF Sch!MigratePlain
  <2>3. QED  BY <1>3, <1>5, <2>1, <2>2, BeginKeeps
<1>6. QED  BY <1>4, <1>5 DEF Sch!MigratePlain

LEMMA MigrateKeyKeeps ==
    ASSUME Sch!SchemaAssumption, SchemaInv, NEW h \in Hosts, Sch!MigrateKey(h)
    PROVE  SchemaInv'
<1>1. Sch!TypeOK  BY DEF SchemaInv
<1>2. db.version \in 0..Newest /\ faults \in 0..MaxFaults  BY <1>1 DEF Sch!TypeOK, Sch!Schema
<1>3. CASE db.version \in {0, Plain, KeyReady} /\ Sch!Begin(h, db.version, KeyReady)
  <2>1. /\ db.version \in 0..db.version /\ KeyReady \in 0..Newest
        /\ db.version <= KeyReady /\ db.version < Newest
    BY <1>2, <1>3 DEF Sch!SchemaAssumption
  <2>2. UNCHANGED <<db, faults>> /\ writer = NoHost  BY DEF Sch!MigrateKey
  <2>3. QED  BY <1>3, <2>1, <2>2, BeginKeeps
<1>4. CASE Sch!Close(h)
  BY <1>2, <1>4, CloseKeeps DEF Sch!MigrateKey
<1>5. QED  BY <1>3, <1>4 DEF Sch!MigrateKey

LEMMA OpenVaultKeeps ==
    ASSUME Sch!SchemaAssumption, SchemaInv, NEW h \in Hosts, Sch!OpenVault(h)
    PROVE  SchemaInv'
<1>1. Sch!TypeOK  BY DEF SchemaInv
<1>2. db.version \in 0..Newest /\ call[h] \in Sch!Call /\ faults \in 0..MaxFaults
  BY <1>1 DEF Sch!TypeOK, Sch!Schema
<1>3. CASE Sch!Close(h)
  BY <1>2, <1>3, CloseKeeps DEF Sch!OpenVault
<1>4. CASE /\ call' = [call EXCEPT ![h].pc = "open", ![h].found = db.version]
           /\ writer' = h
           /\ UNCHANGED work
  <2> DEFINE c == [call[h] EXCEPT !.pc = "open", !.found = db.version]
  <2>1. c \in Sch!Call /\ c.pc = "open" /\ c.found = db.version  BY <1>2 DEF Sch!Call, Sch!Pcs
  <2>2. call' = [call EXCEPT ![h] = c]  BY <1>1, <1>4 DEF Sch!TypeOK, Sch!Call
  <2>3. ~Working(h) /\ writer = NoHost /\ UNCHANGED <<db, faults>>
    BY DEF Sch!OpenVault, Working
  <2> HIDE DEF c
  <2>4. c.found <= db.version  BY <1>2, <2>1
  <2>5. QED  BY <1>4, <2>1, <2>2, <2>3, <2>4, OpenKeeps
<1>5. QED  BY <1>3, <1>4 DEF Sch!OpenVault

LEMMA MigrateVaultKeeps ==
    ASSUME Sch!SchemaAssumption, SchemaInv, NEW h \in Hosts, NEW target \in Sch!Versions,
           Sch!MigrateVault(h, target)
    PROVE  SchemaInv'
<1>1. Sch!TypeOK /\ Seen(h) /\ SchemaLocked(h)  BY DEF SchemaInv
<1>2. call[h] \in Sch!Call /\ db.version \in 0..Newest  BY <1>1 DEF Sch!TypeOK, Sch!Schema
<1>3. call[h].found \in 0..db.version /\ writer = h
  BY <1>1, <1>2 DEF Sch!MigrateVault, Seen, SchemaLocked, Sch!Call
<1>4. target \in 0..Newest /\ call[h].found <= target /\ call[h].found < Newest
  BY <1>2, <1>3 DEF Sch!MigrateVault, Sch!Versions, Sch!SchemaAssumption
<1>5. Sch!Begin(h, call[h].found, target) /\ UNCHANGED <<db, faults>>  BY DEF Sch!MigrateVault
<1>6. QED  BY <1>3, <1>4, <1>5, BeginKeeps

LEMMA CreateTablesKeeps ==
    ASSUME Sch!SchemaAssumption, SchemaInv, NEW h \in Hosts, Sch!CreateTables(h)
    PROVE  SchemaInv'
<1>1. Sch!TypeOK /\ Progress(h)  BY DEF SchemaInv
<1>2. /\ call[h] \in Sch!Call /\ work \in Sch!Schema /\ faults \in 0..MaxFaults
      /\ db.version \in 0..Newest
  BY <1>1 DEF Sch!TypeOK, Sch!Schema
<1>3. CASE Sch!Close(h)
  BY <1>2, <1>3, CloseKeeps DEF Sch!CreateTables
<1>4. CASE /\ call[h].at \notin work.tables
           /\ work' = [work EXCEPT !.tables = @ \cup {call[h].at}]
           /\ Sch!Goto(h, "history")
           /\ UNCHANGED writer
  <2> DEFINE c == [call[h] EXCEPT !.pc = "history"]
             v == work.version
  <2>1. c \in Sch!Call /\ c.pc = "history" /\ c.at = call[h].at /\ c.target = call[h].target
    BY <1>2 DEF Sch!Call, Sch!Pcs
  <2>2. call' = [call EXCEPT ![h] = c] /\ call'[h] = c  BY <1>1, <1>4 DEF Sch!Goto, Sch!TypeOK
  <2>3. call[h].pc = "tables" /\ UNCHANGED <<db, faults>>  BY DEF Sch!CreateTables
  <2>4. c.at \in 1..c.target /\ c.at \in 0..Newest /\ c.at \in Sch!Versions
    BY <1>1, <1>2, <2>1, <2>3 DEF Sch!TypeOK, Sch!Call, Sch!Versions
  <2> HIDE DEF c
  <2>5. /\ work.history = 1..v /\ work.tables = 1..v
        /\ db.version <= v /\ c.at <= v + 1 /\ v \in 0..Newest
    BY <1>1, <1>2, <2>1, <2>3 DEF Progress, Sch!Valid, Sch!Schema
  <2>6. c.at = v + 1  BY <1>2, <1>4, <2>1, <2>4, <2>5
  <2>7. /\ work' \in Sch!Schema /\ work'.history = work.history
        /\ work'.tables = work.tables \cup {c.at}
    BY <1>2, <1>4, <2>1, <2>4 DEF Sch!Schema
  <2>8. work'.tables = 1..c.at /\ work'.history = 1..(c.at - 1)
    BY <2>5, <2>6, <2>7, Extend
  <2>9. db.version <= c.at - 1  BY <1>2, <2>5, <2>6
  <2>10. Progress(h)'  BY <2>1, <2>2, <2>3, <2>8, <2>9 DEF Progress
  <2>11. Working(h)  BY <2>3 DEF Working
  <2>12. QED  BY <1>4, <2>1, <2>2, <2>3, <2>4, <2>7, <2>10, <2>11, WriteKeeps
<1>5. QED  BY <1>3, <1>4 DEF Sch!CreateTables

LEMMA InsertHistoryKeeps ==
    ASSUME Sch!SchemaAssumption, SchemaInv, NEW h \in Hosts, Sch!InsertHistory(h)
    PROVE  SchemaInv'
<1>1. Sch!TypeOK /\ Progress(h)  BY DEF SchemaInv
<1>2. /\ call[h] \in Sch!Call /\ work \in Sch!Schema /\ faults \in 0..MaxFaults
      /\ db.version \in 0..Newest
  BY <1>1 DEF Sch!TypeOK, Sch!Schema
<1>3. CASE Sch!Close(h)
  BY <1>2, <1>3, CloseKeeps DEF Sch!InsertHistory
<1>4. CASE /\ work' = [work EXCEPT !.history = @ \cup {call[h].at}]
           /\ Sch!Goto(h, "version")
           /\ UNCHANGED writer
  <2> DEFINE c == [call[h] EXCEPT !.pc = "version"]
  <2>1. c \in Sch!Call /\ c.pc = "version" /\ c.at = call[h].at /\ c.target = call[h].target
    BY <1>2 DEF Sch!Call, Sch!Pcs
  <2>2. call' = [call EXCEPT ![h] = c] /\ call'[h] = c  BY <1>1, <1>4 DEF Sch!Goto, Sch!TypeOK
  <2>3. call[h].pc = "history" /\ UNCHANGED <<db, faults>>  BY DEF Sch!InsertHistory
  <2>4. c.at \in 1..c.target /\ c.at \in 0..Newest /\ c.at \in Sch!Versions
    BY <1>1, <1>2, <2>1, <2>3 DEF Sch!TypeOK, Sch!Call, Sch!Versions
  <2> HIDE DEF c
  <2>5. /\ work.history = 1..(c.at - 1) /\ work.tables = 1..c.at /\ db.version <= c.at - 1
    BY <1>1, <2>1, <2>3 DEF Progress
  <2>6. /\ work' \in Sch!Schema /\ work'.tables = work.tables
        /\ work'.history = work.history \cup {c.at}
    BY <1>2, <1>4, <2>1, <2>4 DEF Sch!Schema
  <2>7. work'.history = 1..c.at /\ work'.tables = 1..c.at
    <3>1. c.at - 1 \in Nat /\ (c.at - 1) + 1 = c.at  BY <2>4
    <3>2. (1..(c.at - 1)) \cup {(c.at - 1) + 1} = 1..((c.at - 1) + 1)  BY <3>1, Extend
    <3>3. QED  BY <2>5, <2>6, <3>1, <3>2
  <2>8. db.version <= c.at  BY <1>2, <2>4, <2>5
  <2>9. Progress(h)'  BY <2>1, <2>2, <2>3, <2>7, <2>8 DEF Progress
  <2>10. Working(h)  BY <2>3 DEF Working
  <2>11. QED  BY <1>4, <2>1, <2>2, <2>3, <2>4, <2>6, <2>9, <2>10, WriteKeeps
<1>5. QED  BY <1>3, <1>4 DEF Sch!InsertHistory

LEMMA UpdateVersionKeeps ==
    ASSUME Sch!SchemaAssumption, SchemaInv, NEW h \in Hosts, Sch!UpdateVersion(h)
    PROVE  SchemaInv'
<1> DEFINE more == call[h].at < call[h].target
           c == [call[h] EXCEPT !.pc = IF more THEN "tables" ELSE "validate",
                                !.at = IF more THEN call[h].at + 1 ELSE call[h].at]
<1>1. Sch!TypeOK /\ Progress(h)  BY DEF SchemaInv
<1>2. /\ call[h] \in Sch!Call /\ work \in Sch!Schema /\ db.version \in 0..Newest
  BY <1>1 DEF Sch!TypeOK, Sch!Schema
<1>3. call[h].pc = "version" /\ UNCHANGED <<db, writer, faults>>  BY DEF Sch!UpdateVersion
<1>4. call[h].at \in 1..call[h].target /\ call[h].target \in 0..Newest /\ Newest \in Nat
  BY <1>1, <1>2, <1>3 DEF Sch!TypeOK, Sch!Call, Sch!SchemaAssumption
<1>5. call' = [call EXCEPT ![h] = c]  BY <1>1 DEF Sch!UpdateVersion, Sch!TypeOK, Sch!Call
<1>6. /\ c \in Sch!Call /\ c.target = call[h].target
      /\ c.pc = (IF more THEN "tables" ELSE "validate")
      /\ c.at = (IF more THEN call[h].at + 1 ELSE call[h].at)
  <2>1. CASE more
    <3>1. call[h].at + 1 \in 0..Newest  BY <1>4, <2>1
    <3>2. QED  BY <1>2, <2>1, <3>1 DEF Sch!Call, Sch!Pcs
  <2>2. CASE ~more
    BY <1>2, <2>2 DEF Sch!Call, Sch!Pcs
  <2>3. QED  BY <2>1, <2>2
<1> HIDE DEF c
<1>7. call'[h] = c  BY <1>1, <1>5 DEF Sch!TypeOK
<1>8. /\ work' \in Sch!Schema /\ work'.version = call[h].at
      /\ work'.history = 1..call[h].at /\ work'.tables = 1..call[h].at
  BY <1>1, <1>2, <1>3, <1>4 DEF Sch!UpdateVersion, Progress, Sch!Schema
<1>9. db.version <= call[h].at  BY <1>1, <1>3 DEF Progress
<1>10. Sch!Valid(work, work.version)'  BY <1>8 DEF Sch!Valid
<1>11. Progress(h)'
  BY <1>3, <1>4, <1>6, <1>7, <1>8, <1>9, <1>10 DEF Progress
<1>12. c.pc \in {"tables", "history", "version"} => c.at \in 1..c.target
  BY <1>4, <1>6
<1>13. Working(h) /\ c.pc \notin {"looked", "open"}  BY <1>3, <1>6 DEF Working
<1>14. QED  BY <1>3, <1>5, <1>6, <1>8, <1>11, <1>12, <1>13, WriteKeeps

LEMMA CommitKeeps ==
    ASSUME Sch!SchemaAssumption, SchemaInv, NEW h \in Hosts, Sch!Commit(h)
    PROVE  SchemaInv' /\ db.version <= db'.version
<1>1. Sch!TypeOK /\ Sch!OneVersion /\ SchemaLocked(h) /\ Progress(h)  BY DEF SchemaInv
<1>2. /\ call[h] \in Sch!Call /\ work \in Sch!Schema /\ faults \in 0..MaxFaults
      /\ db \in Sch!Schema /\ db.version \in 0..Newest /\ work.version \in 0..Newest
  BY <1>1 DEF Sch!TypeOK, Sch!Schema
<1>3. call[h].pc = "validate" /\ faults' = faults  BY DEF Sch!Commit
<1>4. /\ Sch!Valid(work, work.version) /\ db.version <= work.version
      /\ call[h].target <= work.version /\ writer = h
  BY <1>1, <1>3 DEF Progress, SchemaLocked, Working
<1>5. CASE Sch!Close(h) /\ UNCHANGED db
  BY <1>2, <1>3, <1>5, CloseKeeps
<1>6. ASSUME db' = work, work' = Sch!Empty, NEW c \in Sch!Call, call' = [call EXCEPT ![h] = c],
             c.pc = "open", writer' \in {h, NoHost},
             c.mode = "vault" => writer' = h /\ c.found = call[h].target
      PROVE  SchemaInv' /\ db.version <= db'.version
  <2>1. call' \in [Hosts -> Sch!Call] /\ call'[h] = c /\ \A g \in Hosts : g # h => call'[g] = call[g]
    BY <1>1, <1>6 DEF Sch!TypeOK
  <2>2. Sch!Empty \in Sch!Schema  BY DEF Sch!Empty, Sch!Schema, Sch!SchemaAssumption, Sch!Versions
  <2>3. Sch!TypeOK'  BY <1>1, <1>2, <1>3, <1>6, <2>1, <2>2 DEF Sch!TypeOK
  <2>4. Sch!OneVersion'  BY <1>4, <1>6 DEF Sch!OneVersion, Sch!Valid
  <2>5. db.version <= db'.version  BY <1>4, <1>6
  <2>6. (Seen(h) /\ SchemaLocked(h) /\ Progress(h))'
    BY <1>4, <1>6, <2>1 DEF Seen, SchemaLocked, Progress, Working
  <2>7. ASSUME NEW g \in Hosts, g # h PROVE (Seen(g) /\ SchemaLocked(g) /\ Progress(g))'
    <3>1. Seen(g) /\ SchemaLocked(g)  BY DEF SchemaInv
    <3>2. ~Working(g) /\ ~(call[g].pc = "open" /\ call[g].mode = "vault")
      BY <1>4, <2>7, <3>1 DEF SchemaLocked
    <3>3. call[g].found \in 0..Newest /\ db'.version \in 0..Newest
      BY <1>1, <1>2, <1>6 DEF Sch!TypeOK, Sch!Call
    <3>4. Seen(g)'  BY <1>2, <2>1, <2>5, <2>7, <3>1, <3>2, <3>3 DEF Seen
    <3>5. QED  BY <2>1, <2>7, <3>2, <3>4 DEF SchemaLocked, Progress, Working
  <2>8. QED  BY <2>3, <2>4, <2>5, <2>6, <2>7 DEF SchemaInv
<1>7. CASE /\ db' = work
           /\ work' = Sch!Empty
           /\ call[h].mode = "vault"
           /\ call' = [call EXCEPT ![h].pc = "open", ![h].found = call[h].target]
           /\ UNCHANGED writer
  <2> DEFINE c == [call[h] EXCEPT !.pc = "open", !.found = call[h].target]
  <2>1. c \in Sch!Call /\ c.pc = "open" /\ c.found = call[h].target  BY <1>2 DEF Sch!Call, Sch!Pcs
  <2>2. call' = [call EXCEPT ![h] = c]  BY <1>1, <1>7 DEF Sch!TypeOK, Sch!Call
  <2> HIDE DEF c
  <2>3. QED  BY <1>4, <1>6, <1>7, <2>1, <2>2
<1>8. CASE /\ db' = work
           /\ work' = Sch!Empty
           /\ call[h].mode # "vault"
           /\ Sch!Goto(h, "open")
           /\ writer' = NoHost
  <2> DEFINE c == [call[h] EXCEPT !.pc = "open"]
  <2>1. c \in Sch!Call /\ c.pc = "open" /\ c.mode # "vault"  BY <1>2, <1>8 DEF Sch!Call, Sch!Pcs
  <2>2. call' = [call EXCEPT ![h] = c]  BY <1>1, <1>8 DEF Sch!Goto, Sch!TypeOK
  <2> HIDE DEF c
  <2>3. QED  BY <1>6, <1>8, <2>1, <2>2
<1>9. QED  BY <1>5, <1>7, <1>8, <1>2 DEF Sch!Commit

-----------------------------------------------------------------------------
LEMMA InitInv == ASSUME Sch!SchemaAssumption, Sch!Init PROVE SchemaInv
<1>1. Sch!Closed \in Sch!Call /\ Sch!Empty \in Sch!Schema
  BY
     DEF Sch!Closed, Sch!Call, Sch!Empty, Sch!Schema, Sch!Pcs, Sch!Modes,
         Sch!SchemaAssumption, Sch!Versions
<1>2. PICK v \in 0..Plain : db = [version |-> v, history |-> 1..v, tables |-> 1..v]
  BY DEF Sch!Init
<1>3. db \in Sch!Schema /\ Sch!OneVersion
  <2>1. v \in 0..Newest /\ 1..v \subseteq Sch!Versions  BY <1>2 DEF Sch!SchemaAssumption, Sch!Versions
  <2>2. QED  BY <1>2, <2>1 DEF Sch!Schema, Sch!OneVersion, Sch!Valid
<1>4. \A h \in Hosts : call[h] = Sch!Closed  BY DEF Sch!Init
<1>5. Sch!TypeOK  BY <1>1, <1>3, <1>4 DEF Sch!Init, Sch!TypeOK, Sch!Closed, Sch!SchemaAssumption
<1>6. ASSUME NEW h \in Hosts PROVE Seen(h) /\ SchemaLocked(h) /\ Progress(h)
  <2>1. call[h].pc = "idle"  BY <1>4 DEF Sch!Closed
  <2>2. QED  BY <2>1 DEF Seen, SchemaLocked, Progress, Working
<1>7. QED  BY <1>3, <1>5, <1>6 DEF SchemaInv

(* Every step keeps Inv and never lowers the committed version.             *)
LEMMA NextInv ==
    ASSUME Sch!SchemaAssumption, SchemaInv, [Sch!Next]_(Sch!vars)
    PROVE  SchemaInv' /\ db.version <= db'.version
<1>1. Sch!TypeOK  BY DEF SchemaInv
<1>2. db.version \in 0..Newest /\ faults \in 0..MaxFaults  BY <1>1 DEF Sch!TypeOK, Sch!Schema
<1>3. db' = db => db.version <= db'.version  BY <1>2
<1>4. CASE UNCHANGED Sch!vars
  BY <1>3, <1>4
     DEF Sch!vars, SchemaInv, Sch!TypeOK, Sch!OneVersion, Seen, SchemaLocked, Progress, Working,
      Sch!Valid
<1>5. ASSUME NEW h \in Hosts, NEW mode \in Sch!Modes, Sch!Preflight(h, mode)
      PROVE  SchemaInv' /\ db.version <= db'.version
  BY <1>3, <1>5, PreflightKeeps DEF Sch!Preflight
<1>6. ASSUME NEW h \in Hosts, NEW target \in Sch!Versions, Sch!MigrateVault(h, target)
      PROVE  SchemaInv' /\ db.version <= db'.version
  BY <1>3, <1>6, MigrateVaultKeeps DEF Sch!MigrateVault
<1>7. ASSUME NEW h \in Hosts, Sch!MigrationStep(h)
      PROVE  SchemaInv' /\ db.version <= db'.version
  <2>1. CASE Sch!MigratePlain(h)  BY <1>3, <2>1, MigratePlainKeeps DEF Sch!MigratePlain
  <2>2. CASE Sch!MigrateKey(h)  BY <1>3, <2>2, MigrateKeyKeeps DEF Sch!MigrateKey
  <2>3. CASE Sch!OpenVault(h)  BY <1>3, <2>3, OpenVaultKeeps DEF Sch!OpenVault
  <2>4. CASE Sch!CreateTables(h)  BY <1>3, <2>4, CreateTablesKeeps DEF Sch!CreateTables
  <2>5. CASE Sch!InsertHistory(h)  BY <1>3, <2>5, InsertHistoryKeeps DEF Sch!InsertHistory
  <2>6. CASE Sch!UpdateVersion(h)  BY <1>3, <2>6, UpdateVersionKeeps DEF Sch!UpdateVersion
  <2>7. CASE Sch!Commit(h)  BY <2>7, CommitKeeps
  <2>8. QED  BY <1>7, <2>1, <2>2, <2>3, <2>4, <2>5, <2>6, <2>7 DEF Sch!MigrationStep
<1>8. ASSUME NEW h \in Hosts, Sch!CloseLibrary(h)
      PROVE  SchemaInv' /\ db.version <= db'.version
  BY <1>2, <1>3, <1>8, CloseKeeps DEF Sch!CloseLibrary
<1>9. ASSUME NEW h \in Hosts, Sch!Interrupted(h)
      PROVE  SchemaInv' /\ db.version <= db'.version
  <2>1. faults' \in 0..MaxFaults  BY <1>2, <1>9 DEF Sch!Interrupted, Sch!SchemaAssumption
  <2>2. QED  BY <1>3, <1>9, <2>1, CloseKeeps DEF Sch!Interrupted
<1>10. QED  BY <1>4, <1>5, <1>6, <1>7, <1>8, <1>9 DEF Sch!Next

(* Inv holds in every reachable state of any number of processes opening    *)
(* one database.                                                            *)
THEOREM SchemaInvariance == Sch!SchemaAssumption => (Sch!Spec => []SchemaInv)
<1>1. SUFFICES ASSUME Sch!SchemaAssumption PROVE Sch!Spec => []SchemaInv
  OBVIOUS
<1>2. Sch!Init => SchemaInv  BY <1>1, InitInv
<1>3. SchemaInv /\ [Sch!Next]_(Sch!vars) => SchemaInv'  BY <1>1, NextInv
<1>4. QED  BY <1>2, <1>3, PTL DEF Sch!Spec

(* Every variable keeps to its domain, and a call never migrates past its   *)
(* target (apply_pending).                                                  *)
THEOREM SchemaTypeCorrect == Sch!SchemaAssumption => (Sch!Spec => []Sch!TypeOK)
<1>1. SUFFICES ASSUME Sch!SchemaAssumption PROVE Sch!Spec => []Sch!TypeOK
  OBVIOUS
<1>2. SchemaInv => Sch!TypeOK  BY DEF SchemaInv
<1>3. Sch!Spec => []SchemaInv  BY <1>1, SchemaInvariance
<1>4. QED  BY <1>2, <1>3, PTL

(* Whatever the interleaving of opens and wherever one stops, tables,       *)
(* history and user_version of the file on disk belong to one version.      *)
THEOREM DatabaseIsOneVersion == Sch!SchemaAssumption => (Sch!Spec => []Sch!OneVersion)
<1>1. SUFFICES ASSUME Sch!SchemaAssumption PROVE Sch!Spec => []Sch!OneVersion
  OBVIOUS
<1>2. SchemaInv => Sch!OneVersion  BY DEF SchemaInv
<1>3. Sch!Spec => []SchemaInv  BY <1>1, SchemaInvariance
<1>4. QED  BY <1>2, <1>3, PTL

(* A slower open, which still migrates from the version it saw, never takes *)
(* the library back.                                                        *)
THEOREM VersionOnlyRises == Sch!SchemaAssumption => (Sch!Spec => Sch!NeverDowngraded)
<1>1. SUFFICES ASSUME Sch!SchemaAssumption PROVE Sch!Spec => Sch!NeverDowngraded
  OBVIOUS
<1>2. SchemaInv /\ [Sch!Next]_(Sch!vars) => [db.version' >= db.version]_(Sch!vars)
  <2>1. SUFFICES ASSUME SchemaInv, [Sch!Next]_(Sch!vars) PROVE db.version' >= db.version
    OBVIOUS
  <2>2. db.version <= db'.version /\ SchemaInv'  BY <1>1, <2>1, NextInv
  <2>3. db.version \in Nat /\ db'.version \in Nat
    BY <2>1, <2>2 DEF SchemaInv, Sch!TypeOK, Sch!Schema
  <2>4. QED  BY <2>2, <2>3
<1>3. Sch!Spec => []SchemaInv  BY <1>1, SchemaInvariance
<1>4. QED  BY <1>2, <1>3, PTL DEF Sch!Spec, Sch!NeverDowngraded
=============================================================================
