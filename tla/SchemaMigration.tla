--------------------------- MODULE SchemaMigration ---------------------------
(***************************************************************************)
(* How the schema of one database file moves from version to version       *)
(* (migration.rs, SqliteDatabase::initialize and vault_session::open of    *)
(* the SQLite adapter) when several processes open it at once.             *)
(*                                                                         *)
(* A plain open looks at the version before its transaction begins and     *)
(* migrates from what it saw; the key bootstrap looks again inside its     *)
(* transaction; a vault session keeps the database for itself and          *)
(* remembers the version.  A migration is three writes: the tables, the    *)
(* row of the history and user_version.  A process that ends, or a write   *)
(* that fails, rolls its transaction back.                                 *)
(***************************************************************************)
EXTENDS Naturals

CONSTANTS Hosts,
          NoHost,
          Plain,      \* SQLITE_SCHEMA_VERSION
          KeyReady,   \* KEY_INITIALIZATION_SCHEMA_VERSION
          Newest,     \* the last of MIGRATIONS
          MaxFaults   \* bound on failing writes and process ends

(* What the constants of the adapter satisfy (6, 7 and 12 in this release).  *)
SchemaAssumption ==
    /\ NoHost \notin Hosts
    /\ {Plain, KeyReady, Newest, MaxFaults} \subseteq Nat
    /\ 0 < Plain /\ KeyReady = Plain + 1 /\ KeyReady < Newest

VARIABLES
    db,      \* the committed schema
    work,    \* the schema inside the transaction of the writer
    writer,  \* the host in a write transaction or an exclusive session
    call,    \* the call of each host
    faults

vars == <<db, work, writer, call, faults>>

Versions == 1..Newest
Schema == [version : 0..Newest, history : SUBSET Versions, tables : SUBSET Versions]
Modes == {"plain", "key", "vault"}
Pcs == {"idle", "looked", "tables", "history", "version", "validate", "open"}
Call == [pc : Pcs, mode : Modes,
         found : 0..Newest,   \* the version that the call knows of
         at : 0..Newest,      \* the migration it has come to
         target : 0..Newest]

(* Every variable keeps to its domain, and a call never goes past its       *)
(* target.                                                                  *)
TypeOK ==
    /\ db \in Schema /\ work \in Schema
    /\ writer \in Hosts \cup {NoHost}
    /\ call \in [Hosts -> Call]
    /\ \A h \in Hosts : call[h].pc \in {"tables", "history", "version"} =>
         call[h].at \in 1..call[h].target
    /\ faults \in 0..MaxFaults

Empty == [version |-> 0, history |-> {}, tables |-> {}]
Closed == [pc |-> "idle", mode |-> "plain", found |-> 0, at |-> 0, target |-> 0]

(* The library was left by a release of any plain version, or is new.       *)
Init ==
    /\ \E v \in 0..Plain : db = [version |-> v, history |-> 1..v, tables |-> 1..v]
    /\ work = Empty
    /\ writer = NoHost
    /\ call = [h \in Hosts |-> Closed]
    /\ faults = 0

-----------------------------------------------------------------------------
(* validate_migration_history and validate_schema_tables.                   *)
Valid(s, v) == s.version = v /\ s.history = 1..v /\ s.tables = 1..v

(* The newest version that each way of opening knows.                       *)
Supported == [plain |-> Plain, key |-> KeyReady, vault |-> Newest]

(* preflight_to: a version that is supported, with exactly its schema.      *)
Accepted(mode) == db.version <= Supported[mode] /\ Valid(db, db.version)

Goto(h, pc) == call' = [call EXCEPT ![h].pc = pc]

(* The connection is dropped, with its transaction.                         *)
Close(h) ==
    /\ call' = [call EXCEPT ![h] = Closed]
    /\ writer' = IF writer = h THEN NoHost ELSE writer
    /\ work' = IF writer = h THEN Empty ELSE work

(* An exclusive session keeps readers out; a write transaction does not.    *)
Readable == writer # NoHost => call[writer].mode # "vault"

(* An open begins with a look at the database outside of a transaction.     *)
Preflight(h, mode) ==
    /\ call[h].pc = "idle"
    /\ Readable
    /\ Accepted(mode)
    /\ call' = [call EXCEPT ![h] = [Closed EXCEPT !.pc = "looked", !.mode = mode,
                                                  !.found = db.version]]
    /\ UNCHANGED <<db, work, writer, faults>>

(* A transaction that will apply the migrations after found up to target.   *)
Begin(h, found, target) ==
    /\ writer' = h
    /\ work' = db
    /\ call' = [call EXCEPT ![h].pc = IF found < target THEN "tables" ELSE "validate",
                            ![h].found = found, ![h].at = found + 1, ![h].target = target]

(* migrate_from: nothing to do for the version that was seen, or a          *)
(* transaction from it.                                                     *)
MigratePlain(h) ==
    /\ call[h].pc = "looked"
    /\ call[h].mode = "plain"
    /\ \/ /\ call[h].found = Plain
          /\ Readable
          /\ Goto(h, "open")
          /\ UNCHANGED <<work, writer>>
       \/ /\ call[h].found # Plain
          /\ writer = NoHost
          /\ Begin(h, call[h].found, Plain)
    /\ UNCHANGED <<db, faults>>

(* begin_key_initialization and commit: eligibility is found again under    *)
(* the lock.                                                                *)
MigrateKey(h) ==
    /\ call[h].pc = "looked"
    /\ call[h].mode = "key"
    /\ writer = NoHost
    /\ IF Accepted("key") /\ db.version \in {0, Plain, KeyReady}
       THEN Begin(h, db.version, KeyReady)
       ELSE Close(h)
    /\ UNCHANGED <<db, faults>>

(* vault_session::open keeps the exclusive lock.                            *)
OpenVault(h) ==
    /\ call[h].pc = "looked"
    /\ call[h].mode = "vault"
    /\ writer = NoHost
    /\ IF Accepted("vault") /\ db.version >= KeyReady
       THEN /\ call' = [call EXCEPT ![h].pc = "open", ![h].found = db.version]
            /\ writer' = h
            /\ UNCHANGED work
       ELSE Close(h)
    /\ UNCHANGED <<db, faults>>

(* An operation of an open vault session that needs a later version.        *)
MigrateVault(h, target) ==
    /\ call[h].pc = "open"
    /\ call[h].mode = "vault"
    /\ target > call[h].found
    /\ Begin(h, call[h].found, target)
    /\ UNCHANGED <<db, faults>>

-----------------------------------------------------------------------------
(* apply_pending.                                                           *)

(* execute_batch: CREATE TABLE fails where the table is already there.      *)
CreateTables(h) ==
    /\ call[h].pc = "tables"
    /\ IF call[h].at \in work.tables
       THEN Close(h)
       ELSE /\ work' = [work EXCEPT !.tables = @ \cup {call[h].at}]
            /\ Goto(h, "history")
            /\ UNCHANGED writer
    /\ UNCHANGED <<db, faults>>

(* The row of the migration, with its version as primary key.               *)
InsertHistory(h) ==
    /\ call[h].pc = "history"
    /\ IF call[h].at \in work.history
       THEN Close(h)
       ELSE /\ work' = [work EXCEPT !.history = @ \cup {call[h].at}]
            /\ Goto(h, "version")
            /\ UNCHANGED writer
    /\ UNCHANGED <<db, faults>>

(* user_version, and on to the next migration.                              *)
UpdateVersion(h) ==
    /\ call[h].pc = "version"
    /\ work' = [work EXCEPT !.version = call[h].at]
    /\ call' = [call EXCEPT
         ![h].pc = IF call[h].at < call[h].target THEN "tables" ELSE "validate",
         ![h].at = IF call[h].at < call[h].target THEN @ + 1 ELSE @]
    /\ UNCHANGED <<db, writer, faults>>

(* The plain open validates once more; then the transaction is committed.   *)
Commit(h) ==
    /\ call[h].pc = "validate"
    /\ IF call[h].mode = "plain" /\ ~Valid(work, Plain)
       THEN Close(h) /\ UNCHANGED db
       ELSE /\ db' = work
            /\ work' = Empty
            /\ IF call[h].mode = "vault"
               THEN /\ call' = [call EXCEPT ![h].pc = "open", ![h].found = call[h].target]
                    /\ UNCHANGED writer
               ELSE /\ Goto(h, "open")
                    /\ writer' = NoHost
    /\ UNCHANGED faults

(* The connection is closed in order.                                       *)
CloseLibrary(h) ==
    /\ call[h].pc = "open"
    /\ Close(h)
    /\ UNCHANGED <<db, faults>>

(* A write fails, or the process ends.                                      *)
Interrupted(h) ==
    /\ call[h].pc # "idle"
    /\ faults < MaxFaults
    /\ faults' = faults + 1
    /\ Close(h)
    /\ UNCHANGED db

-----------------------------------------------------------------------------
MigrationStep(h) ==
    \/ MigratePlain(h) \/ MigrateKey(h) \/ OpenVault(h) \/ CreateTables(h) \/ InsertHistory(h)
    \/ UpdateVersion(h) \/ Commit(h)

Next ==
    \E h \in Hosts :
      \/ \E mode \in Modes : Preflight(h, mode)
      \/ \E target \in Versions : MigrateVault(h, target)
      \/ MigrationStep(h)
      \/ CloseLibrary(h)
      \/ Interrupted(h)

Spec == Init /\ [][Next]_vars

-----------------------------------------------------------------------------
(* Whatever the interleaving of opens and wherever one stops, the database  *)
(* on disk is exactly one version: its tables, history and number agree.    *)
OneVersion == Valid(db, db.version)

(* A version once reached is never taken back by a slower open.             *)
NeverDowngraded == [][db.version' >= db.version]_vars
=============================================================================
