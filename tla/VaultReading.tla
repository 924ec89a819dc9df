---------------------------- MODULE VaultReading ----------------------------
(***************************************************************************)
(* What the sessions of a migrated library read, export and repair         *)
(* (reader.rs, reader/snapshot.rs and maintenance.rs of the source vault,  *)
(* object_read.rs of the SQLite adapter, encrypted.rs and read.rs of the   *)
(* application).                                                           *)
(*                                                                         *)
(* Several processes hold sessions, one at a time: vault_session::open     *)
(* takes the exclusive lock of SQLite and keeps it until the session ends. *)
(* Captures and deletions (modelled step by step in SourceVault) are here  *)
(* the durable steps that a reader can meet.  Meanwhile a file can be      *)
(* damaged, the key in the system store can be exchanged and the derived   *)
(* rows can drift.                                                         *)
(***************************************************************************)
EXTENDS Naturals, Sequences, SequencesExt

CONSTANTS Hosts,
          Sources,
          NoHost,
          Budget    \* how often each kind of trouble may happen

Kinds == {"crash", "export", "damage", "key", "drift"}

(* A read: a query of the catalog and of the recovery view, a search, or    *)
(* the source that a hit or the user names.                                 *)
Queries == {"lineages", "versions", "pending", "unfinished", "search"}

ASSUME ReadingAssumption ==
    /\ NoHost \notin Hosts
    /\ Budget \in [Kinds -> Nat]
    /\ IsFiniteSet(Sources)
    /\ Queries \cap Sources = {}

VARIABLES
    state,     \* the canonical row of each source and of its object
    object,    \* the file of its object
    recall,    \* sources with recall rows and tips
    storeKey,  \* what the system store answers for the key of the library
    lock,      \* the host whose session has the database
    session,
    exported,  \* sources whose bytes are exported
    budget     \* trouble that may still happen

library == <<state, object, recall>>
readingVars == <<library, storeKey, lock, session, exported, budget>>

RowStates == {"absent", "prepared", "active", "deleting", "deleted"}
Keys == {"library", "other", "none"}
Objects == Keys \cup {"damaged"}                  \* the key that sealed the file
ReadOps == {"open", "search", "export", "snapshot"}
Ops == ReadOps \cup {"verify", "rebuild", "capture", "delete"}
Pcs == {"idle", "locked", "keyed", "ready", "queried", "publish", "release", "write", "object",
        "finish", "verified", "rebuilt", "commit", "readback"}
Read == [query : Queries \cup Sources, answer : SUBSET Sources]
Session == [pc : Pcs, op : Ops, source : Sources \cup {"none"}, key : Keys,
            todo : Seq(Queries \cup Sources), got : Seq(Read),
            rows : SUBSET Sources]                \* bodies that maintenance authenticated

(* Every variable keeps to its domain, and past the key a session has one.  *)
ReadingTypeOK ==
    /\ state \in [Sources -> RowStates]
    /\ object \in [Sources -> Objects]
    /\ recall \subseteq Sources
    /\ storeKey \in Keys
    /\ lock \in Hosts \cup {NoHost}
    /\ session \in [Hosts -> Session]
    /\ \A h \in Hosts : session[h].pc \in {"idle", "locked"} <=> session[h].key = "none"
    /\ exported \subseteq Sources
    /\ budget \in [Kinds -> Nat]

With(st) == {s \in Sources : state[s] = st}

NoSession == [pc |-> "idle", op |-> "open", source |-> "none", key |-> "none", todo |-> <<>>,
              got |-> <<>>, rows |-> {}]

(* A library whose bodies have been migrated.                               *)
ReadingInit ==
    /\ \E active \in SUBSET Sources :
         /\ state = [s \in Sources |-> IF s \in active THEN "active" ELSE "absent"]
         /\ object = [s \in Sources |-> IF s \in active THEN "library" ELSE "none"]
         /\ recall = active
    /\ storeKey = "library"
    /\ lock = NoHost
    /\ session = [h \in Hosts |-> NoSession]
    /\ exported = {}
    /\ budget = Budget

-----------------------------------------------------------------------------
(* Checks.                                                                  *)

(* authenticate_all with the key of the session.                            *)
Authentic(h) ==
    \A s \in Sources :
       CASE state[s] = "active" -> object[s] = session[h].key
         [] state[s] \in {"prepared", "deleting"} -> object[s] \in {"none", session[h].key}
         [] state[s] \in {"absent", "deleted"} -> object[s] = "none"

(* verify_facts: the derived rows are those of the active sources.          *)
FactsVerify == recall = With("active")

(* What a query answers; which lineage the versions are of does not matter. *)
Answer(q) ==
    CASE q \in {"lineages", "versions"} -> With("active")
      [] q = "pending" -> With("prepared")
      [] q = "unfinished" -> With("deleting")
      [] q = "search" -> recall
      [] q \in Sources -> {q} \cap With("active")

(* The queries that an operation begins with.                               *)
Plan(op, s) ==
    CASE op = "search" -> <<"search">>
      [] op = "export" -> <<s>>
      [] op = "snapshot" -> <<"lineages", "pending", "unfinished">>
      [] OTHER -> <<>>

-----------------------------------------------------------------------------
(* Steps of a session.                                                      *)
Goto(h, pc) == session' = [session EXCEPT ![h].pc = pc]

(* The session is dropped, and its key and lock with it, whether the call   *)
(* succeeds or fails.                                                       *)
End(h) ==
    /\ session' = [session EXCEPT ![h] = NoSession]
    /\ lock' = NoHost

SessionFails(h) == End(h)

(* vault_session::open; another session makes it fail with a busy error.    *)
OpenSession(h) ==
    /\ session[h].pc = "idle"
    /\ lock = NoHost
    /\ \E op \in Ops, s \in Sources :
         session' = [session EXCEPT ![h] =
                       [NoSession EXCEPT !.pc = "locked", !.op = op, !.source = s,
                                         !.todo = Plan(op, s)]]
    /\ lock' = h
    /\ UNCHANGED <<library, storeKey, exported, budget>>

(* load_existing: after the checks of the database, and never a new key.    *)
LoadKey(h) ==
    /\ session[h].pc = "locked"
    /\ IF storeKey = "none" THEN SessionFails(h)
       ELSE /\ session' = [session EXCEPT ![h].pc = "keyed", ![h].key = storeKey]
            /\ UNCHANGED lock
    /\ UNCHANGED <<library, storeKey, exported, budget>>

(* Mutant: maintenance wants the derived rows in order before it starts.    *)
AuthenticateFacts(h) ==
    /\ session[h].pc = "keyed"
    /\ IF Authentic(h) /\ FactsVerify
       THEN /\ session' = [session EXCEPT
                 ![h].pc = CASE session[h].op \in ReadOps -> "ready"
                             [] session[h].op \in {"capture", "delete"} -> "write"
                             [] session[h].op \in {"verify", "rebuild"} -> "verified",
                 ![h].rows = IF session[h].op = "rebuild" THEN With("active") ELSE {}]
            /\ UNCHANGED lock
       ELSE SessionFails(h)
    /\ UNCHANGED <<library, storeKey, exported, budget>>

(* The objects are authenticated.  Only maintenance goes on with derived    *)
(* rows that have drifted.                                                  *)
Authenticate(h) ==
    /\ session[h].pc = "keyed"
    /\ IF Authentic(h) /\ (session[h].op \in {"verify", "rebuild"} \/ FactsVerify)
       THEN /\ session' = [session EXCEPT
                 ![h].pc = CASE session[h].op \in ReadOps -> "ready"
                             [] session[h].op \in {"capture", "delete"} -> "write"
                             [] session[h].op \in {"verify", "rebuild"} -> "verified",
                 ![h].rows = IF session[h].op = "rebuild" THEN With("active") ELSE {}]
            /\ UNCHANGED lock
       ELSE SessionFails(h)
    /\ UNCHANGED <<library, storeKey, exported, budget>>

-----------------------------------------------------------------------------
(* The reader.                                                              *)

(* EncryptedLibrary::open needs nothing but the opened reader.              *)
OpenLibrary(h) ==
    /\ session[h].pc = "ready"
    /\ session[h].op = "open"
    /\ End(h)
    /\ UNCHANGED <<library, storeKey, exported, budget>>

(* read_with_check up to the query: authenticate, verify the facts, ask.    *)
Query(h) ==
    /\ session[h].pc = "ready"
    /\ session[h].todo # <<>>
    /\ IF Authentic(h) /\ FactsVerify
       THEN LET q == Head(session[h].todo) IN
            /\ session' = [session EXCEPT ![h].pc = "queried",
                 ![h].got = Append(@, [query |-> q, answer |-> Answer(q)])]
            /\ UNCHANGED lock
       ELSE SessionFails(h)
    /\ UNCHANGED <<library, storeKey, exported, budget>>

(* What is left to read after an answer: a search resolves the source of    *)
(* every hit, a snapshot lists the versions of a lineage if there is one.   *)
Rest(h) ==
    LET last == session[h].got[Len(session[h].got)] IN
    CASE last.query = "search" -> SetToSeq(last.answer)
      [] last.query = "lineages" /\ last.answer # {} -> <<"versions">> \o Tail(session[h].todo)
      [] OTHER -> Tail(session[h].todo)

(* Where the session goes with nothing left to read.                        *)
AfterReads(h) ==
    CASE session[h].op = "export" -> "publish"
      [] session[h].op = "snapshot" -> "release"
      [] OTHER -> "idle"

(* Mutant: the lock is given back after every read of a session.            *)
RecheckPerRead(h) ==
    LET last == session[h].got[Len(session[h].got)]
        missing == last.query \in Sources /\ last.answer = {}
    IN
    /\ session[h].pc = "queried"
    /\ CASE ~Authentic(h) \/ ~FactsVerify \/ missing -> SessionFails(h)
         [] Authentic(h) /\ FactsVerify /\ ~missing /\ Rest(h) = <<>> /\ AfterReads(h) = "idle" ->
              End(h)
         [] OTHER ->
              /\ session' = [session EXCEPT ![h].todo = Rest(h),
                   ![h].pc = IF Rest(h) # <<>> THEN "ready" ELSE AfterReads(h)]
              /\ lock' = NoHost
    /\ UNCHANGED <<library, storeKey, exported, budget>>

(* The end of read_with_check: everything is authenticated again before     *)
(* the answer is used; a source that is not active is not found.            *)
Recheck(h) ==
    LET last == session[h].got[Len(session[h].got)]
        missing == last.query \in Sources /\ last.answer = {}
    IN
    /\ session[h].pc = "queried"
    /\ CASE ~Authentic(h) \/ ~FactsVerify \/ missing -> SessionFails(h)
         [] Authentic(h) /\ FactsVerify /\ ~missing /\ Rest(h) = <<>> /\ AfterReads(h) = "idle" ->
              End(h)
         [] OTHER ->
              /\ session' = [session EXCEPT ![h].todo = Rest(h),
                   ![h].pc = IF Rest(h) # <<>> THEN "ready" ELSE AfterReads(h)]
              /\ UNCHANGED lock
    /\ UNCHANGED <<library, storeKey, exported, budget>>

(* export_managed_source runs under the session.                            *)
PublishExport(h) ==
    /\ session[h].pc = "publish"
    /\ exported' = exported \cup {session[h].source}
    /\ End(h)
    /\ UNCHANGED <<library, storeKey, budget>>

Trouble(k) ==
    /\ budget[k] > 0
    /\ budget' = [budget EXCEPT ![k] = @ - 1]

ExportFails(h) ==
    /\ session[h].pc = "publish"
    /\ Trouble("export")
    /\ SessionFails(h)
    /\ UNCHANGED <<library, storeKey, exported>>

(* snapshot: the key is loaded again and everything authenticated before    *)
(* the view is released.                                                    *)
ReleaseSnapshot(h) ==
    /\ session[h].pc = "release"
    /\ IF storeKey = session[h].key /\ Authentic(h) /\ FactsVerify THEN End(h) ELSE SessionFails(h)
    /\ UNCHANGED <<library, storeKey, exported, budget>>

-----------------------------------------------------------------------------
(* Maintenance.                                                             *)

(* verify only reads back; rebuild first writes the derived rows of the     *)
(* authenticated bodies in a transaction.                                   *)
StartRebuild(h) ==
    /\ session[h].pc = "verified"
    /\ Goto(h, IF session[h].op = "rebuild" THEN "rebuilt" ELSE "readback")
    /\ UNCHANGED <<library, storeKey, lock, exported, budget>>

(* before_commit: objects and facts once more, seen in the transaction.     *)
BeforeCommit(h) ==
    /\ session[h].pc = "rebuilt"
    /\ IF Authentic(h) /\ session[h].rows = With("active")
       THEN Goto(h, "commit") /\ UNCHANGED lock
       ELSE SessionFails(h)
    /\ UNCHANGED <<library, storeKey, exported, budget>>

CommitRebuild(h) ==
    /\ session[h].pc = "commit"
    /\ recall' = session[h].rows
    /\ Goto(h, "readback")
    /\ UNCHANGED <<state, object, storeKey, lock, exported, budget>>

(* verify_all after the commit.                                             *)
ReadBack(h) ==
    /\ session[h].pc = "readback"
    /\ IF Authentic(h) /\ FactsVerify THEN End(h) ELSE SessionFails(h)
    /\ UNCHANGED <<library, storeKey, exported, budget>>

-----------------------------------------------------------------------------
(* The durable steps of a capture and of a deletion.                        *)
Pending == With("prepared") \cup With("deleting")

PrepareCapture(h) ==
    LET s == session[h].source IN
    /\ session[h].pc = "write"
    /\ session[h].op = "capture"
    /\ IF state[s] \in {"absent", "prepared"} /\ Pending \subseteq {s}
       THEN /\ state' = [state EXCEPT ![s] = "prepared"]
            /\ Goto(h, "object")
            /\ UNCHANGED lock
       ELSE SessionFails(h) /\ UNCHANGED state
    /\ UNCHANGED <<object, recall, storeKey, exported, budget>>

(* The object of a capture is published, or that of a deletion removed.     *)
ChangeObject(h) ==
    LET s == session[h].source IN
    /\ session[h].pc = "object"
    /\ IF object[s] = "damaged" THEN SessionFails(h) /\ UNCHANGED object
       ELSE /\ object' = [object EXCEPT ![s] =
                            IF session[h].op = "capture" THEN session[h].key ELSE "none"]
            /\ Goto(h, "finish")
            /\ UNCHANGED lock
    /\ UNCHANGED <<state, recall, storeKey, exported, budget>>

(* The capture authenticates its object again and commits its facts and     *)
(* rows, or the deletion commits its end.  The read-back that follows       *)
(* decides only what is reported.                                           *)
FinishWrite(h) ==
    LET s == session[h].source
        capture == session[h].op = "capture"
        done == capture => object[s] = session[h].key
    IN
    /\ session[h].pc = "finish"
    /\ state' = [state EXCEPT ![s] = CASE ~done -> @
                                       [] done /\ capture -> "active"
                                       [] done /\ ~capture -> "deleted"]
    /\ recall' = IF done /\ capture THEN recall \cup {s} ELSE recall
    /\ End(h)
    /\ UNCHANGED <<object, storeKey, exported, budget>>

(* The request closes the source to every reader before its bytes go.       *)
BeginDeletion(h) ==
    LET s == session[h].source IN
    /\ session[h].pc = "write"
    /\ session[h].op = "delete"
    /\ IF state[s] \in {"active", "deleting"} /\ Pending \subseteq {s}
       THEN /\ state' = [state EXCEPT ![s] = "deleting"]
            /\ recall' = recall \ {s}
            /\ Goto(h, "object")
            /\ UNCHANGED lock
       ELSE SessionFails(h) /\ UNCHANGED <<state, recall>>
    /\ UNCHANGED <<object, storeKey, exported, budget>>

-----------------------------------------------------------------------------
(* Trouble.                                                                 *)

(* The process of a session ends; SQLite drops its lock and transaction.    *)
SessionCrash(h) ==
    /\ session[h].pc # "idle"
    /\ Trouble("crash")
    /\ End(h)
    /\ UNCHANGED <<library, storeKey, exported>>

Damage(s) ==
    /\ object[s] \notin {"none", "damaged"}
    /\ Trouble("damage")
    /\ object' = [object EXCEPT ![s] = "damaged"]
    /\ UNCHANGED <<state, recall, storeKey, lock, session, exported>>

ChangeKey ==
    /\ Trouble("key")
    /\ storeKey' \in Keys \ {storeKey}
    /\ UNCHANGED <<library, lock, session, exported>>

(* Derived rows are lost or left over while no session has the database.    *)
Drift ==
    /\ lock = NoHost
    /\ Trouble("drift")
    /\ recall' \in SUBSET Sources \ {recall}
    /\ UNCHANGED <<state, object, storeKey, lock, session, exported>>

-----------------------------------------------------------------------------
SessionStep(h) ==
    \/ LoadKey(h) \/ Authenticate(h) \/ OpenLibrary(h) \/ Query(h) \/ Recheck(h)
    \/ PublishExport(h) \/ ReleaseSnapshot(h) \/ StartRebuild(h) \/ BeforeCommit(h)
    \/ CommitRebuild(h) \/ ReadBack(h) \/ PrepareCapture(h) \/ ChangeObject(h) \/ FinishWrite(h)
    \/ BeginDeletion(h)

ReadingNext ==
    \/ \E h \in Hosts : OpenSession(h) \/ SessionStep(h) \/ ExportFails(h) \/ SessionCrash(h)
    \/ \E s \in Sources : Damage(s)
    \/ ChangeKey
    \/ Drift

ReadingSpec == ReadingInit /\ [][ReadingNext]_readingVars

(* A started session runs to its end, and the user asks for a rebuild again *)
(* and again.                                                               *)
OpenRebuild(h) == OpenSession(h) /\ session'[h].op = "rebuild"

FairSpec ==
    /\ ReadingSpec
    /\ \A h \in Hosts : WF_readingVars(SessionStep(h))
    /\ \A h \in Hosts : SF_readingVars(OpenRebuild(h))

-----------------------------------------------------------------------------
(* What a session has read stays true until it ends: the parts of a         *)
(* catalog view, or a hit and its source, are never of two library states.  *)
OneLibraryState ==
    /\ ReadingTypeOK
    /\ \A h \in Hosts : session[h].pc # "idle" =>
         \A i \in 1..Len(session[h].got) :
            session[h].got[i].answer = Answer(session[h].got[i].query)

(* Bytes leave the library only while their source is active: no deletion   *)
(* of another process comes between the read and the publication.           *)
ExportsOnlyActive ==
    [][\A s \in Sources : s \in exported' /\ s \notin exported => state[s] = "active"]_readingVars

(* Derived rows that have drifted are repaired although every ordinary      *)
(* session refuses the library, unless there is no key or an object that    *)
(* the key does not open.                                                   *)
DriftIsRepaired ==
    ~FactsVerify ~> \/ FactsVerify
                    \/ storeKey = "none"
                    \/ \E s \in Sources : object[s] \notin {"none", storeKey}
=============================================================================
