-------------------------- MODULE DeletionExecution --------------------------
(***************************************************************************)
(* The execution of a deletion request and its evidence                    *)
(* (execute_source_lineage_deletion of the application; deletion_store.rs, *)
(* deletion_actions.rs and object_deletion.rs of radishmemory-sqlite).     *)
(*                                                                         *)
(* A host (a desktop process) prepares a request for a lineage, reads the  *)
(* latest evidence, executes the request and stores the evidence.  Each of *)
(* these is a session of its own with the exclusive SQLite lock; between   *)
(* two sessions other hosts may work.  The ten components of a request run *)
(* in a fixed order, each in a transaction of its own together with its    *)
(* result; the last one is the minimal audit, which writes deletion_state. *)
(*                                                                         *)
(* One lineage is modelled.  Its objects (source versions and the memory   *)
(* records that depend on them) are the members of Objects.  What happens  *)
(* to the object files is in SourceVault; here the files of a request are  *)
(* retired or not.  Evidence is identified by the ordinal of its attempt.  *)
(***************************************************************************)
EXTENDS Naturals, Sequences, FiniteSets

CONSTANTS Hosts,
          Requests,     \* delete request identifiers
          Objects,      \* what the lineage may consist of
          NoHost,
          NoRequest,
          N,            \* the number of components; the last is the minimal audit
          Erasing,      \* components that report not_found when nothing is left
          Times,        \* values of checked_at
          MaxAttempts   \* bound on the execution attempts of a request

ASSUME ExecutionAssumption ==
    /\ N \in Nat \ {0}
    /\ Erasing \subseteq 1..(N - 1)
    /\ MaxAttempts \in Nat
    /\ Times # {}
    /\ NoHost \notin Hosts
    /\ NoRequest \notin Requests

VARIABLES
    \* SQLite
    state,       \* deletion_state of each object, "absent" before it is captured
    registered,  \* requests stored with their plan
    retired,     \* requests whose objects are all retired in the vault
    residue,     \* components of a request whose content is still stored
    log,         \* the execution attempts of each request with their results
    receipts,    \* the deletion evidence of each request
    lock,        \* the host that holds the exclusive session
    \* memory of the hosts
    frozen,      \* the targets of each request; {} before it is prepared
    host

dbVars == <<state, registered, retired, residue, log, receipts>>
vars == <<dbVars, lock, frozen, host>>

Components == 1..N
Outcomes == {"none", "done", "not_found", "failed"}
Results == [Components -> Outcomes]
Attempt == [at : Times, result : Results]
Receipt == [ordinal : Nat, previous : Nat, completed : BOOLEAN]
NoResults == [c \in Components |-> "none"]

(* pc is where the host is: no operation, about to execute, in the          *)
(* execution session, about to store the evidence, or in that session.      *)
HostState ==
    [pc : {"idle", "execute", "retire", "run", "store", "stored"},
     req : Requests \cup {NoRequest},
     prev : Nat,          \* ordinal of the evidence read before execution, 0 for none
     at : Times,
     next : 1..(N + 1),   \* the component to run
     failed : BOOLEAN,    \* has_failed
     result : Results]    \* the results that the execution returned

(* Every variable keeps to its domain.                                      *)
TypeOK ==
    /\ state \in [Objects -> {"absent", "active", "pending", "failed", "deleted"}]
    /\ registered \in SUBSET Requests
    /\ retired \in SUBSET Requests
    /\ residue \in [Requests -> SUBSET Components]
    /\ log \in [Requests -> Seq(Attempt)]
    /\ receipts \in [Requests -> Seq(Receipt)]
    /\ lock \in Hosts \cup {NoHost}
    /\ frozen \in [Requests -> SUBSET Objects]
    /\ host \in [Hosts -> HostState]

Idle(r) == [pc |-> "idle", req |-> r, prev |-> 0, at |-> CHOOSE t \in Times : TRUE,
            next |-> 1, failed |-> FALSE, result |-> NoResults]

Init ==
    /\ state = [o \in Objects |-> "absent"]
    /\ registered = {}
    /\ retired = {}
    /\ residue = [r \in Requests |-> Components]
    /\ log = [r \in Requests |-> <<>>]
    /\ receipts = [r \in Requests |-> <<>>]
    /\ lock = NoHost
    /\ frozen = [r \in Requests |-> {}]
    /\ host = [h \in Hosts |-> Idle(NoRequest)]

-----------------------------------------------------------------------------
Active == {o \in Objects : state[o] = "active"}

DeletionInProgress == \E o \in Objects : state[o] \in {"pending", "failed"}

(* latest_deletion_evidence: 0 when there is none.                          *)
Latest(r) == IF receipts[r] = <<>> THEN 0 ELSE receipts[r][Len(receipts[r])].ordinal

Completed(r) ==
    receipts[r] # <<>> /\ receipts[r][Len(receipts[r])].completed

(* Mutant: the status of the last component decides.                        *)
SucceededLast(result) == result[N] = "done"

Succeeded(result) == \A c \in Components : result[c] \in {"done", "not_found"}

(* The current attempt; the ordinal of an attempt is its index.             *)
Current(r) == log[r][Len(log[r])]

-----------------------------------------------------------------------------
(* A source version is captured or a memory record confirmed.  Nothing is   *)
(* added while a deletion is in progress, nor to a deleted lineage.         *)
Capture(o) ==
    /\ lock = NoHost
    /\ state[o] = "absent"
    /\ \A p \in Objects : state[p] \in {"absent", "active"}
    /\ state' = [state EXCEPT ![o] = "active"]
    /\ UNCHANGED <<registered, retired, residue, log, receipts, lock, frozen, host>>

(* prepare_source_lineage_deletion: the closure is resolved once.  A host   *)
(* that holds a request prepares no other.                                  *)
Prepare(h, r) ==
    /\ lock = NoHost
    /\ host[h].pc = "idle"
    /\ host[h].req = NoRequest
    /\ frozen[r] = {}
    /\ ~DeletionInProgress
    /\ Active # {}
    /\ frozen' = [frozen EXCEPT ![r] = Active]
    /\ host' = [host EXCEPT ![h] = Idle(r)]
    /\ UNCHANGED <<dbVars, lock>>

(* unfinished_delete_requests: stored requests without completed evidence.  *)
Recover(h, r) ==
    /\ lock = NoHost
    /\ host[h].pc = "idle"
    /\ host[h].req = NoRequest
    /\ r \in registered
    /\ ~Completed(r)
    /\ host' = [host EXCEPT ![h] = Idle(r)]
    /\ UNCHANGED <<dbVars, lock, frozen>>

(* The first session of execute_source_lineage_deletion reads the latest    *)
(* evidence; completed evidence is returned and nothing is executed.        *)
ReadPrevious(h, t) ==
    LET r == host[h].req IN
    /\ lock = NoHost
    /\ host[h].pc = "idle"
    /\ r # NoRequest
    /\ ~Completed(r)
    /\ host' = [host EXCEPT ![h] =
                  [Idle(r) EXCEPT !.pc = "execute", !.prev = Latest(r), !.at = t]]
    /\ UNCHANGED <<dbVars, lock, frozen>>

ReturnReceipt(h) ==
    /\ lock = NoHost
    /\ host[h].pc = "idle"
    /\ host[h].req # NoRequest
    /\ Completed(host[h].req)
    /\ host' = [host EXCEPT ![h] = Idle(NoRequest)]
    /\ UNCHANGED <<dbVars, lock, frozen>>

-----------------------------------------------------------------------------
(* Mutant: the frozen closure only has to be active, not complete.          *)
ValidateSemanticTargetsSubset(r) == frozen[r] \subseteq Active

(* validate_semantic_targets: every target is active and every active       *)
(* object of the lineage is a target.                                       *)
ValidateSemanticTargets(r) == frozen[r] = Active

(* begin_with_check in the second session: a registered request is resumed, *)
(* any other is registered and closed to recall in one transaction.         *)
BeginDeletion(h) ==
    LET r == host[h].req IN
    /\ lock = NoHost
    /\ host[h].pc = "execute"
    /\ lock' = h
    /\ host' = [host EXCEPT ![h].pc = "retire"]
    /\ \/ /\ r \in registered
          /\ UNCHANGED <<registered, state>>
       \/ /\ r \notin registered
          /\ ~DeletionInProgress
          /\ ValidateSemanticTargets(r)
          /\ registered' = registered \cup {r}
          /\ state' = [o \in Objects |-> IF o \in frozen[r] THEN "pending" ELSE state[o]]
    /\ UNCHANGED <<retired, residue, log, receipts, frozen>>

(* Every object of the request is retired; see SourceVault.                 *)
RetireObjects(h) ==
    /\ host[h].pc = "retire"
    /\ host[h].req \notin retired
    /\ retired' = retired \cup {host[h].req}
    /\ UNCHANGED <<state, registered, residue, log, receipts, lock, frozen, host>>

(* execute_object_deletion and the first transaction of execute_request.    *)
BeginAttempt(h) ==
    LET r == host[h].req IN
    /\ host[h].pc = "retire"
    /\ r \in retired
    /\ Len(log[r]) < MaxAttempts
    /\ log' = [log EXCEPT ![r] = Append(@, [at |-> host[h].at, result |-> NoResults])]
    /\ host' = [host EXCEPT ![h] = [@ EXCEPT !.pc = "run", !.next = 1, !.failed = FALSE]]
    /\ UNCHANGED <<state, registered, retired, residue, receipts, lock, frozen>>

(* insert_execution_result for component c of the current attempt.          *)
Insert(r, c, outcome) ==
    log' = [log EXCEPT ![r][Len(log[r])].result[c] = outcome]

Advance(h, hasFailed) ==
    host' = [host EXCEPT ![h] = [@ EXCEPT !.next = host[h].next + 1, !.failed = hasFailed]]

(* A component succeeds: its content is removed, or was gone before.        *)
ComponentSucceeds(h) ==
    LET r == host[h].req
        c == host[h].next
    IN
    /\ host[h].pc = "run"
    /\ c < N
    /\ Insert(r, c, IF c \in Erasing /\ c \notin residue[r] THEN "not_found" ELSE "done")
    /\ residue' = [residue EXCEPT ![r] = @ \ {c}]
    /\ Advance(h, host[h].failed)
    /\ UNCHANGED <<state, registered, retired, receipts, lock, frozen>>

(* A component fails: its transaction is rolled back and the failure is     *)
(* recorded in another one.                                                 *)
ComponentFails(h) ==
    LET r == host[h].req
        c == host[h].next
    IN
    /\ host[h].pc = "run"
    /\ c <= N
    /\ Insert(r, c, "failed")
    /\ Advance(h, TRUE)
    /\ UNCHANGED <<state, registered, retired, residue, receipts, lock, frozen>>

(* retain_minimal_audit: all other components have a result; the entry      *)
(* state is purged and deletion_state becomes final, deleted or failed.     *)
MinimalAudit(h) ==
    LET r == host[h].req IN
    /\ host[h].pc = "run"
    /\ host[h].next = N
    /\ \A c \in 1..(N - 1) : Current(r).result[c] # "none"
    /\ Insert(r, N, "done")
    /\ residue' = [residue EXCEPT ![r] = @ \ {N}]
    /\ state' = [o \in Objects |-> IF o \notin frozen[r] THEN state[o]
                                   ELSE IF host[h].failed THEN "failed" ELSE "deleted"]
    /\ Advance(h, host[h].failed)
    /\ UNCHANGED <<registered, retired, receipts, lock, frozen>>

(* load_execution_results: the session ends and returns the results.        *)
EndExecution(h) ==
    /\ host[h].pc = "run"
    /\ host[h].next = N + 1
    /\ lock' = NoHost
    /\ host' = [host EXCEPT ![h] =
                  [@ EXCEPT !.pc = "store", !.result = Current(host[h].req).result]]
    /\ UNCHANGED <<dbVars, frozen>>

-----------------------------------------------------------------------------
AppendReceipt(r, previous, completed) ==
    receipts' = [receipts EXCEPT ![r] =
        Append(@, [ordinal |-> Len(log[r]), previous |-> previous, completed |-> completed])]

(* Mutant: the previous evidence need not be the latest one.                *)
StoreEvidenceAnyPrevious(h) ==
    LET r == host[h].req IN
    /\ lock = NoHost
    /\ host[h].pc = "store"
    /\ log[r] # <<>>
    /\ Current(r) = [at |-> host[h].at, result |-> host[h].result]
    /\ \A i \in DOMAIN receipts[r] : receipts[r][i].ordinal # Len(log[r])
    /\ AppendReceipt(r, host[h].prev, Succeeded(host[h].result))
    /\ lock' = h
    /\ host' = [host EXCEPT ![h].pc = "stored"]
    /\ UNCHANGED <<state, registered, retired, residue, log, frozen>>

(* store_evidence in the third session: the results are those of the latest *)
(* attempt, the previous evidence is the latest one, and the attempt has no *)
(* evidence yet (unique constraint of migration 0005).                      *)
StoreEvidence(h) ==
    LET r == host[h].req IN
    /\ lock = NoHost
    /\ host[h].pc = "store"
    /\ log[r] # <<>>
    /\ Current(r) = [at |-> host[h].at, result |-> host[h].result]
    /\ host[h].prev = Latest(r)
    /\ \A i \in DOMAIN receipts[r] : receipts[r][i].ordinal # Len(log[r])
    /\ AppendReceipt(r, host[h].prev, Succeeded(host[h].result))
    /\ lock' = h
    /\ host' = [host EXCEPT ![h].pc = "stored"]
    /\ UNCHANGED <<state, registered, retired, residue, log, frozen>>

(* The stored evidence is read back and returned.  The host forgets the     *)
(* request when it is completed; an error here keeps it, see Refuse.        *)
ReturnEvidence(h) ==
    /\ host[h].pc = "stored"
    /\ lock' = NoHost
    /\ host' = [host EXCEPT ![h] =
                  Idle(IF Succeeded(@.result) THEN NoRequest ELSE @.req)]
    /\ UNCHANGED <<dbVars, frozen>>

-----------------------------------------------------------------------------
(* An operation returns an error, or a check refuses: the session ends, the *)
(* host keeps the request for a retry.                                      *)
Refuse(h) ==
    /\ host[h].pc # "idle"
    /\ host' = [host EXCEPT ![h] = Idle(host[h].req)]
    /\ lock' = IF lock = h THEN NoHost ELSE lock
    /\ UNCHANGED <<dbVars, frozen>>

(* The process dies: a request that was not registered is lost with it.     *)
Crash(h) ==
    /\ host[h].req # NoRequest
    /\ host' = [host EXCEPT ![h] = Idle(NoRequest)]
    /\ lock' = IF lock = h THEN NoHost ELSE lock
    /\ UNCHANGED <<dbVars, frozen>>

Step(h) ==
    \/ \E t \in Times : ReadPrevious(h, t)
    \/ ReturnReceipt(h)
    \/ BeginDeletion(h)
    \/ RetireObjects(h)
    \/ BeginAttempt(h)
    \/ ComponentSucceeds(h)
    \/ MinimalAudit(h)
    \/ EndExecution(h)
    \/ StoreEvidence(h)
    \/ ReturnEvidence(h)

Next ==
    \/ \E o \in Objects : Capture(o)
    \/ \E h \in Hosts, r \in Requests : Prepare(h, r) \/ Recover(h, r)
    \/ \E h \in Hosts : Step(h) \/ ComponentFails(h) \/ Refuse(h) \/ Crash(h)

Spec == Init /\ [][Next]_vars

-----------------------------------------------------------------------------
(* Properties.                                                              *)

(* Hosts that prepared requests for the same lineage at the same time never *)
(* both register theirs (deletion_in_progress, validate_semantic_targets).  *)
OneRequestOwnsLineage == \A r, q \in registered : r = q

(* A registered request covers the whole lineage, however old the closure   *)
(* was when the request was prepared and whatever was captured since.       *)
NothingLeftBehind ==
    \A r \in registered, o \in Objects : state[o] # "absent" => o \in frozen[r]

(* Every receipt reports an attempt that ran to the end: it is completed    *)
(* exactly when no component of that attempt failed.                        *)
ReceiptMatchesAttempt ==
    \A r \in Requests : \A i \in DOMAIN receipts[r] :
        LET e == receipts[r][i] IN
        /\ e.ordinal \in DOMAIN log[r]
        /\ \A c \in Components : log[r][e.ordinal].result[c] # "none"
        /\ e.completed <=> Succeeded(log[r][e.ordinal].result)

(* The receipts of a request are one chain, in the order of the attempts,   *)
(* and it ends at the first completed one, whatever hosts raced for it.     *)
ReceiptsFormChain ==
    \A r \in Requests : \A i \in DOMAIN receipts[r] :
        /\ receipts[r][i].previous = IF i = 1 THEN 0 ELSE receipts[r][i - 1].ordinal
        /\ receipts[r][i].previous < receipts[r][i].ordinal
        /\ receipts[r][i].completed => i = Len(receipts[r])

(* A completed receipt is true: nothing of any component is left and the    *)
(* objects are retired, also after a later attempt of another host.         *)
CompletedMeansGone ==
    \A r \in Requests : Completed(r) => residue[r] = {} /\ r \in retired

(* Attempts in which the minimal audit was carried out.                     *)
Audited(r) == {i \in DOMAIN log[r] : log[r][i].result[N] = "done"}

(* deletion_state says what the last audited attempt found: deleted when    *)
(* all its components succeeded, failed when one did not.                   *)
StateFollowsAudit ==
    \A r \in registered : \A o \in frozen[r] :
        IF Audited(r) = {} THEN state[o] = "pending"
        ELSE LET last == CHOOSE i \in Audited(r) : \A j \in Audited(r) : j <= i
             IN  state[o] = IF Succeeded(log[r][last].result) THEN "deleted" ELSE "failed"

(* deletion_state is a projection of the request and its evidence           *)
(* (docs/schema/m0-canonical-schema.md:70): after completed evidence the    *)
(* objects are deleted, and no deletion is in progress that no host would   *)
(* ever find unfinished.                                                    *)
StateFollowsReceipt ==
    \A r \in registered : Completed(r) => \A o \in frozen[r] : state[o] = "deleted"

(* No step makes an object active again once a request covers it, and no    *)
(* step changes a receipt or the result of a component once it is stored.   *)
StaysClosed(o) ==
    state[o] \in {"pending", "failed", "deleted"} =>
        state'[o] \in {"pending", "failed", "deleted"}

KeepsHistory(r) ==
    /\ \A i \in DOMAIN receipts[r] : i \in DOMAIN receipts'[r] /\ receipts'[r][i] = receipts[r][i]
    /\ \A i \in DOMAIN log[r] : i \in DOMAIN log'[r] /\ \A c \in Components :
          log[r][i].result[c] # "none" => log'[r][i].result[c] = log[r][i].result[c]

HistoryIsFinal == [][/\ \A o \in Objects : StaysClosed(o)
                     /\ \A r \in Requests : KeepsHistory(r)]_vars
=============================================================================
