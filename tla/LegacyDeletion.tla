--------------------------- MODULE LegacyDeletion ---------------------------
(***************************************************************************)
(* A deletion that the plain library left unfinished and the encrypted     *)
(* vault takes over (deletion_store.rs, deletion_actions.rs,               *)
(* legacy_deletion.rs and object_deletion.rs of radishmemory-sqlite).      *)
(*                                                                         *)
(* In the plain library a request is stored, its targets are closed, and   *)
(* an executor runs its components, each in a transaction of its own; a    *)
(* component may fail and the process may end between any two of them.     *)
(* Then the bodies that are left are moved into vault objects (see         *)
(* BodyMigration; here one step), and the original request is called again *)
(* there.  The rows an earlier attempt removed can then be explained only  *)
(* by the result it stored, and validate_resume refuses the request where  *)
(* that result is missing.  Captures in progress, which also refuse the    *)
(* adoption, are in SourceVault.                                           *)
(*                                                                         *)
(* Every source is a lineage of its own with one fragment.  The five       *)
(* components that touch none of these rows (metadata, decisions, events,  *)
(* full text, context cache) are the one component "Retained".             *)
(***************************************************************************)
EXTENDS Naturals, Sequences, FiniteSets

CONSTANTS Sources,
          Proposals,
          Memories,
          Origin,       \* origin_proposal_id of each memory record
          Supersedes,   \* pairs <<memory, superseded memory>>
          MaxRequests,  \* bound on the stored requests
          MaxAttempts,  \* bound on the attempts of a request in the plain library
          MaxFailed,    \* bound on the component transactions that fail by themselves
          MaxCrashes    \* bound on the process ends

ASSUME LegacyAssumption ==
    /\ Origin \in [Memories -> Proposals]
    /\ \A m, n \in Memories : Origin[m] = Origin[n] => m = n
    /\ Supersedes \subseteq Memories \X Memories
    /\ {MaxRequests, MaxAttempts, MaxFailed, MaxCrashes} \subseteq Nat

VARIABLES
    source, proposal, memory,  \* deletion_state of the rows
    inline,    \* sources with a row in radishmemory_source_bodies
    fragment,  \* sources with their row in radishmemory_source_fragments
    plink,     \* the fragments each proposal cites
    mlink,     \* the fragments each memory record cites
    redacted,  \* proposals whose text is the redaction marker
    object,    \* the vault object of each source
    request,   \* the stored requests with their frozen closure, oldest first
    attempts,  \* the attempts of each request with their results
    evidence,  \* requests with completed evidence
    plan,      \* requests with a row in radishmemory_source_vault_delete_plans
    receipt,   \* radishmemory_legacy_body_retirements: <<request, attempt>>
    vault,     \* the bodies have been migrated
    run,       \* the executor of each request
    faults     \* failures and crashes so far

rows == <<source, proposal, memory, inline, fragment, plink, mlink, redacted>>
vars == <<rows, object, request, attempts, evidence, plan, receipt, vault, run, faults>>

RowStates == {"active", "pending", "failed", "deleted"}
Order == <<"MemoryProposal", "MemoryRecord", "SourceFragment", "SourceBody",
           "Retained", "MinimalAudit">>
ComponentTypes == {Order[i] : i \in 1..Len(Order)}
Requests == 1..MaxRequests
Closure == [sources : SUBSET Sources, proposals : SUBSET Proposals,
            memories : SUBSET Memories]
Attempt == [legacy : BOOLEAN, result : [ComponentTypes -> {"none", "succeeded", "failed"}]]
NoReceipt == <<0, 0>>
Idle == [pc |-> "idle", next |-> 1, failed |-> FALSE]

(* Every variable keeps to its domain.                                      *)
TypeOK ==
    /\ source \in [Sources -> RowStates]
    /\ proposal \in [Proposals -> RowStates]
    /\ memory \in [Memories -> RowStates]
    /\ inline \in SUBSET Sources
    /\ fragment \in SUBSET Sources
    /\ plink \in [Proposals -> SUBSET Sources]
    /\ mlink \in [Memories -> SUBSET Sources]
    /\ redacted \in SUBSET Proposals
    /\ object \in [Sources -> {"none", "referenced", "deleting", "deleted"}]
    /\ request \in Seq(Closure) /\ Len(request) <= MaxRequests
    /\ attempts \in [Requests -> Seq(Attempt)]
    /\ evidence \in SUBSET Requests
    /\ plan \in SUBSET Requests
    /\ receipt \in [Sources -> (Requests \X (Nat \ {0})) \cup {NoReceipt}]
    /\ vault \in BOOLEAN
    /\ run \in [Requests -> [pc : {"idle", "retire", "run", "store"},
                             next : 1..(Len(Order) + 1), failed : BOOLEAN]]
    /\ faults \in [failed : 0..MaxFailed, crashes : 0..MaxCrashes]

(* A plain library with every source captured and every memory confirmed.   *)
(* A record cites what its proposal cites.                                  *)
Init ==
    /\ source = [s \in Sources |-> "active"]
    /\ proposal = [p \in Proposals |-> "active"]
    /\ memory = [m \in Memories |-> "active"]
    /\ inline = Sources
    /\ fragment = Sources
    /\ plink \in [Proposals -> (SUBSET Sources) \ {{}}]
    /\ mlink = [m \in Memories |-> plink[Origin[m]]]
    /\ redacted = {}
    /\ object = [s \in Sources |-> "none"]
    /\ request = <<>>
    /\ attempts = [r \in Requests |-> <<>>]
    /\ evidence = {}
    /\ plan = {}
    /\ receipt = [s \in Sources |-> NoReceipt]
    /\ vault = FALSE
    /\ run = [r \in Requests |-> Idle]
    /\ faults = [failed |-> 0, crashes |-> 0]

-----------------------------------------------------------------------------
(*                               A request                                  *)

(* validate_semantic_targets: only active rows, and every active record     *)
(* that cites a target source or supersedes a target record.                *)
ValidateSemanticTargets(S, M) ==
    /\ \A s \in S : source[s] = "active"
    /\ \A m \in M : memory[m] = "active"
    /\ \A m \in Memories : memory[m] = "active" /\ mlink[m] \cap S # {} => m \in M
    /\ \A m \in M : \A n \in Memories :
         <<n, m>> \in Supersedes /\ memory[n] = "active" => n \in M

(* build_execution_closure: a proposal is in the closure as the origin of a *)
(* record, or as an active proposal that cites a target.                    *)
BuildExecutionClosure(S, M) ==
    [sources |-> S, memories |-> M,
     proposals |-> {Origin[m] : m \in M}
                   \cup {p \in Proposals : proposal[p] = "active" /\ plink[p] \cap S # {}}]

(* close_targets_to_recall and insert_request.                              *)
InsertClosed(closure) ==
    /\ Len(request) < MaxRequests
    /\ request' = Append(request, closure)
    /\ source' = [s \in Sources |-> IF s \in closure.sources THEN "pending" ELSE source[s]]
    /\ memory' = [m \in Memories |-> IF m \in closure.memories THEN "pending" ELSE memory[m]]
    /\ proposal' = [p \in Proposals |->
                      IF p \in closure.proposals /\ proposal[p] = "active"
                      THEN "pending" ELSE proposal[p]]

(* store_delete_request of the plain library.  Another request may be in    *)
(* progress.                                                                *)
StoreDeleteRequest(S, M) ==
    /\ ~vault
    /\ S \cup M # {}
    /\ ValidateSemanticTargets(S, M)
    /\ InsertClosed(BuildExecutionClosure(S, M))
    /\ UNCHANGED <<inline, fragment, plink, mlink, redacted, object, attempts, evidence,
                   plan, receipt, vault, run, faults>>

-----------------------------------------------------------------------------
(*                          Execution                                       *)

Stored == 1..Len(request)
Targets(r) == request[r]
Running == {r \in Requests : run[r].pc # "idle"}

(* The first transaction of execute_request_inner.                          *)
BeginAttempt(r) ==
    /\ attempts' = [attempts EXCEPT ![r] =
          Append(@, [legacy |-> ~vault, result |-> [c \in ComponentTypes |-> "none"]])]
    /\ run' = [run EXCEPT ![r] = [pc |-> "run", next |-> 1, failed |-> FALSE]]

(* execute_deletion of the plain library: the application returns completed *)
(* evidence instead.                                                        *)
ExecuteDeletion(r) ==
    /\ ~vault
    /\ r \in Stored
    /\ run[r].pc = "idle"
    /\ r \notin evidence
    /\ Len(attempts[r]) < MaxAttempts
    /\ BeginAttempt(r)
    /\ UNCHANGED <<rows, object, request, evidence, plan, receipt, vault, faults>>

Current(r) == Order[run[r].next]

(* Mutant: a failed component is recorded but not remembered.               *)
RecordForgetful(r, status) ==
    /\ attempts' = [attempts EXCEPT ![r][Len(attempts[r])].result[Current(r)] = status]
    /\ run' = [run EXCEPT ![r].next = @ + 1]

(* insert_execution_result, and has_failed.                                 *)
Record(r, status) ==
    /\ attempts' = [attempts EXCEPT ![r][Len(attempts[r])].result[Current(r)] = status]
    /\ run' = [run EXCEPT ![r].next = @ + 1,
                          ![r].failed = @ \/ status = "failed"]

(* delete_source_fragments meets ON DELETE RESTRICT while a proposal or a   *)
(* record cites a fragment.                                                 *)
Cited(S) ==
    \/ \E p \in Proposals : plink[p] \cap S # {}
    \/ \E m \in Memories : mlink[m] \cap S # {}

(* Mutant: a later attempt must have repeated the result.                   *)
LegacyComponentProofLatest(r, c) ==
    {k \in 1..Len(attempts[r]) : /\ k = Len(attempts[r])
                                 /\ attempts[r][k].result[c] = "succeeded"
                                 /\ c = "SourceBody" => attempts[r][k].legacy}

(* legacy_component_proof: the attempts whose result explains missing rows. *)
(* The source-body result of the vault has a method of its own.             *)
LegacyComponentProof(r, c) ==
    {k \in 1..Len(attempts[r]) : /\ attempts[r][k].result[c] = "succeeded"
                                 /\ c = "SourceBody" => attempts[r][k].legacy}

(* require_closed_target                                                    *)
Closed(state) == state \in {"pending", "failed", "deleted"}

(* verify_recorded_body_absence                                             *)
VerifyRecordedBodyAbsence(r, s) ==
    /\ s \in Targets(r).sources
    /\ Closed(source[s])
    /\ receipt[s][1] = r
    /\ receipt[s][2] \in LegacyComponentProof(r, "SourceBody")
    /\ s \notin inline
    /\ object[s] = "none"

(* What delete_source_bodies verifies in the vault.                         *)
BodyAbsent(r, s) == object[s] = "deleted" \/ VerifyRecordedBodyAbsence(r, s)

(* The rows let the current component of request r succeed.                 *)
ComponentPossible(r) ==
    /\ Current(r) = "SourceFragment" => ~Cited(Targets(r).sources \cap fragment)
    /\ Current(r) = "SourceBody" /\ vault => \A s \in Targets(r).sources : BodyAbsent(r, s)

(* The text of a proposal becomes the marker and its citations go.          *)
RedactMemoryProposals(r) ==
    /\ Current(r) = "MemoryProposal"
    /\ plink' = [p \in Proposals |-> IF p \in Targets(r).proposals THEN {} ELSE plink[p]]
    /\ redacted' = redacted \cup Targets(r).proposals
    /\ UNCHANGED <<mlink, fragment, inline>>

RedactMemoryRecords(r) ==
    /\ Current(r) = "MemoryRecord"
    /\ mlink' = [m \in Memories |-> IF m \in Targets(r).memories THEN {} ELSE mlink[m]]
    /\ UNCHANGED <<plink, redacted, fragment, inline>>

DeleteSourceFragments(r) ==
    /\ Current(r) = "SourceFragment"
    /\ fragment' = fragment \ Targets(r).sources
    /\ UNCHANGED <<plink, redacted, mlink, inline>>

(* In the vault there are no inline bodies left.                            *)
DeleteSourceBodies(r) ==
    /\ Current(r) = "SourceBody"
    /\ inline' = inline \ Targets(r).sources
    /\ UNCHANGED <<plink, redacted, mlink, fragment>>

(* The five components that touch none of these rows.                       *)
RetainMinimal(r) ==
    /\ Current(r) = "Retained"
    /\ UNCHANGED <<plink, redacted, mlink, fragment, inline>>

(* execute_component_action for the components before the minimal audit.    *)
ComponentAction(r) ==
    \/ RedactMemoryProposals(r)
    \/ RedactMemoryRecords(r)
    \/ DeleteSourceFragments(r)
    \/ DeleteSourceBodies(r)
    \/ RetainMinimal(r)

ComponentSucceeds(r) ==
    /\ run[r].pc = "run"
    /\ run[r].next < Len(Order)
    /\ ComponentPossible(r)
    /\ ComponentAction(r)
    /\ Record(r, "succeeded")
    /\ UNCHANGED <<source, proposal, memory, object, request, evidence, plan, receipt,
                   vault, faults>>

(* The transaction of a component is rolled back, because the rows do not   *)
(* allow it or because SQLite reports an error; the failure is recorded.    *)
ComponentFails(r) ==
    /\ run[r].pc = "run"
    /\ run[r].next <= Len(Order)
    /\ IF ComponentPossible(r)
       THEN /\ faults.failed < MaxFailed
            /\ faults' = [faults EXCEPT !.failed = @ + 1]
       ELSE UNCHANGED faults
    /\ Record(r, "failed")
    /\ UNCHANGED <<rows, object, request, evidence, plan, receipt, vault>>

FinalState(r) == IF run[r].failed THEN "failed" ELSE "deleted"

(* retain_minimal_audit: it is the last component, so the others have their *)
(* results.  The lineage tips went when the targets were closed.            *)
MinimalAudit(r) ==
    /\ run[r].pc = "run"
    /\ run[r].next = Len(Order)
    /\ source' = [s \in Sources |->
                    IF s \in Targets(r).sources THEN FinalState(r) ELSE source[s]]
    /\ proposal' = [p \in Proposals |->
                      IF p \in Targets(r).proposals THEN FinalState(r) ELSE proposal[p]]
    /\ memory' = [m \in Memories |->
                    IF m \in Targets(r).memories THEN FinalState(r) ELSE memory[m]]
    /\ Record(r, "succeeded")
    /\ UNCHANGED <<inline, fragment, plink, mlink, redacted, object, request, evidence,
                   plan, receipt, vault, faults>>

(* load_execution_results                                                   *)
EndAttempt(r) ==
    /\ run[r].pc = "run"
    /\ run[r].next = Len(Order) + 1
    /\ run' = [run EXCEPT ![r].pc = "store"]
    /\ UNCHANGED <<rows, object, request, attempts, evidence, plan, receipt, vault, faults>>

(* store_evidence: completed when every component of the attempt succeeded. *)
StoreEvidence(r) ==
    /\ run[r].pc = "store"
    /\ evidence' = IF run[r].failed THEN evidence ELSE evidence \cup {r}
    /\ run' = [run EXCEPT ![r] = Idle]
    /\ UNCHANGED <<rows, object, request, attempts, plan, receipt, vault, faults>>

-----------------------------------------------------------------------------
(*                        Migration and adoption                            *)

(* migrate_bodies: every inline body becomes an object with a reference.    *)
(* One step here; BodyMigration has its steps, failures and losses of power *)
MigrateBodies ==
    /\ ~vault
    /\ Running = {}
    /\ vault' = TRUE
    /\ object' = [s \in Sources |-> IF s \in inline THEN "referenced" ELSE "none"]
    /\ inline' = {}
    /\ UNCHANGED <<source, proposal, memory, fragment, plink, mlink, redacted, request,
                   attempts, evidence, plan, receipt, run, faults>>

Earlier(r) == 1..(r - 1)

(* What validate_resume asks of the sources of request r and their bodies.  *)
ResumeSources(r) ==
    \A s \in Targets(r).sources :
       /\ Closed(source[s])
       /\ s \notin inline
       /\ object[s] = "none" => LegacyComponentProof(r, "SourceBody") # {}
       /\ object[s] # "none" => object[s] = "referenced"

(* The proposals that cite a fragment of the closure or that a record of    *)
(* the closure came from.                                                   *)
DependentProposals(r) ==
    {p \in Proposals : plink[p] \cap Targets(r).sources # {}}
    \cup {Origin[m] : m \in Targets(r).memories}

(* Mutant: a fragment row of the closure has to be there.                   *)
ResumeFragmentsPresent(r) ==
    \A s \in Targets(r).sources :
       /\ s \in fragment
       /\ \A m \in Memories : s \in mlink[m] => m \in Targets(r).memories

(* A missing fragment is explained by the result that removed it, and only  *)
(* records of the closure cite what is left.                                *)
ResumeFragments(r) ==
    \A s \in Targets(r).sources :
       /\ s \notin fragment => LegacyComponentProof(r, "SourceFragment") # {}
       /\ \A m \in Memories : s \in mlink[m] => m \in Targets(r).memories

ResumeMemories(r) ==
    \A m \in Targets(r).memories :
       /\ Closed(memory[m])
       /\ \A n \in Memories :
            <<n, m>> \in Supersedes /\ memory[n] # "deleted" => n \in Targets(r).memories

(* A proposal without links is explained by the marker and the result that  *)
(* wrote it.                                                                *)
ResumeProposals(r) ==
    /\ DependentProposals(r) \subseteq Targets(r).proposals
    /\ \A p \in Targets(r).proposals :
         /\ Closed(proposal[p])
         /\ p \notin DependentProposals(r) =>
              /\ LegacyComponentProof(r, "MemoryProposal") # {}
              /\ p \in redacted /\ plink[p] = {}

(* validate_resume.  The frozen closures it compares first are those of the *)
(* request itself here, and equal by construction.                          *)
ValidateResume(r) ==
    ResumeSources(r) /\ ResumeFragments(r) /\ ResumeMemories(r) /\ ResumeProposals(r)

(* The attempt a receipt pins: the first with a proof.                      *)
PinnedAttempt(r) ==
    CHOOSE k \in LegacyComponentProof(r, "SourceBody") :
       \A j \in LegacyComponentProof(r, "SourceBody") : k <= j

(* adopt_legacy_deletion: the plan is frozen; each source gets a receipt or *)
(* loses its reference to the checkpoint of a deletion.                     *)
AdoptLegacyDeletion(r) ==
    /\ ValidateResume(r)
    /\ plan' = plan \cup {r}
    /\ receipt' = [s \in Sources |->
                     IF s \in Targets(r).sources /\ object[s] = "none"
                     THEN <<r, PinnedAttempt(r)>> ELSE receipt[s]]
    /\ object' = [s \in Sources |->
                    IF s \in Targets(r).sources /\ object[s] = "referenced"
                    THEN "deleting" ELSE object[s]]

(* begin_object_deletion for a stored request: adopted once, then resumed.  *)
BeginDeletion(r) ==
    /\ vault
    /\ Running = {}
    /\ r \in Stored
    /\ r \notin evidence
    /\ IF r \in plan THEN UNCHANGED <<plan, receipt, object>> ELSE AdoptLegacyDeletion(r)
    /\ run' = [run EXCEPT ![r] = [Idle EXCEPT !.pc = "retire"]]
    /\ UNCHANGED <<rows, request, attempts, evidence, vault, faults>>

DeletionInProgress ==
    \/ \E s \in Sources : source[s] \in {"pending", "failed"}
    \/ \E m \in Memories : memory[m] \in {"pending", "failed"}

(* begin_object_deletion for a request that was never stored: none while a  *)
(* deletion is in progress, and every target has its object.                *)
BeginNewDeletion(S, M) ==
    /\ vault
    /\ Running = {}
    /\ S \cup M # {}
    /\ ~DeletionInProgress
    /\ ValidateSemanticTargets(S, M)
    /\ \A s \in S : object[s] = "referenced"
    /\ InsertClosed(BuildExecutionClosure(S, M))
    /\ plan' = plan \cup {Len(request) + 1}
    /\ object' = [s \in Sources |-> IF s \in S THEN "deleting" ELSE object[s]]
    /\ run' = [run EXCEPT ![Len(request) + 1] = [Idle EXCEPT !.pc = "retire"]]
    /\ UNCHANGED <<inline, fragment, plink, mlink, redacted, attempts, evidence, receipt,
                   vault, faults>>

(* finish_object_retirement, once the files of the object are gone.         *)
FinishRetirement(r, s) ==
    /\ run[r].pc = "retire"
    /\ s \in Targets(r).sources
    /\ object[s] = "deleting"
    /\ object' = [object EXCEPT ![s] = "deleted"]
    /\ UNCHANGED <<rows, request, attempts, evidence, plan, receipt, vault, run, faults>>

(* execute_object_deletion                                                  *)
ExecuteObjectDeletion(r) ==
    /\ run[r].pc = "retire"
    /\ \A s \in Targets(r).sources : object[s] \in {"none", "deleted"}
    /\ BeginAttempt(r)
    /\ UNCHANGED <<rows, object, request, evidence, plan, receipt, vault, faults>>

(* A process ends; in the vault the only one that runs.                     *)
Crash(r) ==
    /\ run[r].pc # "idle"
    /\ faults.crashes < MaxCrashes
    /\ faults' = [faults EXCEPT !.crashes = @ + 1]
    /\ run' = [run EXCEPT ![r] = Idle]
    /\ UNCHANGED <<rows, object, request, attempts, evidence, plan, receipt, vault>>

Step(r) ==
    \/ ComponentSucceeds(r)
    \/ ComponentFails(r)
    \/ MinimalAudit(r)
    \/ EndAttempt(r)
    \/ StoreEvidence(r)
    \/ \E s \in Sources : FinishRetirement(r, s)
    \/ ExecuteObjectDeletion(r)

Next ==
    \/ \E S \in SUBSET Sources, M \in SUBSET Memories :
         StoreDeleteRequest(S, M) \/ BeginNewDeletion(S, M)
    \/ MigrateBodies
    \/ \E r \in Requests : ExecuteDeletion(r) \/ BeginDeletion(r) \/ Step(r) \/ Crash(r)

Spec == Init /\ [][Next]_vars

(* An executor that runs goes on, and the user calls a request again and    *)
(* again until its evidence is complete.                                    *)
FairSpec ==
    /\ Spec
    /\ \A r \in Requests : WF_vars(Step(r)) /\ SF_vars(BeginDeletion(r))

-----------------------------------------------------------------------------
(*                              Properties                                  *)

(* verify_deletion_inventory and verify_receipts hold after every step: no  *)
(* crash, failure or retry leaves a vault that refuses to open, because     *)
(* each target of an adopted request has its object checkpoint or a receipt *)
(* that pins a real old result.                                             *)
InventoryVerifies ==
    /\ \A r \in plan : \A s \in Targets(r).sources :
         object[s] \in {"deleting", "deleted"} \/ receipt[s] # NoReceipt
    /\ \A s \in Sources : receipt[s] # NoReceipt => VerifyRecordedBodyAbsence(receipt[s][1], s)
    /\ \A s \in Sources : object[s] \in {"deleting", "deleted"} => Closed(source[s])

(* validate_resume never refuses a genuine history: whatever the plain      *)
(* executors did, and wherever they failed or stopped, the oldest request   *)
(* that is not deleted yet can be adopted.                                  *)
OldestIsAdopted ==
    vault => \A r \in Stored \ plan :
       (\A q \in Earlier(r) : /\ \A s \in Targets(q).sources : source[s] = "deleted"
                              /\ \A m \in Targets(q).memories : memory[m] = "deleted"
                              /\ \A p \in Targets(q).proposals : proposal[p] = "deleted")
       => ValidateResume(r)

(* The vault accepts what the plain library left, before and after it has   *)
(* adopted it.                                                              *)
HistoryAccepted == TypeOK /\ InventoryVerifies /\ OldestIsAdopted

(* A row that says deleted has nothing left: no inline body, no object, no  *)
(* fragment, no citation, and no text of a proposal.                        *)
DeletedMeansGone ==
    /\ \A s \in Sources : source[s] = "deleted" =>
         s \notin inline /\ s \notin fragment /\ object[s] \in {"none", "deleted"}
    /\ \A m \in Memories : memory[m] = "deleted" => mlink[m] = {}
    /\ \A p \in Proposals : proposal[p] = "deleted" => plink[p] = {} /\ p \in redacted

(* Every request that the plain library left behind is completed in the     *)
(* vault.                                                                   *)
EveryRequestCompletes ==
    \A r \in Requests : (vault /\ r \in Stored) ~> (r \in evidence)
=============================================================================
