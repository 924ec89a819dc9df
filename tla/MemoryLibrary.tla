---------------------------- MODULE MemoryLibrary ----------------------------
(***************************************************************************)
(* The canonical memory history and the recall index derived from it       *)
(* (memory_store.rs, source_store.rs, derived_index.rs and the closing     *)
(* transaction of deletion_store.rs; the cross-object rules of             *)
(* radishmemory-core/src/invariants.rs).                                   *)
(*                                                                         *)
(* Sources are versions of a lineage; a memory starts as a proposal that   *)
(* cites source fragments, is decided (any number of deferrals, then an    *)
(* acceptance or a rejection), is materialized as a record and lives       *)
(* through state events.  A proposal with targets supersedes them.  Each   *)
(* action is one immediate transaction: a guard that fails rolls it back.  *)
(* Tips, projection and recall rows are derived: they are maintained by    *)
(* each transaction and can be rebuilt from the canonical facts.           *)
(*                                                                         *)
(* One namespace; a source has one fragment, named like the source; a      *)
(* decision or an event is identified by its place in the order in which   *)
(* it was stored, and names the one before it (0 for none).  Governance    *)
(* and content are left out.  "closed" stands for pending, failed and      *)
(* deleted: no loader reads such a row (DeletionExecution has the rest).   *)
(***************************************************************************)
EXTENDS Naturals, Sequences, FiniteSets

CONSTANTS Lineages,        \* source lineages
          MaxVersion,      \* bound on the versions of a source lineage
          MaxSources,      \* bound on the source versions of all lineages
          Proposals,
          Contents,        \* what tells two proposals on the same facts apart
          Memories,        \* memory identifiers
          MemoryLineages,
          NoMemory,
          Times,           \* instants
          NoTime,          \* a valid time of mode unknown
          Starts,          \* the valid time starts of the proposals
          MaxDecisions     \* bound on the decisions of all proposals

ASSUME LibraryAssumption ==
    /\ {MaxVersion, MaxSources, MaxDecisions} \subseteq Nat
    /\ IsFiniteSet(Memories)
    /\ Memories \cap (Lineages \X (0..MaxVersion)) = {}
    /\ NoMemory \notin Memories
    /\ NoTime \notin Times
    /\ Starts \subseteq Times \cup {NoTime}

VARIABLES
    \* canonical facts
    source,      \* deletion_state of each source version
    fragment,    \* deletion_state of its fragment
    proposal,    \* the stored proposals
    decisions,   \* the decisions of each proposal, in the order they were stored
    record,      \* the stored records
    events,      \* the state events of each record, in the order they were stored
    \* derived rows
    tip,         \* radishmemory_source_lineage_tips: the tip version, 0 without a row
    projection,  \* radishmemory_memory_current_projection: a state, "none" without a row
    recall,      \* radishmemory_recall_fts: the recallable fragments and records
    damaged      \* derived rows were lost since they were last rebuilt

canonical == <<source, fragment, proposal, decisions, record, events>>
derived == <<tip, projection, recall, damaged>>
vars == <<canonical, derived>>

Sources == Lineages \X (1..MaxVersion)
RowStates == {"active", "closed"}

Proposal == [state : RowStates, content : Contents, sources : SUBSET Sources,
             targets : SUBSET Memories, start : Times \cup {NoTime}]

Decision == [previous : Nat, decision : {"defer", "accept", "reject"},
             result : Memories \cup {NoMemory}]

Record == [state : RowStates, lineage : MemoryLineages, version : Nat,
           origin : Proposals, sources : SUBSET Sources,
           supersedes : SUBSET Memories, start : Times \cup {NoTime}]

(* "ended" stands for contradicted, retracted and expired, which no check    *)
(* tells apart.                                                             *)
EndTypes == {"superseded", "ended"}

Event == [previous : Nat, type : EndTypes \cup {"confirmed"},
          cause : Memories \cup {NoMemory}, at : Times \cup {NoTime}]

(* Every variable keeps to its domain.                                      *)
TypeOK ==
    /\ source \in [Sources -> RowStates \cup {"absent"}]
    /\ fragment \in [Sources -> RowStates \cup {"absent"}]
    /\ DOMAIN proposal \subseteq Proposals
    /\ proposal \in [DOMAIN proposal -> Proposal]
    /\ decisions \in [Proposals -> Seq(Decision)]
    /\ DOMAIN record \subseteq Memories
    /\ record \in [DOMAIN record -> Record]
    /\ events \in [Memories -> Seq(Event)]
    /\ tip \in [Lineages -> 0..MaxVersion]
    /\ projection \in [Memories -> EndTypes \cup {"confirmed", "none"}]
    /\ recall \subseteq Sources \cup Memories
    /\ damaged \in BOOLEAN

Init ==
    /\ source = [s \in Sources |-> "absent"]
    /\ fragment = [s \in Sources |-> "absent"]
    /\ proposal = <<>>
    /\ decisions = [p \in Proposals |-> <<>>]
    /\ record = <<>>
    /\ events = [m \in Memories |-> <<>>]
    /\ tip = [l \in Lineages |-> 0]
    /\ projection = [m \in Memories |-> "none"]
    /\ recall = {}
    /\ damaged = FALSE

-----------------------------------------------------------------------------
(* What the loaders accept.                                                 *)

Stored(m) == m \in DOMAIN record

(* load_source_artifact: the row is active and what it supersedes, the      *)
(* version before it, is stored.                                            *)
SourceLoads(s) ==
    /\ source[s] = "active"
    /\ s[2] > 1 => source[<<s[1], s[2] - 1>>] # "absent"

(* load_resolved_fragment_with.                                             *)
FragmentLoads(s) == fragment[s] = "active" /\ SourceLoads(s)

(* order_decision_chain and order_event_chain: one root, one successor      *)
(* each, nothing left over.                                                 *)
Chained(chain) == \A i \in DOMAIN chain : chain[i].previous = i - 1

DecisionChainLoads(chain) ==
    /\ Chained(chain)
    /\ \A i \in DOMAIN chain : i < Len(chain) => chain[i].decision = "defer"

(* load_memory_proposal_with.                                               *)
ProposalLoads(p) ==
    /\ p \in DOMAIN proposal
    /\ proposal[p].state = "active"
    /\ \A s \in proposal[p].sources : FragmentLoads(s)
    /\ \A m \in proposal[p].targets : Stored(m)

(* The terminal decision of a proposal, when it is an acceptance.           *)
Accepted(p, m) ==
    /\ decisions[p] # <<>>
    /\ LET d == decisions[p][Len(decisions[p])] IN
         d.decision = "accept" /\ d.result = m

(* validate_memory_event_chain: a confirmation, then at most one end.       *)
EventChainLoads(chain) ==
    /\ chain # <<>>
    /\ Chained(chain)
    /\ chain[1].type = "confirmed"
    /\ Len(chain) <= 2
    /\ \A i \in DOMAIN chain : i > 1 => chain[i].type # "confirmed"

Last(m) == events[m][Len(events[m])]
StateOf(m) == Last(m).type

(* validate_memory_materialization.                                         *)
Materializes(p, m, r) ==
    /\ Accepted(p, m)
    /\ r.origin = p
    /\ r.sources = proposal[p].sources
    /\ r.supersedes = proposal[p].targets
    /\ r.start = proposal[p].start

(* validate_stored_supersession_cause, which reads the successor whatever   *)
(* its deletion_state.                                                      *)
StoredSupersessionCause(m) ==
    LET new == Last(m).cause IN
    /\ Stored(new)
    /\ record[new].lineage = record[m].lineage
    /\ record[new].version > record[m].version
    /\ record[new].start = Last(m).at
    /\ proposal[record[new].origin].targets = record[new].supersedes
    /\ m \in record[new].supersedes

(* validate_memory_supersession for record r of m, which supersedes t.      *)
Supersedes(m, r, t) ==
    /\ record[t].lineage = r.lineage
    /\ StateOf(t) = "superseded"
    /\ Last(t).cause = m
    /\ r.start # NoTime => Last(t).at = r.start

FollowsVersions(r) ==
    IF r.supersedes = {}
    THEN r.version = 1
    ELSE /\ \A t \in r.supersedes : record[t].version < r.version
         /\ \E t \in r.supersedes : record[t].version + 1 = r.version

(* load_memory_record_closure_inner, without the records it supersedes.     *)
RecordChecks(m) ==
    LET p == record[m].origin IN
    /\ record[m].state = "active"
    /\ EventChainLoads(events[m])
    /\ ProposalLoads(p)
    /\ DecisionChainLoads(decisions[p])
    /\ Materializes(p, m, record[m])
    /\ StateOf(m) = "superseded" => StoredSupersessionCause(m)
    /\ \A t \in record[m].supersedes : Supersedes(m, record[m], t)
    /\ FollowsVersions(record[m])

(* The records that m supersedes, directly or not: each step goes to a      *)
(* smaller version, so the loader's visiting set never meets a record twice.*)
Ancestors(m) ==
    LET reach[n \in 0..Cardinality(Memories)] ==
          IF n = 0 THEN {m}
          ELSE LET before == reach[n - 1]
               IN before \cup UNION {record[k].supersedes : k \in before}
    IN reach[Cardinality(Memories)]

(* load_memory_record_closure.                                              *)
RecordLoads(m) == Stored(m) /\ \A k \in Ancestors(m) : RecordChecks(k)

-----------------------------------------------------------------------------
(* What the derived rows must be (expected_source_tips_with, Catalog).      *)

ActiveRecords == {m \in DOMAIN record : record[m].state = "active"}

(* The newest version of the lineage, when it is active.                    *)
ExpectedTip(l) ==
    IF \E v \in 1..MaxVersion :
         /\ source[<<l, v>>] = "active"
         /\ \A w \in (v + 1)..MaxVersion : source[<<l, w>>] = "absent"
    THEN CHOOSE v \in 1..MaxVersion :
           /\ source[<<l, v>>] = "active"
           /\ \A w \in (v + 1)..MaxVersion : source[<<l, w>>] = "absent"
    ELSE 0

ExpectedProjection ==
    [m \in Memories |-> IF m \in ActiveRecords THEN StateOf(m) ELSE "none"]

ExpectedRecall(tips) ==
    {s \in Sources : fragment[s] = "active" /\ source[s] = "active" /\ tips[s[1]] = s[2]}
    \cup {m \in ActiveRecords : StateOf(m) = "confirmed"}

(* Catalog::load_with reads every active record.                            *)
CatalogLoads ==
    /\ \A l \in Lineages : ExpectedTip(l) # 0 => SourceLoads(<<l, ExpectedTip(l)>>)
    /\ \A m \in ActiveRecords : RecordLoads(m)

(* verify_source_tips and verify_catalog.                                   *)
Exact ==
    /\ tip = [l \in Lineages |-> ExpectedTip(l)]
    /\ projection = ExpectedProjection
    /\ recall = ExpectedRecall(tip)

Verify == CatalogLoads /\ Exact

-----------------------------------------------------------------------------
(* Mutant: the rows of the version before stay recallable.                  *)
AdvanceLineageTipKeep(l, v) ==
    /\ tip[l] + 1 = v
    /\ tip' = [tip EXCEPT ![l] = v]
    /\ UNCHANGED recall

(* advance_lineage_tip: only version 1 without a tip row, otherwise the     *)
(* next version, whose fragments replace the old ones in recall.            *)
AdvanceLineageTip(l, v) ==
    /\ tip[l] + 1 = v
    /\ tip' = [tip EXCEPT ![l] = v]
    /\ recall' = recall \ {<<l, tip[l]>>}

(* store_source_artifact; (lineage, version) is unique among all rows.      *)
StoreSource(l, v) ==
    /\ Cardinality({s \in Sources : source[s] # "absent"}) < MaxSources
    /\ source[<<l, v>>] = "absent"
    /\ v > 1 => source[<<l, v - 1>>] # "absent"
    /\ AdvanceLineageTip(l, v)
    /\ source' = [source EXCEPT ![<<l, v>>] = "active"]
    /\ UNCHANGED <<fragment, proposal, decisions, record, events, projection, damaged>>

(* store_source_fragments: a fragment becomes recallable when its source is *)
(* the tip.                                                                 *)
StoreFragment(s) ==
    /\ fragment[s] = "absent"
    /\ SourceLoads(s)
    /\ fragment' = [fragment EXCEPT ![s] = "active"]
    /\ tip[s[1]] = s[2] => s \notin recall
    /\ recall' = IF tip[s[1]] = s[2] THEN recall \cup {s} ELSE recall
    /\ UNCHANGED <<source, proposal, decisions, record, events, tip, projection, damaged>>

(* validate_proposal_for_store.                                             *)
ValidateProposalForStore(S, T) ==
    /\ S # {}
    /\ \A s \in S : FragmentLoads(s)
    /\ \A m \in T : RecordLoads(m) /\ StateOf(m) = "confirmed"

(* store_memory_proposal; a proposal with the same operation, content,      *)
(* sources and targets is a duplicate, but a closed one need not be found:  *)
(* its content and digest are redacted and its sources removed.             *)
StoreProposal(p, c, S, T, t) ==
    /\ p \notin DOMAIN proposal
    /\ ValidateProposalForStore(S, T)
    /\ \A q \in DOMAIN proposal : proposal[q].state = "active" =>
         <<proposal[q].content, proposal[q].sources, proposal[q].targets>> # <<c, S, T>>
    /\ proposal' = [q \in DOMAIN proposal \cup {p} |->
          IF q = p THEN [state |-> "active", content |-> c, sources |-> S, targets |-> T,
                         start |-> t]
          ELSE proposal[q]]
    /\ UNCHANGED <<source, fragment, decisions, record, events, derived>>

(* validate_decision_extension: the first decision follows nothing, any     *)
(* other follows the tip, which must be a deferral.                         *)
DecisionExtends(p, previous) ==
    /\ previous = Len(decisions[p])
    /\ previous # 0 => decisions[p][previous].decision = "defer"

(* memory_exists_in_namespace and the unique result_memory_id.              *)
ResultFree(m) ==
    /\ ~Stored(m)
    /\ \A q \in Proposals : \A i \in DOMAIN decisions[q] : decisions[q][i].result # m

(* store_memory_decision.                                                   *)
StoreDecision(p, previous, d, m) ==
    /\ Cardinality(UNION {{q} \X DOMAIN decisions[q] : q \in Proposals}) < MaxDecisions
    /\ (d = "accept") = (m # NoMemory)
    /\ DecisionExtends(p, previous)
    /\ ProposalLoads(p)
    /\ DecisionChainLoads(decisions[p])
    /\ m # NoMemory => ResultFree(m)
    /\ decisions' = [decisions EXCEPT ![p] =
                       Append(@, [previous |-> previous, decision |-> d, result |-> m])]
    /\ UNCHANGED <<source, fragment, proposal, record, events, derived>>

-----------------------------------------------------------------------------
(* validate_event_extension: the record loads, the event follows its last   *)
(* one and only a confirmed record has a next state.                        *)
EventExtends(m, previous) ==
    /\ Stored(m)
    /\ previous = Len(events[m])
    /\ StateOf(m) = "confirmed"
    /\ RecordLoads(m)

(* update_memory_record: exactly one confirmed projection row and one       *)
(* recall row must be there to be replaced.                                 *)
UpdatesDerived(T) ==
    \A m \in T : projection[m] = "confirmed" /\ m \in recall

(* Mutant: a supersession may start another lineage.                        *)
ValidateSupersessionAnyLineage(r, at) ==
    /\ FollowsVersions(r)
    /\ r.supersedes # {} /\ r.start # NoTime => at = r.start

(* validate_supersession_for_store with validate_memory_supersession: the   *)
(* targets are of the record's lineage, its version is the next one, and    *)
(* the instant agrees with the start of the record when that is known.      *)
ValidateSupersession(r, at) ==
    /\ \A t \in r.supersedes : record[t].lineage = r.lineage
    /\ FollowsVersions(r)
    /\ r.supersedes # {} /\ r.start # NoTime => at = r.start

(* Mutant: the version of a new record is not compared.                     *)
VersionFreeAny(r) == TRUE

(* (lineage_id, version) is unique among all records.                       *)
VersionFree(r) ==
    \A m \in DOMAIN record :
       <<record[m].lineage, record[m].version>> # <<r.lineage, r.version>>

(* materialize_accepted_memory: the record, its confirmation and one event  *)
(* for each superseded record, in one transaction with the derived rows.    *)
MaterializeAcceptedMemory(p, m, lineage, version, at) ==
    LET r == [state |-> "active", lineage |-> lineage, version |-> version, origin |-> p,
              sources |-> proposal[p].sources, supersedes |-> proposal[p].targets,
              start |-> proposal[p].start] IN
    /\ ~Stored(m)
    /\ Materializes(p, m, r)
    /\ ProposalLoads(p)
    /\ DecisionChainLoads(decisions[p])
    /\ \A t \in r.supersedes : EventExtends(t, Len(events[t]))
    /\ ValidateSupersession(r, at)
    /\ VersionFree(r)
    /\ UpdatesDerived(r.supersedes)
    /\ projection[m] = "none" /\ m \notin recall
    /\ record' = [k \in DOMAIN record \cup {m} |-> IF k = m THEN r ELSE record[k]]
    /\ events' = [k \in Memories |->
          IF k = m
          THEN <<[previous |-> 0, type |-> "confirmed", cause |-> NoMemory, at |-> NoTime]>>
          ELSE IF k \in r.supersedes
          THEN Append(events[k], [previous |-> Len(events[k]), type |-> "superseded",
                                  cause |-> m, at |-> at])
          ELSE events[k]]
    /\ projection' = [k \in Memories |-> IF k = m THEN "confirmed"
                                         ELSE IF k \in r.supersedes THEN "superseded"
                                         ELSE projection[k]]
    /\ recall' = (recall \cup {m}) \ r.supersedes
    /\ UNCHANGED <<source, fragment, proposal, decisions, tip, damaged>>

(* append_memory_state_event: any end but a supersession; its cause is a    *)
(* stored record or none that is checked (a policy or a decision).          *)
AppendMemoryStateEvent(m, previous, cause, at) ==
    /\ EventExtends(m, previous)
    /\ cause # NoMemory => Stored(cause)
    /\ UpdatesDerived({m})
    /\ events' = [events EXCEPT ![m] =
                    Append(@, [previous |-> previous, type |-> "ended", cause |-> cause, at |-> at])]
    /\ projection' = [projection EXCEPT ![m] = "ended"]
    /\ recall' = recall \ {m}
    /\ UNCHANGED <<source, fragment, proposal, decisions, record, tip, damaged>>

-----------------------------------------------------------------------------
ActiveOf(L) == {s \in Sources : s[1] \in L /\ source[s] = "active"}

(* The active records that cite one of the sources.                         *)
Citing(S) == {m \in ActiveRecords : record[m].sources \cap S # {}}

(* The active records that supersede one of the records.                    *)
Superseding(M) == {m \in ActiveRecords : record[m].supersedes \cap M # {}}

(* Mutant: only the records that cite the lineage are resolved.             *)
ResolveMemoriesDirect(l) == Citing(ActiveOf({l}))

(* resolve_lineage_targets: the records that cite the lineage and all that  *)
(* supersede a resolved one, found breadth first.                           *)
ResolveMemories(l) ==
    LET reach[n \in 0..Cardinality(Memories)] ==
          IF n = 0 THEN Citing(ActiveOf({l}))
          ELSE LET before == reach[n - 1] IN before \cup Superseding(before)
    IN reach[Cardinality(Memories)]

(* validate_semantic_targets: the targets are active, with whole lineages,  *)
(* the records that cite them and the records that supersede a target.      *)
ValidateSemanticTargets(S, M) ==
    /\ S \cup M # {}
    /\ S \subseteq {s \in Sources : source[s] = "active"}
    /\ M \subseteq ActiveRecords
    /\ ActiveOf({s[1] : s \in S}) \subseteq S
    /\ Citing(S) \subseteq M
    /\ Superseding(M) \subseteq M

(* build_execution_closure: the proposals of the closure.                   *)
ClosedProposals(S, M) ==
    {record[m].origin : m \in M}
    \cup {p \in DOMAIN proposal : /\ proposal[p].state = "active"
                                  /\ \E s \in proposal[p].sources :
                                       s \in S /\ fragment[s] = "active"}

(* Mutant: the recall rows are left to the full-text component.             *)
CloseDerivedLate(S, M) ==
    /\ tip' = [l \in Lineages |-> IF <<l, tip[l]>> \in S THEN 0 ELSE tip[l]]
    /\ projection' = [m \in Memories |-> IF m \in M THEN "none" ELSE projection[m]]
    /\ UNCHANGED recall

(* The derived rows of the targets go; begin verifies what is left and      *)
(* rolls back on a mismatch.                                                *)
CloseDerived(S, M) ==
    /\ tip' = [l \in Lineages |-> IF <<l, tip[l]>> \in S THEN 0 ELSE tip[l]]
    /\ projection' = [m \in Memories |-> IF m \in M THEN "none" ELSE projection[m]]
    /\ recall' = recall \ ({s \in S : fragment[s] = "active"} \cup M)
    /\ Verify'

(* close_targets_to_recall, in the transaction that registers the request.  *)
CloseTargets(S, M) ==
    LET P == ClosedProposals(S, M) IN
    /\ ValidateSemanticTargets(S, M)
    /\ source' = [s \in Sources |-> IF s \in S THEN "closed" ELSE source[s]]
    /\ fragment' = [s \in Sources |->
                      IF s \in S /\ fragment[s] = "active" THEN "closed" ELSE fragment[s]]
    /\ proposal' = [p \in DOMAIN proposal |->
                      IF p \in P THEN [proposal[p] EXCEPT !.state = "closed"] ELSE proposal[p]]
    /\ record' = [m \in DOMAIN record |->
                    IF m \in M THEN [record[m] EXCEPT !.state = "closed"] ELSE record[m]]
    /\ UNCHANGED <<decisions, events, damaged>>
    /\ CloseDerived(S, M)

(* rebuild: derived rows are replaced by what the canonical facts say.      *)
Rebuild ==
    /\ CatalogLoads
    /\ tip' = [l \in Lineages |-> ExpectedTip(l)]
    /\ projection' = ExpectedProjection
    /\ recall' = ExpectedRecall(tip')
    /\ damaged' = FALSE
    /\ UNCHANGED canonical

(* The derived rows are lost.                                               *)
DamageDerived ==
    /\ ~damaged
    /\ damaged' = TRUE
    /\ tip' = [l \in Lineages |-> 0]
    /\ projection' = [m \in Memories |-> "none"]
    /\ recall' = {}
    /\ UNCHANGED canonical

-----------------------------------------------------------------------------
Next ==
    \/ \E l \in Lineages, v \in 1..MaxVersion : StoreSource(l, v)
    \/ \E s \in Sources : StoreFragment(s)
    \/ \E p \in Proposals, c \in Contents, t \in Starts :
         \E S \in SUBSET Sources, T \in SUBSET Memories : StoreProposal(p, c, S, T, t)
    \/ \E p \in Proposals, previous \in 0..MaxDecisions, m \in Memories \cup {NoMemory} :
         \E d \in {"defer", "accept", "reject"} : StoreDecision(p, previous, d, m)
    \/ \E p \in Proposals, m \in Memories, k \in MemoryLineages, at \in Times :
         \E v \in 1..Cardinality(Memories) : MaterializeAcceptedMemory(p, m, k, v, at)
    \/ \E m \in Memories, previous \in 1..2, cause \in Memories \cup {NoMemory}, at \in Times :
         AppendMemoryStateEvent(m, previous, cause, at)
    \/ \E S \in SUBSET Sources, M \in SUBSET Memories : CloseTargets(S, M)
    \/ Rebuild
    \/ DamageDerived

Spec == Init /\ [][Next]_vars

-----------------------------------------------------------------------------
(* The incremental updates of all transactions leave exactly the derived    *)
(* rows that a rebuild from the canonical facts would write: verify, which  *)
(* guards every search, every capture and every open, never fails.          *)
DerivedExact == ~damaged => Exact

(* Every active record loads with its proposal, decisions, events and the   *)
(* records it supersedes, whatever was stored or closed around it.  One     *)
(* that does not load makes the whole catalog, search and rebuild fail.     *)
EveryRecordLoads == \A m \in ActiveRecords : RecordLoads(m)

(* A memory lineage is a chain: at most one of its records is confirmed and *)
(* no two supersede the same one, however many proposals to supersede it    *)
(* were accepted.                                                           *)
MemoryLineageIsChain ==
    \A m, k \in DOMAIN record :
       record[m].lineage = record[k].lineage =>
         /\ StateOf(m) = "confirmed" /\ StateOf(k) = "confirmed" => m = k
         /\ record[m].supersedes \cap record[k].supersedes # {} => m = k

(* The decisions of a proposal are one chain whose acceptance names a       *)
(* result that no other proposal has, so the record that carries this       *)
(* identifier came from it.                                                 *)
DecidedOnce ==
    \A p, q \in Proposals : \A m \in Memories :
       /\ DecisionChainLoads(decisions[p])
       /\ Accepted(p, m) /\ Accepted(q, m) => p = q
       /\ Accepted(p, m) /\ Stored(m) => record[m].origin = p

(* The stored history is well formed: its values keep to their domains, the *)
(* decisions of every proposal and the records of every lineage are chains. *)
HistoryWellFormed == TypeOK /\ DecidedOnce /\ MemoryLineageIsChain

(* Nothing can be recalled whose content, or the content of a source it     *)
(* cites, has been closed for deletion, even while derived rows are lost.   *)
RecallRestsOnActive ==
    /\ \A s \in recall \cap Sources : source[s] = "active" /\ fragment[s] = "active"
    /\ \A m \in recall \cap Memories :
         /\ record[m].state = "active"
         /\ \A s \in record[m].sources : source[s] = "active" /\ fragment[s] = "active"

(* The closure that is resolved for a lineage is one that the closing       *)
(* transaction accepts.                                                     *)
ResolvedClosureAccepted ==
    \A l \in Lineages :
       ActiveOf({l}) # {} => ValidateSemanticTargets(ActiveOf({l}), ResolveMemories(l))
=============================================================================
