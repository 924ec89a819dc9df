---------------------------- MODULE LocalLibrary ----------------------------
(***************************************************************************)
(* The plain local library: LocalLibrary of radishmemory-application over  *)
(* the inline SQLite store (source_capture.rs, source_catalog.rs,          *)
(* source_store.rs).  Several hosts (processes) may have the database      *)
(* open.  A capture and the storing of a delete request are IMMEDIATE      *)
(* transactions, one step each; the execution of a request is one step as  *)
(* well, its components being those of LegacyDeletion.  Every read use     *)
(* case is a series of SELECTs outside any transaction: other hosts may    *)
(* commit between any two of its steps.  A step is one SELECT, the loading *)
(* of one source, the expected rows of a verification (expected bindings,  *)
(* Catalog::load_with) or their comparison with the stored ones.           *)
(*                                                                         *)
(* A source row is never removed from radishmemory_source_artifacts, so    *)
(* rows is a sequence and a source identifier is its index.  Identifiers   *)
(* come from the host's random generator and are fresh: a new lineage is   *)
(* named after its first source, and its origin binding likewise.          *)
(***************************************************************************)
EXTENDS Naturals, Sequences, FiniteSets, FiniteSetsExt

CONSTANTS Hosts,        \* processes that have the library open
          Bytes,        \* contents a chosen file can have
          MaxSources,   \* bound: source rows ever stored
          MaxLineages,  \* bound: lineages ever created
          MaxFailed     \* bound: components that fail in one execution

ASSUME HostsAssumption == Hosts # {}
ASSUME BytesAssumption == Bytes # {} /\ "no bytes" \notin Bytes
ASSUME BoundsAssumption == MaxSources \in Nat /\ MaxLineages \in Nat /\ MaxFailed \in Nat

VARIABLES rows,      \* radishmemory_source_artifacts with its bodies
          tips,      \* radishmemory_source_lineage_tips: pairs <<lineage, source>>
          bindings,  \* radishmemory_source_origin_bindings: pairs <<origin, lineage>>
          audit,     \* radishmemory_source_capture_audit: pairs <<source, outcome>>
          frags,     \* radishmemory_source_fragments: pairs <<source, deletion state>>
          recall,    \* sources whose fragment is in radishmemory_recall_fts
          host       \* what each process is doing

db == <<rows, tips, bindings, audit, frags, recall>>
vars == <<rows, tips, bindings, audit, frags, recall, host>>

NoBytes == "no bytes"
NoSource == 0
Ids == 1..MaxSources
DeletionStates == {"active", "pending", "failed", "deleted"}
Row == [lineage : Ids, version : Ids, supersedes : Ids \cup {NoSource},
        bytes : Bytes \cup {NoBytes}, state : DeletionStates,
        origin : Ids \cup {NoSource}]

\* A host's operation: pc is the next statement, expected and todo what the
\* statements so far returned, current the resolved version, got the answer.
\* since is no state of the program: it remembers, for what is said of
\* answers below, how many sources there were and which were the current
\* versions when a list, a version list or a search was called.
Idle == [op |-> "none", pc |-> "idle", lineage |-> NoSource, expected |-> {},
         todo |-> {}, current |-> NoSource, bytes |-> NoBytes, got |-> {},
         since |-> [stored |-> 0, current |-> {}]]
Moment == [stored |-> Len(rows), current |-> {t[2] : t \in tips}]

Receipt(h, b, s) ==
    [host EXCEPT ![h] = [Idle EXCEPT !.op = host[h].op, !.pc = "answered", !.bytes = b, !.got = s]]
\* The call returns, refused or with what it has read.
Ended(h) == [host EXCEPT ![h] = Idle]

-----------------------------------------------------------------------------
(* What the rows say *)

Stored == 1..Len(rows)
IsActive(s) == s \in Stored /\ rows[s].state = "active"
OfLineage(l) == {s \in Stored : rows[s].lineage = l}
ActiveOf(l) == {s \in OfLineage(l) : rows[s].state = "active"}
HasNewer(s) == \E n \in OfLineage(rows[s].lineage) : rows[n].version > rows[s].version

\* StoredSource::into_domain: a row without its body does not decode.
Decodes(s) == rows[s].bytes # NoBytes

\* validate_stored_superseded_sources: earlier rows of the same lineage.
SupersededStored(s) ==
    rows[s].supersedes # NoSource =>
       /\ rows[s].supersedes \in OfLineage(rows[s].lineage)
       /\ rows[rows[s].supersedes].version < rows[s].version

\* load_source_with_body.
LoadSource(s) == IsActive(s) /\ Decodes(s) /\ SupersededStored(s)

\* load_fragments_for_source: the active fragments.  A capture has one
\* fragment for the whole body, so the set is complete or empty.
FragmentsComplete(s) == <<s, "active">> \in frags

\* expected_origin_bindings: the newest version of each lineage, when active.
ExpectedBindings ==
    {<<rows[s].origin, rows[s].lineage>> :
       s \in {t \in Stored : IsActive(t) /\ rows[t].origin # NoSource /\ ~HasNewer(t)}}

\* A binding without an active newest version belongs to a deletion plan.
BelongsToClosedPlan(b) ==
    \E s \in OfLineage(b[2]) : rows[s].state \in {"pending", "failed"}

VerifyOriginBindingRows ==
    /\ ExpectedBindings \subseteq bindings
    /\ \A b \in bindings \ ExpectedBindings : BelongsToClosedPlan(b)

\* validate_existing_capture: origin, the complete fragment set, the audit row.
AuditOutcome(version) == IF version = 1 THEN "created" ELSE "versioned"
ValidateExistingCapture(origin, s) ==
    /\ rows[s].origin = origin
    /\ FragmentsComplete(s)
    /\ <<s, AuditOutcome(rows[s].version)>> \in audit

\* What verify_active_file_captures asks of one active file capture.
CaptureVerifies(s) ==
    /\ LoadSource(s)
    /\ rows[s].origin # NoSource
    /\ ValidateExistingCapture(rows[s].origin, s)

VerifyOriginBindings ==
    /\ VerifyOriginBindingRows
    /\ \A s \in Stored : IsActive(s) => CaptureVerifies(s)

\* derived_index::verify: tips and recall are exactly what the rows derive.
ExpectedTips == {<<rows[s].lineage, s>> : s \in {t \in Stored : IsActive(t) /\ ~HasNewer(t)}}
ExpectedRecall == {s \in Stored : <<rows[s].lineage, s>> \in ExpectedTips /\ FragmentsComplete(s)}
VerifyDerived == tips = ExpectedTips /\ recall = ExpectedRecall

TipOf(l) == {t[2] : t \in {u \in tips : u[1] = l}}

-----------------------------------------------------------------------------
(* Capture *)

\* capture::prepare: an import takes fresh identifiers and version one, an
\* update continues the resolved version.
Prepare(h, b) ==
    IF host[h].op = "import"
    THEN [origin |-> Len(rows) + 1, lineage |-> Len(rows) + 1, version |-> 1,
          supersedes |-> NoSource, bytes |-> b]
    ELSE LET current == host[h].current IN
         [origin |-> rows[current].lineage, lineage |-> rows[current].lineage,
          version |-> rows[current].version + 1, supersedes |-> current, bytes |-> b]

\* same_capture_bytes, and the way it would look with the length alone.
SameLengthOnly(capture, s) == TRUE
SameCaptureBytes(capture, s) == capture.bytes = rows[s].bytes

LoadOriginLineage(origin) == {b[2] : b \in {c \in bindings : c[1] = origin}}
LoadCurrentSource(l) == {s \in TipOf(l) : LoadSource(s)}
RequireUnusedLineage(l) == TipOf(l) = {}

\* decide_capture: idempotent, versioned, created or refused.  An update
\* takes the governance of the version it continues, so the governance
\* comparison of the code is between equal values.  The refusal of the same
\* bytes under another kind or media type ends as CaptureRollsBack does.
DecideCapture(capture) ==
    LET bound == LoadOriginLineage(capture.origin)
        current == LoadCurrentSource(capture.lineage)
    IN IF bound = {}
       THEN IF RequireUnusedLineage(capture.lineage) THEN "created" ELSE "refused"
       ELSE IF \/ bound # {capture.lineage}
               \/ current = {}
               \/ \E s \in current : ~ValidateExistingCapture(capture.origin, s)
            THEN "refused"
            ELSE IF \E s \in current : SameCaptureBytes(capture, s) THEN "idempotent" ELSE "versioned"

\* validate_superseded_sources of the candidate.
SupersededExist(capture) ==
    capture.supersedes # NoSource =>
       /\ capture.supersedes \in OfLineage(capture.lineage)
       /\ rows[capture.supersedes].version < capture.version

\* insert_source_metadata: UNIQUE (lineage, version), superseded sources exist.
InsertAllowed(capture) ==
    /\ \A s \in OfLineage(capture.lineage) : rows[s].version # capture.version
    /\ SupersededExist(capture)

\* advance_lineage_tip: version one of an unused lineage, or exactly the
\* successor of the present tip.
AdvanceLineageTipAllowed(capture) ==
    LET current == TipOf(capture.lineage)
    IN IF current = {}
       THEN capture.version = 1 /\ capture.supersedes = NoSource
       ELSE \A s \in current : /\ capture.version = rows[s].version + 1
                               /\ capture.supersedes = s

InsertOriginBinding(capture, outcome) ==
    bindings' = bindings \cup (IF outcome = "created" THEN {<<capture.origin, capture.lineage>>} ELSE {})
InsertCaptureAudit(s, outcome) == audit' = audit \cup {<<s, outcome>>}

\* insert_fragments_for_source: the fragment, and its recall row in place of
\* the old tip's.
InsertFragments(s, old) ==
    /\ frags' = frags \cup {<<s, "active">>}
    /\ recall' = (recall \ old) \cup {s}

\* insert_capture_facts: row, tip, binding of a created lineage, fragment,
\* recall row of the new tip instead of the old one's, audit.
InsertCaptureFacts(capture, outcome) ==
    LET s == Len(rows) + 1
        old == TipOf(capture.lineage)
    IN /\ rows' = Append(rows, [lineage |-> capture.lineage, version |-> capture.version,
                                supersedes |-> capture.supersedes, bytes |-> capture.bytes,
                                state |-> "active", origin |-> capture.origin])
       /\ tips' = {t \in tips : t[1] # capture.lineage} \cup {<<capture.lineage, s>>}
       /\ InsertOriginBinding(capture, outcome)
       /\ InsertFragments(s, old)
       /\ InsertCaptureAudit(s, outcome)

\* capture_source: one IMMEDIATE transaction, checked before and after; the
\* receipt names the stored version, or the existing one when idempotent.
CaptureSource(h) ==
    /\ host[h].pc = "commit"
    /\ \E b \in Bytes :
         LET capture == Prepare(h, b)
             outcome == DecideCapture(capture)
         IN IF /\ VerifyDerived /\ VerifyOriginBindings
               /\ outcome # "refused"
               /\ outcome # "idempotent" => InsertAllowed(capture) /\ AdvanceLineageTipAllowed(capture)
            THEN IF outcome = "idempotent"
                 THEN /\ UNCHANGED db
                      /\ host' = Receipt(h, b, TipOf(capture.lineage))
                 ELSE /\ Len(rows) < MaxSources
                      /\ outcome = "created" => Cardinality({rows[s].lineage : s \in Stored}) < MaxLineages
                      /\ InsertCaptureFacts(capture, outcome)
                      /\ VerifyDerived' /\ VerifyOriginBindings'
                      /\ host' = Receipt(h, b, {Len(rows) + 1})
            ELSE UNCHANGED db /\ host' = Ended(h)

\* A storage error before the commit: the transaction rolls back.
CaptureRollsBack(h) ==
    /\ host[h].pc = "commit"
    /\ host' = Ended(h)
    /\ UNCHANGED db

-----------------------------------------------------------------------------
(* The statements every catalog read begins with: verify_origin_bindings *)

StartImport(h) ==
    /\ host[h].pc \in {"idle", "answered"}
    /\ Cardinality({rows[s].lineage : s \in Stored}) < MaxLineages
    /\ host' = [host EXCEPT ![h] = [Idle EXCEPT !.op = "import", !.pc = "commit"]]
    /\ UNCHANGED db

\* First statement: the expected bindings.
StartRead(h, op, l) ==
    /\ host[h].pc \in {"idle", "answered"}
    /\ host' = [host EXCEPT ![h] =
           [Idle EXCEPT !.op = op, !.pc = "actual", !.lineage = l, !.expected = ExpectedBindings,
                        !.since = IF op \in {"list", "versions"} THEN Moment ELSE @]]
    /\ UNCHANGED db

\* Second: the actual ones, compared.
ReadActualBindings(h) ==
    /\ host[h].pc = "actual"
    /\ IF host[h].expected \subseteq bindings
       THEN host' = [host EXCEPT ![h].pc = "extras", ![h].todo = bindings \ host[h].expected,
                                 ![h].expected = {}]
       ELSE host' = Ended(h)
    /\ UNCHANGED db

\* One EXISTS query per binding that no active newest version accounts for,
\* then the list of active captures.
ReadExtraBinding(h) ==
    /\ host[h].pc = "extras"
    /\ IF host[h].todo = {}
       THEN host' = [host EXCEPT ![h].pc = "validate", ![h].todo = {s \in Stored : IsActive(s)}]
       ELSE LET b == CHOOSE b \in host[h].todo : \A c \in host[h].todo : b[1] <= c[1]
            IN IF BelongsToClosedPlan(b)
               THEN host' = [host EXCEPT ![h].todo = @ \ {b}]
               ELSE host' = Ended(h)
    /\ UNCHANGED db

\* verify_active_file_captures: each listed capture is loaded and validated.
NextStatement(op) ==
    CASE op = "update" -> "resolve"
      [] op = "list" -> "tips"
      [] op \in {"versions", "delete"} -> "tip"
      [] OTHER -> "idle"
ReadActiveCapture(h) ==
    /\ host[h].pc = "validate"
    /\ IF host[h].todo = {}
       THEN host' = [host EXCEPT ![h].pc = NextStatement(host[h].op)]
       ELSE IF CaptureVerifies(Min(host[h].todo))
            THEN host' = [host EXCEPT ![h].todo = @ \ {Min(@)}]
            ELSE host' = Ended(h)
    /\ UNCHANGED db

-----------------------------------------------------------------------------
(* The catalog: resolve, list, versions *)

\* resolve_source_lineage_with: one join over binding, tip and active source.
ResolveSourceLineage(h) ==
    /\ host[h].pc = "resolve"
    /\ LET found == {s \in TipOf(host[h].lineage) :
                       IsActive(s) /\ \E b \in bindings : b[2] = host[h].lineage}
       IN IF found = {}
          THEN host' = Ended(h)
          ELSE host' = [host EXCEPT ![h].pc = "load", ![h].current = Min(found)]
    /\ UNCHANGED db

\* update_source then loads the resolved version.
LoadResolvedSource(h) ==
    /\ host[h].pc = "load"
    /\ IF LoadSource(host[h].current)
       THEN host' = [host EXCEPT ![h].pc = "commit"]
       ELSE host' = Ended(h)
    /\ UNCHANGED db

\* list_source_lineages_with: the tips, then for each the source and the
\* number of active versions, which must equal its version (in the variant
\* CountVersionsSkipping a summary that does not fit is left out).
VersionsCounted(s) == Cardinality(ActiveOf(rows[s].lineage)) = rows[s].version
ListTips(h) ==
    /\ host[h].pc = "tips"
    /\ host' = [host EXCEPT ![h].pc = "summary", ![h].todo = {t[2] : t \in tips}]
    /\ UNCHANGED db
ListSummary(h) ==
    /\ host[h].pc = "summary"
    /\ host' = IF host[h].todo = {} THEN Ended(h)
               ELSE IF LoadSource(Min(host[h].todo))
                    THEN [host EXCEPT ![h].pc = "count", ![h].current = Min(host[h].todo)]
                    ELSE Ended(h)
    /\ UNCHANGED db
CountVersionsSkipping(h) ==
    /\ host[h].pc = "count"
    /\ LET s == host[h].current
       IN host' = [host EXCEPT ![h].pc = "summary", ![h].current = NoSource, ![h].todo = @ \ {s},
                               ![h].got = IF VersionsCounted(s) THEN @ \cup {s} ELSE @]
    /\ UNCHANGED db
CountVersions(h) ==
    /\ host[h].pc = "count"
    /\ LET s == host[h].current
       IN host' = IF VersionsCounted(s)
                  THEN [host EXCEPT ![h].pc = "summary", ![h].current = NoSource,
                                    ![h].todo = @ \ {s}, ![h].got = @ \cup {s}]
                  ELSE Ended(h)
    /\ UNCHANGED db

\* list_source_versions_with: the tip, then the active versions of the
\* lineage, contiguous and with the tip among them, then each is loaded.
\* Without a tip the list is empty.  A deletion goes on with the versions as
\* its targets and refuses an empty list.
ReadTip(h) ==
    /\ host[h].pc = "tip"
    /\ LET tip == TipOf(host[h].lineage)
       IN host' = IF tip = {} THEN Ended(h)
                  ELSE [host EXCEPT ![h].pc = "rows", ![h].current = Min(tip)]
    /\ UNCHANGED db
VersionsOk(versions, current) ==
    /\ {rows[s].version : s \in versions} = 1..Cardinality(versions)
    /\ current \in versions
ReadVersions(h) ==
    /\ host[h].pc = "rows"
    /\ LET versions == ActiveOf(host[h].lineage)
       IN host' = IF VersionsOk(versions, host[h].current)
                  THEN [host EXCEPT ![h].pc = "history", ![h].todo = versions]
                  ELSE Ended(h)
    /\ UNCHANGED db
LoadVersion(h) ==
    /\ host[h].pc = "history"
    /\ host' = IF host[h].todo = {}
               THEN IF host[h].op = "versions" THEN Ended(h)
                    ELSE [host EXCEPT ![h].pc = "store", ![h].todo = host[h].got, ![h].got = {}]
               ELSE IF LoadSource(Min(host[h].todo))
                    THEN [host EXCEPT ![h].todo = @ \ {Min(@)}, ![h].got = @ \cup {Min(host[h].todo)}]
                    ELSE Ended(h)
    /\ UNCHANGED db

-----------------------------------------------------------------------------
(* Search *)

\* Catalog::load_with: tips and candidates are what the rows derive.
StartSearch(h) ==
    /\ host[h].pc \in {"idle", "answered"}
    /\ host' = [host EXCEPT ![h] =
           [Idle EXCEPT !.op = "search", !.pc = "verify", !.expected = ExpectedTips,
                        !.todo = ExpectedRecall, !.since = Moment]]
    /\ UNCHANGED db

\* verify_catalog: the stored rows against what was loaded.
VerifyCatalog(h) ==
    /\ host[h].pc = "verify"
    /\ host' = IF tips = host[h].expected /\ recall = host[h].todo
               THEN [host EXCEPT ![h].pc = "match", ![h].expected = {}]
               ELSE Ended(h)
    /\ UNCHANGED db

\* The MATCH query, joined with the eligible candidates.
MatchRecall(h) ==
    /\ host[h].pc = "match"
    /\ \E hits \in SUBSET (recall \cap host[h].todo) :
         host' = [host EXCEPT ![h].pc = "cite", ![h].todo = hits]
    /\ UNCHANGED db

\* search_sources loads the source of every hit for its citation.
CiteHit(h) ==
    /\ host[h].pc = "cite"
    /\ host' = IF host[h].todo = {} THEN Ended(h)
               ELSE IF LoadSource(Min(host[h].todo))
                    THEN [host EXCEPT ![h].todo = @ \ {Min(@)}, ![h].got = @ \cup {Min(host[h].todo)}]
                    ELSE Ended(h)
    /\ UNCHANGED db

-----------------------------------------------------------------------------
(* Deletion of a lineage *)

\* validate_semantic_targets, and a version that forgets the completeness.
TargetsStillActive(targets, l) == targets # {} /\ \A s \in targets : IsActive(s)
ValidateTargets(targets, l) ==
    /\ targets # {}
    /\ \A s \in targets : IsActive(s)
    /\ targets = ActiveOf(l)

\* close_targets_to_recall, and one that closes the newest version only.
CloseNewestOnly(targets) ==
    LET closed == {s \in targets : ~HasNewer(s)} IN
    /\ rows' = [s \in Stored |-> IF s \in closed THEN [rows[s] EXCEPT !.state = "pending"] ELSE rows[s]]
    /\ tips' = {t \in tips : t[2] \notin targets}
    /\ frags' = {f \in frags : f[1] \notin closed} \cup {<<s, "pending">> : s \in closed}
    /\ recall' = recall \ targets
CloseTargetsToRecall(targets) ==
    /\ rows' = [s \in Stored |-> IF s \in targets THEN [rows[s] EXCEPT !.state = "pending"] ELSE rows[s]]
    /\ tips' = {t \in tips : t[2] \notin targets}
    /\ frags' = {f \in frags : f[1] \notin targets} \cup {<<s, "pending">> : s \in targets}
    /\ recall' = recall \ targets

\* store_delete_request: one transaction; a plan gone stale is refused.
StoreDeleteRequest(h) ==
    /\ host[h].pc = "store"
    /\ IF ValidateTargets(host[h].todo, host[h].lineage)
       THEN /\ CloseTargetsToRecall(host[h].todo)
            /\ UNCHANGED <<bindings, audit>>
            /\ VerifyDerived' /\ VerifyOriginBindings'
            /\ host' = [host EXCEPT ![h].pc = "execute"]
       ELSE UNCHANGED db /\ host' = Ended(h)

\* retain_minimal_audit's purge_source_entry_state.
PurgeSourceEntryState(l) ==
    /\ audit' = {a \in audit : a[1] \notin OfLineage(l)}
    /\ bindings' = {b \in bindings : b[2] # l}

\* execute_deletion: every component runs; those in failed leave their rows
\* alone.  The minimal audit, when it succeeds, purges the entry state and
\* sets the final state; a failed one leaves the sources pending.
Components == {"SourceBody", "SourceMetadata", "SourceFragment", "MinimalAudit"}
FinalState(failed) ==
    IF "MinimalAudit" \in failed THEN "pending" ELSE IF failed = {} THEN "deleted" ELSE "failed"
ExecuteDeletion(h, failed) ==
    /\ host[h].pc = "execute"
    /\ LET targets == host[h].todo
       IN /\ rows' = [s \in Stored |->
                 IF s \notin targets THEN rows[s]
                 ELSE [rows[s] EXCEPT !.state = FinalState(failed),
                          !.bytes = IF "SourceBody" \in failed THEN @ ELSE NoBytes,
                          !.origin = IF "SourceMetadata" \in failed THEN @ ELSE NoSource]]
          /\ frags' = {f \in frags : "SourceFragment" \in failed \/ f[1] \notin targets}
          /\ IF "MinimalAudit" \in failed THEN UNCHANGED <<bindings, audit>>
             ELSE PurgeSourceEntryState(host[h].lineage)
          /\ UNCHANGED <<tips, recall>>
          /\ host' = [host EXCEPT ![h] = Idle]

\* A process ends at any point; nothing of its memory survives.
Crash(h) ==
    /\ host[h].pc \notin {"idle", "answered"}
    /\ host' = [host EXCEPT ![h] = Idle]
    /\ UNCHANGED db

-----------------------------------------------------------------------------
Init ==
    /\ rows = <<>>
    /\ tips = {} /\ bindings = {} /\ audit = {} /\ frags = {} /\ recall = {}
    /\ host = [h \in Hosts |-> Idle]

Next ==
    \E h \in Hosts :
       \/ StartImport(h)
       \/ StartRead(h, "list", NoSource)
       \/ \E op \in {"update", "versions", "delete"}, l \in {rows[s].lineage : s \in Stored} :
            StartRead(h, op, l)
       \/ ReadActualBindings(h) \/ ReadExtraBinding(h) \/ ReadActiveCapture(h)
       \/ ResolveSourceLineage(h) \/ LoadResolvedSource(h)
       \/ CaptureSource(h) \/ CaptureRollsBack(h)
       \/ ListTips(h) \/ ListSummary(h) \/ CountVersions(h)
       \/ ReadTip(h) \/ ReadVersions(h) \/ LoadVersion(h)
       \/ StartSearch(h) \/ VerifyCatalog(h) \/ MatchRecall(h) \/ CiteHit(h)
       \/ StoreDeleteRequest(h)
       \/ \E failed \in {c \in SUBSET Components : Cardinality(c) <= MaxFailed} : ExecuteDeletion(h, failed)
       \/ Crash(h)

Spec == Init /\ [][Next]_vars

-----------------------------------------------------------------------------
(* Properties *)

\* The tables and the hosts' memory hold values of their columns' types.
TypeOK ==
    /\ rows \in Seq(Row) /\ Len(rows) <= MaxSources
    /\ tips \subseteq Ids \X Ids
    /\ bindings \subseteq Ids \X Ids
    /\ audit \subseteq Ids \X {"created", "versioned"}
    /\ frags \subseteq Ids \X DeletionStates
    /\ recall \subseteq Ids
    /\ \A h \in Hosts : host[h].current \in Ids \cup {NoSource}

\* A lineage is whole: while it is open its active versions are numbered
\* 1..n, each supersedes the one before, the tip is the newest and a binding
\* names it; once any version is closed, all are.  Two hosts updating from
\* the same resolved version, or an update crossing a deletion, must not
\* leave anything else (source_capture.rs, advance_lineage_tip and
\* deletion_store.rs, close_targets_to_recall).
LineageWhole ==
    \A l \in {rows[s].lineage : s \in Stored} :
       LET active == ActiveOf(l) IN
       IF active = {} THEN TipOf(l) = {}
       ELSE /\ active = OfLineage(l)
            /\ {rows[s].version : s \in active} = 1..Cardinality(active)
            /\ \A s \in active : rows[s].version > 1 =>
                  /\ rows[s].supersedes \in active
                  /\ rows[rows[s].supersedes].version = rows[s].version - 1
            /\ \E s \in active : TipOf(l) = {s} /\ ~HasNewer(s)
            /\ \E b \in bindings : b[2] = l

\* The version a capture receipt names holds the bytes the host read from the
\* file, whether it was stored now or found already there (SourceCaptureResult
\* of an idempotent capture), unless it has been deleted since.
ReceiptIsTrue ==
    \A h \in Hosts : host[h].op \in {"import", "update"} /\ host[h].pc = "answered" =>
       \A s \in host[h].got : rows[s].bytes \in {host[h].bytes, NoBytes}

\* A list, a version list or a search that has made its last statement.
Answers(e) == e.pc \in {"summary", "history", "cite"} /\ e.todo = {}

\* What is answered was so during the call, although its statements are in
\* no transaction and other hosts commit between them (source_catalog.rs,
\* read.rs).  What a list or a search shows, and what a version list marks
\* as current, was current when the call began or was captured since:
\* nothing that was superseded or closed before.  A list has exactly one
\* version of each lineage that stayed open, a version list has all the
\* versions there were.
WithinCall(e, s) == s \in e.since.current \/ s > e.since.stored
AnswersAreOfTheCall ==
    \A h \in Hosts :
       LET e == host[h] IN Answers(e) =>
          /\ e.op \in {"list", "search"} => \A s \in e.got : WithinCall(e, s)
          /\ e.op = "list" => \A s \in e.since.current : IsActive(s) =>
               \E t \in e.got : \A u \in e.got : rows[u].lineage = rows[s].lineage <=> u = t
          /\ e.op = "versions" =>
               /\ e.current \in e.got /\ WithinCall(e, e.current)
               /\ \A s \in ActiveOf(e.lineage) : s <= e.since.stored => s \in e.got

\* Whatever captures, failed or abandoned deletions and crashes came before,
\* the stored library passes every check its catalog and its capture make:
\* a user alone with it is never refused as if it were damaged.
LibraryReadable ==
    /\ VerifyDerived
    /\ VerifyOriginBindings
    /\ \A t \in tips : LoadSource(t[2]) /\ VersionsCounted(t[2]) /\ VersionsOk(ActiveOf(t[1]), t[2])

\* The stored library is sound as a whole: its values, its lineages and what
\* its own checks say of it.
LibrarySound == TypeOK /\ LineageWhole /\ LibraryReadable

\* Once a version of a lineage is closed by a delete request, the lineage
\* never gains a version and none of its versions becomes active again, even
\* for a host that resolved it before (advance_lineage_tip, decide_capture).
ClosedStaysClosed ==
    [][\A l \in {rows[s].lineage : s \in Stored} :
         (\E s \in OfLineage(l) : ~IsActive(s)) =>
            \A s \in 1..Len(rows') : rows'[s].lineage = l =>
               s \in Stored /\ (rows'[s].state = "active" => IsActive(s))]_vars
=============================================================================
