----------------------------- MODULE DesktopHost -----------------------------
(***************************************************************************)
(* The desktop host: a window (ui.rs) and a worker thread (worker.rs) that *)
(* owns the library (controller.rs, backend.rs) and the original requests  *)
(* that must be retried unchanged.  A command goes to the worker, one      *)
(* snapshot comes back; the window draws snapshots and nothing else.       *)
(*                                                                         *)
(* The library on disk (the modules SourceVault, DeletionExecution,        *)
(* BodyMigration and KeyBootstrap) is reduced to what its calls return.  A *)
(* call that fails may have taken effect in part or in full; failures,     *)
(* panics of the worker and killed processes are counted by `faults`.      *)
(* The host is the only user of its library.                               *)
(*                                                                         *)
(* A source version is named by the capture request that makes it, and a   *)
(* lineage by its first version; a delete request is named by its lineage. *)
(* Search results, the acceptance and observation modes and the wording of *)
(* notices are left out.                                                   *)
(***************************************************************************)
EXTENDS Naturals, FiniteSets

CONSTANTS Requests,   \* capture requests
          None,
          Start,      \* schema of the library the host is first started on
          MaxFaults   \* bound: failed calls, panics and killed processes

ASSUME DesktopAssumption ==
    /\ None \notin Requests
    /\ "no answer" \notin Requests \cup {None}
    /\ Start \in 6..9
    /\ MaxFaults \in Nat

VARIABLES
    disk,      \* the library
    eng,       \* memory of the worker thread
    alive,     \* the worker thread runs
    cmd,       \* the command in the channel to the worker
    answer,    \* the snapshot in the channel to the window
    busy,      \* Worker.busy
    stopped,   \* Worker.stopped
    ui,        \* the last snapshot shown
    dialog,    \* the open confirmation
    asking,    \* confirm_delete
    phase,     \* the process: "open" or "closed"
    faults

vars == <<disk, eng, alive, cmd, answer, busy, stopped, ui, dialog, asking, phase, faults>>
window == <<ui, dialog, asking, phase>>

Maybe == Requests \cup {None}
NoView == [sources |-> {}, lineage |-> None, source |-> None, versions |-> {}]

ChangesLibrary == {"open_plain", "open_encrypted", "initialize", "migrate"}
Writes == {"import", "update", "delete"}
Refreshes == {"open_plain", "open_encrypted", "refresh", "retry", "resume", "abandon"}
Reads == {"verify", "rebuild", "export", "search"}
Selects == {"lineage", "version", "result"}
Ops == ChangesLibrary \cup Writes \cup Refreshes \cup Reads \cup Selects \cup {"inspect"}

Capture == [id : Requests, lineage : Requests]
NoCapture == [id |-> None, lineage |-> None]
View == [sources : SUBSET Requests, lineage : Maybe, source : Maybe,
         versions : SUBSET Requests]
(* `shown` and `target` are what the window knew when it sent the command.  *)
Command == [op : Ops, arg : Maybe, source : Maybe, shown : Maybe]
NoCommand == [op |-> "none", arg |-> None, source |-> None, shown |-> None]
Snapshot == [has : BOOLEAN, view : View, encrypted : BOOLEAN, holds : BOOLEAN,
             holdsCapture : BOOLEAN, available : BOOLEAN, known : BOOLEAN,
             deletions : SUBSET Requests, target : Maybe]
DefaultSnapshot == [has |-> FALSE, view |-> NoView, encrypted |-> FALSE, holds |-> FALSE,
                    holdsCapture |-> FALSE, available |-> FALSE, known |-> FALSE,
                    deletions |-> {}, target |-> None]
NoAnswer == [DefaultSnapshot EXCEPT !.target = "no answer"]

(* Every variable keeps to its domain; there is a command or an answer only *)
(* while the worker is busy, and never both.                                *)
TypeOK ==
    /\ disk.schema \in 6..9
    /\ disk.pending \in Capture \cup {NoCapture}
    /\ disk.lineage \in [Requests -> Maybe]
    /\ disk.unfinished \in SUBSET Requests
    /\ disk.used \in SUBSET Requests
    /\ disk.abandoned \in SUBSET Requests
    /\ eng.controller \in {"none", "plain", "encrypted"}
    /\ {eng.encrypted, eng.known, eng.valid} \subseteq BOOLEAN
    /\ eng.target \in Maybe
    /\ eng.deletions \in SUBSET Requests
    /\ eng.capture \in Capture \cup {NoCapture}
    /\ eng.deletion \in Maybe
    /\ eng.view \in View
    /\ alive \in BOOLEAN
    /\ cmd \in Command \cup {NoCommand}
    /\ answer \in Snapshot \cup {NoAnswer}
    /\ busy \in BOOLEAN
    /\ stopped \in BOOLEAN
    /\ ui \in Snapshot
    /\ dialog \in {"none", "initialize", "migrate", "abandon", "close"}
    /\ asking \in BOOLEAN
    /\ phase \in {"open", "closed"}
    /\ faults \in 0..MaxFaults
    /\ cmd # NoCommand => busy
    /\ answer # NoAnswer => busy \/ stopped
    /\ ~(cmd # NoCommand /\ answer # NoAnswer)

------------------------------------------------------------------------------
(* The library on disk.                                                     *)

Versions(d, l) == {x \in Requests : d.lineage[x] = l}
Lineages(d) == {d.lineage[x] : x \in Requests} \ {None}
AbandonmentTarget(d) == d.pending.id
UnfinishedRequests(d) == d.unfinished
MutationPending(d) == d.pending # NoCapture \/ d.unfinished # {}

(* What is on disk after a capture was committed, deleted, abandoned.       *)
Committed(d, c) ==
    [d EXCEPT !.lineage[c.id] = c.lineage, !.pending = NoCapture, !.schema = 9]
Prepared(d, c) == [d EXCEPT !.pending = c, !.schema = 9]
Erased(d, l) == [d EXCEPT !.lineage = [x \in Requests |-> IF @[x] = l THEN None ELSE @[x]]]
Authorized(d, l) == [d EXCEPT !.unfinished = @ \cup {l}, !.schema = 9]
Deleted(d, l) == [Erased(Authorized(d, l), l) EXCEPT !.unfinished = @ \ {l}]
Abandoned(d, x) ==
    [d EXCEPT !.pending = IF @.id = x THEN NoCapture ELSE @,
              !.abandoned = @ \cup {x}, !.schema = 9]
(* abandonment_item: the target is the pending capture, or one that was     *)
(* abandoned before; repeating an abandonment succeeds and changes nothing. *)
Abandonable(d, x) == x # None /\ x \in {d.pending.id} \cup d.abandoned

(* capture_source refuses an abandoned request; committing twice is once.   *)
CaptureAllowed(d, c) ==
    /\ c.id \notin d.abandoned
    /\ d.pending \in {NoCapture, c}
CaptureFailures(d, c) ==
    {d} \cup (IF CaptureAllowed(d, c) THEN {Prepared(d, c), Committed(d, c)} ELSE {})
DeletionFailures(d, l) ==
    {d, Authorized(d, l), Erased(Authorized(d, l), l), Deleted(d, l)}

(* prepare_import_new_source and prepare_update_source, and the update of a *)
(* plaintext library: no request while other work is unfinished, and the    *)
(* lineage to update must be there.                                         *)
CanPrepareImport(e, d) == e.controller = "encrypted" => ~MutationPending(d)
CanPrepareUpdate(e, d, l) == CanPrepareImport(e, d) /\ l \in Lineages(d)
CanPrepareDeletion(e, d, l) ==
    /\ e.controller = "encrypted" => ~MutationPending(d)
    /\ l \in Lineages(d)

(* The same writes on a plaintext library, where nothing is kept for later: *)
(* a capture is one transaction; a deletion is a request, its execution and *)
(* its evidence.                                                            *)
AsPlain(d) == [d EXCEPT !.schema = disk.schema]
PlainCaptured(d, c) == AsPlain(Committed(d, c))
PlainDeletionFailures(d, l) == {AsPlain(x) : x \in DeletionFailures(d, l)}

------------------------------------------------------------------------------
(* The worker.                                                              *)

Held(e) == e.capture # NoCapture \/ e.deletion # None
Blocked(e) == ~e.valid \/ Held(e) \/ e.target # None \/ e.deletions # {} \/ ~e.known
Cleared(e) == [e EXCEPT !.known = FALSE, !.target = None, !.deletions = {}]
Dropped(e) == [e EXCEPT !.controller = "none", !.capture = NoCapture,
                        !.deletion = None, !.view = NoView]

NewEngine ==
    [controller |-> "none", encrypted |-> FALSE, target |-> None, deletions |-> {},
     known |-> FALSE, valid |-> FALSE, capture |-> NoCapture, deletion |-> None,
     view |-> NoView]

(* select_lineage: the current version is the newest one; which one that is *)
(* does not matter here.                                                    *)
Selected(d, v, l) ==
    [v EXCEPT !.lineage = l, !.versions = Versions(d, l),
              !.source = CHOOSE x \in Versions(d, l) : TRUE]
(* refresh_sources, and the view of read_snapshot: the catalogue, with the  *)
(* previous selection if it is still there and the first lineage otherwise. *)
Refreshed(d, previous) ==
    LET fresh == [NoView EXCEPT !.sources = Lineages(d)]
    IN IF Lineages(d) = {} THEN fresh
       ELSE Selected(d, fresh, IF previous \in Lineages(d) THEN previous
                                                   ELSE CHOOSE l \in Lineages(d) : TRUE)

(* Mutant: without an open library, no deletion counts as pending.          *)
InspectedEmptyFallback(e, d, ok) ==
    IF ~ok THEN Cleared(e)
    ELSE IF e.controller = "encrypted"
    THEN [e EXCEPT !.target = AbandonmentTarget(d), !.deletions = UnfinishedRequests(d),
                   !.known = TRUE]
    ELSE [Cleared(e) EXCEPT !.target = IF e.encrypted THEN AbandonmentTarget(d) ELSE None,
                            !.known = TRUE]

(* inspect: without an open library deletions cannot be discovered.         *)
Inspected(e, d, ok) ==
    IF ~ok THEN Cleared(e)
    ELSE CASE e.controller = "encrypted" ->
                  [e EXCEPT !.target = AbandonmentTarget(d),
                            !.deletions = UnfinishedRequests(d), !.known = TRUE]
           [] e.controller = "none" /\ e.encrypted ->
                  [Cleared(e) EXCEPT !.target = AbandonmentTarget(d)]
           [] OTHER -> [Cleared(e) EXCEPT !.known = TRUE]
InspectFails(e) == e.controller = "none" /\ e.encrypted

(* What perform clears before it looks at anything else.                    *)
Entry(e, c) ==
    IF \/ c.op = "open_encrypted"
       \/ e.encrypted /\ c.op = "refresh"
       \/ c.op \in ChangesLibrary /\ ~Held(e)
    THEN Cleared(e) ELSE e
Refused(e, c) ==
    \/ c.op \in ChangesLibrary /\ Held(e)
    \/ c.op \in Writes /\ Blocked(e)

(* The end of execute: the answer for the window.  `fresh` is the result of *)
(* the refresh that follows a write.                                        *)
Answer(e, op, ok, fresh) ==
    LET valid == ok /\ fresh /\ (op \in Refreshes \/ e.valid)
        view  == e.controller # "none" /\ valid
    IN /\ eng' = [e EXCEPT !.valid = valid]
       /\ answer' = [has |-> view, view |-> IF view THEN e.view ELSE NoView,
                     encrypted |-> e.encrypted, holds |-> Held(e),
                     holdsCapture |-> e.capture # NoCapture,
                     available |-> e.target # None, known |-> e.known,
                     deletions |-> e.deletions, target |-> e.target]

Runs(ops) == cmd.op \in ops
Spend(n) == faults + n <= MaxFaults /\ faults' = faults + n
Count(b) == IF b THEN 0 ELSE 1
Fail(e) == Answer(e, cmd.op, FALSE, TRUE)

(* A library of schema 6 is opened with its plaintext bodies; anything else *)
(* is refused.                                                              *)
OpenPlain ==
    /\ Runs({"open_plain"})
    /\ UNCHANGED disk
    /\ LET e == [Dropped(Entry(eng, cmd)) EXCEPT !.encrypted = FALSE]
       IN \E ok \in BOOLEAN :
            /\ Spend(Count(ok))
            /\ IF ok /\ disk.schema = 6
               THEN Answer(Inspected([e EXCEPT !.controller = "plain",
                                               !.view = Refreshed(disk, None)], disk, TRUE),
                           cmd.op, TRUE, TRUE)
               ELSE Fail(e)

OpenEncrypted ==
    /\ Runs({"open_encrypted"})
    /\ UNCHANGED disk
    /\ LET e == [Dropped(Entry(eng, cmd)) EXCEPT !.encrypted = TRUE]
       IN \E ok \in BOOLEAN :
            /\ Spend(Count(ok))
            /\ IF ok /\ disk.schema >= 8
               THEN Answer(Inspected([e EXCEPT !.controller = "encrypted",
                                               !.view = Refreshed(disk, None)], disk, TRUE),
                           cmd.op, TRUE, TRUE)
               ELSE Fail(e)

(* Key preparation and body migration drop the open library first and leave *)
(* the host without one.                                                    *)
Transition ==
    /\ Runs({"initialize", "migrate"})
    /\ LET e == [Dropped(Entry(eng, cmd)) EXCEPT !.encrypted = TRUE]
           from == IF cmd.op = "initialize" THEN {6, 7} ELSE {7, 8}
           to   == IF cmd.op = "initialize" THEN 7 ELSE 8
       IN \E ok \in BOOLEAN :
            /\ Spend(Count(ok))
            /\ IF ok /\ disk.schema \in from
               THEN /\ disk' = [disk EXCEPT !.schema = to]
                    /\ Answer(e, cmd.op, TRUE, TRUE)
               ELSE /\ disk' \in {disk} \cup (IF disk.schema \in from
                                              THEN {[disk EXCEPT !.schema = to]} ELSE {})
                    /\ Fail(e)

(* The answer after a committed write: the catalogue is read again.         *)
RefreshAfterCommit(e, d, lineage, fresh) ==
    Answer([e EXCEPT !.view = IF fresh THEN Refreshed(d, lineage) ELSE NoView],
           cmd.op, TRUE, fresh)

(* Verify and rebuild work on the location in encrypted mode, even without  *)
(* an open library.  A rebuild of a plaintext library reads the catalogue   *)
(* again.                                                                   *)
Maintain ==
    /\ Runs({"verify", "rebuild"})
    /\ UNCHANGED disk
    /\ \E ok, fresh \in BOOLEAN :
         LET possible == IF eng.encrypted THEN disk.schema >= 8 ELSE eng.controller # "none"
             refresh == cmd.op = "rebuild" /\ ~eng.encrypted
         IN /\ ~fresh => ok /\ possible /\ refresh
            /\ Spend(Count(ok) + Count(fresh))
            /\ IF ~(ok /\ possible) THEN Fail(eng)
               ELSE IF ~refresh THEN Answer(eng, cmd.op, TRUE, TRUE)
               ELSE RefreshAfterCommit(eng, disk, eng.view.lineage, fresh)

Export ==
    /\ Runs({"export"})
    /\ UNCHANGED disk
    /\ \E ok \in BOOLEAN :
         /\ Spend(Count(ok))
         /\ Answer(eng, cmd.op, ok /\ eng.controller # "none" /\ eng.view.source # None, TRUE)

Search ==
    /\ Runs({"search"})
    /\ UNCHANGED disk
    /\ \E ok \in BOOLEAN :
         /\ Spend(Count(ok))
         /\ Answer(eng, cmd.op, ok /\ eng.controller # "none", TRUE)

Refresh ==
    /\ Runs({"refresh"})
    /\ UNCHANGED disk
    /\ LET e == Entry(eng, cmd)
       IN \E ok \in BOOLEAN :
            /\ Spend(Count(ok))
            /\ CASE e.controller = "none" -> Fail(e)
                 [] e.controller # "none" /\ ok ->
                      Answer(Inspected([e EXCEPT !.view = Refreshed(disk, @.lineage)],
                                       disk, TRUE), cmd.op, TRUE, TRUE)
                 [] OTHER -> Fail([e EXCEPT !.view = NoView])

(* select_lineage, select_source_version and both of them for a search hit. *)
Select ==
    /\ Runs(Selects)
    /\ UNCHANGED disk
    /\ \E ok \in BOOLEAN :
         /\ Spend(Count(ok))
         /\ LET known == /\ ok /\ eng.controller # "none"
                         /\ cmd.op \in {"lineage", "result"} =>
                              cmd.arg \in eng.view.sources \cap Lineages(disk)
                v == IF cmd.op = "version" THEN eng.view ELSE Selected(disk, eng.view, cmd.arg)
            IN IF ~known THEN Fail(eng)
               ELSE IF cmd.op = "lineage" THEN Answer([eng EXCEPT !.view = v], cmd.op, TRUE, TRUE)
               ELSE IF cmd.source \in v.versions
               THEN Answer([eng EXCEPT !.view = [v EXCEPT !.source = cmd.source]],
                           cmd.op, TRUE, TRUE)
               ELSE Fail([eng EXCEPT !.view = v])

(* The capture is kept before it is executed and released by its success.   *)
CaptureSource(x, l) ==
    LET c == [id |-> x, lineage |-> l]
        d == [disk EXCEPT !.used = @ \cup {x}]
        encrypted == eng.controller = "encrypted"
        done == IF encrypted THEN Committed(d, c) ELSE PlainCaptured(d, c)
    IN \/ \E fresh \in BOOLEAN :
            /\ Spend(Count(fresh))
            /\ disk' = done
            /\ RefreshAfterCommit(eng, done, l, fresh)
       \/ /\ Spend(1)
          /\ disk' \in (IF encrypted THEN CaptureFailures(d, c) ELSE {d, done})
          /\ Fail(IF encrypted THEN [eng EXCEPT !.capture = c] ELSE eng)

(* Refused, or an error, before there is a request.                         *)
NotPrepared(possible) ==
    /\ IF possible THEN Spend(1) ELSE Spend(0)
    /\ disk' = disk /\ Fail(eng)

ImportSource ==
    /\ Runs({"import"})
    /\ LET possible == eng.controller # "none" /\ CanPrepareImport(eng, disk)
       IN \/ NotPrepared(possible)
          \/ possible /\ \E x \in Requests \ disk.used : CaptureSource(x, x)

UpdateSelected ==
    /\ Runs({"update"})
    /\ LET l == eng.view.lineage
           possible == eng.controller # "none" /\ CanPrepareUpdate(eng, disk, l)
       IN \/ NotPrepared(possible)
          \/ possible /\ \E x \in Requests \ disk.used : CaptureSource(x, l)

(* The deletion request is kept until its evidence says completed.  In a    *)
(* plaintext library every attempt is a new request, so an earlier one that *)
(* failed stays unfinished.                                                 *)
DeleteSourceLineage(l) ==
    LET encrypted == eng.controller = "encrypted"
        kept == [eng EXCEPT !.deletion = IF encrypted THEN l ELSE None]
    IN \/ \E fresh, complete \in BOOLEAN :
            LET d == IF complete THEN Deleted(disk, l) ELSE Erased(Authorized(disk, l), l)
            IN /\ Spend(Count(fresh) + Count(complete))
               /\ disk' = IF encrypted THEN d
                          ELSE [AsPlain(d) EXCEPT !.unfinished =
                                    IF complete THEN disk.unfinished ELSE @]
               /\ RefreshAfterCommit(IF complete THEN eng ELSE kept, d, None, fresh)
       \/ /\ Spend(1)
          /\ disk' \in (IF encrypted THEN DeletionFailures(disk, l)
                                     ELSE PlainDeletionFailures(disk, l))
          /\ Fail(kept)

DeleteSelected ==
    /\ Runs({"delete"})
    /\ LET l == eng.view.lineage
           possible == eng.controller # "none" /\ CanPrepareDeletion(eng, disk, l)
       IN \/ NotPrepared(possible)
          \/ possible /\ DeleteSourceLineage(l)

(* refresh_after_write: the view and the recovery state are read again, and *)
(* each may fail on its own.                                                *)
RefreshAfterWrite(e, d, refreshed, inspected) ==
    LET v == IF e.controller # "none" /\ refreshed THEN Refreshed(d, e.view.lineage)
             ELSE NoView
    IN Answer(Inspected([e EXCEPT !.view = v], d, inspected), cmd.op, TRUE,
              e.controller # "none" /\ refreshed /\ inspected /\ ~InspectFails(e))

(* retry: the capture first, otherwise the deletion.                        *)
RetryHeld(e) ==
    CASE e.capture # NoCapture ->
           \/ /\ CaptureAllowed(disk, e.capture)
              /\ LET d == IF disk.lineage[e.capture.id] # None THEN disk
                          ELSE Committed(disk, e.capture)
                 IN /\ disk' = d
                    /\ \E r, i \in BOOLEAN :
                         /\ Spend(Count(r) + Count(i))
                         /\ RefreshAfterWrite([e EXCEPT !.capture = NoCapture], d, r, i)
           \/ /\ \/ Spend(1) /\ disk' \in CaptureFailures(disk, e.capture)
                 \/ Spend(0) /\ disk' = disk /\ ~CaptureAllowed(disk, e.capture)
              /\ Fail(e)
      [] e.capture = NoCapture /\ e.deletion # None ->
           \/ \E r, i, complete \in BOOLEAN :
                LET d == IF complete THEN Deleted(disk, e.deletion)
                                     ELSE Erased(Authorized(disk, e.deletion), e.deletion)
                IN /\ Spend(Count(r) + Count(i) + Count(complete))
                   /\ disk' = d
                   /\ RefreshAfterWrite([e EXCEPT !.deletion = IF complete THEN None ELSE @],
                                        d, r, i)
           \/ /\ Spend(1)
              /\ disk' \in DeletionFailures(disk, e.deletion)
              /\ Fail(e)
      [] OTHER -> Spend(0) /\ disk' = disk /\ Fail(e)

RetryOriginal ==
    /\ Runs({"retry"})
    /\ IF eng.controller = "encrypted" THEN RetryHeld(eng)
       ELSE Spend(0) /\ disk' = disk /\ Fail(eng)

ResumeDelete ==
    /\ Runs({"resume"})
    /\ IF ~Held(eng) /\ cmd.arg \in eng.deletions /\ eng.controller = "encrypted"
       THEN RetryHeld([eng EXCEPT !.deletion = cmd.arg])
       ELSE Spend(0) /\ disk' = disk /\ Fail(eng)

InspectRecovery ==
    /\ Runs({"inspect"})
    /\ UNCHANGED disk
    /\ \E ok \in BOOLEAN :
         /\ Spend(Count(ok))
         /\ Answer(Inspected(eng, disk, ok), cmd.op, ok /\ ~InspectFails(eng), TRUE)

(* Mutant: the original is dropped before the abandonment is known to work. *)
AbandonReleasesFirst ==
    /\ Runs({"abandon"})
    /\ LET e == [eng EXCEPT !.capture = NoCapture]
           exact == Abandonable(disk, eng.target)
       IN \/ /\ exact
             /\ disk' = Abandoned(disk, eng.target)
             /\ \E r, i \in BOOLEAN :
                  /\ Spend(Count(r) + Count(i))
                  /\ RefreshAfterWrite(e, disk', r, i)
          \/ /\ \/ Spend(1) /\ disk' \in {disk} \cup (IF exact THEN {Abandoned(disk, eng.target)}
                                                               ELSE {})
                \/ Spend(0) /\ disk' = disk /\ ~exact
             /\ Fail(e)

(* The target of the last inspection, with or without an open library.      *)
Abandon ==
    /\ Runs({"abandon"})
    /\ LET e == [eng EXCEPT !.capture = NoCapture]
           exact == Abandonable(disk, eng.target)
       IN \/ /\ exact
             /\ disk' = Abandoned(disk, eng.target)
             /\ \E r, i \in BOOLEAN :
                  /\ Spend(Count(r) + Count(i))
                  /\ RefreshAfterWrite(e, disk', r, i)
          \/ /\ \/ Spend(1) /\ disk' \in {disk} \cup (IF exact THEN {Abandoned(disk, eng.target)}
                                                               ELSE {})
                \/ Spend(0) /\ disk' = disk /\ ~exact
             /\ Fail(eng)

(* A panic while a command runs ends the thread; nothing is answered.       *)
Panic ==
    /\ alive /\ cmd # NoCommand
    /\ alive' = FALSE
    /\ cmd' = NoCommand
    /\ eng' = NewEngine
    /\ Spend(1)
    /\ UNCHANGED <<disk, answer, busy, stopped, window>>

Perform ==
    \/ OpenPlain \/ OpenEncrypted \/ Transition \/ Maintain \/ Export \/ Search
    \/ Refresh \/ Select
    \/ ImportSource \/ UpdateSelected \/ DeleteSelected \/ RetryOriginal \/ ResumeDelete
    \/ InspectRecovery \/ Abandon

(* The loop of the worker thread: one command, one answer.                  *)
Work ==
    /\ alive /\ cmd # NoCommand
    /\ cmd' = NoCommand
    /\ IF Refused(eng, cmd) THEN Fail(Entry(eng, cmd)) /\ UNCHANGED <<disk, faults>>
       ELSE Perform
    /\ UNCHANGED <<alive, busy, stopped, window>>

------------------------------------------------------------------------------
(* The window.                                                              *)

(* Mutant: an answer without a view leaves the old view on the screen.      *)
PollKeepsView ==
    \/ /\ answer # NoAnswer
       /\ ui' = [answer EXCEPT !.has = @ \/ ui.has, !.view = IF answer.has THEN @ ELSE ui.view]
       /\ answer' = NoAnswer /\ busy' = FALSE
       /\ UNCHANGED stopped
    \/ /\ answer = NoAnswer /\ ~alive /\ ~stopped
       /\ ui' = DefaultSnapshot /\ busy' = FALSE /\ stopped' = TRUE
       /\ UNCHANGED answer

(* try_recv: an answer, nothing, or the news that the worker is gone.       *)
Poll ==
    \/ /\ answer # NoAnswer
       /\ ui' = answer /\ answer' = NoAnswer /\ busy' = FALSE
       /\ UNCHANGED stopped
    \/ /\ answer = NoAnswer /\ ~alive /\ ~stopped
       /\ ui' = DefaultSnapshot /\ busy' = FALSE /\ stopped' = TRUE
       /\ UNCHANGED answer
NothingToPoll == answer = NoAnswer /\ (alive \/ stopped)

(* A frame that draws a new snapshot.                                       *)
ShowAnswer ==
    /\ phase = "open" /\ Poll
    /\ UNCHANGED <<disk, eng, alive, cmd, dialog, asking, phase, faults>>

CanMutate == ui.known /\ ~ui.holds /\ ~ui.available /\ ui.deletions = {}
Panel == phase = "open" /\ ~busy /\ ~stopped /\ dialog = "none" /\ ~asking

SendC(c) ==
    /\ ~stopped /\ ~busy
    /\ IF alive THEN busy' = TRUE /\ cmd' = c /\ UNCHANGED stopped
       ELSE stopped' = TRUE /\ UNCHANGED <<busy, cmd>>
    /\ UNCHANGED <<disk, eng, alive, answer, ui, phase, faults>>
Cmd(op, arg, source, shown) == [op |-> op, arg |-> arg, source |-> source, shown |-> shown]

(* Whether a button is drawn and enabled for a command.  Requests bounds    *)
(* the captures a user may start.                                           *)
Offered(op) ==
    CASE op \in {"refresh", "verify", "rebuild"} -> TRUE
      [] op \in {"open_plain", "open_encrypted"} -> ~ui.holds
      [] op = "import" -> ui.has /\ CanMutate /\ disk.used # Requests
      [] op = "update" -> /\ ui.has /\ CanMutate /\ ui.view.lineage # None
                          /\ disk.used # Requests
      [] op = "export" -> ui.has /\ ui.view.lineage # None
      [] op = "search" -> ui.has
      [] op = "inspect" -> ui.encrypted
      [] op = "retry" -> ui.encrypted /\ ui.holds
      [] OTHER -> FALSE

Click ==
    /\ Panel
    /\ UNCHANGED <<dialog, asking>>
    /\ \/ \E op \in Ops : /\ Offered(op)
                          /\ SendC(Cmd(op, None, None,
                                       IF op = "export" THEN ui.view.source
                                       ELSE ui.view.lineage))
       \/ /\ ui.has
          /\ \/ \E l \in ui.view.sources : SendC(Cmd("lineage", l, None, None))
             \/ \E x \in ui.view.versions : SendC(Cmd("version", None, x, None))
             \/ \E l \in ui.view.sources, x \in Requests : SendC(Cmd("result", l, x, None))
       \/ \E l \in ui.deletions : ~ui.holds /\ SendC(Cmd("resume", l, None, None))

(* Mutant: only a capture of this session can be abandoned.                 *)
OpenDialogOwnCapture ==
    /\ Panel
    /\ \/ /\ ~ui.holds /\ dialog' \in {"initialize", "migrate"}
          /\ UNCHANGED asking
       \/ /\ ui.encrypted /\ ui.available /\ ui.holdsCapture /\ dialog' = "abandon"
          /\ UNCHANGED asking
       \/ /\ ui.has /\ CanMutate /\ ui.view.lineage # None /\ asking' = TRUE
          /\ UNCHANGED dialog
    /\ UNCHANGED <<disk, eng, alive, cmd, answer, busy, stopped, ui, phase, faults>>

OpenDialog ==
    /\ Panel
    /\ \/ /\ ~ui.holds /\ dialog' \in {"initialize", "migrate"}
          /\ UNCHANGED asking
       \/ /\ ui.encrypted /\ ui.available /\ dialog' = "abandon"
          /\ UNCHANGED asking
       \/ /\ ui.has /\ CanMutate /\ ui.view.lineage # None /\ asking' = TRUE
          /\ UNCHANGED dialog
    /\ UNCHANGED <<disk, eng, alive, cmd, answer, busy, stopped, ui, phase, faults>>

(* Cancel and confirm.  The deletion dialog is drawn inside the view.  A    *)
(* confirmed command that the worker refuses to take is dropped.            *)
Submit(c) ==
    \/ SendC(c)
    \/ /\ stopped \/ busy
       /\ UNCHANGED <<disk, eng, alive, cmd, answer, busy, stopped, ui, phase, faults>>
AnswerDialog ==
    /\ phase = "open"
    /\ \/ /\ dialog # "none" /\ dialog' = "none"
          /\ UNCHANGED <<disk, eng, alive, cmd, answer, busy, stopped, ui, asking, phase, faults>>
       \/ /\ dialog \in {"initialize", "migrate", "abandon"} /\ dialog' = "none"
          /\ Submit(Cmd(dialog, None, None, ui.target))
          /\ UNCHANGED asking
       \/ /\ asking /\ ui.has /\ asking' = FALSE
          /\ UNCHANGED <<disk, eng, alive, cmd, answer, busy, stopped, ui, dialog, phase, faults>>
       \/ /\ asking /\ ui.has /\ asking' = FALSE
          /\ Submit(Cmd("delete", None, None, ui.view.lineage))
          /\ UNCHANGED dialog

(* The process ends: the worker is told to shut down and joined, and the    *)
(* memory of both threads is gone.                                          *)
Ended ==
    /\ phase' = "closed"
    /\ eng' = NewEngine /\ alive' = FALSE
    /\ cmd' = NoCommand /\ answer' = NoAnswer
    /\ busy' = FALSE /\ stopped' = FALSE
    /\ ui' = DefaultSnapshot /\ dialog' = "none" /\ asking' = FALSE

(* Mutant: the busy state is looked at after the poll.                      *)
RequestCloseAfterPoll ==
    /\ phase = "open"
    /\ \/ /\ busy /\ answer = NoAnswer
          /\ UNCHANGED <<ui, answer, busy, stopped, disk, eng, alive, cmd, dialog, asking,
                         phase, faults>>
       \/ /\ ~busy \/ answer # NoAnswer
          /\ ~(IF answer # NoAnswer THEN answer ELSE ui).holds
          /\ Ended /\ UNCHANGED <<disk, faults>>

(* The window manager asks to close: a frame that first polls.  While a     *)
(* command runs, and in the frame in which its answer arrives, the request  *)
(* is cancelled; with a held request the user is asked first.               *)
RequestClose ==
    /\ phase = "open"
    /\ LET wasBusy == busy
       IN \/ /\ wasBusy
             /\ \/ Poll
                \/ NothingToPoll /\ UNCHANGED <<ui, answer, busy, stopped>>
             /\ UNCHANGED <<disk, eng, alive, cmd, dialog, asking, phase, faults>>
          \/ /\ ~wasBusy /\ NothingToPoll /\ ui.holds
             /\ dialog' = "close"
             /\ UNCHANGED <<disk, eng, alive, cmd, answer, busy, stopped, ui, asking, phase, faults>>
          \/ /\ ~wasBusy /\ (NothingToPoll => ~ui.holds)
             /\ Ended /\ UNCHANGED <<disk, faults>>

ConfirmClose ==
    /\ phase = "open" /\ dialog = "close"
    /\ Ended /\ UNCHANGED <<disk, faults>>

(* A killed process.                                                        *)
Kill ==
    /\ phase = "open" /\ Spend(1)
    /\ Ended /\ UNCHANGED disk

(* bootstrap: a new worker and the first command.  A worker that cannot be  *)
(* built answers with an error and ends, before or after that command.      *)
Launch ==
    /\ phase = "closed"
    /\ phase' = "open"
    /\ \/ /\ alive' = TRUE /\ busy' = TRUE
          /\ cmd' = Cmd("open_plain", None, None, None)
          /\ UNCHANGED <<answer, stopped, faults>>
       \/ /\ Spend(1)
          /\ answer' = DefaultSnapshot
          /\ \/ busy' = TRUE /\ UNCHANGED stopped
             \/ stopped' = TRUE /\ UNCHANGED busy
          /\ UNCHANGED <<alive, cmd>>
    /\ UNCHANGED <<disk, eng, ui, dialog, asking>>

Init ==
    /\ disk = [schema |-> Start, pending |-> NoCapture,
               lineage |-> [x \in Requests |-> None], unfinished |-> {},
               used |-> {}, abandoned |-> {}]
    /\ eng = NewEngine
    /\ alive = FALSE
    /\ cmd = NoCommand
    /\ answer = NoAnswer
    /\ busy = FALSE
    /\ stopped = FALSE
    /\ ui = DefaultSnapshot
    /\ dialog = "none"
    /\ asking = FALSE
    /\ phase = "closed"
    /\ faults = 0

Next ==
    \/ Work \/ Panic
    \/ ShowAnswer \/ Click \/ OpenDialog \/ AnswerDialog
    \/ RequestClose \/ ConfirmClose \/ Kill \/ Launch

Spec == Init /\ [][Next]_vars

------------------------------------------------------------------------------
(* Whenever the worker says that the recovery state of an encrypted library *)
(* is known, everything unfinished on disk is either in its lists or is the *)
(* original request it holds: no failed write, retry, resume or abandonment *)
(* may leave it unaware of a pending capture or deletion (the fields        *)
(* target, deletions and recovery_known of Engine).                         *)
NothingPendingOverlooked ==
    eng.encrypted /\ eng.known =>
        /\ disk.pending.id \in {None, eng.target, eng.capture.id}
        /\ disk.unfinished \subseteq eng.deletions \cup {eng.deletion}

(* The window offers exactly what the worker accepts: no command that is    *)
(* under way is one the worker refuses because of its own recovery state    *)
(* (can_mutate and can_switch of the window, blocked and held of Engine).   *)
OffersWhatIsAccepted == cmd # NoCommand => ~Refused(eng, cmd)

(* A deletion, an export or an abandonment concerns exactly what was on     *)
(* the screen when the user confirmed it, although the command carries no   *)
(* identifier and the worker uses its own selection when it executes it.    *)
ActsOnWhatWasShown ==
    /\ cmd.op = "delete" => eng.view.lineage = cmd.shown
    /\ cmd.op = "update" => eng.view.lineage = cmd.shown
    /\ cmd.op = "export" => eng.view.source = cmd.shown
    /\ cmd.op = "abandon" => eng.target = cmd.shown

(* The window never becomes dead: when the panel is disabled because a      *)
(* deletion awaits confirmation, its dialog is drawn (it is only drawn with *)
(* a view) and its lineage is still the one that was asked about.           *)
DialogIsDrawn == asking => ui.has /\ ui.view.lineage # None

(* What the window shows and offers agrees with the worker, and what the    *)
(* worker takes for known with the disk, at every moment.                   *)
ShownIsTrue ==
    TypeOK /\ NothingPendingOverlooked /\ OffersWhatIsAccepted /\ DialogIsDrawn

(* The plaintext of a capture leaves the memory of a running worker only    *)
(* when its source is stored or it was abandoned on disk.                   *)
OriginalKept ==
    [][eng.capture # NoCapture /\ eng'.capture = NoCapture
       /\ phase' = "open" /\ alive' =>
         \/ disk'.lineage[eng.capture.id] # None
         \/ eng.capture.id \in disk'.abandoned]_vars

(* Closing the window without the explicit confirmation happens only when   *)
(* no command is under way or unanswered and the worker holds no request.   *)
ClosesSettled ==
    [][phase = "open" /\ phase' = "closed" /\ faults' = faults /\ dialog # "close" =>
         ~busy /\ ~Held(eng)]_vars

------------------------------------------------------------------------------
(* The worker takes every command and the window keeps drawing frames while *)
(* the worker is busy (request_repaint_after).                              *)
LiveSpec == Spec /\ WF_vars(Work) /\ WF_vars(ShowAnswer)

(* A user who does what the window offers for recovery: opens the library   *)
(* again, retries, resumes, abandons and, when a held request can never     *)
(* succeed, closes and starts again.  Nothing else is asked of the user.    *)
ClickOn(op) == Click /\ cmd'.op = op
RecoverySpec ==
    /\ LiveSpec
    /\ WF_vars(Launch)
    /\ SF_vars(ClickOn("open_encrypted"))
    /\ SF_vars(ClickOn("retry")) /\ SF_vars(ClickOn("resume"))
    /\ SF_vars(OpenDialog /\ dialog' = "abandon")
    /\ SF_vars(AnswerDialog /\ cmd'.op = "abandon")
    /\ WF_vars(AnswerDialog)
    /\ SF_vars(RequestClose /\ (dialog' = "close" \/ stopped)) /\ SF_vars(ConfirmClose)

(* Every command is answered, also when the worker panics, and no failure   *)
(* leaves an encrypted library blocked for ever: the window again and again *)
(* offers new imports, updates and deletions (can_mutate with a view).      *)
BlocksAreLifted ==
    /\ busy ~> ~busy
    /\ disk.schema >= 8 ~> phase = "open" /\ ui.encrypted /\ ui.has /\ CanMutate
==============================================================================
