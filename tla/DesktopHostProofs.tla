-------------------------- MODULE DesktopHostProofs --------------------------
(***************************************************************************)
(* What DesktopHost promises, proved for any set of requests, any schema   *)
(* the host is started on and any number of failures, panics and kills.    *)
(*                                                                         *)
(* The window acts on a copy of the worker's state, so the invariant says  *)
(* when the copy is exact (InStep): whenever the worker runs and no answer *)
(* is on its way, what is shown is what the worker has.  Only then can the *)
(* window send a command, and nothing changes the worker before it takes   *)
(* that command.  EngineSound is what the worker in turn knows of the      *)
(* disk, and Waiting what keeps a snapshot from changing under an open     *)
(* confirmation.                                                           *)
(***************************************************************************)
EXTENDS DesktopHost, TLAPS

Disk == [schema : 6..9, pending : Capture \cup {NoCapture},
         lineage : [Requests -> Maybe], unfinished : SUBSET Requests,
         used : SUBSET Requests, abandoned : SUBSET Requests]
Engine == [controller : {"none", "plain", "encrypted"}, encrypted : BOOLEAN,
           target : Maybe, deletions : SUBSET Requests, known : BOOLEAN,
           valid : BOOLEAN, capture : Capture \cup {NoCapture},
           deletion : Maybe, view : View]

(* The snapshot that execute makes of the worker's memory.                  *)
SnapshotOf(e) ==
    [has |-> e.controller # "none" /\ e.valid,
     view |-> IF e.controller # "none" /\ e.valid THEN e.view ELSE NoView,
     encrypted |-> e.encrypted, holds |-> Held(e),
     holdsCapture |-> e.capture # NoCapture, available |-> e.target # None,
     known |-> e.known, deletions |-> e.deletions, target |-> e.target]

(* What the worker's memory says of the disk.  The capture it holds is the  *)
(* only one that can be pending.                                            *)
EngineSound(e, d) ==
    /\ e.controller = "plain" => ~e.encrypted
    /\ e.controller = "encrypted" => e.encrypted
    /\ e.encrypted /\ e.known =>
         /\ d.pending.id \in {None, e.target, e.capture.id}
         /\ d.unfinished \subseteq e.deletions \cup {e.deletion}
    /\ e.capture # NoCapture => d.pending \in {NoCapture, e.capture}
    /\ e.capture # NoCapture => e.target \in {None, e.capture.id}

(* What is shown, or about to be shown, is what the worker has.             *)
InStep ==
    /\ alive => phase = "open" /\ ~stopped
    /\ alive /\ answer = NoAnswer => ui = SnapshotOf(eng)
    /\ alive /\ answer # NoAnswer => answer = SnapshotOf(eng)
    /\ ~alive => cmd = NoCommand /\ eng = NewEngine
    /\ ~alive /\ answer # NoAnswer => answer = DefaultSnapshot
    /\ ~alive => busy \/ ui = DefaultSnapshot
    /\ phase = "closed" => ~alive /\ answer = NoAnswer /\ ~busy /\ ~stopped

(* An open confirmation was offered by the snapshot that is still shown.    *)
Waiting ==
    /\ asking => /\ alive /\ ~busy /\ dialog = "none"
                 /\ ui.has /\ CanMutate /\ ui.view.lineage # None
    /\ dialog # "none" => ~busy /\ phase = "open"
    /\ dialog \in {"initialize", "migrate"} => ~ui.holds

Inv ==
    /\ TypeOK
    /\ disk \in Disk
    /\ eng \in Engine
    /\ EngineSound(eng, disk)
    /\ InStep
    /\ Waiting
    /\ OffersWhatIsAccepted
    /\ ActsOnWhatWasShown

------------------------------------------------------------------------------
(* The values that are no command, no answer, no capture.                   *)
LEMMA Absent ==
    /\ NoView \in View
    /\ NoCapture \notin Capture
    /\ NewEngine \in Engine
    /\ DefaultSnapshot \in Snapshot
    /\ NoAnswer \notin Snapshot
    /\ NoCommand \notin Command
    /\ SnapshotOf(NewEngine) = DefaultSnapshot
    /\ NoCapture.id = None
<1>1. NoView \in View  BY DEF NoView, View, Maybe
<1>2. NoCapture \notin Capture  BY DesktopAssumption DEF NoCapture, Capture
<1>3. NewEngine \in Engine  BY <1>1 DEF NewEngine, Engine, Maybe
<1>4. DefaultSnapshot \in Snapshot  BY <1>1 DEF DefaultSnapshot, Snapshot, Maybe
<1>5. NoAnswer \notin Snapshot
  BY DesktopAssumption DEF NoAnswer, DefaultSnapshot, Snapshot, Maybe
<1>6. NoCommand \notin Command
  BY DEF NoCommand, Command, Ops, ChangesLibrary, Writes, Refreshes, Reads, Selects
<1>7. SnapshotOf(NewEngine) = DefaultSnapshot
  BY DEF SnapshotOf, NewEngine, DefaultSnapshot, Held
<1>8. QED  BY <1>1, <1>2, <1>3, <1>4, <1>5, <1>6, <1>7 DEF NoCapture

LEMMA SnapshotType ==
    ASSUME NEW e \in Engine
    PROVE  SnapshotOf(e) \in Snapshot /\ SnapshotOf(e) # NoAnswer
<1>1. SnapshotOf(e) \in Snapshot
  BY Absent DEF SnapshotOf, Snapshot, Engine, Held
<1>2. QED  BY <1>1, Absent

(* The type invariant with the disk and the engine as whole records.        *)
Typed ==
    /\ disk \in Disk /\ eng \in Engine
    /\ alive \in BOOLEAN
    /\ cmd \in Command \cup {NoCommand}
    /\ answer \in Snapshot \cup {NoAnswer}
    /\ busy \in BOOLEAN
    /\ stopped \in BOOLEAN
    /\ ui \in Snapshot
    /\ dialog \in {"none", "initialize", "migrate", "abandon", "close"}
    /\ asking \in BOOLEAN
    /\ phase \in {"open", "closed"}
    /\ faults \in 0..MaxFaults
    /\ cmd # NoCommand => busy
    /\ answer # NoAnswer => busy \/ stopped
    /\ ~(cmd # NoCommand /\ answer # NoAnswer)
LEMMA TypedIs == Typed => TypeOK
  BY DEF TypeOK, Typed, Disk, Engine
LEMMA InvTyped == Inv => Typed
  BY DEF Inv, TypeOK, Typed

(* The end of execute: what the window is told is what the worker has.      *)
LEMMA AnswerFacts ==
    ASSUME NEW e \in Engine, NEW op, NEW ok, NEW fresh, Answer(e, op, ok, fresh)
    PROVE  /\ eng' \in Engine
           /\ answer' = SnapshotOf(eng')
           /\ \E v \in BOOLEAN : eng' = [e EXCEPT !.valid = v]
<1>1. PICK v \in BOOLEAN : /\ v = (ok /\ fresh /\ (op \in Refreshes \/ e.valid))
                           /\ eng' = [e EXCEPT !.valid = v]
  BY DEF Answer
<1>2. eng' \in Engine  BY <1>1 DEF Engine
<1>3. answer' = SnapshotOf(eng')
  BY <1>1 DEF Answer, SnapshotOf, Engine, Held
<1>4. QED  BY <1>1, <1>2, <1>3

------------------------------------------------------------------------------
(* How every command ends: an answer made of a sound memory, and a held     *)
(* capture that is gone from it is stored or abandoned.                     *)
Released(e, d) ==
    eng.capture # NoCapture /\ e.capture = NoCapture =>
       \/ d.lineage[eng.capture.id] # None
       \/ eng.capture.id \in d.abandoned
Outcome ==
    /\ disk' \in Disk
    /\ faults' \in 0..MaxFaults
    /\ \E e \in Engine, ok, fresh \in BOOLEAN :
         Answer(e, cmd.op, ok, fresh) /\ EngineSound(e, disk') /\ Released(e, disk')

LEMMA OutcomeKeeps ==
    ASSUME Inv, alive, cmd # NoCommand, cmd' = NoCommand,
           UNCHANGED <<alive, busy, stopped, window>>, Outcome
    PROVE  Inv' /\ Released(eng', disk')
<1>1. PICK e \in Engine, ok \in BOOLEAN, fresh \in BOOLEAN :
         Answer(e, cmd.op, ok, fresh) /\ EngineSound(e, disk') /\ Released(e, disk')
  BY DEF Outcome
<1>2. /\ eng' \in Engine
      /\ answer' = SnapshotOf(eng')
      /\ \E v \in BOOLEAN : eng' = [e EXCEPT !.valid = v]
  BY <1>1, AnswerFacts
<1>3. EngineSound(eng', disk') /\ Released(eng', disk')
  BY <1>1, <1>2 DEF EngineSound, Released, Engine
<1>4. answer' \in Snapshot /\ answer' # NoAnswer  BY <1>2, SnapshotType
<1>5. busy /\ phase = "open" /\ ~stopped /\ ~asking /\ dialog = "none"
  BY DEF Inv, TypeOK, InStep, Waiting
<1>6. Typed'
  BY <1>2, <1>4, <1>5, InvTyped DEF Typed, Outcome, window
<1>7. TypeOK'  BY <1>6, TypedIs, PTL
<1>8. InStep'
  BY <1>2, <1>4, <1>5 DEF InStep, window
<1>9. Waiting'  BY <1>5 DEF Waiting, window
<1>10. (OffersWhatIsAccepted /\ ActsOnWhatWasShown)'
  BY DEF OffersWhatIsAccepted, ActsOnWhatWasShown, NoCommand
<1>11. QED  BY <1>2, <1>3, <1>6, <1>7, <1>8, <1>9, <1>10 DEF Inv, Typed

------------------------------------------------------------------------------
(* What the operators of the model return.                                  *)
LEMMA SpendBound ==
    ASSUME faults \in 0..MaxFaults, NEW n \in Nat, Spend(n)
    PROVE  faults' \in 0..MaxFaults
<1>1. MaxFaults \in Nat  BY DesktopAssumption
<1>2. QED  BY <1>1 DEF Spend
LEMMA CountNat == \A b : Count(b) \in Nat
  BY DEF Count

LEMMA LineagesAre ==
    ASSUME NEW d \in Disk
    PROVE  /\ Lineages(d) \subseteq Requests
           /\ \A l \in Lineages(d) : Versions(d, l) # {} /\ Versions(d, l) \subseteq Requests
  BY DEF Disk, Lineages, Versions, Maybe

LEMMA SelectedView ==
    ASSUME NEW d \in Disk, NEW v \in View, NEW l \in Lineages(d)
    PROVE  Selected(d, v, l) \in View
<1>1. (CHOOSE x \in Versions(d, l) : TRUE) \in Versions(d, l)  BY LineagesAre
<1>2. QED  BY <1>1, LineagesAre DEF Selected, View, Maybe

LEMMA RefreshedView ==
    ASSUME NEW d \in Disk, NEW p
    PROVE  Refreshed(d, p) \in View
<1> DEFINE fresh == [NoView EXCEPT !.sources = Lineages(d)]
           l == IF p \in Lineages(d) THEN p ELSE CHOOSE k \in Lineages(d) : TRUE
<1>1. fresh \in View  BY Absent, LineagesAre DEF View, NoView
<1>2. CASE Lineages(d) = {}  BY <1>1, <1>2 DEF Refreshed
<1>3. CASE Lineages(d) # {}
  <2>1. l \in Lineages(d)  BY <1>3
  <2>2. Selected(d, fresh, l) \in View  BY <1>1, <2>1, SelectedView
  <2>3. Refreshed(d, p) = Selected(d, fresh, l)  BY <1>3 DEF Refreshed
  <2>4. QED  BY <2>2, <2>3
<1>4. QED  BY <1>2, <1>3

(* inspect reads the disk, or knows that it does not know.                  *)
Consistent(e, d) ==
    /\ e.controller = "plain" => ~e.encrypted
    /\ e.controller = "encrypted" => e.encrypted
    /\ e.capture # NoCapture => d.pending \in {NoCapture, e.capture}
LEMMA InspectedSound ==
    ASSUME NEW e \in Engine, NEW d \in Disk, NEW ok \in BOOLEAN, Consistent(e, d)
    PROVE  /\ Inspected(e, d, ok) \in Engine
           /\ EngineSound(Inspected(e, d, ok), d)
           /\ Inspected(e, d, ok).capture = e.capture
<1> DEFINE i == Inspected(e, d, ok)
<1>0. e.capture # NoCapture => d.pending.id \in {None, e.capture.id}
  BY Absent DEF Consistent
<1>1. d.pending.id \in Maybe /\ d.unfinished \in SUBSET Requests
  BY DEF Disk, Capture, NoCapture, Maybe
<1>2. CASE ok /\ e.controller = "encrypted"
  <2>1. i = [e EXCEPT !.target = d.pending.id, !.deletions = d.unfinished, !.known = TRUE]
    BY <1>2 DEF Inspected, AbandonmentTarget, UnfinishedRequests
  <2>2. QED  BY <1>1, <1>0, <2>1 DEF Engine, EngineSound, Consistent
<1>3. CASE ok /\ e.controller = "none" /\ e.encrypted
  <2>1. i = [Cleared(e) EXCEPT !.target = d.pending.id]
    BY <1>3 DEF Inspected, AbandonmentTarget
  <2>2. QED  BY <1>1, <1>0, <2>1 DEF Engine, EngineSound, Consistent, Cleared
<1>4. CASE ok /\ e.controller # "encrypted" /\ ~(e.controller = "none" /\ e.encrypted)
  <2>1. i = [Cleared(e) EXCEPT !.known = TRUE]  BY <1>4 DEF Inspected
  <2>2. ~e.encrypted  BY <1>4 DEF Engine, Consistent
  <2>3. QED  BY <2>1, <2>2 DEF Engine, EngineSound, Consistent, Cleared, Maybe
<1>5. CASE ~ok
  <2>1. i = Cleared(e)  BY <1>5 DEF Inspected
  <2>2. QED  BY <2>1 DEF Engine, EngineSound, Consistent, Cleared, Maybe
<1>6. QED  BY <1>2, <1>3, <1>4, <1>5

(* A memory that answers for the disk as it is found and drops no capture.  *)
LEMMA SameCapture ==
    ASSUME NEW e, NEW d, e.capture = eng.capture
    PROVE  Released(e, d)
  BY DEF Released
LEMMA NothingHeld ==
    ASSUME NEW e, NEW d, eng.capture = NoCapture
    PROVE  Released(e, d)
  BY DEF Released

(* perform forgets what it knew before it changes the library.              *)
LEMMA EntrySound ==
    ASSUME Inv, NEW d \in Disk, d.pending = disk.pending, d.unfinished = disk.unfinished
    PROVE  /\ Entry(eng, cmd) \in Engine
           /\ EngineSound(Entry(eng, cmd), d)
           /\ Entry(eng, cmd).capture = eng.capture
           /\ Entry(eng, cmd).controller = eng.controller
           /\ Entry(eng, cmd).encrypted = eng.encrypted
           /\ Entry(eng, cmd) \in {eng, Cleared(eng)}
<1>1. Entry(eng, cmd) \in {eng, Cleared(eng)}  BY DEF Entry
<1>2. eng \in Engine /\ EngineSound(eng, disk)  BY DEF Inv
<1>3. Cleared(eng) \in Engine  BY <1>2 DEF Engine, Cleared, Maybe
<1>4. EngineSound(eng, d)  BY <1>2 DEF EngineSound
<1>5. EngineSound(Cleared(eng), d)  BY <1>2 DEF EngineSound, Cleared, Engine
<1>6. Cleared(eng).capture = eng.capture /\ Cleared(eng).controller = eng.controller
      /\ Cleared(eng).encrypted = eng.encrypted
  BY <1>2 DEF Cleared, Engine
<1>7. QED  BY <1>1, <1>2, <1>3, <1>4, <1>5, <1>6

(* An action answers from e and the disk it leaves.                         *)
LEMMA OutcomeFrom ==
    ASSUME disk' \in Disk, faults' \in 0..MaxFaults, NEW e \in Engine,
           NEW ok \in BOOLEAN, NEW fresh \in BOOLEAN,
           Answer(e, cmd.op, ok, fresh), EngineSound(e, disk'), Released(e, disk')
    PROVE  Outcome
  BY DEF Outcome

------------------------------------------------------------------------------
(* Opening and changing the library.  The window had no request held, so    *)
(* dropping the controller loses none.                                      *)
LEMMA DroppedSound ==
    ASSUME Inv, cmd.op \in ChangesLibrary, ~Refused(eng, cmd), NEW b \in BOOLEAN,
           NEW d \in Disk
    PROVE  /\ eng.capture = NoCapture
           /\ [Dropped(Entry(eng, cmd)) EXCEPT !.encrypted = b] \in Engine
           /\ EngineSound([Dropped(Entry(eng, cmd)) EXCEPT !.encrypted = b], d)
           /\ Entry(eng, cmd) = Cleared(eng)
<1>1. ~Held(eng) /\ eng \in Engine  BY DEF Refused, Inv
<1>2. eng.capture = NoCapture  BY <1>1 DEF Held
<1>3. Entry(eng, cmd) = Cleared(eng)  BY <1>1 DEF Entry
<1>4. Cleared(eng) \in Engine /\ ~Cleared(eng).known  BY <1>1 DEF Cleared, Engine, Maybe
<1> DEFINE e == [Dropped(Cleared(eng)) EXCEPT !.encrypted = b]
<1>5. e \in Engine  BY <1>4, Absent DEF Dropped, Engine, Maybe
<1>6. e.controller = "none" /\ ~e.known /\ e.capture = NoCapture
  BY <1>4 DEF Dropped, Engine
<1>7. EngineSound(e, d)  BY <1>6 DEF EngineSound
<1>8. QED  BY <1>2, <1>3, <1>5, <1>7

LEMMA OpenPlainEnds ==
    ASSUME Inv, cmd \in Command, ~Refused(eng, cmd), OpenPlain
    PROVE  Outcome
<1> DEFINE e == [Dropped(Entry(eng, cmd)) EXCEPT !.encrypted = FALSE]
           o == [e EXCEPT !.controller = "plain", !.view = Refreshed(disk, None)]
<1>1. cmd.op \in ChangesLibrary /\ disk' = disk /\ disk \in Disk /\ faults \in 0..MaxFaults
  BY InvTyped DEF OpenPlain, Runs, ChangesLibrary, Typed
<1>2. eng.capture = NoCapture /\ e \in Engine /\ EngineSound(e, disk)
  BY <1>1, DroppedSound
<1>3. PICK ok \in BOOLEAN :
        /\ Spend(Count(ok))
        /\ IF ok /\ disk.schema = 6
           THEN Answer(Inspected(o, disk, TRUE), cmd.op, TRUE, TRUE)
           ELSE Fail(e)
  BY DEF OpenPlain
<1>4. faults' \in 0..MaxFaults  BY <1>1, <1>3, SpendBound, CountNat
<1>5. CASE ok /\ disk.schema = 6
  <2>1. o \in Engine  BY <1>1, <1>2, RefreshedView DEF Engine
  <2>2. e.capture = NoCapture /\ ~e.encrypted
    BY <1>1, <1>2, EntrySound DEF Dropped, Engine
  <2>3. Consistent(o, disk)  BY <1>2, <2>2 DEF Consistent, Engine
  <2>4. /\ Inspected(o, disk, TRUE) \in Engine
        /\ EngineSound(Inspected(o, disk, TRUE), disk)
    BY <1>1, <2>1, <2>3, InspectedSound
  <2>5. Released(Inspected(o, disk, TRUE), disk)  BY <1>2, NothingHeld
  <2>6. QED  BY <1>1, <1>3, <1>4, <1>5, <2>4, <2>5, OutcomeFrom
<1>6. CASE ~(ok /\ disk.schema = 6)
  <2>1. Released(e, disk)  BY <1>2, NothingHeld
  <2>2. Answer(e, cmd.op, FALSE, TRUE)  BY <1>3, <1>6 DEF Fail
  <2>3. QED  BY <1>1, <1>2, <1>4, <2>1, <2>2, OutcomeFrom
<1>7. QED  BY <1>5, <1>6

LEMMA OpenEncryptedEnds ==
    ASSUME Inv, cmd \in Command, ~Refused(eng, cmd), OpenEncrypted
    PROVE  Outcome
<1> DEFINE e == [Dropped(Entry(eng, cmd)) EXCEPT !.encrypted = TRUE]
           o == [e EXCEPT !.controller = "encrypted", !.view = Refreshed(disk, None)]
<1>1. cmd.op \in ChangesLibrary /\ disk' = disk /\ disk \in Disk /\ faults \in 0..MaxFaults
  BY InvTyped DEF OpenEncrypted, Runs, ChangesLibrary, Typed
<1>2. eng.capture = NoCapture /\ e \in Engine /\ EngineSound(e, disk)
  BY <1>1, DroppedSound
<1>3. PICK ok \in BOOLEAN :
        /\ Spend(Count(ok))
        /\ IF ok /\ disk.schema >= 8
           THEN Answer(Inspected(o, disk, TRUE), cmd.op, TRUE, TRUE)
           ELSE Fail(e)
  BY DEF OpenEncrypted
<1>4. faults' \in 0..MaxFaults  BY <1>1, <1>3, SpendBound, CountNat
<1>5. CASE ok /\ disk.schema >= 8
  <2>1. o \in Engine  BY <1>1, <1>2, RefreshedView DEF Engine
  <2>2. e.capture = NoCapture /\ e.encrypted
    BY <1>1, <1>2, EntrySound DEF Dropped, Engine
  <2>3. Consistent(o, disk)  BY <1>2, <2>2 DEF Consistent, Engine
  <2>4. /\ Inspected(o, disk, TRUE) \in Engine
        /\ EngineSound(Inspected(o, disk, TRUE), disk)
    BY <1>1, <2>1, <2>3, InspectedSound
  <2>5. Released(Inspected(o, disk, TRUE), disk)  BY <1>2, NothingHeld
  <2>6. QED  BY <1>1, <1>3, <1>4, <1>5, <2>4, <2>5, OutcomeFrom
<1>6. CASE ~(ok /\ disk.schema >= 8)
  <2>1. Released(e, disk)  BY <1>2, NothingHeld
  <2>2. Answer(e, cmd.op, FALSE, TRUE)  BY <1>3, <1>6 DEF Fail
  <2>3. QED  BY <1>1, <1>2, <1>4, <2>1, <2>2, OutcomeFrom
<1>7. QED  BY <1>5, <1>6

LEMMA TransitionEnds ==
    ASSUME Inv, cmd \in Command, ~Refused(eng, cmd), Transition
    PROVE  Outcome
<1> DEFINE e == [Dropped(Entry(eng, cmd)) EXCEPT !.encrypted = TRUE]
           to == IF cmd.op = "initialize" THEN 7 ELSE 8
<1>1. cmd.op \in ChangesLibrary /\ disk \in Disk /\ faults \in 0..MaxFaults
  BY InvTyped DEF Transition, Runs, ChangesLibrary, Typed
<1>2. PICK ok \in BOOLEAN :
        /\ Spend(Count(ok))
        /\ disk' \in {disk, [disk EXCEPT !.schema = to]}
        /\ Answer(e, cmd.op, TRUE, TRUE) \/ Answer(e, cmd.op, FALSE, TRUE)
  BY DEF Transition, Fail
<1>3. disk' \in Disk  BY <1>1, <1>2 DEF Disk
<1>4. faults' \in 0..MaxFaults  BY <1>1, <1>2, SpendBound, CountNat
<1>5. eng.capture = NoCapture /\ e \in Engine /\ EngineSound(e, disk')
  BY <1>1, <1>3, DroppedSound
<1>6. Released(e, disk')  BY <1>5, NothingHeld
<1>7. QED  BY <1>2, <1>3, <1>4, <1>5, <1>6, OutcomeFrom

------------------------------------------------------------------------------
(* Reading.                                                                 *)

(* The worker's own memory answers, with or without a new view.             *)
LEMMA SameEngine ==
    ASSUME Inv, NEW v \in View
    PROVE  /\ eng \in Engine /\ EngineSound(eng, disk) /\ Released(eng, disk')
           /\ [eng EXCEPT !.view = v] \in Engine
           /\ EngineSound([eng EXCEPT !.view = v], disk)
           /\ Released([eng EXCEPT !.view = v], disk')
<1>1. eng \in Engine /\ EngineSound(eng, disk)  BY DEF Inv
<1> DEFINE e == [eng EXCEPT !.view = v]
<1>2. e \in Engine  BY <1>1 DEF Engine
<1>3. EngineSound(e, disk) /\ e.capture = eng.capture  BY <1>1 DEF EngineSound, Engine
<1>4. QED  BY <1>1, <1>2, <1>3, SameCapture

LEMMA MaintainEnds ==
    ASSUME Inv, Maintain
    PROVE  Outcome
<1>1. disk' = disk /\ disk \in Disk /\ faults \in 0..MaxFaults
  BY InvTyped DEF Maintain, Typed
<1> DEFINE v(fresh) == IF fresh THEN Refreshed(disk, eng.view.lineage) ELSE NoView
<1>2. PICK ok \in BOOLEAN, fresh \in BOOLEAN :
        /\ Spend(Count(ok) + Count(fresh))
        /\ \/ Answer(eng, cmd.op, FALSE, TRUE)
           \/ Answer(eng, cmd.op, TRUE, TRUE)
           \/ Answer([eng EXCEPT !.view = v(fresh)], cmd.op, TRUE, fresh)
  BY DEF Maintain, Fail, RefreshAfterCommit
<1>3. faults' \in 0..MaxFaults
  <2>1. Count(ok) + Count(fresh) \in Nat  BY CountNat
  <2>2. QED  BY <1>1, <1>2, <2>1, SpendBound
<1>4. v(fresh) \in View  BY <1>1, RefreshedView, Absent
<1>5. QED  BY <1>1, <1>2, <1>3, <1>4, SameEngine, OutcomeFrom

LEMMA ExportSearchEnd ==
    ASSUME Inv, Export \/ Search
    PROVE  Outcome
<1>1. disk' = disk /\ disk \in Disk /\ faults \in 0..MaxFaults
  BY InvTyped DEF Export, Search, Typed
<1>2. PICK ok \in BOOLEAN, done \in BOOLEAN :
        Spend(Count(ok)) /\ Answer(eng, cmd.op, done, TRUE)
  BY DEF Export, Search
<1>3. faults' \in 0..MaxFaults  BY <1>1, <1>2, SpendBound, CountNat
<1>4. QED  BY <1>1, <1>2, <1>3, Absent, SameEngine, OutcomeFrom

LEMMA RefreshEnds ==
    ASSUME Inv, Refresh
    PROVE  Outcome
<1> DEFINE e == Entry(eng, cmd)
           r == [e EXCEPT !.view = Refreshed(disk, e.view.lineage)]
           n == [e EXCEPT !.view = NoView]
<1>1. disk' = disk /\ disk \in Disk /\ faults \in 0..MaxFaults
  BY InvTyped DEF Refresh, Typed
<1>2. e \in Engine /\ EngineSound(e, disk) /\ e.capture = eng.capture
  BY <1>1, EntrySound
<1>3. PICK ok \in BOOLEAN :
        /\ Spend(Count(ok))
        /\ \/ Answer(e, cmd.op, FALSE, TRUE)
           \/ Answer(Inspected(r, disk, TRUE), cmd.op, TRUE, TRUE)
           \/ Answer(n, cmd.op, FALSE, TRUE)
  BY <1>2 DEF Refresh, Fail, Engine
<1>4. faults' \in 0..MaxFaults  BY <1>1, <1>3, SpendBound, CountNat
<1>5. Released(e, disk)  BY <1>2, SameCapture
<1>6. n \in Engine /\ EngineSound(n, disk) /\ Released(n, disk)
  <2>1. n \in Engine /\ n.capture = eng.capture  BY <1>2, Absent DEF Engine
  <2>2. EngineSound(n, disk)  BY <1>2 DEF EngineSound, Engine
  <2>3. QED  BY <2>1, <2>2, SameCapture
<1>7. /\ Inspected(r, disk, TRUE) \in Engine
      /\ EngineSound(Inspected(r, disk, TRUE), disk)
      /\ Released(Inspected(r, disk, TRUE), disk)
  <2>1. r \in Engine /\ r.capture = eng.capture  BY <1>1, <1>2, RefreshedView DEF Engine
  <2>2. Consistent(r, disk)  BY <1>2 DEF EngineSound, Engine, Consistent
  <2>3. /\ Inspected(r, disk, TRUE) \in Engine
        /\ EngineSound(Inspected(r, disk, TRUE), disk)
        /\ Inspected(r, disk, TRUE).capture = r.capture
    BY <1>1, <2>1, <2>2, InspectedSound
  <2>4. QED  BY <2>1, <2>3, SameCapture
<1>8. QED  BY <1>1, <1>2, <1>3, <1>4, <1>5, <1>6, <1>7, OutcomeFrom

LEMMA SelectEnds ==
    ASSUME Inv, Select
    PROVE  Outcome
<1> DEFINE v == IF cmd.op = "version" THEN eng.view ELSE Selected(disk, eng.view, cmd.arg)
           w == [v EXCEPT !.source = cmd.source]
<1>1. disk' = disk /\ disk \in Disk /\ faults \in 0..MaxFaults /\ eng.view \in View
  BY InvTyped DEF Select, Typed, Engine
<1>2. cmd.op \in {"version", "lineage", "result"}  BY DEF Select, Runs, Selects
<1>3. PICK ok \in BOOLEAN :
        /\ Spend(Count(ok))
        /\ \/ Answer(eng, cmd.op, FALSE, TRUE)
           \/ /\ cmd.op \in {"lineage", "result"} =>
                   cmd.arg \in eng.view.sources \cap Lineages(disk)
              /\ \/ Answer([eng EXCEPT !.view = v], cmd.op, TRUE, TRUE)
                 \/ /\ cmd.source \in v.versions
                    /\ Answer([eng EXCEPT !.view = w], cmd.op, TRUE, TRUE)
                 \/ Answer([eng EXCEPT !.view = v], cmd.op, FALSE, TRUE)
  BY DEF Select, Fail
<1>4. faults' \in 0..MaxFaults  BY <1>1, <1>3, SpendBound, CountNat
<1>5. CASE Answer(eng, cmd.op, FALSE, TRUE)
  BY <1>1, <1>4, <1>5, Absent, SameEngine, OutcomeFrom
<1>6. CASE /\ cmd.op \in {"lineage", "result"} =>
                cmd.arg \in eng.view.sources \cap Lineages(disk)
           /\ \/ Answer([eng EXCEPT !.view = v], cmd.op, TRUE, TRUE)
              \/ /\ cmd.source \in v.versions
                 /\ Answer([eng EXCEPT !.view = w], cmd.op, TRUE, TRUE)
              \/ Answer([eng EXCEPT !.view = v], cmd.op, FALSE, TRUE)
  <2>1. v \in View  BY <1>1, <1>2, <1>6, SelectedView
  <2>2. cmd.source \in v.versions => w \in View  BY <2>1 DEF View, Maybe
  <2>3. QED  BY <1>1, <1>4, <1>6, <2>1, <2>2, SameEngine, OutcomeFrom
<1>7. QED  BY <1>3, <1>5, <1>6

LEMMA InspectEnds ==
    ASSUME Inv, InspectRecovery
    PROVE  Outcome
<1>1. disk' = disk /\ disk \in Disk /\ faults \in 0..MaxFaults /\ eng \in Engine
  BY InvTyped DEF InspectRecovery, Typed
<1>2. PICK ok \in BOOLEAN, done \in BOOLEAN :
        Spend(Count(ok)) /\ Answer(Inspected(eng, disk, ok), cmd.op, done, TRUE)
  BY DEF InspectRecovery
<1>3. faults' \in 0..MaxFaults  BY <1>1, <1>2, SpendBound, CountNat
<1>4. Consistent(eng, disk)  BY DEF Inv, EngineSound, Consistent
<1>5. QED  BY <1>1, <1>2, <1>3, <1>4, InspectedSound, SameCapture, OutcomeFrom

------------------------------------------------------------------------------
(* What a write leaves on disk.                                             *)
LEMMA CaptureOnDisk ==
    ASSUME NEW d \in Disk, NEW c \in Capture
    PROVE  /\ Committed(d, c) \in Disk
           /\ Committed(d, c).pending = NoCapture
           /\ Committed(d, c).unfinished = d.unfinished
           /\ Committed(d, c).lineage[c.id] = c.lineage
           /\ Prepared(d, c) \in Disk
           /\ Prepared(d, c).pending = c
           /\ Prepared(d, c).unfinished = d.unfinished
<1>1. c.id \in Requests /\ c.lineage \in Maybe  BY DEF Capture, Maybe
<1>2. 9 \in 6..9  OBVIOUS
<1>3. [d.lineage EXCEPT ![c.id] = c.lineage] \in [Requests -> Maybe]  BY <1>1 DEF Disk
<1>4. /\ Committed(d, c) \in Disk
      /\ Committed(d, c).pending = NoCapture
      /\ Committed(d, c).unfinished = d.unfinished
  BY <1>2, <1>3 DEF Committed, Disk
<1>5. Committed(d, c).lineage[c.id] = c.lineage
  BY <1>1 DEF Committed, Disk
<1>6. Prepared(d, c) \in Disk /\ Prepared(d, c).pending = c
      /\ Prepared(d, c).unfinished = d.unfinished
  BY <1>2 DEF Prepared, Disk
<1>7. QED  BY <1>4, <1>5, <1>6

LEMMA DeletionOnDisk ==
    ASSUME NEW d \in Disk, NEW l \in Requests
    PROVE  /\ Authorized(d, l) \in Disk
           /\ Authorized(d, l).pending = d.pending
           /\ Authorized(d, l).unfinished = d.unfinished \cup {l}
           /\ Erased(Authorized(d, l), l) \in Disk
           /\ Erased(Authorized(d, l), l).pending = d.pending
           /\ Erased(Authorized(d, l), l).unfinished = d.unfinished \cup {l}
           /\ Deleted(d, l) \in Disk
           /\ Deleted(d, l).pending = d.pending
           /\ Deleted(d, l).unfinished = d.unfinished \ {l}
<1> DEFINE a == Authorized(d, l)
           x == Erased(a, l)
<1>1. /\ a \in Disk /\ a.pending = d.pending /\ a.unfinished = d.unfinished \cup {l}
  <2>1. 9 \in 6..9 /\ d.unfinished \cup {l} \in SUBSET Requests  BY DEF Disk
  <2>2. QED  BY <2>1 DEF Authorized, Disk
<1>2. /\ x \in Disk /\ x.pending = d.pending /\ x.unfinished = d.unfinished \cup {l}
  <2>1. [y \in Requests |-> IF a.lineage[y] = l THEN None ELSE a.lineage[y]]
          \in [Requests -> Maybe]
    BY <1>1 DEF Disk, Maybe
  <2>2. QED  BY <1>1, <2>1 DEF Erased, Disk
<1>3. /\ Deleted(d, l) \in Disk /\ Deleted(d, l).pending = d.pending
      /\ Deleted(d, l).unfinished = d.unfinished \ {l}
  BY <1>2 DEF Deleted, Disk
<1>4. QED  BY <1>1, <1>2, <1>3

LEMMA AsPlainDisk ==
    ASSUME disk \in Disk, NEW d \in Disk
    PROVE  AsPlain(d) \in Disk
  BY DEF AsPlain, Disk

(* The worker of an encrypted library that takes a write knows of nothing   *)
(* pending, and nothing is.                                                 *)
LEMMA WriteMeetsNothing ==
    ASSUME Inv, cmd.op \in Writes, ~Refused(eng, cmd)
    PROVE  /\ eng.capture = NoCapture /\ eng.deletion = None
           /\ eng.target = None /\ eng.deletions = {} /\ eng.known
           /\ eng.encrypted => disk.pending = NoCapture /\ disk.unfinished = {}
<1>1. ~Blocked(eng)  BY DEF Refused
<1>2. /\ eng.capture = NoCapture /\ eng.deletion = None
      /\ eng.target = None /\ eng.deletions = {} /\ eng.known
  BY <1>1 DEF Blocked, Held
<1>3. ASSUME eng.encrypted PROVE disk.pending = NoCapture /\ disk.unfinished = {}
  <2>1. disk.pending.id = None /\ disk.unfinished \subseteq {None}
    BY <1>2, <1>3, Absent DEF Inv, EngineSound
  <2>2. disk.pending \in Capture \cup {NoCapture} /\ disk.unfinished \subseteq Requests
    BY DEF Inv, Disk
  <2>3. QED  BY <2>1, <2>2, DesktopAssumption DEF Capture
<1>4. QED  BY <1>2, <1>3

LEMMA WithView ==
    ASSUME NEW e \in Engine, NEW u \in View
    PROVE  /\ [e EXCEPT !.view = u] \in Engine
           /\ [e EXCEPT !.view = u].capture = e.capture
           /\ [e EXCEPT !.view = u].deletion = e.deletion
           /\ [e EXCEPT !.view = u].controller = e.controller
           /\ [e EXCEPT !.view = u].encrypted = e.encrypted
  BY DEF Engine

(* Nothing unfinished on disk, or a plaintext library: a memory without a   *)
(* held request is sound with whatever else it says.                        *)
LEMMA QuietSound ==
    ASSUME NEW e, NEW d,
           e.controller = "plain" => ~e.encrypted,
           e.controller = "encrypted" => e.encrypted,
           e.capture = NoCapture,
           e.encrypted => d.pending = NoCapture /\ d.unfinished \subseteq {e.deletion}
    PROVE  EngineSound(e, d)
  BY Absent DEF EngineSound

LEMMA CaptureEnds ==
    ASSUME Inv, cmd.op \in Writes, ~Refused(eng, cmd), eng.controller # "none",
           NEW x \in Requests, NEW l \in Requests, CaptureSource(x, l)
    PROVE  Outcome
<1> DEFINE c == [id |-> x, lineage |-> l]
           d == [disk EXCEPT !.used = @ \cup {x}]
           encrypted == eng.controller = "encrypted"
           done == IF encrypted THEN Committed(d, c) ELSE PlainCaptured(d, c)
           v(fresh) == IF fresh THEN Refreshed(done, l) ELSE NoView
           w(fresh) == [eng EXCEPT !.view = v(fresh)]
           k == [eng EXCEPT !.capture = c]
<1>1. eng \in Engine /\ disk \in Disk /\ faults \in 0..MaxFaults
  BY InvTyped DEF Typed
<1>2. c \in Capture  BY DEF Capture
<1>3. d \in Disk /\ d.pending = disk.pending /\ d.unfinished = disk.unfinished
  BY <1>1 DEF Disk
<1>4. eng.encrypted <=> encrypted
  BY <1>1 DEF Inv, EngineSound, Engine
<1>5. /\ eng.capture = NoCapture /\ eng.target = None
      /\ encrypted => disk.pending = NoCapture /\ disk.unfinished = {}
  BY <1>4, WriteMeetsNothing
<1>6. /\ Committed(d, c) \in Disk /\ Committed(d, c).pending = NoCapture
      /\ Committed(d, c).unfinished = d.unfinished
      /\ Prepared(d, c) \in Disk /\ Prepared(d, c).pending = c
      /\ Prepared(d, c).unfinished = d.unfinished
  BY <1>2, <1>3, CaptureOnDisk
<1>7. done \in Disk  BY <1>1, <1>6, AsPlainDisk DEF PlainCaptured
<1>9. ASSUME NEW fresh \in BOOLEAN, Spend(Count(fresh)), disk' = done,
             RefreshAfterCommit(eng, done, l, fresh)
      PROVE  Outcome
  <2>1. v(fresh) \in View  BY <1>7, RefreshedView, Absent
  <2>2. w(fresh) \in Engine /\ w(fresh).capture = NoCapture
        /\ w(fresh).controller = eng.controller /\ w(fresh).encrypted = eng.encrypted
    BY <1>1, <1>5, <2>1, WithView
  <2>3. EngineSound(w(fresh), done)
    BY <1>3, <1>4, <1>5, <1>6, <2>2, QuietSound DEF Inv, EngineSound
  <2>4. Released(w(fresh), disk')  BY <1>5, NothingHeld
  <2>5. faults' \in 0..MaxFaults  BY <1>1, <1>9, SpendBound, CountNat
  <2>6. Answer(w(fresh), cmd.op, TRUE, fresh)  BY <1>9 DEF RefreshAfterCommit
  <2>7. QED  BY <1>7, <1>9, <2>2, <2>3, <2>4, <2>5, <2>6, OutcomeFrom
<1>10. ASSUME Spend(1), encrypted, disk' \in CaptureFailures(d, c), Fail(k)
       PROVE  Outcome
  <2>1. disk' \in {d, Prepared(d, c), Committed(d, c)}  BY <1>10 DEF CaptureFailures
  <2>2. disk' \in Disk /\ disk'.pending \in {NoCapture, c} /\ disk'.unfinished = {}
    <3>1. d.pending = NoCapture /\ d.unfinished = {}  BY ONLY <1>3, <1>5, <1>10
    <3>2. QED  BY ONLY <1>3, <1>6, <2>1, <3>1
  <2>3. k \in Engine /\ k.capture = c /\ k.controller = "encrypted" /\ k.encrypted
        /\ k.target = None
    BY <1>1, <1>2, <1>4, <1>5, <1>10 DEF Engine
  <2>4. EngineSound(k, disk')
    <3>1. disk'.pending.id \in {None, c.id}  BY <2>2, Absent
    <3>2. QED  BY <2>2, <2>3, <3>1 DEF EngineSound
  <2>5. Released(k, disk')  BY <1>5, NothingHeld
  <2>6. faults' \in 0..MaxFaults  BY <1>1, <1>10, SpendBound
  <2>7. QED  BY <1>10, <2>2, <2>3, <2>4, <2>5, <2>6, OutcomeFrom DEF Fail
<1>11. ASSUME Spend(1), ~encrypted, disk' \in {d, done}, Fail(eng)
       PROVE  Outcome
  <2>1. disk' \in Disk  BY <1>3, <1>7, <1>11
  <2>2. EngineSound(eng, disk')
    BY <1>4, <1>5, <1>11, QuietSound DEF Inv, EngineSound
  <2>3. Released(eng, disk')  BY SameCapture
  <2>4. faults' \in 0..MaxFaults  BY <1>1, <1>11, SpendBound
  <2>5. QED  BY <1>1, <1>11, <2>1, <2>2, <2>3, <2>4, OutcomeFrom DEF Fail
<1>12. QED  BY <1>9, <1>10, <1>11 DEF CaptureSource

LEMMA NotPreparedEnds ==
    ASSUME Inv, NEW possible, NotPrepared(possible)
    PROVE  Outcome
<1>1. eng \in Engine /\ disk \in Disk /\ faults \in 0..MaxFaults /\ EngineSound(eng, disk)
  BY InvTyped DEF Typed, Inv
<1>2. faults' \in 0..MaxFaults  BY <1>1, SpendBound DEF NotPrepared
<1>3. QED  BY <1>1, <1>2, SameCapture, OutcomeFrom DEF NotPrepared, Fail

LEMMA CapturesEnd ==
    ASSUME Inv, ~Refused(eng, cmd), ImportSource \/ UpdateSelected
    PROVE  Outcome
<1>1. cmd.op \in Writes  BY DEF ImportSource, UpdateSelected, Runs, Writes
<1>2. disk \in Disk  BY DEF Inv
<1>3. CASE ImportSource
  BY <1>1, <1>3, NotPreparedEnds, CaptureEnds DEF ImportSource
<1>4. CASE UpdateSelected
  <2>1. CASE NotPrepared(eng.controller # "none" /\ CanPrepareUpdate(eng, disk, eng.view.lineage))
    BY <2>1, NotPreparedEnds
  <2>2. CASE /\ eng.controller # "none" /\ CanPrepareUpdate(eng, disk, eng.view.lineage)
             /\ \E x \in Requests \ disk.used : CaptureSource(x, eng.view.lineage)
    <3>1. eng.view.lineage \in Requests  BY <1>2, <2>2, LineagesAre DEF CanPrepareUpdate
    <3>2. QED  BY <1>1, <2>2, <3>1, CaptureEnds
  <2>3. QED  BY <1>4, <2>1, <2>2 DEF UpdateSelected
<1>5. QED  BY <1>3, <1>4

LEMMA DeleteEnds ==
    ASSUME Inv, ~Refused(eng, cmd), DeleteSelected
    PROVE  Outcome
<1> DEFINE l == eng.view.lineage
           encrypted == eng.controller = "encrypted"
           possible == eng.controller # "none" /\ CanPrepareDeletion(eng, disk, l)
           kept == [eng EXCEPT !.deletion = IF encrypted THEN l ELSE None]
           left(complete) == IF complete THEN Deleted(disk, l)
                                         ELSE Erased(Authorized(disk, l), l)
           memory(complete) == IF complete THEN eng ELSE kept
           w(complete, u) == [memory(complete) EXCEPT !.view = u]
<1>1. eng \in Engine /\ disk \in Disk /\ faults \in 0..MaxFaults
  BY InvTyped DEF Typed
<1>2. cmd.op \in Writes  BY DEF DeleteSelected, Runs, Writes
<1>3. SUFFICES ASSUME possible, DeleteSourceLineage(l) PROVE Outcome
  BY NotPreparedEnds DEF DeleteSelected
<1>4. l \in Requests  BY <1>1, <1>3, LineagesAre DEF CanPrepareDeletion
<1>5. eng.encrypted <=> encrypted
  BY <1>1, <1>3 DEF Inv, EngineSound, Engine
<1>6. /\ eng.capture = NoCapture /\ eng.deletion = None
      /\ encrypted => disk.pending = NoCapture /\ disk.unfinished = {}
  BY <1>2, <1>5, WriteMeetsNothing
<1>7. /\ kept \in Engine /\ kept.capture = NoCapture /\ kept.controller = eng.controller
      /\ kept.encrypted = eng.encrypted
      /\ encrypted => kept.deletion = l
  BY <1>1, <1>4, <1>6 DEF Engine, Maybe
<1>8. /\ Authorized(disk, l) \in Disk
      /\ Authorized(disk, l).pending = disk.pending
      /\ Authorized(disk, l).unfinished = disk.unfinished \cup {l}
      /\ Erased(Authorized(disk, l), l) \in Disk
      /\ Erased(Authorized(disk, l), l).pending = disk.pending
      /\ Erased(Authorized(disk, l), l).unfinished = disk.unfinished \cup {l}
      /\ Deleted(disk, l) \in Disk
      /\ Deleted(disk, l).pending = disk.pending
      /\ Deleted(disk, l).unfinished = disk.unfinished \ {l}
  BY <1>1, <1>4, DeletionOnDisk
<1>9. ASSUME NEW fresh \in BOOLEAN, NEW complete \in BOOLEAN,
             Spend(Count(fresh) + Count(complete)),
             disk' = IF encrypted THEN left(complete)
                     ELSE [AsPlain(left(complete)) EXCEPT !.unfinished =
                               IF complete THEN disk.unfinished ELSE @],
             RefreshAfterCommit(memory(complete), left(complete), None, fresh)
      PROVE  Outcome
  <2>1. PICK u \in View : /\ u = IF fresh THEN Refreshed(left(complete), None) ELSE NoView
                          /\ Answer(w(complete, u), cmd.op, TRUE, fresh)
    BY <1>8, <1>9, RefreshedView, Absent DEF RefreshAfterCommit
  <2>2. /\ w(complete, u) \in Engine /\ w(complete, u).capture = NoCapture
        /\ w(complete, u).controller = eng.controller
        /\ w(complete, u).encrypted = eng.encrypted
        /\ w(complete, u).deletion = memory(complete).deletion
    BY <1>1, <1>6, <1>7, WithView
  <2>3. left(complete) \in Disk /\ left(complete).pending = disk.pending  BY <1>8
  <2>4. disk' \in Disk
    <3>1. AsPlain(left(complete)) \in Disk  BY <1>1, <2>3, AsPlainDisk
    <3>2. QED  BY <1>1, <1>9, <2>3, <3>1 DEF Disk
  <2>5. EngineSound(w(complete, u), disk')
    <3>1. CASE encrypted
      <4>1. left(complete).unfinished \subseteq {memory(complete).deletion}
        BY <1>6, <1>7, <1>8, <3>1
      <4>2. QED  BY <1>5, <1>6, <1>9, <2>2, <2>3, <3>1, <4>1, QuietSound
    <3>2. CASE ~encrypted
      BY <1>5, <2>2, <3>2, QuietSound
    <3>3. QED  BY <3>1, <3>2
  <2>6. Released(w(complete, u), disk')  BY <1>6, NothingHeld
  <2>7. Count(fresh) + Count(complete) \in Nat  BY CountNat
  <2>8. faults' \in 0..MaxFaults  BY <1>1, <1>9, <2>7, SpendBound
  <2>9. QED  BY <2>1, <2>2, <2>4, <2>5, <2>6, <2>8, OutcomeFrom
<1>10. ASSUME Spend(1), Fail(kept),
              disk' \in (IF encrypted THEN DeletionFailures(disk, l)
                                      ELSE PlainDeletionFailures(disk, l))
       PROVE  Outcome
  <2>1. disk' \in Disk
    BY <1>1, <1>8, <1>10, AsPlainDisk DEF DeletionFailures, PlainDeletionFailures
  <2>2. EngineSound(kept, disk')
    <3>1. CASE encrypted
      <4>1. disk'.pending = NoCapture /\ disk'.unfinished \subseteq {l}
        BY <1>6, <1>8, <1>10, <3>1 DEF DeletionFailures
      <4>2. QED  BY <1>5, <1>7, <3>1, <4>1, QuietSound
    <3>2. CASE ~encrypted  BY <1>5, <1>7, <3>2, QuietSound
    <3>3. QED  BY <3>1, <3>2
  <2>3. Released(kept, disk')  BY <1>6, NothingHeld
  <2>4. faults' \in 0..MaxFaults  BY <1>1, <1>10, SpendBound
  <2>5. QED  BY <1>7, <1>10, <2>1, <2>2, <2>3, <2>4, OutcomeFrom DEF Fail
<1>11. QED  BY <1>3, <1>9, <1>10 DEF DeleteSourceLineage

------------------------------------------------------------------------------
(* Recovery.                                                                *)
LEMMA RefreshAfterWriteEnds ==
    ASSUME NEW e \in Engine, NEW d \in Disk, disk' = d, Consistent(e, d), Released(e, d),
           faults' \in 0..MaxFaults, NEW r \in BOOLEAN, NEW i \in BOOLEAN,
           RefreshAfterWrite(e, d, r, i)
    PROVE  Outcome
<1> DEFINE v == IF e.controller # "none" /\ r THEN Refreshed(d, e.view.lineage) ELSE NoView
           w == [e EXCEPT !.view = v]
<1>1. v \in View  BY RefreshedView, Absent
<1>2. w \in Engine /\ w.capture = e.capture /\ w.controller = e.controller
      /\ w.encrypted = e.encrypted
  BY <1>1, WithView
<1>3. Consistent(w, d)  BY <1>2 DEF Consistent
<1>4. /\ Inspected(w, d, i) \in Engine /\ EngineSound(Inspected(w, d, i), d)
      /\ Inspected(w, d, i).capture = w.capture
  BY <1>2, <1>3, InspectedSound
<1>5. Released(Inspected(w, d, i), d)  BY <1>2, <1>4 DEF Released
<1>6. PICK fresh \in BOOLEAN : Answer(Inspected(w, d, i), cmd.op, TRUE, fresh)
  BY DEF RefreshAfterWrite
<1>7. QED  BY <1>4, <1>5, <1>6, OutcomeFrom

LEMMA FailedWriteEnds ==
    ASSUME faults \in 0..MaxFaults, NEW n \in {0, 1}, Spend(n), disk' \in Disk, NEW e \in Engine,
           EngineSound(e, disk'), Released(e, disk'), Fail(e)
    PROVE  Outcome
<1>1. faults' \in 0..MaxFaults  BY SpendBound
<1>2. QED  BY <1>1, OutcomeFrom DEF Fail

LEMMA RetryEnds ==
    ASSUME Inv, NEW e \in Engine, e.capture = eng.capture, EngineSound(e, disk), RetryHeld(e)
    PROVE  Outcome
<1>1. disk \in Disk /\ faults \in 0..MaxFaults  BY InvTyped DEF Typed
<1>2. CASE e.capture # NoCapture
  <2> DEFINE c == e.capture
             d == IF disk.lineage[c.id] # None THEN disk ELSE Committed(disk, c)
             n == [e EXCEPT !.capture = NoCapture]
  <2>1. c \in Capture /\ c.id \in Requests /\ c.lineage \in Requests
    BY <1>2 DEF Engine, Capture
  <2>2. /\ Committed(disk, c) \in Disk /\ Committed(disk, c).pending = NoCapture
        /\ Committed(disk, c).unfinished = disk.unfinished
        /\ Committed(disk, c).lineage[c.id] = c.lineage
        /\ Prepared(disk, c) \in Disk /\ Prepared(disk, c).pending = c
        /\ Prepared(disk, c).unfinished = disk.unfinished
    BY <1>1, <2>1, CaptureOnDisk
  <2>3. ASSUME disk' = d, NEW r \in BOOLEAN, NEW i \in BOOLEAN, Spend(Count(r) + Count(i)),
               RefreshAfterWrite(n, d, r, i)
        PROVE  Outcome
    <3>1. n \in Engine /\ n.capture = NoCapture /\ n.controller = e.controller
          /\ n.encrypted = e.encrypted
      BY DEF Engine
    <3>2. Consistent(n, d)  BY <3>1 DEF Consistent, EngineSound
    <3>3. d \in Disk  BY <1>1, <2>2
    <3>4. d.lineage[c.id] # None  BY <2>1, <2>2, DesktopAssumption
    <3>5. Released(n, d)  BY <3>4 DEF Released
    <3>6. Count(r) + Count(i) \in Nat  BY CountNat
    <3>7. faults' \in 0..MaxFaults  BY <1>1, <2>3, <3>6, SpendBound
    <3>8. QED  BY <2>3, <3>1, <3>2, <3>3, <3>5, <3>7, RefreshAfterWriteEnds
  <2>4. ASSUME NEW k \in {0, 1}, Spend(k), Fail(e),
               disk' \in {disk, Prepared(disk, c), Committed(disk, c)}
        PROVE  Outcome
    <3>1. disk' \in Disk /\ disk'.unfinished = disk.unfinished
          /\ disk'.pending \in {disk.pending, NoCapture, c}
      BY <1>1, <2>2, <2>4
    <3>2. EngineSound(e, disk')  BY <3>1, Absent DEF EngineSound
    <3>3. Released(e, disk')  BY SameCapture
    <3>4. QED  BY <1>1, <2>4, <3>1, <3>2, <3>3, FailedWriteEnds
  <2>5. CaptureFailures(disk, c) \subseteq {disk, Prepared(disk, c), Committed(disk, c)}
    BY DEF CaptureFailures
  <2>6. QED  BY <1>2, <2>3, <2>4, <2>5 DEF RetryHeld
<1>3. CASE e.capture = NoCapture /\ e.deletion # None
  <2> DEFINE l == e.deletion
             left(complete) == IF complete THEN Deleted(disk, l)
                                           ELSE Erased(Authorized(disk, l), l)
             n(complete) == [e EXCEPT !.deletion = IF complete THEN None ELSE @]
  <2>1. l \in Requests  BY <1>3 DEF Engine, Maybe
  <2>2. /\ Authorized(disk, l) \in Disk
        /\ Authorized(disk, l).pending = disk.pending
        /\ Authorized(disk, l).unfinished = disk.unfinished \cup {l}
        /\ Erased(Authorized(disk, l), l) \in Disk
        /\ Erased(Authorized(disk, l), l).pending = disk.pending
        /\ Erased(Authorized(disk, l), l).unfinished = disk.unfinished \cup {l}
        /\ Deleted(disk, l) \in Disk
        /\ Deleted(disk, l).pending = disk.pending
        /\ Deleted(disk, l).unfinished = disk.unfinished \ {l}
    BY <1>1, <2>1, DeletionOnDisk
  <2>3. ASSUME NEW r \in BOOLEAN, NEW i \in BOOLEAN, NEW complete \in BOOLEAN,
               Spend(Count(r) + Count(i) + Count(complete)), disk' = left(complete),
               RefreshAfterWrite(n(complete), left(complete), r, i)
        PROVE  Outcome
    <3>1. /\ n(complete) \in Engine /\ n(complete).capture = eng.capture
          /\ n(complete).controller = e.controller /\ n(complete).encrypted = e.encrypted
      BY DEF Engine, Maybe
    <3>2. left(complete) \in Disk  BY <2>2
    <3>3. Consistent(n(complete), left(complete))
      BY <1>3, <3>1 DEF Consistent, EngineSound
    <3>4. Released(n(complete), left(complete))  BY <3>1, SameCapture
    <3>5. Count(r) + Count(i) + Count(complete) \in Nat  BY CountNat
    <3>6. faults' \in 0..MaxFaults  BY <1>1, <2>3, <3>5, SpendBound
    <3>7. QED  BY <2>3, <3>1, <3>2, <3>3, <3>4, <3>6, RefreshAfterWriteEnds
  <2>4. ASSUME Spend(1), disk' \in DeletionFailures(disk, l), Fail(e)
        PROVE  Outcome
    <3>1. disk' \in Disk /\ disk'.pending = disk.pending
          /\ disk'.unfinished \subseteq disk.unfinished \cup {l}
      BY <1>1, <2>2, <2>4 DEF DeletionFailures
    <3>2. EngineSound(e, disk')  BY <3>1 DEF EngineSound
    <3>3. Released(e, disk')  BY SameCapture
    <3>4. QED  BY <1>1, <2>4, <3>1, <3>2, <3>3, FailedWriteEnds
  <2>5. QED  BY <1>3, <2>3, <2>4 DEF RetryHeld
<1>4. CASE e.capture = NoCapture /\ e.deletion = None
  <2>1. Spend(0) /\ disk' = disk /\ Fail(e)  BY <1>4 DEF RetryHeld
  <2>2. QED  BY <1>1, <2>1, SameCapture, FailedWriteEnds
<1>5. QED  BY <1>2, <1>3, <1>4

LEMMA RetryResumeEnd ==
    ASSUME Inv, RetryOriginal \/ ResumeDelete
    PROVE  Outcome
<1>1. disk \in Disk /\ faults \in 0..MaxFaults /\ eng \in Engine /\ EngineSound(eng, disk)
  BY InvTyped DEF Typed, Inv
<1>2. CASE Spend(0) /\ disk' = disk /\ Fail(eng)
  BY <1>1, <1>2, SameCapture, FailedWriteEnds
<1>3. CASE RetryHeld(eng)  BY <1>1, <1>3, RetryEnds
<1>4. CASE /\ ~Held(eng) /\ cmd.arg \in eng.deletions
           /\ RetryHeld([eng EXCEPT !.deletion = cmd.arg])
  <2> DEFINE e == [eng EXCEPT !.deletion = cmd.arg]
  <2>1. cmd.arg \in Requests /\ eng.deletion = None  BY <1>1, <1>4 DEF Engine, Held
  <2>2. e \in Engine /\ e.capture = eng.capture  BY <1>1, <2>1 DEF Engine, Maybe
  <2>3. EngineSound(e, disk)
    <3>1. disk.unfinished \subseteq Requests  BY <1>1 DEF Disk
    <3>2. QED  BY <1>1, <2>1, <3>1, DesktopAssumption DEF EngineSound, Engine
  <2>4. QED  BY <1>4, <2>2, <2>3, RetryEnds
<1>5. QED  BY <1>2, <1>3, <1>4 DEF RetryOriginal, ResumeDelete

LEMMA AbandonEnds ==
    ASSUME Inv, Abandon
    PROVE  Outcome
<1> DEFINE e == [eng EXCEPT !.capture = NoCapture]
           d == Abandoned(disk, eng.target)
           exact == Abandonable(disk, eng.target)
<1>1. disk \in Disk /\ faults \in 0..MaxFaults /\ eng \in Engine /\ EngineSound(eng, disk)
  BY InvTyped DEF Typed, Inv
<1>2. exact => /\ d \in Disk /\ d.pending \in {disk.pending, NoCapture}
               /\ d.unfinished = disk.unfinished
               /\ eng.target # None /\ eng.target \in d.abandoned
  <2>1. SUFFICES ASSUME exact PROVE /\ d \in Disk /\ d.pending \in {disk.pending, NoCapture}
                                    /\ d.unfinished = disk.unfinished
                                    /\ eng.target # None /\ eng.target \in d.abandoned
    OBVIOUS
  <2>2. 9 \in 6..9  OBVIOUS
  <2>3. disk.abandoned \cup {eng.target} \in SUBSET Requests
    BY <1>1, <2>1 DEF Engine, Maybe, Disk, Abandonable
  <2>4. QED  BY <1>1, <2>1, <2>2, <2>3 DEF Abandoned, Disk, Abandonable
<1>3. ASSUME exact, disk' = d, NEW r \in BOOLEAN, NEW i \in BOOLEAN,
             Spend(Count(r) + Count(i)), RefreshAfterWrite(e, d, r, i)
      PROVE  Outcome
  <2>1. e \in Engine /\ e.capture = NoCapture /\ e.controller = eng.controller
        /\ e.encrypted = eng.encrypted
    BY <1>1 DEF Engine
  <2>2. Consistent(e, d)  BY <1>1, <2>1 DEF Consistent, EngineSound
  <2>3. eng.capture # NoCapture => eng.capture.id = eng.target
    BY <1>1, <1>2, <1>3 DEF EngineSound
  <2>4. Released(e, d)  BY <1>2, <1>3, <2>3 DEF Released
  <2>5. Count(r) + Count(i) \in Nat  BY CountNat
  <2>6. faults' \in 0..MaxFaults  BY <1>1, <1>3, <2>5, SpendBound
  <2>7. QED  BY <1>2, <1>3, <2>1, <2>2, <2>4, <2>6, RefreshAfterWriteEnds
<1>4. ASSUME NEW n \in {0, 1}, Spend(n), Fail(eng), disk' = disk \/ (exact /\ disk' = d)
      PROVE  Outcome
  <2>1. disk' \in Disk /\ disk'.unfinished = disk.unfinished
        /\ disk'.pending \in {disk.pending, NoCapture}
    BY <1>1, <1>2, <1>4
  <2>2. EngineSound(eng, disk')  BY <1>1, <2>1, Absent DEF EngineSound
  <2>3. QED  BY <1>1, <1>4, <2>1, <2>2, SameCapture, FailedWriteEnds
<1>5. \/ /\ exact /\ disk' = d
         /\ \E r, i \in BOOLEAN : Spend(Count(r) + Count(i)) /\ RefreshAfterWrite(e, disk', r, i)
      \/ /\ Spend(1) \/ Spend(0)
         /\ disk' = disk \/ (exact /\ disk' = d)
         /\ Fail(eng)
  BY DEF Abandon
<1>6. QED  BY <1>3, <1>4, <1>5

------------------------------------------------------------------------------
(* The steps of the two threads.                                            *)
LEMMA WorkKeeps ==
    ASSUME Inv, Work
    PROVE  Inv' /\ Released(eng', disk')
<1>1. alive /\ cmd # NoCommand /\ cmd' = NoCommand
      /\ UNCHANGED <<alive, busy, stopped, window>>
  BY DEF Work
<1>2. ~Refused(eng, cmd)  BY <1>1 DEF Inv, OffersWhatIsAccepted
<1>3. Perform  BY <1>2 DEF Work
<1>4. cmd \in Command  BY <1>1 DEF Inv, TypeOK
<1>5. Outcome
  BY <1>2, <1>3, <1>4, OpenPlainEnds, OpenEncryptedEnds, TransitionEnds, MaintainEnds,
     ExportSearchEnd, RefreshEnds, SelectEnds, CapturesEnd, DeleteEnds, RetryResumeEnd,
     InspectEnds, AbandonEnds
  DEF Perform
<1>6. QED  BY <1>1, <1>5, OutcomeKeeps

LEMMA NewEngineSound ==
    ASSUME NEW d PROVE EngineSound(NewEngine, d)
  BY DEF EngineSound, NewEngine

LEMMA PanicKeeps ==
    ASSUME Inv, Panic
    PROVE  Inv'
<1>1. /\ alive /\ cmd # NoCommand /\ alive' = FALSE /\ cmd' = NoCommand /\ eng' = NewEngine
      /\ disk' = disk /\ UNCHANGED <<answer, busy, stopped, ui, dialog, asking, phase>>
  BY DEF Panic, window
<1>2. Typed  BY InvTyped
<1>3. busy /\ answer = NoAnswer /\ phase = "open"  BY <1>1, <1>2 DEF Typed, Inv, InStep
<1>4. ~asking /\ dialog = "none"  BY <1>3 DEF Inv, Waiting
<1>5. faults' \in 0..MaxFaults  BY <1>2, SpendBound DEF Panic, Typed
<1>6. Typed'  BY <1>1, <1>2, <1>3, <1>5, Absent DEF Typed
<1>7. TypeOK'  BY <1>6, TypedIs, PTL
<1>8. InStep'  BY <1>1, <1>3 DEF InStep
<1>9. Waiting'  BY <1>1, <1>4 DEF Waiting
<1>10. (OffersWhatIsAccepted /\ ActsOnWhatWasShown)'
  BY <1>1 DEF OffersWhatIsAccepted, ActsOnWhatWasShown, NoCommand
<1>11. EngineSound(eng, disk)'  BY <1>1, NewEngineSound
<1>12. QED  BY <1>6, <1>7, <1>8, <1>9, <1>10, <1>11 DEF Inv, Typed

(* A snapshot arrives, or the news that there will be none.                 *)
LEMMA PollKeeps ==
    ASSUME Inv, phase = "open", Poll,
           UNCHANGED <<disk, eng, alive, cmd, dialog, asking, phase, faults>>
    PROVE  Inv'
<1>1. Typed /\ InStep /\ Waiting /\ EngineSound(eng, disk)  BY InvTyped DEF Inv
<1>2. EngineSound(eng, disk)'  BY <1>1
<1>3. CASE answer # NoAnswer /\ ui' = answer /\ answer' = NoAnswer /\ busy' = FALSE
           /\ stopped' = stopped
  <2>1. cmd = NoCommand  BY <1>1, <1>3 DEF Typed
  <2>2. Typed'  BY <1>1, <1>3, <2>1 DEF Typed
  <2>3. InStep'  BY <1>1, <1>3 DEF InStep
  <2>4. Waiting'
    <3>1. ~asking  BY <1>1, <1>3 DEF Waiting, InStep, Typed
    <3>2. dialog # "none" => ~alive  BY <1>1, <1>3 DEF Waiting, InStep, Typed
    <3>3. dialog # "none" => ui' = DefaultSnapshot  BY <1>1, <1>3, <3>2 DEF InStep
    <3>4. QED  BY <1>3, <3>1, <3>3 DEF Waiting, DefaultSnapshot
  <2>5. TypeOK'  BY <2>2, TypedIs, PTL
  <2>6. (OffersWhatIsAccepted /\ ActsOnWhatWasShown)'
    BY <2>1 DEF OffersWhatIsAccepted, ActsOnWhatWasShown, NoCommand
  <2>7. QED  BY <1>2, <2>2, <2>3, <2>4, <2>5, <2>6 DEF Inv, Typed
<1>4. CASE answer = NoAnswer /\ ~alive /\ ui' = DefaultSnapshot /\ busy' = FALSE
           /\ stopped' = TRUE /\ answer' = answer
  <2>1. cmd = NoCommand  BY <1>1, <1>4 DEF InStep
  <2>2. Typed'  BY <1>1, <1>4, <2>1, Absent DEF Typed
  <2>3. InStep'  BY <1>1, <1>4 DEF InStep
  <2>4. Waiting'
    <3>1. ~asking  BY <1>1, <1>4 DEF Waiting
    <3>2. QED  BY <1>4, <3>1 DEF Waiting, DefaultSnapshot
  <2>5. TypeOK'  BY <2>2, TypedIs, PTL
  <2>6. (OffersWhatIsAccepted /\ ActsOnWhatWasShown)'
    BY <2>1 DEF OffersWhatIsAccepted, ActsOnWhatWasShown, NoCommand
  <2>7. QED  BY <1>2, <2>2, <2>3, <2>4, <2>5, <2>6 DEF Inv, Typed
<1>5. QED  BY <1>3, <1>4 DEF Poll

(* A command that fits what the worker has reaches the worker unchanged.    *)
Fits(c) ==
    /\ ~Refused(eng, c)
    /\ c.op = "delete" => eng.view.lineage = c.shown
    /\ c.op = "update" => eng.view.lineage = c.shown
    /\ c.op = "export" => eng.view.source = c.shown
    /\ c.op = "abandon" => eng.target = c.shown
LEMMA SendKeeps ==
    ASSUME Inv, phase = "open", NEW c \in Command, SendC(c), alive => Fits(c),
           dialog' = "none", asking' = FALSE
    PROVE  Inv'
<1>1. Typed /\ InStep /\ Waiting /\ EngineSound(eng, disk)  BY InvTyped DEF Inv
<1>2. /\ ~stopped /\ ~busy /\ UNCHANGED <<disk, eng, alive, answer, ui, phase, faults>>
      /\ alive => busy' = TRUE /\ cmd' = c /\ stopped' = stopped
      /\ ~alive => stopped' = TRUE /\ busy' = busy /\ cmd' = cmd
  BY DEF SendC
<1>3. answer = NoAnswer  BY <1>1, <1>2 DEF Typed
<1>4. Typed'  BY <1>1, <1>2, <1>3 DEF Typed
<1>5. TypeOK'  BY <1>4, TypedIs, PTL
<1>6. InStep'  BY <1>1, <1>2, <1>3 DEF InStep
<1>7. Waiting'  BY DEF Waiting
<1>8. EngineSound(eng, disk)'  BY <1>1, <1>2
<1>9. (OffersWhatIsAccepted /\ ActsOnWhatWasShown)'
  <2>1. CASE alive
    <3>1. eng' = eng /\ cmd' = c  BY <1>2, <2>1
    <3>2. QED  BY <2>1, <3>1 DEF Fits, OffersWhatIsAccepted, ActsOnWhatWasShown, Refused,
                  Held, Blocked
  <2>2. CASE ~alive
    <3>1. cmd' = NoCommand  BY <1>1, <1>2, <2>2 DEF InStep
    <3>2. QED  BY <3>1 DEF OffersWhatIsAccepted, ActsOnWhatWasShown, NoCommand
  <2>3. QED  BY <2>1, <2>2 DEF Typed
<1>10. QED  BY <1>4, <1>5, <1>6, <1>7, <1>8, <1>9 DEF Inv, Typed

(* What the window decides from is what the worker has.                     *)
LEMMA ShownIsEngine ==
    ASSUME Inv, alive, ~busy
    PROVE  /\ ui = SnapshotOf(eng) /\ answer = NoAnswer
           /\ ui.holds = Held(eng) /\ ui.target = eng.target
           /\ ui.has => eng.valid /\ ui.view = eng.view
           /\ CanMutate /\ ui.has => ~Blocked(eng)
<1>1. answer = NoAnswer  BY DEF Inv, TypeOK, InStep
<1>2. ui = SnapshotOf(eng)  BY <1>1 DEF Inv, InStep
<1>3. QED  BY <1>1, <1>2 DEF SnapshotOf, CanMutate, Blocked

LEMMA CmdType ==
    ASSUME NEW op \in Ops, NEW arg \in Maybe, NEW source \in Maybe, NEW shown \in Maybe
    PROVE  /\ Cmd(op, arg, source, shown) \in Command
           /\ Cmd(op, arg, source, shown).op = op
           /\ Cmd(op, arg, source, shown).shown = shown
  BY DEF Cmd, Command

LEMMA PlainOpFits ==
    ASSUME NEW c, c.op \notin ChangesLibrary, c.op \notin Writes,
           c.op \notin {"export", "abandon"}
    PROVE  Fits(c)
  BY DEF Fits, Refused, Writes

LEMMA ClickKeeps ==
    ASSUME Inv, Click
    PROVE  Inv'
<1>1. /\ phase = "open" /\ ~busy /\ ~stopped /\ dialog = "none" /\ asking = FALSE
      /\ dialog' = dialog /\ asking' = asking
  BY DEF Click, Panel, Inv, TypeOK
<1>2. ui.view \in View /\ ui \in Snapshot  BY DEF Inv, TypeOK, Snapshot
<1>3. /\ ui.view.lineage \in Maybe /\ ui.view.source \in Maybe /\ ui.view.sources \subseteq Maybe
      /\ ui.view.versions \subseteq Maybe /\ ui.deletions \subseteq Maybe
      /\ None \in Maybe /\ Requests \subseteq Maybe
  BY <1>2 DEF View, Maybe, Snapshot
<1>4. ASSUME NEW op \in Ops, Offered(op),
             SendC(Cmd(op, None, None, IF op = "export" THEN ui.view.source
                                       ELSE ui.view.lineage))
      PROVE  Inv'
  <2> DEFINE s == IF op = "export" THEN ui.view.source ELSE ui.view.lineage
             c == Cmd(op, None, None, s)
  <2>1. c \in Command /\ c.op = op /\ c.shown = s  BY <1>3, CmdType
  <2>2. /\ op \in ChangesLibrary => ~ui.holds
        /\ op \in Writes => op # "delete" /\ ui.has /\ CanMutate
        /\ op = "export" => ui.has
        /\ op # "abandon"
    BY <1>4 DEF Offered, ChangesLibrary, Writes
  <2>3. alive => Fits(c)
    BY <1>1, <2>1, <2>2, ShownIsEngine DEF Fits, Refused, Writes
  <2>4. QED  BY <1>1, <1>4, <2>1, <2>3, SendKeeps
<1>5. ASSUME NEW op \in {"lineage", "version", "result", "resume"}, NEW arg \in Maybe,
             NEW x \in Maybe, SendC(Cmd(op, arg, x, None))
      PROVE  Inv'
  <2>1. op \in Ops /\ op \notin ChangesLibrary /\ op \notin Writes /\ op \notin {"export", "abandon"}
    BY DEF Ops, Selects, Refreshes, ChangesLibrary, Writes
  <2>2. Cmd(op, arg, x, None) \in Command /\ Cmd(op, arg, x, None).op = op
    BY <1>3, <2>1, CmdType
  <2>3. Fits(Cmd(op, arg, x, None))  BY <2>1, <2>2, PlainOpFits
  <2>4. QED  BY <1>1, <1>5, <2>2, <2>3, SendKeeps
<1>6. QED  BY <1>3, <1>4, <1>5 DEF Click

(* Only a confirmation opens or closes.                                     *)
LEMMA DialogKeeps ==
    ASSUME Inv, UNCHANGED <<disk, eng, alive, cmd, answer, busy, stopped, ui, phase, faults>>,
           dialog' \in {"none", "initialize", "migrate", "abandon", "close"},
           asking' \in BOOLEAN, Waiting'
    PROVE  Inv'
<1>1. Typed /\ InStep /\ EngineSound(eng, disk) /\ OffersWhatIsAccepted /\ ActsOnWhatWasShown
  BY InvTyped DEF Inv
<1>2. Typed'  BY <1>1 DEF Typed
<1>3. TypeOK'  BY <1>2, TypedIs, PTL
<1>4. InStep' /\ EngineSound(eng, disk)'  BY <1>1 DEF InStep
<1>5. OffersWhatIsAccepted' /\ ActsOnWhatWasShown'
  BY <1>1 DEF OffersWhatIsAccepted, ActsOnWhatWasShown, Refused, Held, Blocked
<1>6. QED  BY <1>2, <1>3, <1>4, <1>5 DEF Inv, Typed

LEMMA OpenDialogKeeps ==
    ASSUME Inv, OpenDialog
    PROVE  Inv'
<1>1. /\ phase = "open" /\ ~busy /\ ~stopped /\ dialog = "none" /\ ~asking
      /\ UNCHANGED <<disk, eng, alive, cmd, answer, busy, stopped, ui, phase, faults>>
  BY DEF OpenDialog, Panel
<1>2. CASE ~ui.holds /\ dialog' \in {"initialize", "migrate"} /\ asking' = asking
  BY <1>1, <1>2, DialogKeeps DEF Waiting, Inv, TypeOK
<1>3. CASE dialog' = "abandon" /\ asking' = asking
  BY <1>1, <1>3, DialogKeeps DEF Waiting, Inv, TypeOK
<1>4. CASE ui.has /\ CanMutate /\ ui.view.lineage # None /\ asking' = TRUE /\ dialog' = dialog
  <2>1. alive  BY <1>1, <1>4 DEF Inv, InStep, DefaultSnapshot
  <2>2. Waiting'  BY <1>1, <1>4, <2>1 DEF Waiting, CanMutate
  <2>3. QED  BY <1>1, <1>4, <2>2, DialogKeeps
<1>5. QED  BY <1>2, <1>3, <1>4 DEF OpenDialog

LEMMA AnswerDialogKeeps ==
    ASSUME Inv, AnswerDialog
    PROVE  Inv'
<1>1. phase = "open" /\ asking \in BOOLEAN /\ Waiting /\ ui \in Snapshot
  BY DEF AnswerDialog, Inv, TypeOK
<1>2. ui.target \in Maybe /\ ui.view.lineage \in Maybe /\ None \in Maybe
  BY <1>1 DEF Snapshot, View, Maybe
<1>3. CASE /\ dialog # "none" /\ dialog' = "none" /\ asking' = asking
           /\ UNCHANGED <<disk, eng, alive, cmd, answer, busy, stopped, ui, phase, faults>>
  <2>1. ~asking  BY <1>1, <1>3 DEF Waiting
  <2>2. Waiting'  BY <1>3, <2>1 DEF Waiting
  <2>3. QED  BY <1>1, <1>3, <2>2, DialogKeeps
<1>4. CASE /\ asking /\ asking' = FALSE /\ dialog' = dialog
           /\ UNCHANGED <<disk, eng, alive, cmd, answer, busy, stopped, ui, phase, faults>>
  <2>1. Waiting'  BY <1>1, <1>4 DEF Waiting
  <2>2. dialog = "none"  BY <1>1, <1>4 DEF Waiting
  <2>3. QED  BY <1>4, <2>1, <2>2, DialogKeeps
<1>5. ASSUME dialog \in {"initialize", "migrate", "abandon"}, dialog' = "none", asking' = asking,
             SendC(Cmd(dialog, None, None, ui.target))
      PROVE  Inv'
  <2> DEFINE c == Cmd(dialog, None, None, ui.target)
  <2>1. dialog \in Ops  BY <1>5 DEF Ops, ChangesLibrary, Refreshes
  <2>2. c \in Command /\ c.op = dialog /\ c.shown = ui.target  BY <1>2, <2>1, CmdType
  <2>3. ~busy /\ asking = FALSE /\ (dialog \in {"initialize", "migrate"} => ~ui.holds)
    BY <1>1, <1>5 DEF Waiting
  <2>4. alive => Fits(c)
    BY <1>5, <2>2, <2>3, ShownIsEngine DEF Fits, Refused, Writes, ChangesLibrary
  <2>5. QED  BY <1>1, <1>5, <2>2, <2>3, <2>4, SendKeeps
<1>6. ASSUME asking, ui.has, asking' = FALSE, dialog' = dialog,
             SendC(Cmd("delete", None, None, ui.view.lineage))
      PROVE  Inv'
  <2> DEFINE c == Cmd("delete", None, None, ui.view.lineage)
  <2>1. "delete" \in Ops  BY DEF Ops, Writes
  <2>2. c \in Command /\ c.op = "delete" /\ c.shown = ui.view.lineage  BY <1>2, <2>1, CmdType
  <2>3. ~busy /\ alive /\ dialog = "none" /\ CanMutate  BY <1>1, <1>6 DEF Waiting
  <2>4. Fits(c)
    BY <1>6, <2>2, <2>3, ShownIsEngine DEF Fits, Refused, ChangesLibrary
  <2>5. QED  BY <1>1, <1>6, <2>2, <2>3, <2>4, SendKeeps
<1>7. QED  BY <1>3, <1>4, <1>5, <1>6 DEF AnswerDialog, Submit

(* The process ends and both threads' memory with it.                       *)
LEMMA EndedKeeps ==
    ASSUME Inv, Ended, disk' = disk, faults' \in 0..MaxFaults
    PROVE  Inv'
<1>1. disk \in Disk  BY DEF Inv
<1>2. Typed'  BY <1>1, Absent DEF Ended, Typed
<1>3. TypeOK'  BY <1>2, TypedIs, PTL
<1>4. InStep' /\ Waiting'  BY DEF Ended, InStep, Waiting
<1>5. EngineSound(eng, disk)'  BY NewEngineSound DEF Ended
<1>6. (OffersWhatIsAccepted /\ ActsOnWhatWasShown)'
  BY DEF Ended, OffersWhatIsAccepted, ActsOnWhatWasShown, NoCommand
<1>7. QED  BY <1>2, <1>3, <1>4, <1>5, <1>6 DEF Inv, Typed

LEMMA RequestCloseKeeps ==
    ASSUME Inv, RequestClose
    PROVE  Inv'
<1>1. phase = "open" /\ Waiting /\ faults \in 0..MaxFaults /\ asking \in BOOLEAN
  BY DEF RequestClose, Inv, TypeOK
<1>2. CASE Poll /\ UNCHANGED <<disk, eng, alive, cmd, dialog, asking, phase, faults>>
  BY <1>1, <1>2, PollKeeps
<1>3. CASE UNCHANGED vars
  <2>1. dialog' = dialog /\ asking' = asking
        /\ UNCHANGED <<disk, eng, alive, cmd, answer, busy, stopped, ui, phase, faults>>
    BY <1>3 DEF vars
  <2>2. Waiting'  BY <1>1, <2>1 DEF Waiting, CanMutate
  <2>3. QED  BY <2>1, <2>2, DialogKeeps DEF Inv, TypeOK
<1>4. CASE /\ ~busy /\ ui.holds /\ dialog' = "close"
           /\ UNCHANGED <<disk, eng, alive, cmd, answer, busy, stopped, ui, asking, phase, faults>>
  <2>1. ~asking  BY <1>1, <1>4 DEF Waiting, CanMutate
  <2>2. Waiting'  BY <1>1, <1>4, <2>1 DEF Waiting
  <2>3. QED  BY <1>1, <1>4, <2>2, DialogKeeps
<1>5. CASE Ended /\ UNCHANGED <<disk, faults>>
  BY <1>1, <1>5, EndedKeeps
<1>6. QED  BY <1>2, <1>3, <1>4, <1>5 DEF RequestClose, vars

LEMMA LaunchKeeps ==
    ASSUME Inv, Launch
    PROVE  Inv'
<1>1. Typed /\ InStep /\ Waiting  BY InvTyped DEF Inv
<1>2. /\ phase = "closed" /\ phase' = "open" /\ UNCHANGED <<disk, eng, ui, dialog, asking>>
      /\ ~alive /\ answer = NoAnswer /\ ~busy /\ ~stopped /\ cmd = NoCommand
      /\ eng = NewEngine /\ ui = DefaultSnapshot
  BY <1>1 DEF Launch, InStep
<1>3. ~asking  BY <1>1, <1>2 DEF Waiting
<1> DEFINE c == Cmd("open_plain", None, None, None)
<1>4. "open_plain" \in Ops /\ None \in Maybe  BY DEF Ops, ChangesLibrary, Maybe
<1>5. c \in Command /\ c.op = "open_plain"  BY <1>4, CmdType
<1>6. EngineSound(eng, disk)'  BY <1>2, NewEngineSound
<1>7. Waiting'  BY <1>1, <1>2, <1>3 DEF Waiting
<1>8. CASE alive' = TRUE /\ busy' = TRUE /\ cmd' = c /\ UNCHANGED <<answer, stopped, faults>>
  <2>1. Typed'  BY <1>1, <1>2, <1>5, <1>8 DEF Typed
  <2>2. TypeOK'  BY <2>1, TypedIs, PTL
  <2>3. InStep'  BY <1>2, <1>8, Absent DEF InStep
  <2>4. (OffersWhatIsAccepted /\ ActsOnWhatWasShown)'
    <3>1. ~Held(NewEngine)  BY DEF Held, NewEngine
    <3>2. eng' = NewEngine /\ cmd' = c  BY <1>2, <1>8
    <3>3. QED  BY <1>5, <3>1, <3>2
               DEF OffersWhatIsAccepted, ActsOnWhatWasShown, Refused, Writes, Held
  <2>5. QED  BY <1>6, <1>7, <2>1, <2>2, <2>3, <2>4 DEF Inv, Typed
<1>9. CASE /\ Spend(1) /\ answer' = DefaultSnapshot
           /\ \/ busy' = TRUE /\ stopped' = stopped
              \/ stopped' = TRUE /\ busy' = busy
           /\ UNCHANGED <<alive, cmd>>
  <2>1. faults' \in 0..MaxFaults  BY <1>1, <1>9, SpendBound DEF Typed
  <2>2. Typed'  BY <1>1, <1>2, <1>9, <2>1, Absent DEF Typed
  <2>3. TypeOK'  BY <2>2, TypedIs, PTL
  <2>4. InStep'  BY <1>2, <1>9 DEF InStep
  <2>5. (OffersWhatIsAccepted /\ ActsOnWhatWasShown)'
    BY <1>2, <1>9 DEF OffersWhatIsAccepted, ActsOnWhatWasShown, NoCommand
  <2>6. QED  BY <1>6, <1>7, <2>2, <2>3, <2>4, <2>5 DEF Inv, Typed
<1>10. QED  BY <1>8, <1>9 DEF Launch

LEMMA InitInv == Init => Inv
<1>1. SUFFICES ASSUME Init PROVE Inv  OBVIOUS
<1>2. disk \in Disk
  <2>1. [x \in Requests |-> None] \in [Requests -> Maybe]  BY DEF Maybe
  <2>2. QED  BY <1>1, <2>1, DesktopAssumption DEF Init, Disk
<1>3. 0 \in 0..MaxFaults
  <2>1. MaxFaults \in Nat  BY DesktopAssumption
  <2>2. QED  BY <2>1
<1>4. Typed  BY <1>1, <1>2, <1>3, Absent DEF Init, Typed
<1>5. InStep /\ Waiting  BY <1>1 DEF Init, InStep, Waiting
<1>6. EngineSound(eng, disk)  BY <1>1, NewEngineSound DEF Init
<1>7. OffersWhatIsAccepted /\ ActsOnWhatWasShown
  BY <1>1 DEF Init, OffersWhatIsAccepted, ActsOnWhatWasShown, NoCommand
<1>8. QED  BY <1>4, <1>5, <1>6, <1>7, TypedIs DEF Inv, Typed

LEMMA NextInv == Inv /\ [Next]_vars => Inv'
<1>1. SUFFICES ASSUME Inv, [Next]_vars PROVE Inv'  OBVIOUS
<1>2. faults \in 0..MaxFaults /\ asking \in BOOLEAN  BY <1>1 DEF Inv, TypeOK
<1>3. CASE Work  BY <1>1, <1>3, WorkKeeps
<1>4. CASE Panic  BY <1>1, <1>4, PanicKeeps
<1>5. CASE ShowAnswer  BY <1>1, <1>5, PollKeeps DEF ShowAnswer
<1>6. CASE Click  BY <1>1, <1>6, ClickKeeps
<1>7. CASE OpenDialog  BY <1>1, <1>7, OpenDialogKeeps
<1>8. CASE AnswerDialog  BY <1>1, <1>8, AnswerDialogKeeps
<1>9. CASE RequestClose  BY <1>1, <1>9, RequestCloseKeeps
<1>10. CASE ConfirmClose  BY <1>1, <1>2, <1>10, EndedKeeps DEF ConfirmClose
<1>11. CASE Kill
  <2>1. faults' \in 0..MaxFaults  BY <1>2, <1>11, SpendBound DEF Kill
  <2>2. QED  BY <1>1, <1>11, <2>1, EndedKeeps DEF Kill
<1>12. CASE Launch  BY <1>1, <1>12, LaunchKeeps
<1>13. CASE UNCHANGED vars
  <2>1. Waiting'  BY <1>1, <1>13 DEF Inv, Waiting, CanMutate, vars
  <2>2. QED  BY <1>1, <1>13, <2>1, DialogKeeps DEF vars, Inv, TypeOK
<1>14. QED
  BY <1>1, <1>3, <1>4, <1>5, <1>6, <1>7, <1>8, <1>9, <1>10, <1>11, <1>12, <1>13 DEF Next

------------------------------------------------------------------------------
(* The inductive invariant of the two threads holds in every reachable      *)
(* state.                                                                   *)
THEOREM HostInvariance == Spec => []Inv
  BY InitInv, NextInv, PTL DEF Spec

(* What the window shows and offers agrees with the worker, and what the    *)
(* worker takes for known with the disk: nothing pending is overlooked, no  *)
(* offered command is refused, and a waiting deletion dialog is drawn       *)
(* (Engine, Worker and the window's can_mutate and can_switch).             *)
THEOREM ShownIsAlwaysTrue == Spec => []ShownIsTrue
<1>1. Inv => ShownIsTrue
  BY DEF Inv, ShownIsTrue, EngineSound, NothingPendingOverlooked, Waiting, DialogIsDrawn
<1>2. QED  BY <1>1, HostInvariance, PTL

(* A deletion, an update, an export or an abandonment concerns what was on  *)
(* the screen when it was asked for, although the worker uses its own       *)
(* selection (perform of worker.rs).                                        *)
THEOREM CommandsMeanWhatWasShown == Spec => []ActsOnWhatWasShown
<1>1. Inv => ActsOnWhatWasShown  BY DEF Inv
<1>2. QED  BY <1>1, HostInvariance, PTL

(* The plaintext of a capture leaves the memory of a running worker only    *)
(* when its source is stored or its request was abandoned on disk.          *)
THEOREM OriginalsAreKept == Spec => OriginalKept
<1>1. Inv /\ [Next]_vars =>
        [eng.capture # NoCapture /\ eng'.capture = NoCapture /\ phase' = "open" /\ alive' =>
           \/ disk'.lineage[eng.capture.id] # None
           \/ eng.capture.id \in disk'.abandoned]_vars
  <2>1. SUFFICES ASSUME Inv, Next, eng.capture # NoCapture, eng'.capture = NoCapture,
                        phase' = "open", alive'
                 PROVE  \/ disk'.lineage[eng.capture.id] # None
                        \/ eng.capture.id \in disk'.abandoned
    OBVIOUS
  <2>2. CASE Work
    BY <2>1, <2>2, WorkKeeps DEF Released
  <2>3. CASE ~Work
    <3>1. eng' = eng \/ ~alive' \/ phase' = "closed"
      BY <2>1, <2>3 DEF Next, Panic, ShowAnswer, Click, SendC, OpenDialog, AnswerDialog, Submit,
         RequestClose, ConfirmClose, Kill, Launch, Ended
    <3>2. QED  BY <2>1, <3>1
  <2>4. QED  BY <2>2, <2>3
<1>2. QED  BY <1>1, HostInvariance, PTL DEF Spec, OriginalKept

(* Closing the window without its confirmation happens only when no command *)
(* is under way or unanswered and the worker holds no request               *)
(* (render of ui.rs).                                                       *)
THEOREM ClosingIsSettled == Spec => ClosesSettled
<1>1. Inv /\ [Next]_vars =>
        [phase = "open" /\ phase' = "closed" /\ faults' = faults /\ dialog # "close" =>
           ~busy /\ ~Held(eng)]_vars
  <2>1. SUFFICES ASSUME Inv, Next, phase = "open", phase' = "closed", faults' = faults,
                        dialog # "close"
                 PROVE  ~busy /\ ~Held(eng)
    OBVIOUS
  <2>2. faults \in Nat  BY <2>1 DEF Inv, TypeOK
  <2>3. ~Kill  BY <2>1, <2>2 DEF Kill, Spend
  <2>4. RequestClose /\ ~busy /\ (NothingToPoll => ~ui.holds)
    <3>1. RequestClose
      BY <2>1, <2>3 DEF Next, Work, window, Panic, ShowAnswer, Click, SendC, OpenDialog,
         AnswerDialog, Submit, ConfirmClose, Launch
    <3>2. QED  BY <2>1, <3>1 DEF RequestClose
  <2>5. CASE ~alive
    BY <2>1, <2>4, <2>5 DEF Inv, InStep, Held, NewEngine
  <2>6. CASE alive
    BY <2>1, <2>4, <2>6, ShownIsEngine DEF NothingToPoll
  <2>7. QED  BY <2>4, <2>5, <2>6
<1>2. QED  BY <1>1, HostInvariance, PTL DEF Spec, ClosesSettled
==============================================================================
