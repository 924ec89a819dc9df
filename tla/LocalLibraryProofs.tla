------------------------- MODULE LocalLibraryProofs -------------------------
(***************************************************************************)
(* What LocalLibrary promises, proved for any processes, any contents and  *)
(* any number of sources, lineages and failing components.                 *)
(*                                                                         *)
(* LineageWhole counts versions, which a step cannot preserve by itself.   *)
(* Inv says it row by row: a version belongs to one row (OneOfEach), below *)
(* every version all smaller ones are there (Dense), each supersedes the   *)
(* one before (Chained), a lineage is active or closed as a whole          *)
(* (AllOrNone) and an active one has a tip (HasTip).  Of a host only what  *)
(* it still relies on between two statements is needed (Knows); that       *)
(* the rest may be stale is what the checks inside the transactions are    *)
(* for.                                                                    *)
(*                                                                         *)
(* What a list, a version list or a search answers is known through        *)
(* Remembers: how the sources it has read stand to the moment of its call. *)
(* It outlasts every commit of the others because a version keeps its      *)
(* place in its lineage and nothing closed is opened again (Evolves).      *)
(*                                                                         *)
(* The last part is about BodyMigration, which takes the bodies of such a  *)
(* library over into a vault.                                              *)
(***************************************************************************)
EXTENDS LocalLibrary, BodyMigration, FiniteSetTheorems, TLAPS

Operations == {"none", "import", "update", "list", "versions", "delete", "search"}
Pcs == {"idle", "answered", "commit", "actual", "extras", "validate", "resolve", "load",
        "tips", "summary", "count", "tip", "rows", "history", "store", "execute",
        "verify", "match", "cite"}
Work == Ids \cup (Ids \X Ids)
Moments == [stored : Nat, current : SUBSET Ids]
HostState ==
    [op : Operations, pc : Pcs, lineage : Ids \cup {NoSource}, expected : SUBSET (Ids \X Ids),
     todo : SUBSET Work, current : Ids \cup {NoSource},
     bytes : Bytes \cup {NoBytes}, got : SUBSET Ids, since : Moments]

(* A lineage is named after its first source and a version is not larger    *)
(* than the number of rows.                                                 *)
Numbered == \A s \in Stored : rows[s].version <= s /\ rows[s].lineage <= s
OneOfEach ==
    \A s, t \in Stored : rows[s].lineage = rows[t].lineage /\ rows[s].version = rows[t].version
                         => s = t
Dense ==
    \A s \in Stored : \A k \in 1..rows[s].version :
       \E t \in OfLineage(rows[s].lineage) : rows[t].version = k
Chained ==
    \A s \in Stored :
       IF rows[s].version = 1 THEN rows[s].supersedes = NoSource
       ELSE /\ rows[s].supersedes \in OfLineage(rows[s].lineage)
            /\ rows[rows[s].supersedes].version = rows[s].version - 1
AllOrNone ==
    \A s, t \in Stored : rows[s].lineage = rows[t].lineage => (IsActive(s) <=> IsActive(t))
HasTip ==
    \A s \in Stored : IsActive(s) =>
       \E t \in OfLineage(rows[s].lineage) : <<rows[s].lineage, t>> \in tips

Lineages == Numbered /\ OneOfEach /\ Dense /\ Chained /\ AllOrNone /\ HasTip
Stores == VerifyDerived /\ VerifyOriginBindings

(* What a host relies on although other hosts commit in between: its        *)
(* resolved version stays a row of its lineage, and a lineage it has closed *)
(* gains no version.                                                        *)
Knows(e) ==
    /\ e.pc \in {"resolve", "load"} => e.op = "update"
    /\ e.pc = "commit" => e.op \in {"import", "update"}
    /\ e.pc \in {"tips", "summary", "count"} => e.op = "list"
    /\ e.pc \in {"verify", "match", "cite"} => e.op = "search"
    /\ e.pc \in {"tip", "rows", "history"} => e.op \in {"versions", "delete"}
    /\ e.pc \in {"load", "commit"} /\ e.op = "update" => e.current \in Stored
    /\ e.pc = "count" => e.current \in Stored
    /\ e.pc = "execute" =>
         /\ e.todo # {}
         /\ e.todo = OfLineage(e.lineage)
         /\ \A s \in e.todo : ~IsActive(s)
    /\ e.pc = "answered" /\ e.op \in {"import", "update"} =>
         \A s \in e.got : s \in Stored /\ rows[s].bytes \in {e.bytes, NoBytes}

Inv ==
    /\ TypeOK
    /\ host \in [Hosts -> HostState]
    /\ Lineages
    /\ Stores
    /\ \A h \in Hosts : Knows(host[h])

-----------------------------------------------------------------------------
(* Rows, tips and the parts of a host's state *)

(* What the type invariant says of one row. *)
LEMMA RowTyped ==
    TypeOK => /\ Len(rows) \in Nat
              /\ \A s \in Stored :
                    /\ s \in Ids
                    /\ rows[s] \in Row
                    /\ rows[s].lineage \in Ids /\ rows[s].version \in Ids
                    /\ rows[s].supersedes \in Ids \cup {NoSource}
                    /\ rows[s].bytes \in Bytes \cup {NoBytes}
                    /\ rows[s].state \in DeletionStates
                    /\ rows[s].origin \in Ids \cup {NoSource}
<1> SUFFICES ASSUME TypeOK
             PROVE  /\ Len(rows) \in Nat
                    /\ \A s \in Stored :
                          /\ s \in Ids
                          /\ rows[s] \in Row
                          /\ rows[s].lineage \in Ids /\ rows[s].version \in Ids
                          /\ rows[s].supersedes \in Ids \cup {NoSource}
                          /\ rows[s].bytes \in Bytes \cup {NoBytes}
                          /\ rows[s].state \in DeletionStates
                          /\ rows[s].origin \in Ids \cup {NoSource}
    OBVIOUS
<1>1. rows \in Seq(Row) /\ Len(rows) <= MaxSources /\ Len(rows) \in Nat
    BY DEF TypeOK
<1>2. \A s \in Stored : rows[s] \in Row
    BY <1>1 DEF Stored
<1>3. \A s \in Stored : s \in Ids
    BY <1>1, BoundsAssumption DEF Stored, Ids
<1> QED
    BY <1>1, <1>2, <1>3 DEF Row

(* A recorded tip is the active newest version of its lineage, and the only *)
(* one recorded for it.                                                     *)
LEMMA TipIsNewest ==
    TypeOK /\ OneOfEach /\ VerifyDerived =>
       \A l, s : <<l, s>> \in tips =>
          /\ s \in Stored /\ IsActive(s) /\ rows[s].lineage = l /\ ~HasNewer(s)
          /\ TipOf(l) = {s}
<1> SUFFICES ASSUME TypeOK, OneOfEach, VerifyDerived, NEW l, NEW s, <<l, s>> \in tips
             PROVE  /\ s \in Stored /\ IsActive(s) /\ rows[s].lineage = l /\ ~HasNewer(s)
                    /\ TipOf(l) = {s}
    OBVIOUS
<1>1. \A k, t : <<k, t>> \in tips =>
         t \in Stored /\ IsActive(t) /\ rows[t].lineage = k /\ ~HasNewer(t)
    BY DEF VerifyDerived, ExpectedTips
<1>2. \A t : <<l, t>> \in tips => t = s
    <2> SUFFICES ASSUME NEW t, <<l, t>> \in tips PROVE t = s
        OBVIOUS
    <2>1. t \in OfLineage(l) /\ s \in OfLineage(l)
        BY <1>1 DEF OfLineage
    <2>2. ~(rows[t].version > rows[s].version) /\ ~(rows[s].version > rows[t].version)
        BY <1>1, <2>1 DEF HasNewer
    <2>3. rows[s].version \in Nat /\ rows[t].version \in Nat
        BY <1>1, RowTyped DEF Ids
    <2> QED
        BY <1>1, <2>2, <2>3 DEF OneOfEach
<1>3. \A u \in tips : u = <<u[1], u[2]>>
    BY DEF TypeOK
<1>4. TipOf(l) = {s}
    BY <1>2, <1>3 DEF TipOf
<1> QED
    BY <1>1, <1>4

(* The members of TipOf are recorded. *)
LEMMA TipRecorded ==
    TypeOK => \A l : \A s \in TipOf(l) : <<l, s>> \in tips
<1> SUFFICES ASSUME TypeOK, NEW l, NEW s \in TipOf(l) PROVE <<l, s>> \in tips
    OBVIOUS
<1>1. PICK u \in tips : u[1] = l /\ u[2] = s
    BY DEF TipOf
<1>2. u = <<u[1], u[2]>>
    BY DEF TypeOK
<1> QED
    BY <1>1, <1>2

LEMMA MinOfOne == \A s \in Nat : Min({s}) = s
    BY DEF Min

-----------------------------------------------------------------------------
(* Steps that only read: one host's memory changes *)

(* A step that leaves the tables alone keeps Inv when what it leaves in its *)
(* own host's memory is typed and known.                                    *)
LEMMA ReadStep ==
    ASSUME Inv, UNCHANGED db, NEW h \in Hosts, NEW e \in HostState,
           host' = [host EXCEPT ![h] = e], Knows(e)
    PROVE  Inv'
<1>1. host' \in [Hosts -> HostState]
    BY DEF Inv
<1>2. \A k \in Hosts : Knows(host'[k])
    BY DEF Inv
<1>3. TypeOK'
    <2>1. \A k \in Hosts : host'[k].current \in Ids \cup {NoSource}
        BY <1>1 DEF HostState
    <2>2. TypeOK
        BY DEF Inv
    <2> QED
        BY <2>1, <2>2 DEF TypeOK, db, Ids
<1>4. Lineages'
    <2>1. Lineages
        BY DEF Inv
    <2> QED
        BY <2>1 DEF db, Lineages, Numbered, OneOfEach, Dense, Chained, AllOrNone, HasTip,
                    Stored, OfLineage, IsActive
<1>5. Stores'
    <2>1. Stores
        BY DEF Inv
    <2> QED
        BY <2>1
           DEF db, Stores, VerifyDerived, VerifyOriginBindings, ExpectedTips, ExpectedRecall,
                    VerifyOriginBindingRows, ExpectedBindings, BelongsToClosedPlan, CaptureVerifies,
                    ValidateExistingCapture, LoadSource, SupersededStored, Decodes, HasNewer,
                    FragmentsComplete, Stored, OfLineage, IsActive
<1>6. \A k \in Hosts : Knows(host[k])'
    BY <1>2 DEF db, Knows, Stored, OfLineage, IsActive
<1> QED
    BY <1>1, <1>3, <1>4, <1>5, <1>6 DEF Inv

(* Going back to idle is always possible. *)
LEMMA IdleKnows == Idle \in HostState /\ Knows(Idle)
    BY DEF Idle, HostState, Operations, Pcs, Moments, Knows

LEMMA RefusedStep ==
    ASSUME Inv, UNCHANGED db, NEW h \in Hosts, host' = [host EXCEPT ![h] = Idle]
    PROVE  Inv'
    BY ReadStep, IdleKnows

(* The fields of a host's memory. *)
LEMMA HostTyped ==
    ASSUME NEW e \in HostState
    PROVE  /\ e.op \in Operations /\ e.pc \in Pcs /\ e.lineage \in Ids \cup {NoSource}
           /\ e.expected \subseteq Ids \X Ids /\ e.todo \subseteq Work
           /\ e.current \in Ids \cup {NoSource} /\ e.bytes \in Bytes \cup {NoBytes}
           /\ e.got \subseteq Ids /\ e.since \in Moments
           /\ e = [op |-> e.op, pc |-> e.pc, lineage |-> e.lineage, expected |-> e.expected,
                   todo |-> e.todo, current |-> e.current, bytes |-> e.bytes, got |-> e.got,
                   since |-> e.since]
    BY DEF HostState

LEMMA StartImportStep ==
    ASSUME Inv, NEW h \in Hosts, StartImport(h) PROVE Inv'
<1> DEFINE e == [Idle EXCEPT !.op = "import", !.pc = "commit"]
<1>1. e.op = "import" /\ e.pc = "commit" /\ e.got = {}
    BY DEF Idle
<1>2. e \in HostState
    BY IdleKnows DEF HostState, Operations, Pcs
<1>3. Knows(e)
    BY <1>1 DEF Knows
<1>4. UNCHANGED db /\ host' = [host EXCEPT ![h] = e]
    BY DEF StartImport
<1> HIDE DEF e
<1> QED
    BY <1>2, <1>3, <1>4, ReadStep

(* The expected bindings are pairs of identifiers. *)
LEMMA ExpectedBindingsTyped == TypeOK => ExpectedBindings \subseteq Ids \X Ids
    BY RowTyped DEF ExpectedBindings, NoSource

(* A moment is how many sources there are and some of them. *)
LEMMA MomentTyped == TypeOK => Moment \in Moments
<1> SUFFICES ASSUME TypeOK PROVE Moment \in Moments
    OBVIOUS
<1>1. Len(rows) \in Nat /\ {t[2] : t \in tips} \in SUBSET Ids
    BY DEF TypeOK
<1> QED
    BY <1>1 DEF Moment, Moments

LEMMA StartReadStep ==
    ASSUME Inv, NEW h \in Hosts, NEW op \in {"update", "list", "versions", "delete"},
           NEW l \in Ids \cup {NoSource}, StartRead(h, op, l)
    PROVE  Inv'
<1> DEFINE moment == IF op \in {"list", "versions"} THEN Moment ELSE Idle.since
           e == [Idle EXCEPT !.op = op, !.pc = "actual", !.lineage = l, !.expected = ExpectedBindings,
                             !.since = moment]
<1>1. e.op = op /\ e.pc = "actual" /\ e.got = {}
    BY DEF Idle
<1>2. ExpectedBindings \in SUBSET (Ids \X Ids)
    BY ExpectedBindingsTyped DEF Inv
<1>3. moment \in Moments
    BY IdleKnows, MomentTyped, HostTyped DEF Inv
<1>4. UNCHANGED db /\ host' = [host EXCEPT ![h] = e]
    BY DEF StartRead, Idle
<1> HIDE DEF moment
<1>5. e \in HostState
    BY <1>2, <1>3, IdleKnows DEF HostState, Operations, Pcs
<1>6. Knows(e)
    BY <1>1 DEF Knows
<1> HIDE DEF e
<1> QED
    BY <1>4, <1>5, <1>6, ReadStep

(* Memory whose work, next statement, resolved version or answer changes is *)
(* still typed.                                                             *)
LEMMA MemoryChanged ==
    ASSUME NEW e \in HostState, NEW p \in Pcs, NEW T \in SUBSET Work,
           NEW c \in Ids \cup {NoSource}, NEW g \in SUBSET Ids
    PROVE  /\ [e EXCEPT !.pc = p, !.todo = T] \in HostState
           /\ [e EXCEPT !.pc = p, !.expected = {}] \in HostState
           /\ [e EXCEPT !.pc = p, !.todo = T, !.got = g] \in HostState
           /\ [e EXCEPT !.pc = p, !.current = c, !.todo = T, !.got = g] \in HostState
           /\ [e EXCEPT !.pc = p, !.todo = T, !.expected = {}] \in HostState
           /\ [e EXCEPT !.pc = p, !.current = c] \in HostState
           /\ [e EXCEPT !.todo = T, !.got = g] \in HostState
<1>1. [e EXCEPT !.pc = p] \in HostState
    BY DEF HostState
<1>2. \A d \in HostState : [d EXCEPT !.todo = T] \in HostState
    BY DEF HostState
<1>3. \A d \in HostState : [d EXCEPT !.expected = {}] \in HostState
    BY DEF HostState
<1>4. \A d \in HostState : [d EXCEPT !.current = c] \in HostState
    BY DEF HostState
<1>5. \A d \in HostState : [d EXCEPT !.got = g] \in HostState
    BY DEF HostState
<1> QED
    BY <1>1, <1>2, <1>3, <1>4, <1>5

(* ReadStep with the new memory of the host given by its fields. *)
LEMMA MoveOn ==
    ASSUME Inv, UNCHANGED db, NEW h \in Hosts, host' \in [Hosts -> HostState],
           \A k \in Hosts \ {h} : host'[k] = host[k], Knows(host'[h])
    PROVE  Inv'
<1>1. host \in [Hosts -> HostState] /\ host'[h] \in HostState
    BY DEF Inv
<1>2. host' = [host EXCEPT ![h] = host'[h]]
    BY <1>1
<1> QED
    BY <1>1, <1>2, ReadStep

LEMMA ReadActualBindingsStep ==
    ASSUME Inv, NEW h \in Hosts, ReadActualBindings(h) PROVE Inv'
<1> DEFINE extras == bindings \ host[h].expected
<1>1. UNCHANGED db /\ host \in [Hosts -> HostState] /\ host[h].pc = "actual" /\ Knows(host[h])
    BY DEF ReadActualBindings, Inv
<1>2. CASE host[h].expected \subseteq bindings
    <2>1. host' = [host EXCEPT ![h].pc = "extras", ![h].todo = extras, ![h].expected = {}]
        BY <1>2 DEF ReadActualBindings
    <2>2. extras \in SUBSET Work
        BY DEF Inv, TypeOK, Work
    <2> HIDE DEF extras
    <2>3. host' \in [Hosts -> HostState]
        <3>1. [host[h] EXCEPT !.pc = "extras", !.todo = extras, !.expected = {}] \in HostState
            BY <1>1, <2>2, MemoryChanged DEF Pcs
        <3> QED
            BY <1>1, <2>1, <3>1
    <2>4. /\ \A k \in Hosts \ {h} : host'[k] = host[k]
          /\ host'[h].pc = "extras" /\ host'[h].op = host[h].op /\ host'[h].got = host[h].got
        BY <1>1, <2>1 DEF HostState
    <2>5. Knows(host'[h])
        BY <1>1, <2>4 DEF Knows
    <2> QED
        BY <1>1, <2>3, <2>4, <2>5, MoveOn
<1>3. CASE ~(host[h].expected \subseteq bindings)
    BY <1>1, <1>3, RefusedStep DEF ReadActualBindings, Ended
<1> QED
    BY <1>2, <1>3

LEMMA ReadExtraBindingStep ==
    ASSUME Inv, NEW h \in Hosts, ReadExtraBinding(h) PROVE Inv'
<1> DEFINE act == {s \in Stored : IsActive(s)}
           b == CHOOSE b \in host[h].todo : \A c \in host[h].todo : b[1] <= c[1]
<1>1. UNCHANGED db /\ host \in [Hosts -> HostState] /\ host[h].pc = "extras" /\ Knows(host[h])
    BY DEF ReadExtraBinding, Inv
<1>2. CASE host[h].todo = {}
    <2>1. host' = [host EXCEPT ![h].pc = "validate", ![h].todo = act]
        BY <1>2 DEF ReadExtraBinding
    <2>2. act \in SUBSET Work
        BY RowTyped DEF Inv, Work
    <2> HIDE DEF act
    <2>3. host' \in [Hosts -> HostState]
        <3>1. [host[h] EXCEPT !.pc = "validate", !.todo = act] \in HostState
            BY <1>1, <2>2, MemoryChanged DEF Pcs
        <3> QED
            BY <1>1, <2>1, <3>1
    <2>4. /\ \A k \in Hosts \ {h} : host'[k] = host[k]
          /\ host'[h].pc = "validate" /\ host'[h].op = host[h].op /\ host'[h].got = host[h].got
        BY <1>1, <2>1 DEF HostState
    <2>5. Knows(host'[h])
        BY <1>1, <2>4 DEF Knows
    <2> QED
        BY <1>1, <2>3, <2>4, <2>5, MoveOn
<1>3. CASE host[h].todo # {} /\ BelongsToClosedPlan(b)
    <2>1. host' = [host EXCEPT ![h].todo = @ \ {b}]
        BY <1>3 DEF ReadExtraBinding
    <2> HIDE DEF b
    <2>3. host' \in [Hosts -> HostState]
        BY <1>1, <2>1 DEF HostState
    <2>4. /\ \A k \in Hosts \ {h} : host'[k] = host[k]
          /\ host'[h].pc = "extras" /\ host'[h].op = host[h].op /\ host'[h].got = host[h].got
        BY <1>1, <2>1 DEF HostState
    <2>5. Knows(host'[h])
        BY <1>1, <2>4 DEF Knows
    <2> QED
        BY <1>1, <2>3, <2>4, <2>5, MoveOn
<1>4. CASE host[h].todo # {} /\ ~BelongsToClosedPlan(b)
    BY <1>1, <1>4, RefusedStep DEF ReadExtraBinding, Ended
<1> QED
    BY <1>2, <1>3, <1>4

LEMMA ReadActiveCaptureStep ==
    ASSUME Inv, NEW h \in Hosts, ReadActiveCapture(h) PROVE Inv'
<1> DEFINE after == NextStatement(host[h].op)
           m == Min(host[h].todo)
<1>1. UNCHANGED db /\ host \in [Hosts -> HostState] /\ host[h].pc = "validate" /\ Knows(host[h])
    BY DEF ReadActiveCapture, Inv
<1>2. CASE host[h].todo = {}
    <2>1. host' = [host EXCEPT ![h].pc = after]
        BY <1>2 DEF ReadActiveCapture
    <2>2. /\ after \in {"resolve", "tips", "tip", "idle"}
          /\ after = "resolve" => host[h].op = "update"
          /\ after = "tips" => host[h].op = "list"
          /\ after = "tip" => host[h].op \in {"versions", "delete"}
        BY DEF NextStatement
    <2> HIDE DEF after
    <2>3. host' \in [Hosts -> HostState]
        BY <1>1, <2>1, <2>2 DEF HostState, Pcs
    <2>4. /\ \A k \in Hosts \ {h} : host'[k] = host[k]
          /\ host'[h].pc = after /\ host'[h].op = host[h].op /\ host'[h].got = host[h].got
        BY <1>1, <2>1 DEF HostState
    <2>5. Knows(host'[h])
        BY <1>1, <2>2, <2>4 DEF Knows
    <2> QED
        BY <1>1, <2>3, <2>4, <2>5, MoveOn
<1>3. CASE host[h].todo # {} /\ CaptureVerifies(m)
    <2>1. host' = [host EXCEPT ![h].todo = @ \ {m}]
        BY <1>3 DEF ReadActiveCapture
    <2> HIDE DEF m
    <2>3. host' \in [Hosts -> HostState]
        BY <1>1, <2>1 DEF HostState
    <2>4. /\ \A k \in Hosts \ {h} : host'[k] = host[k]
          /\ host'[h].pc = "validate" /\ host'[h].op = host[h].op /\ host'[h].got = host[h].got
        BY <1>1, <2>1 DEF HostState
    <2>5. Knows(host'[h])
        BY <1>1, <2>4 DEF Knows
    <2> QED
        BY <1>1, <2>3, <2>4, <2>5, MoveOn
<1>4. CASE host[h].todo # {} /\ ~CaptureVerifies(m)
    BY <1>1, <1>4, RefusedStep DEF ReadActiveCapture, Ended
<1> QED
    BY <1>2, <1>3, <1>4

LEMMA ResolveStep ==
    ASSUME Inv, NEW h \in Hosts, ResolveSourceLineage(h) PROVE Inv'
<1> DEFINE found == {s \in TipOf(host[h].lineage) :
                       IsActive(s) /\ \E b \in bindings : b[2] = host[h].lineage}
           c == Min(found)
<1>1. UNCHANGED db /\ host \in [Hosts -> HostState] /\ host[h].pc = "resolve" /\ Knows(host[h])
    BY DEF ResolveSourceLineage, Inv
<1>2. CASE found = {}
    BY <1>1, <1>2, RefusedStep DEF ResolveSourceLineage, Ended
<1>3. CASE found # {}
    <2>1. host' = [host EXCEPT ![h].pc = "load", ![h].current = c]
        BY <1>3 DEF ResolveSourceLineage
    <2>2. PICK s \in found : TRUE
        BY <1>3
    <2>3. <<host[h].lineage, s>> \in tips
        BY <2>2, TipRecorded DEF Inv
    <2>4. s \in Stored /\ TipOf(host[h].lineage) = {s}
        BY <2>3, TipIsNewest DEF Inv, Lineages, Stores
    <2>5. found = {s}
        BY <2>2, <2>4
    <2>6. c = s
        BY <2>4, <2>5, MinOfOne, RowTyped DEF Inv, Stored
    <2>7. c \in Stored /\ c \in Ids \cup {NoSource}
        BY <2>4, <2>6, RowTyped DEF Inv
    <2> HIDE DEF found, c
    <2>8. host' \in [Hosts -> HostState]
        <3>1. [host[h] EXCEPT !.pc = "load", !.current = c] \in HostState
            BY <1>1, <2>7, MemoryChanged DEF Pcs
        <3> QED
            BY <1>1, <2>1, <3>1
    <2>9. /\ \A k \in Hosts \ {h} : host'[k] = host[k]
          /\ host'[h].pc = "load" /\ host'[h].op = host[h].op /\ host'[h].got = host[h].got
          /\ host'[h].current = c
        BY <1>1, <2>1 DEF HostState
    <2>10. Knows(host'[h])
        BY <1>1, <2>7, <2>9 DEF Knows
    <2> QED
        BY <1>1, <2>8, <2>9, <2>10, MoveOn
<1> QED
    BY <1>2, <1>3

LEMMA LoadResolvedStep ==
    ASSUME Inv, NEW h \in Hosts, LoadResolvedSource(h) PROVE Inv'
<1>1. UNCHANGED db /\ host \in [Hosts -> HostState] /\ host[h].pc = "load" /\ Knows(host[h])
    BY DEF LoadResolvedSource, Inv
<1>2. CASE LoadSource(host[h].current)
    <2>1. host' = [host EXCEPT ![h].pc = "commit"]
        BY <1>2 DEF LoadResolvedSource
    <2>2. host' \in [Hosts -> HostState]
        BY <1>1, <2>1 DEF HostState, Pcs
    <2>3. /\ \A k \in Hosts \ {h} : host'[k] = host[k]
          /\ host'[h].pc = "commit" /\ host'[h].op = host[h].op /\ host'[h].got = host[h].got
          /\ host'[h].current = host[h].current
        BY <1>1, <2>1 DEF HostState
    <2>4. Knows(host'[h])
        BY <1>1, <2>3 DEF Knows
    <2> QED
        BY <1>1, <2>2, <2>3, <2>4, MoveOn
<1>3. CASE ~LoadSource(host[h].current)
    BY <1>1, <1>3, RefusedStep DEF LoadResolvedSource, Ended
<1> QED
    BY <1>2, <1>3

LEMMA ListTipsStep ==
    ASSUME Inv, NEW h \in Hosts, ListTips(h) PROVE Inv'
<1> DEFINE all == {t[2] : t \in tips}
<1>1. UNCHANGED db /\ host \in [Hosts -> HostState] /\ host[h].pc = "tips" /\ Knows(host[h])
    BY DEF ListTips, Inv
<1>2. host' = [host EXCEPT ![h].pc = "summary", ![h].todo = all]
    BY DEF ListTips
<1>3. all \in SUBSET Work
    BY DEF Inv, TypeOK, Work
<1> HIDE DEF all
<1>4. host' \in [Hosts -> HostState]
    <2>1. [host[h] EXCEPT !.pc = "summary", !.todo = all] \in HostState
        BY <1>1, <1>3, MemoryChanged DEF Pcs
    <2> QED
        BY <1>1, <1>2, <2>1
<1>5. /\ \A k \in Hosts \ {h} : host'[k] = host[k]
      /\ host'[h].pc = "summary" /\ host'[h].op = host[h].op /\ host'[h].got = host[h].got
    BY <1>1, <1>2 DEF HostState
<1>6. Knows(host'[h])
    BY <1>1, <1>5 DEF Knows
<1> QED
    BY <1>1, <1>4, <1>5, <1>6, MoveOn

LEMMA ListSummaryStep ==
    ASSUME Inv, NEW h \in Hosts, ListSummary(h) PROVE Inv'
<1>1. UNCHANGED db /\ host \in [Hosts -> HostState] /\ host[h].pc = "summary" /\ Knows(host[h])
    BY DEF ListSummary, Inv
<1>2. PICK s : s = Min(host[h].todo)
    OBVIOUS
<1>3. CASE host[h].todo # {} /\ LoadSource(s)
    <2>1. host' = [host EXCEPT ![h].pc = "count", ![h].current = s]
        BY <1>2, <1>3 DEF ListSummary
    <2>2. s \in Ids \cup {NoSource} /\ s \in Stored
        BY <1>3, RowTyped DEF LoadSource, IsActive, Inv
    <2>3. host' \in [Hosts -> HostState]
        <3>1. [host[h] EXCEPT !.pc = "count", !.current = s] \in HostState
            BY <1>1, <2>2, MemoryChanged DEF Pcs
        <3> QED
            BY <1>1, <2>1, <3>1
    <2>4. /\ \A k \in Hosts \ {h} : host'[k] = host[k]
          /\ host'[h].pc = "count" /\ host'[h].op = host[h].op /\ host'[h].current = s
        BY <1>1, <2>1 DEF HostState
    <2>5. Knows(host'[h])
        BY <1>1, <2>2, <2>4 DEF Knows
    <2> QED
        BY <1>1, <2>3, <2>4, <2>5, MoveOn
<1>4. CASE ~(host[h].todo # {} /\ LoadSource(s))
    BY <1>1, <1>2, <1>4, RefusedStep DEF ListSummary, Ended
<1> QED
    BY <1>3, <1>4

LEMMA CountVersionsStep ==
    ASSUME Inv, NEW h \in Hosts, CountVersions(h) PROVE Inv'
<1>1. UNCHANGED db /\ host \in [Hosts -> HostState] /\ host[h].pc = "count" /\ Knows(host[h])
    BY DEF CountVersions, Inv
<1>2. PICK s \in Ids : s = host[h].current
    BY <1>1, RowTyped DEF Knows, Inv
<1>3. CASE VersionsCounted(s)
    <2>1. PICK T, g : T = host[h].todo \ {s} /\ g = host[h].got \cup {s}
        OBVIOUS
    <2>2. host' = [host EXCEPT ![h].pc = "summary", ![h].current = NoSource, ![h].todo = T, ![h].got = g]
        BY <1>1, <1>2, <1>3, <2>1 DEF CountVersions
    <2>3. T \in SUBSET Work /\ g \in SUBSET Ids
        BY <1>1, <1>3, <2>1, HostTyped
    <2>4. host' \in [Hosts -> HostState]
        <3>1. [host[h] EXCEPT !.pc = "summary", !.current = NoSource, !.todo = T, !.got = g] \in HostState
            BY <1>1, <2>3, MemoryChanged DEF Pcs
        <3> QED
            BY <1>1, <2>2, <3>1
    <2>5. /\ \A k \in Hosts \ {h} : host'[k] = host[k]
          /\ host'[h].pc = "summary" /\ host'[h].op = host[h].op
        BY <1>1, <2>2 DEF HostState
    <2>6. Knows(host'[h])
        BY <1>1, <2>5 DEF Knows
    <2> QED
        BY <1>1, <2>4, <2>5, <2>6, MoveOn
<1>4. CASE ~VersionsCounted(s)
    BY <1>1, <1>2, <1>4, RefusedStep DEF CountVersions, Ended
<1> QED
    BY <1>2, <1>3, <1>4

LEMMA ReadTipStep ==
    ASSUME Inv, NEW h \in Hosts, ReadTip(h) PROVE Inv'
<1> DEFINE c == Min(TipOf(host[h].lineage))
<1>1. UNCHANGED db /\ host \in [Hosts -> HostState] /\ host[h].pc = "tip" /\ Knows(host[h])
    BY DEF ReadTip, Inv
<1>3. CASE TipOf(host[h].lineage) = {}
    BY <1>1, <1>3, RefusedStep DEF ReadTip, Ended
<1>4. CASE TipOf(host[h].lineage) # {}
    <2>1. host' = [host EXCEPT ![h].pc = "rows", ![h].current = c]
        BY <1>4 DEF ReadTip
    <2>2. PICK s \in TipOf(host[h].lineage) : TRUE
        BY <1>4
    <2>3. <<host[h].lineage, s>> \in tips
        BY <2>2, TipRecorded DEF Inv
    <2>4. s \in Stored /\ TipOf(host[h].lineage) = {s}
        BY <2>3, TipIsNewest DEF Inv, Lineages, Stores
    <2>5. c = s
        BY <2>4, MinOfOne, RowTyped DEF Inv, Stored
    <2>6. c \in Ids \cup {NoSource}
        BY <2>4, <2>5, RowTyped DEF Inv
    <2> HIDE DEF c
    <2>7. host' \in [Hosts -> HostState]
        <3>1. [host[h] EXCEPT !.pc = "rows", !.current = c] \in HostState
            BY <1>1, <2>6, MemoryChanged DEF Pcs
        <3> QED
            BY <1>1, <2>1, <3>1
    <2>8. /\ \A k \in Hosts \ {h} : host'[k] = host[k]
          /\ host'[h].pc = "rows" /\ host'[h].op = host[h].op /\ host'[h].got = host[h].got
        BY <1>1, <2>1 DEF HostState
    <2>9. Knows(host'[h])
        BY <1>1, <2>8 DEF Knows
    <2> QED
        BY <1>1, <2>7, <2>8, <2>9, MoveOn
<1> QED
    BY <1>3, <1>4

LEMMA ReadVersionsStep ==
    ASSUME Inv, NEW h \in Hosts, ReadVersions(h) PROVE Inv'
<1>1. UNCHANGED db /\ host \in [Hosts -> HostState] /\ host[h].pc = "rows" /\ Knows(host[h])
    BY DEF ReadVersions, Inv
<1>2. PICK T : T = ActiveOf(host[h].lineage)
    OBVIOUS
<1>3. CASE VersionsOk(T, host[h].current)
    <2>1. host' = [host EXCEPT ![h].pc = "history", ![h].todo = T]
        BY <1>2, <1>3 DEF ReadVersions
    <2>2. T \in SUBSET Work
        BY <1>2, RowTyped DEF Inv, Work, ActiveOf, OfLineage
    <2>3. host' \in [Hosts -> HostState]
        <3>1. [host[h] EXCEPT !.pc = "history", !.todo = T] \in HostState
            BY <1>1, <2>2, MemoryChanged DEF Pcs
        <3> QED
            BY <1>1, <2>1, <3>1
    <2>4. /\ \A k \in Hosts \ {h} : host'[k] = host[k]
          /\ host'[h].pc = "history" /\ host'[h].op = host[h].op
        BY <1>1, <2>1 DEF HostState
    <2>5. Knows(host'[h])
        BY <1>1, <2>4 DEF Knows
    <2> QED
        BY <1>1, <2>3, <2>4, <2>5, MoveOn
<1>4. CASE ~VersionsOk(T, host[h].current)
    BY <1>1, <1>2, <1>4, RefusedStep DEF ReadVersions, Ended
<1> QED
    BY <1>3, <1>4

(* One more source is added to an answer. *)
LEMMA AnswerGrows ==
    ASSUME Inv, UNCHANGED db, NEW h \in Hosts, NEW s, LoadSource(s),
           host[h].pc \in {"history", "cite"},
           host' = [host EXCEPT ![h].todo = @ \ {s}, ![h].got = @ \cup {s}]
    PROVE  Inv'
<1>1. host \in [Hosts -> HostState] /\ Knows(host[h]) /\ host[h] \in HostState
    BY DEF Inv
<1>2. s \in Ids
    BY RowTyped DEF LoadSource, IsActive, Inv
<1>3. PICK T, g : T = host[h].todo \ {s} /\ g = host[h].got \cup {s}
    OBVIOUS
<1>4. T \in SUBSET Work /\ g \in SUBSET Ids
    BY <1>1, <1>2, <1>3, HostTyped
<1>5. host' = [host EXCEPT ![h].todo = T, ![h].got = g]
    BY <1>1, <1>3
<1>6. host' \in [Hosts -> HostState]
    <2>1. [host[h] EXCEPT !.todo = T, !.got = g] \in HostState
        BY <1>1, <1>4, MemoryChanged DEF Pcs
    <2> QED
        BY <1>1, <1>5, <2>1
<1>7. /\ \A k \in Hosts \ {h} : host'[k] = host[k]
      /\ host'[h].pc = host[h].pc /\ host'[h].op = host[h].op
    BY <1>1, <1>5 DEF HostState
<1>8. Knows(host'[h])
    BY <1>1, <1>7 DEF Knows
<1> QED
    BY <1>6, <1>7, <1>8, MoveOn

LEMMA LoadVersionStep ==
    ASSUME Inv, NEW h \in Hosts, LoadVersion(h) PROVE Inv'
<1>1. UNCHANGED db /\ host \in [Hosts -> HostState] /\ host[h].pc = "history" /\ Knows(host[h])
    BY DEF LoadVersion, Inv
<1>2. PICK s : s = Min(host[h].todo)
    OBVIOUS
<1>3. CASE host[h].todo = {} /\ host[h].op # "versions"
    <2>1. PICK T : T = host[h].got
        OBVIOUS
    <2>2. host' = [host EXCEPT ![h].pc = "store", ![h].todo = T, ![h].got = {}]
        BY <1>3, <2>1 DEF LoadVersion
    <2>3. T \in SUBSET Work
        BY <1>1, <2>1, HostTyped DEF Work
    <2>4. host' \in [Hosts -> HostState]
        <3>1. [host[h] EXCEPT !.pc = "store", !.todo = T, !.got = {}] \in HostState
            BY <1>1, <2>3, MemoryChanged DEF Pcs
        <3> QED
            BY <1>1, <2>2, <3>1
    <2>5. /\ \A k \in Hosts \ {h} : host'[k] = host[k]
          /\ host'[h].pc = "store"
        BY <1>1, <2>2 DEF HostState
    <2>6. Knows(host'[h])
        BY <2>5 DEF Knows
    <2> QED
        BY <1>1, <2>4, <2>5, <2>6, MoveOn
<1>4. CASE host[h].todo # {} /\ LoadSource(s)
    <2>1. host' = [host EXCEPT ![h].todo = @ \ {s}, ![h].got = @ \cup {s}]
        BY <1>1, <1>2, <1>4 DEF LoadVersion
    <2> QED
        BY <1>1, <1>4, <2>1, AnswerGrows
<1>5. CASE \/ host[h].todo = {} /\ host[h].op = "versions"
           \/ host[h].todo # {} /\ ~LoadSource(s)
    BY <1>1, <1>2, <1>5, RefusedStep DEF LoadVersion, Ended
<1> QED
    BY <1>3, <1>4, <1>5

LEMMA StartSearchStep ==
    ASSUME Inv, NEW h \in Hosts, StartSearch(h) PROVE Inv'
<1> DEFINE e == [Idle EXCEPT !.op = "search", !.pc = "verify", !.expected = ExpectedTips,
                             !.todo = ExpectedRecall, !.since = Moment]
<1>1. e.op = "search" /\ e.pc = "verify" /\ e.got = {}
    BY DEF Idle
<1>2. ExpectedRecall \in SUBSET Work /\ Moment \in Moments
    BY RowTyped, MomentTyped DEF Inv, ExpectedRecall, Work
<1>3. ExpectedTips \in SUBSET (Ids \X Ids)
    BY RowTyped DEF Inv, ExpectedTips
<1>4. e \in HostState
    BY <1>2, <1>3, IdleKnows DEF HostState, Operations, Pcs
<1>5. Knows(e)
    BY <1>1 DEF Knows
<1>6. UNCHANGED db /\ host' = [host EXCEPT ![h] = e]
    BY DEF StartSearch
<1> HIDE DEF e
<1> QED
    BY <1>4, <1>5, <1>6, ReadStep

LEMMA VerifyCatalogStep ==
    ASSUME Inv, NEW h \in Hosts, VerifyCatalog(h) PROVE Inv'
<1>1. UNCHANGED db /\ host \in [Hosts -> HostState] /\ host[h].pc = "verify" /\ Knows(host[h])
    BY DEF VerifyCatalog, Inv
<1>2. CASE tips = host[h].expected /\ recall = host[h].todo
    <2>1. host' = [host EXCEPT ![h].pc = "match", ![h].expected = {}]
        BY <1>2 DEF VerifyCatalog
    <2>2. host' \in [Hosts -> HostState]
        <3>1. [host[h] EXCEPT !.pc = "match", !.expected = {}] \in HostState
            BY <1>1, MemoryChanged DEF Pcs
        <3> QED
            BY <1>1, <2>1, <3>1
    <2>3. /\ \A k \in Hosts \ {h} : host'[k] = host[k]
          /\ host'[h].pc = "match" /\ host'[h].op = host[h].op
        BY <1>1, <2>1 DEF HostState
    <2>4. Knows(host'[h])
        BY <1>1, <2>3 DEF Knows
    <2> QED
        BY <1>1, <2>2, <2>3, <2>4, MoveOn
<1>3. CASE ~(tips = host[h].expected /\ recall = host[h].todo)
    BY <1>1, <1>3, RefusedStep DEF VerifyCatalog, Ended
<1> QED
    BY <1>2, <1>3

LEMMA MatchRecallStep ==
    ASSUME Inv, NEW h \in Hosts, MatchRecall(h) PROVE Inv'
<1>1. UNCHANGED db /\ host \in [Hosts -> HostState] /\ host[h].pc = "match" /\ Knows(host[h])
    BY DEF MatchRecall, Inv
<1>2. PICK hits \in SUBSET (recall \cap host[h].todo) :
         host' = [host EXCEPT ![h].pc = "cite", ![h].todo = hits]
    BY DEF MatchRecall
<1>3. hits \in SUBSET Work
    BY DEF Inv, TypeOK, Work
<1>4. host' \in [Hosts -> HostState]
    <2>1. [host[h] EXCEPT !.pc = "cite", !.todo = hits] \in HostState
        BY <1>1, <1>3, MemoryChanged DEF Pcs
    <2> QED
        BY <1>1, <1>2, <2>1
<1>5. /\ \A k \in Hosts \ {h} : host'[k] = host[k]
      /\ host'[h].pc = "cite" /\ host'[h].op = host[h].op
    BY <1>1, <1>2 DEF HostState
<1>6. Knows(host'[h])
    BY <1>1, <1>5 DEF Knows
<1> QED
    BY <1>1, <1>4, <1>5, <1>6, MoveOn

LEMMA CiteHitStep ==
    ASSUME Inv, NEW h \in Hosts, CiteHit(h) PROVE Inv'
<1>1. UNCHANGED db /\ host \in [Hosts -> HostState] /\ host[h].pc = "cite" /\ Knows(host[h])
    BY DEF CiteHit, Inv
<1>2. PICK s : s = Min(host[h].todo)
    OBVIOUS
<1>3. CASE host[h].todo # {} /\ LoadSource(s)
    <2>1. host' = [host EXCEPT ![h].todo = @ \ {s}, ![h].got = @ \cup {s}]
        BY <1>1, <1>2, <1>3 DEF CiteHit
    <2> QED
        BY <1>1, <1>3, <2>1, AnswerGrows
<1>4. CASE ~(host[h].todo # {} /\ LoadSource(s))
    BY <1>1, <1>2, <1>4, RefusedStep DEF CiteHit, Ended
<1> QED
    BY <1>3, <1>4

-----------------------------------------------------------------------------
(* A capture that stores a version *)

(* What decide_capture and advance_lineage_tip let through: the first       *)
(* version of a new lineage, or the successor of the recorded tip with its  *)
(* origin and its binding.                                                  *)
Begins(c) ==
    /\ c.lineage = Len(rows) + 1 /\ c.origin = Len(rows) + 1
    /\ c.version = 1 /\ c.supersedes = NoSource
Continues(c, s) ==
    /\ s \in Stored /\ <<rows[s].lineage, s>> \in tips
    /\ c.lineage = rows[s].lineage /\ c.origin = rows[s].lineage
    /\ c.version = rows[s].version + 1 /\ c.supersedes = s
    /\ rows[s].origin = c.origin
    /\ <<c.origin, c.lineage>> \in bindings
Admitted(c, outcome) ==
    \/ outcome = "created" /\ Begins(c)
    \/ outcome = "versioned" /\ \E s \in Stored : Continues(c, s)

LEMMA CaptureAdmitted ==
    ASSUME Inv, NEW h \in Hosts, host[h].pc = "commit", NEW b \in Bytes, NEW c, c = Prepare(h, b),
           DecideCapture(c) \notin {"refused", "idempotent"}, AdvanceLineageTipAllowed(c)
    PROVE  c.bytes = b /\ Admitted(c, DecideCapture(c))
<1> DEFINE outcome == DecideCapture(c)
           bound == LoadOriginLineage(c.origin)
           current == LoadCurrentSource(c.lineage)
<1>1. /\ outcome = "created" => bound = {} /\ TipOf(c.lineage) = {}
      /\ outcome = "versioned" =>
            /\ bound = {c.lineage} /\ current # {}
            /\ \A s \in current : ValidateExistingCapture(c.origin, s)
      /\ outcome \in {"created", "versioned"}
    BY DEF DecideCapture, RequireUnusedLineage
<1>2. host[h].op \in {"import", "update"} /\ (host[h].op = "update" => host[h].current \in Stored)
    BY DEF Inv, Knows
<1>3. \A s \in Stored : s # NoSource
    BY RowTyped DEF Inv, Stored, NoSource
<1>4. CASE host[h].op = "import"
    <2>1. c.bytes = b /\ Begins(c)
        BY <1>4 DEF Prepare, Begins
    <2>2. TipOf(c.lineage) = {}
        <3> SUFFICES ASSUME NEW s \in TipOf(c.lineage) PROVE FALSE
            OBVIOUS
        <3>1. s \in Stored
            BY TipRecorded, TipIsNewest DEF Inv, Lineages, Stores
        <3>2. c.supersedes = s
            BY DEF AdvanceLineageTipAllowed
        <3> QED
            BY <1>3, <2>1, <3>1, <3>2 DEF Begins
    <2>3. outcome # "versioned"
        BY <1>1, <2>2 DEF LoadCurrentSource
    <2> QED
        BY <1>1, <2>1, <2>3 DEF Admitted
<1>5. CASE host[h].op = "update"
    <2> DEFINE s == host[h].current
    <2>1. /\ s \in Stored /\ c.bytes = b
          /\ c.lineage = rows[s].lineage /\ c.origin = rows[s].lineage
          /\ c.version = rows[s].version + 1 /\ c.supersedes = s
        BY <1>2, <1>5 DEF Prepare
    <2>2. TipOf(c.lineage) # {}
        BY <1>3, <2>1 DEF AdvanceLineageTipAllowed
    <2>3. s \in TipOf(c.lineage)
        BY <2>1, <2>2 DEF AdvanceLineageTipAllowed
    <2>4. <<c.lineage, s>> \in tips /\ TipOf(c.lineage) = {s}
        BY <2>3, TipRecorded, TipIsNewest DEF Inv, Lineages, Stores
    <2>5. outcome = "versioned"
        BY <1>1, <2>2
    <2>6. ValidateExistingCapture(c.origin, s)
        BY <1>1, <2>4, <2>5 DEF LoadCurrentSource
    <2>7. <<c.origin, c.lineage>> \in bindings
        <3>1. PICK u \in bindings : u[1] = c.origin /\ u[2] = c.lineage
            BY <1>1, <2>5 DEF LoadOriginLineage
        <3>2. u = <<u[1], u[2]>>
            BY DEF Inv, TypeOK
        <3> QED
            BY <3>1, <3>2
    <2>8. rows[s].origin = c.origin
        BY <2>6 DEF ValidateExistingCapture
    <2> HIDE DEF s
    <2>9. Continues(c, s)
        BY <2>1, <2>4, <2>7, <2>8 DEF Continues
    <2> QED
        BY <2>1, <2>5, <2>9 DEF Admitted
<1> QED
    BY <1>2, <1>4, <1>5

(* A row appended to the table. *)
LEMMA RowAppended ==
    ASSUME TypeOK, NEW r, rows' = Append(rows, r)
    PROVE  /\ Len(rows') = Len(rows) + 1
           /\ Stored' = Stored \cup {Len(rows) + 1}
           /\ Len(rows) + 1 \notin Stored
           /\ \A s \in Stored : rows'[s] = rows[s]
           /\ rows'[Len(rows) + 1] = r
<1>1. rows \in Seq(Row) /\ Len(rows) \in Nat
    BY DEF TypeOK
<1>2. /\ Len(rows') = Len(rows) + 1
      /\ \A s \in 1..Len(rows) : rows'[s] = rows[s]
      /\ rows'[Len(rows) + 1] = r
    BY <1>1
<1> QED
    BY <1>1, <1>2 DEF Stored

(* An admitted capture is newer than every row of its lineage, and all of   *)
(* them are active.                                                         *)
LEMMA AdmittedIsNewest ==
    ASSUME Inv, NEW c, NEW outcome, Admitted(c, outcome)
    PROVE  /\ c.lineage \in 1..(Len(rows) + 1) /\ c.version \in 1..(Len(rows) + 1)
           /\ c.origin \in 1..(Len(rows) + 1)
           /\ \A t \in OfLineage(c.lineage) : IsActive(t) /\ rows[t].version < c.version
<1>1. /\ Len(rows) \in Nat
      /\ \A s \in Stored : rows[s].lineage \in Ids /\ rows[s].version \in Ids
    BY RowTyped DEF Inv
<1>2. Numbered /\ AllOrNone /\ OneOfEach /\ VerifyDerived /\ TypeOK
    BY DEF Inv, Lineages, Stores
<1>3. \A s \in Stored : /\ rows[s].lineage \in 1..Len(rows) /\ rows[s].version \in 1..Len(rows)
                        /\ rows[s].version \in Nat
    BY <1>1, <1>2 DEF Numbered, Stored, Ids
<1>4. CASE Begins(c)
    <2>1. OfLineage(c.lineage) = {}
        BY <1>1, <1>3, <1>4 DEF Begins, OfLineage
    <2> QED
        BY <1>1, <1>4, <2>1 DEF Begins
<1>5. CASE \E s \in Stored : Continues(c, s)
    <2>1. PICK s \in Stored : Continues(c, s)
        BY <1>5
    <2>2. IsActive(s) /\ ~HasNewer(s) /\ c.lineage = rows[s].lineage /\ c.origin = rows[s].lineage
          /\ c.version = rows[s].version + 1
        BY <1>2, <2>1, TipIsNewest DEF Continues
    <2>3. \A t \in OfLineage(c.lineage) : t \in Stored /\ rows[t].lineage = rows[s].lineage
        BY <2>2 DEF OfLineage
    <2>4. \A t \in OfLineage(c.lineage) : ~(rows[t].version > rows[s].version)
        BY <2>2 DEF HasNewer
    <2>5. \A t \in OfLineage(c.lineage) : rows[t].version < c.version
        BY <1>3, <2>2, <2>3, <2>4
    <2>6. \A t \in OfLineage(c.lineage) : IsActive(t)
        BY <1>2, <2>2, <2>3 DEF AllOrNone
    <2> QED
        BY <1>1, <1>3, <2>2, <2>5, <2>6
<1> QED
    BY <1>4, <1>5 DEF Admitted

(* The stored row, field by field, beside the rows that were there. *)
LEMMA InsertedRow ==
    ASSUME TypeOK, NEW c, NEW outcome, InsertCaptureFacts(c, outcome),
           NEW n, n = Len(rows) + 1
    PROVE  /\ Stored' = Stored \cup {n} /\ n \notin Stored
           /\ \A s \in Stored : rows'[s] = rows[s]
           /\ rows'[n].lineage = c.lineage /\ rows'[n].version = c.version
           /\ rows'[n].supersedes = c.supersedes /\ rows'[n].bytes = c.bytes
           /\ rows'[n].state = "active" /\ rows'[n].origin = c.origin
           /\ \A s \in Stored : IsActive(s)' <=> IsActive(s)
           /\ IsActive(n)'
           /\ \A l : OfLineage(l)' = OfLineage(l) \cup (IF l = c.lineage THEN {n} ELSE {})
<1> DEFINE r == [lineage |-> c.lineage, version |-> c.version,
                 supersedes |-> c.supersedes, bytes |-> c.bytes,
                 state |-> "active", origin |-> c.origin]
<1>1. rows' = Append(rows, r)
    BY DEF InsertCaptureFacts
<1>2. /\ Stored' = Stored \cup {n} /\ n \notin Stored
      /\ \A s \in Stored : rows'[s] = rows[s]
      /\ rows'[n] = r
    <2> HIDE DEF r
    <2> QED
        BY <1>1, RowAppended
<1>3. /\ rows'[n].lineage = c.lineage /\ rows'[n].version = c.version
      /\ rows'[n].supersedes = c.supersedes /\ rows'[n].bytes = c.bytes
      /\ rows'[n].state = "active" /\ rows'[n].origin = c.origin
    BY <1>2
<1> HIDE DEF r
<1>4. /\ \A s \in Stored : IsActive(s)' <=> IsActive(s)
      /\ IsActive(n)'
    BY <1>2, <1>3 DEF IsActive
<1>5. \A l : OfLineage(l)' = OfLineage(l) \cup (IF l = c.lineage THEN {n} ELSE {})
    BY <1>2, <1>3 DEF OfLineage
<1> QED
    BY <1>2, <1>3, <1>4, <1>5

LEMMA CaptureKeepsLineages ==
    ASSUME Inv, NEW c, NEW outcome, Admitted(c, outcome), InsertCaptureFacts(c, outcome)
    PROVE  Lineages'
<1>0. PICK n : n = Len(rows) + 1
    OBVIOUS
<1>1. /\ Stored' = Stored \cup {n} /\ n \notin Stored
      /\ \A s \in Stored : rows'[s] = rows[s]
      /\ rows'[n].lineage = c.lineage /\ rows'[n].version = c.version
      /\ rows'[n].supersedes = c.supersedes
      /\ \A s \in Stored : IsActive(s)' <=> IsActive(s)
      /\ IsActive(n)'
      /\ \A l : OfLineage(l)' = OfLineage(l) \cup (IF l = c.lineage THEN {n} ELSE {})
    BY <1>0, InsertedRow DEF Inv
<1>2. /\ c.lineage \in 1..n /\ c.version \in 1..n
      /\ \A t \in OfLineage(c.lineage) : IsActive(t) /\ rows[t].version < c.version
    BY <1>0, AdmittedIsNewest
<1>3. /\ n \in Nat
      /\ \A s \in Stored : s \in Nat /\ rows[s].version \in Nat /\ rows[s].version >= 1
    BY <1>0, RowTyped DEF Inv, Ids
<1>4. Numbered /\ OneOfEach /\ Dense /\ Chained /\ AllOrNone /\ HasTip
    BY DEF Inv, Lineages
<1>5. tips' = {t \in tips : t[1] # c.lineage} \cup {<<c.lineage, n>>}
    BY <1>0 DEF InsertCaptureFacts
<1>6. Numbered'
    BY <1>1, <1>2, <1>3, <1>4 DEF Numbered
<1>7. OneOfEach'
    <2>1. \A t \in Stored : rows[t].lineage = c.lineage => rows[t].version # c.version
        BY <1>2, <1>3 DEF OfLineage
    <2> QED
        BY <1>1, <1>4, <2>1 DEF OneOfEach
<1>8. Dense'
    <2>1. ASSUME NEW s \in Stored, NEW l, l = rows[s].lineage, NEW k \in 1..rows[s].version
          PROVE  \E t \in OfLineage(l)' : rows'[t].version = k
        <3>1. PICK t \in OfLineage(l) : rows[t].version = k
            BY <1>4, <2>1 DEF Dense
        <3>2. t \in Stored /\ t \in OfLineage(l)'
            BY <1>1 DEF OfLineage
        <3> QED
            BY <1>1, <3>1, <3>2
    <2>2. ASSUME NEW k \in 1..c.version
          PROVE  \E t \in OfLineage(c.lineage)' : rows'[t].version = k
        <3>1. n \in OfLineage(c.lineage)'
            BY <1>1
        <3>2. CASE k = c.version
            BY <1>1, <3>1, <3>2
        <3>3. CASE k # c.version
            <4>1. c.version # 1
                BY <1>2, <3>3
            <4>2. PICK s \in Stored : Continues(c, s)
                BY <4>1 DEF Admitted, Begins
            <4>3. k \in 1..rows[s].version /\ c.lineage = rows[s].lineage
                BY <1>3, <3>3, <4>2 DEF Continues
            <4> QED
                BY <2>1, <4>3
        <3> QED
            BY <3>2, <3>3
    <2> QED
        BY <1>1, <2>1, <2>2 DEF Dense
<1>9. Chained'
    <2>1. ASSUME NEW s \in Stored, NEW l, l = rows[s].lineage
          PROVE  IF rows[s].version = 1 THEN rows[s].supersedes = NoSource
                 ELSE /\ rows[s].supersedes \in OfLineage(l)'
                      /\ rows'[rows[s].supersedes].version = rows[s].version - 1
        <3>1. rows[s].version # 1 => rows[s].supersedes \in Stored
            BY <1>4 DEF Chained, OfLineage
        <3> QED
            BY <1>1, <1>4, <2>1, <3>1 DEF Chained
    <2>2. IF c.version = 1 THEN c.supersedes = NoSource
          ELSE /\ c.supersedes \in OfLineage(c.lineage)'
               /\ rows'[c.supersedes].version = c.version - 1
        <3>1. CASE Begins(c)
            BY <3>1 DEF Begins
        <3>2. CASE \E s \in Stored : Continues(c, s)
            <4>1. PICK s \in Stored : Continues(c, s)
                BY <3>2
            <4>2. s \in OfLineage(c.lineage)
                BY <4>1 DEF Continues, OfLineage
            <4>3. /\ c.supersedes = s /\ c.version = rows[s].version + 1
                  /\ rows'[s] = rows[s] /\ s \in OfLineage(c.lineage)'
                BY <1>1, <4>1, <4>2 DEF Continues
            <4> QED
                BY <1>3, <4>3
        <3> QED
            BY <3>1, <3>2 DEF Admitted
    <2> QED
        BY <1>1, <2>1, <2>2 DEF Chained
<1>10. AllOrNone'
    <2>1. \A t \in Stored : rows[t].lineage = c.lineage => IsActive(t)
        BY <1>2 DEF OfLineage
    <2> QED
        BY <1>1, <1>4, <2>1 DEF AllOrNone
<1>11. HasTip'
    <2>1. ASSUME NEW s \in Stored, IsActive(s), NEW l, l = rows[s].lineage, l # c.lineage
          PROVE  \E t \in OfLineage(l)' : <<l, t>> \in tips'
        <3>1. PICK t \in OfLineage(l) : <<l, t>> \in tips
            BY <1>4, <2>1 DEF HasTip
        <3> QED
            BY <1>1, <1>5, <2>1, <3>1
    <2>2. n \in OfLineage(c.lineage)' /\ <<c.lineage, n>> \in tips'
        BY <1>1, <1>5
    <2>3. ASSUME NEW s \in Stored', IsActive(s)', NEW l, l = rows'[s].lineage
          PROVE  \E t \in OfLineage(l)' : <<l, t>> \in tips'
        <3>1. CASE l = c.lineage
            BY <2>2, <3>1
        <3>2. CASE l # c.lineage
            <4>1. s \in Stored /\ rows'[s] = rows[s] /\ IsActive(s)
                BY <1>1, <2>3, <3>2
            <4> QED
                BY <2>1, <2>3, <3>2, <4>1
        <3> QED
            BY <3>1, <3>2
    <2> QED
        BY <2>3 DEF HasTip
<1> QED
    BY <1>6, <1>7, <1>8, <1>9, <1>10, <1>11 DEF Lineages

(* The checks a capture makes at the end of its transaction find what they  *)
(* expect: the derived tables and the bindings follow the new row.          *)
LEMMA CaptureKeepsStores ==
    ASSUME Inv, NEW c, NEW outcome, Admitted(c, outcome), InsertCaptureFacts(c, outcome),
           c.bytes \in Bytes
    PROVE  Stores'
<1>0. PICK n : n = Len(rows) + 1
    OBVIOUS
<1>1. /\ Stored' = Stored \cup {n} /\ n \notin Stored
      /\ \A s \in Stored : rows'[s] = rows[s]
      /\ rows'[n].lineage = c.lineage /\ rows'[n].version = c.version
      /\ rows'[n].supersedes = c.supersedes /\ rows'[n].bytes = c.bytes
      /\ rows'[n].state = "active" /\ rows'[n].origin = c.origin
      /\ \A s \in Stored : IsActive(s)' <=> IsActive(s)
      /\ IsActive(n)'
      /\ \A l : OfLineage(l)' = OfLineage(l) \cup (IF l = c.lineage THEN {n} ELSE {})
    BY <1>0, InsertedRow DEF Inv
<1>2. /\ c.lineage \in 1..n /\ c.version \in 1..n /\ c.origin \in 1..n /\ n \in Nat
      /\ \A t \in OfLineage(c.lineage) : IsActive(t) /\ rows[t].version < c.version
    BY <1>0, AdmittedIsNewest, RowTyped DEF Inv
<1>3. /\ TypeOK /\ OneOfEach /\ VerifyDerived /\ Chained
      /\ VerifyOriginBindingRows /\ \A s \in Stored : IsActive(s) => CaptureVerifies(s)
    BY DEF Inv, Lineages, Stores, VerifyOriginBindings
<1>4. \A s \in Stored : rows[s].version \in Nat /\ rows[s].lineage \in Nat
    BY <1>3, RowTyped DEF Ids
<1>5. /\ tips' = {t \in tips : t[1] # c.lineage} \cup {<<c.lineage, n>>}
      /\ frags' = frags \cup {<<n, "active">>}
      /\ recall' = (recall \ TipOf(c.lineage)) \cup {n}
      /\ audit' = audit \cup {<<n, outcome>>}
      /\ bindings' = bindings \cup (IF outcome = "created" THEN {<<c.origin, c.lineage>>} ELSE {})
    BY <1>0 DEF InsertCaptureFacts, InsertFragments, InsertCaptureAudit, InsertOriginBinding
<1>6. ASSUME NEW s \in Stored
      PROVE  HasNewer(s)' <=> HasNewer(s) \/ rows[s].lineage = c.lineage
    <2>1. PICK l : l = rows[s].lineage
        OBVIOUS
    <2>2. HasNewer(s) <=> \E t \in OfLineage(l) : rows[t].version > rows[s].version
        BY <2>1 DEF HasNewer
    <2>3. HasNewer(s)' <=> \E t \in OfLineage(l)' : rows'[t].version > rows[s].version
        BY <1>1, <2>1 DEF HasNewer
    <2>4. \A t \in OfLineage(l) : t \in Stored /\ rows'[t] = rows[t]
        BY <1>1 DEF OfLineage
    <2>5. l = c.lineage => s \in OfLineage(c.lineage) /\ c.version > rows[s].version
        BY <1>2, <1>4, <2>1 DEF OfLineage
    <2> QED
        BY <1>1, <2>1, <2>2, <2>3, <2>4, <2>5
<1>7. ~HasNewer(n)'
    <2>1. HasNewer(n)' <=> \E t \in OfLineage(c.lineage)' : rows'[t].version > c.version
        BY <1>1 DEF HasNewer
    <2>2. \A t \in OfLineage(c.lineage) : t \in Stored /\ ~(rows'[t].version > c.version)
        BY <1>1, <1>2, <1>4 DEF OfLineage
    <2> QED
        BY <1>1, <1>2, <2>1, <2>2
<1>8. \A l, s : <<l, s>> \in tips <=>
         s \in Stored /\ IsActive(s) /\ ~HasNewer(s) /\ l = rows[s].lineage
    BY <1>3 DEF VerifyDerived, ExpectedTips
<1>9. \A u \in tips : u = <<u[1], u[2]>>
    BY <1>3 DEF TypeOK
<1>10. tips' = ExpectedTips'
    <2>1. ASSUME NEW l, NEW s
          PROVE  <<l, s>> \in tips' <=> \/ <<l, s>> \in tips /\ l # c.lineage
                                        \/ l = c.lineage /\ s = n
        <3>1. <<l, s>>[1] = l
            OBVIOUS
        <3>2. <<l, s>> = <<c.lineage, n>> <=> (l = c.lineage /\ s = n)
            OBVIOUS
        <3> QED
            BY <1>5, <3>1, <3>2
    <2>2. \A l, s : <<l, s>> \in ExpectedTips' <=>
             s \in Stored' /\ IsActive(s)' /\ ~HasNewer(s)' /\ l = rows'[s].lineage
        BY DEF ExpectedTips
    <2>3. ASSUME NEW l, NEW s PROVE <<l, s>> \in tips' <=> <<l, s>> \in ExpectedTips'
        <3>1. CASE s = n
            BY <1>1, <1>7, <1>8, <2>1, <2>2, <3>1
        <3>2. CASE s \in Stored
            BY <1>1, <1>6, <1>8, <2>1, <2>2, <3>2
        <3>3. CASE s \notin Stored'
            BY <1>1, <1>8, <2>1, <2>2, <3>3
        <3> QED
            BY <1>1, <3>1, <3>2, <3>3
    <2>4. \A u \in tips' : \E l, s : u = <<l, s>>
        BY <1>5, <1>9
    <2>5. \A u \in ExpectedTips' : \E l, s : u = <<l, s>>
        BY DEF ExpectedTips
    <2> QED
        BY <2>3, <2>4, <2>5
<1>11. recall' = ExpectedRecall'
    <2>1. \A s : s \in recall <=> /\ s \in Stored /\ <<rows[s].lineage, s>> \in tips
                                  /\ <<s, "active">> \in frags
        BY <1>3 DEF VerifyDerived, ExpectedRecall, FragmentsComplete
    <2>2. \A s : s \in ExpectedRecall' <=> /\ s \in Stored' /\ <<rows'[s].lineage, s>> \in tips'
                                           /\ <<s, "active">> \in frags'
        BY <1>10 DEF ExpectedRecall, FragmentsComplete
    <2>3. \A s : s \in TipOf(c.lineage) <=> <<c.lineage, s>> \in tips
        BY <1>9 DEF TipOf
    <2>4. \A s \in Stored : <<s, "active">> \in frags' <=> <<s, "active">> \in frags
        BY <1>1, <1>5
    <2>5. n \in ExpectedRecall'
        BY <1>1, <1>5, <2>2
    <2>6. \A s \in Stored : s \in ExpectedRecall' <=> s \in recall /\ rows[s].lineage # c.lineage
        BY <1>1, <1>5, <2>1, <2>2, <2>4
    <2>7. \A s \in recall : s \in TipOf(c.lineage) <=> rows[s].lineage = c.lineage
        BY <1>8, <2>1, <2>3
    <2>8. \A s \in ExpectedRecall' : s \in Stored \cup {n}
        BY <1>1, <2>2
    <2>9. \A s \in recall : s \in Stored
        BY <2>1
    <2> QED
        BY <1>1, <1>5, <2>5, <2>6, <2>7, <2>8, <2>9
<1>12. <<c.origin, c.lineage>> \in bindings' /\ <<c.origin, c.lineage>> \in ExpectedBindings'
    <2>1. <<c.origin, c.lineage>> \in bindings'
        BY <1>5 DEF Admitted, Continues
    <2>2. c.origin # NoSource
        BY <1>2 DEF NoSource
    <2> QED
        BY <1>1, <1>7, <2>1, <2>2 DEF ExpectedBindings
<1>13. ASSUME NEW t \in Stored, IsActive(t), rows[t].origin # NoSource, ~HasNewer(t)
       PROVE  <<rows[t].origin, rows[t].lineage>> \in ExpectedBindings'
    <2>1. CASE rows[t].lineage # c.lineage
        BY <1>1, <1>6, <1>13, <2>1 DEF ExpectedBindings
    <2>2. CASE rows[t].lineage = c.lineage
        <3>1. <<c.lineage, t>> \in tips
            BY <1>8, <1>13, <2>2
        <3>2. ~Begins(c)
            BY <1>0, <1>2, <2>2 DEF Begins, OfLineage, Inv, Lineages, Numbered, Stored
        <3>3. PICK s \in Stored : Continues(c, s)
            BY <3>2 DEF Admitted
        <3>4. <<c.lineage, s>> \in tips /\ rows[s].origin = c.origin
            BY <3>3 DEF Continues
        <3>5. TipOf(c.lineage) = {s} /\ TipOf(c.lineage) = {t}
            BY <1>3, <3>1, <3>4, TipIsNewest
        <3>6. rows[t].origin = c.origin
            BY <3>4, <3>5
        <3> QED
            BY <1>12, <2>2, <3>6
    <2> QED
        BY <2>1, <2>2
<1>14. VerifyOriginBindingRows'
    <2>1. ExpectedBindings' \subseteq bindings'
        <3> SUFFICES ASSUME NEW t \in Stored', IsActive(t)', rows'[t].origin # NoSource, ~HasNewer(t)'
                     PROVE  <<rows'[t].origin, rows'[t].lineage>> \in bindings'
            BY DEF ExpectedBindings
        <3>1. CASE t = n
            BY <1>1, <1>12, <3>1
        <3>2. CASE t \in Stored
            <4>1. <<rows[t].origin, rows[t].lineage>> \in ExpectedBindings
                BY <1>1, <1>6, <3>2 DEF ExpectedBindings
            <4> QED
                BY <1>1, <1>3, <1>5, <3>2, <4>1 DEF VerifyOriginBindingRows
        <3> QED
            BY <1>1, <3>1, <3>2
    <2>2. ASSUME NEW b \in bindings' \ ExpectedBindings'
          PROVE  BelongsToClosedPlan(b)'
        <3>1. b \in bindings
            BY <1>5, <1>12
        <3>2. b \notin ExpectedBindings
            BY <1>13 DEF ExpectedBindings
        <3>3. PICK s \in OfLineage(b[2]) : rows[s].state \in {"pending", "failed"}
            BY <1>3, <3>1, <3>2 DEF VerifyOriginBindingRows, BelongsToClosedPlan
        <3>4. s \in Stored /\ s \in OfLineage(b[2])' /\ rows'[s] = rows[s]
            BY <1>1 DEF OfLineage
        <3> QED
            BY <3>3, <3>4 DEF BelongsToClosedPlan
    <2> QED
        BY <2>1, <2>2 DEF VerifyOriginBindingRows
<1>15. ASSUME NEW t \in Stored, IsActive(t) PROVE CaptureVerifies(t)'
    <2>1. CaptureVerifies(t)
        BY <1>3, <1>15
    <2>2. IsActive(t)' /\ rows'[t] = rows[t]
        BY <1>1, <1>15
    <2>3. SupersededStored(t)'
        <3>1. PICK l : l = rows[t].lineage
            OBVIOUS
        <3>2. rows[t].supersedes # NoSource =>
                 rows[t].supersedes \in OfLineage(l) /\ rows[rows[t].supersedes].version < rows[t].version
            BY <2>1, <3>1 DEF CaptureVerifies, LoadSource, SupersededStored
        <3>3. rows[t].supersedes # NoSource => rows[t].supersedes \in Stored
            BY <3>2 DEF OfLineage
        <3> QED
            BY <1>1, <2>2, <3>1, <3>2, <3>3 DEF SupersededStored
    <2>4. LoadSource(t)'
        BY <2>1, <2>2, <2>3 DEF CaptureVerifies, LoadSource, Decodes
    <2> QED
        BY <1>5, <2>1, <2>2, <2>4
           DEF CaptureVerifies, ValidateExistingCapture, FragmentsComplete
<1>16. CaptureVerifies(n)'
    <2>1. LoadSource(n)'
        <3>1. Decodes(n)'
            BY <1>1, BytesAssumption DEF Decodes, NoBytes
        <3>2. SupersededStored(n)'
            <4>1. CASE Begins(c)
                BY <1>1, <4>1 DEF SupersededStored, Begins
            <4>2. CASE \E s \in Stored : Continues(c, s)
                <5>1. PICK s \in Stored : Continues(c, s)
                    BY <4>2
                <5>2. s \in OfLineage(c.lineage) /\ c.supersedes = s
                    BY <5>1 DEF Continues, OfLineage
                <5>3. s \in OfLineage(c.lineage)' /\ rows'[s].version < c.version
                    BY <1>1, <1>2, <5>2
                <5> QED
                    BY <1>1, <5>2, <5>3 DEF SupersededStored
            <4> QED
                BY <4>1, <4>2 DEF Admitted
        <3> QED
            BY <1>1, <3>1, <3>2 DEF LoadSource
    <2>2. outcome = AuditOutcome(c.version)
        <3>1. CASE outcome = "created"
            BY <3>1 DEF Admitted, Begins, AuditOutcome
        <3>2. CASE outcome = "versioned"
            <4>1. PICK s \in Stored : Continues(c, s)
                BY <3>2 DEF Admitted
            <4>2. c.version # 1
                BY <1>4, <4>1, RowTyped, <1>3 DEF Continues, Ids
            <4> QED
                BY <3>2, <4>2 DEF AuditOutcome
        <3> QED
            BY <3>1, <3>2 DEF Admitted
    <2>3. rows'[n].origin # NoSource
        BY <1>1, <1>2 DEF NoSource
    <2>4. ValidateExistingCapture(rows[n].origin, n)'
        BY <1>1, <1>5, <2>2 DEF ValidateExistingCapture, FragmentsComplete, AuditOutcome
    <2> QED
        BY <2>1, <2>3, <2>4 DEF CaptureVerifies
<1>17. VerifyOriginBindings'
    BY <1>1, <1>14, <1>15, <1>16 DEF VerifyOriginBindings
<1> QED
    BY <1>10, <1>11, <1>17 DEF Stores, VerifyDerived

(* What a host relies on survives the capture of another host. *)
LEMMA CaptureKeepsKnowledge ==
    ASSUME Inv, NEW c, NEW outcome, Admitted(c, outcome), InsertCaptureFacts(c, outcome),
           NEW e, Knows(e)
    PROVE  Knows(e)'
<1>0. PICK n : n = Len(rows) + 1
    OBVIOUS
<1>1. /\ Stored' = Stored \cup {n} /\ \A s \in Stored : rows'[s] = rows[s]
      /\ \A s \in Stored : IsActive(s)' <=> IsActive(s)
      /\ \A l : OfLineage(l)' = OfLineage(l) \cup (IF l = c.lineage THEN {n} ELSE {})
    BY <1>0, InsertedRow DEF Inv
<1>2. \A t \in OfLineage(c.lineage) : IsActive(t)
    BY AdmittedIsNewest
<1>3. ASSUME e.pc = "execute"
      PROVE  /\ e.todo # {} /\ e.todo = OfLineage(e.lineage)'
             /\ \A s \in e.todo : ~IsActive(s)'
    <2>1. e.todo # {} /\ e.todo = OfLineage(e.lineage) /\ \A s \in e.todo : ~IsActive(s)
        BY <1>3 DEF Knows
    <2>2. e.lineage # c.lineage
        BY <1>2, <2>1
    <2>3. \A s \in e.todo : s \in Stored
        BY <2>1 DEF OfLineage
    <2> QED
        BY <1>1, <2>1, <2>2, <2>3
<1>4. ASSUME e.pc = "answered", e.op \in {"import", "update"}
      PROVE  \A s \in e.got : s \in Stored' /\ rows'[s].bytes \in {e.bytes, NoBytes}
    BY <1>1, <1>4 DEF Knows
<1> QED
    BY <1>1, <1>3, <1>4 DEF Knows

LEMMA CaptureTyped ==
    ASSUME Inv, NEW c, NEW outcome, Admitted(c, outcome), InsertCaptureFacts(c, outcome),
           c.bytes \in Bytes, Len(rows) < MaxSources, host' \in [Hosts -> HostState]
    PROVE  TypeOK'
<1>0. PICK n : n = Len(rows) + 1
    OBVIOUS
<1>1. TypeOK /\ Len(rows) \in Nat
    BY RowTyped DEF Inv
<1>2. 1..n \subseteq Ids /\ n \in Ids
    BY <1>0, <1>1, BoundsAssumption DEF Ids
<1>3. c.lineage \in Ids /\ c.version \in Ids /\ c.origin \in Ids
    BY <1>0, <1>2, AdmittedIsNewest
<1>4. c.supersedes \in Ids \cup {NoSource}
    BY <1>1, RowTyped DEF Admitted, Begins, Continues
<1>5. [lineage |-> c.lineage, version |-> c.version, supersedes |-> c.supersedes, bytes |-> c.bytes,
       state |-> "active", origin |-> c.origin] \in Row
    BY <1>3, <1>4 DEF Row, DeletionStates
<1>6. rows' \in Seq(Row) /\ Len(rows') <= MaxSources
    <2>1. \A r \in Row : Append(rows, r) \in Seq(Row) /\ Len(Append(rows, r)) = Len(rows) + 1
        BY <1>1 DEF TypeOK
    <2> QED
        BY <1>1, <1>5, <2>1, BoundsAssumption DEF InsertCaptureFacts
<1>7. outcome \in {"created", "versioned"}
    BY DEF Admitted
<1>8. /\ tips' \subseteq Ids \X Ids /\ bindings' \subseteq Ids \X Ids
      /\ audit' \subseteq Ids \X {"created", "versioned"}
      /\ frags' \subseteq Ids \X DeletionStates /\ recall' \subseteq Ids
    <2>1. <<c.lineage, n>> \in Ids \X Ids /\ <<c.origin, c.lineage>> \in Ids \X Ids
        BY <1>2, <1>3
    <2>2. <<n, outcome>> \in Ids \X {"created", "versioned"} /\ <<n, "active">> \in Ids \X DeletionStates
        BY <1>2, <1>7 DEF DeletionStates
    <2>3. tips' \subseteq Ids \X Ids
        BY <1>0, <1>1, <2>1 DEF TypeOK, InsertCaptureFacts
    <2>4. bindings' \subseteq Ids \X Ids
        BY <1>1, <2>1 DEF TypeOK, InsertCaptureFacts, InsertOriginBinding
    <2>5. audit' \subseteq Ids \X {"created", "versioned"}
        BY <1>0, <1>1, <2>2 DEF TypeOK, InsertCaptureFacts, InsertCaptureAudit
    <2>6. frags' \subseteq Ids \X DeletionStates /\ recall' \subseteq Ids
        BY <1>0, <1>1, <1>2, <2>2 DEF TypeOK, InsertCaptureFacts, InsertFragments
    <2> QED
        BY <2>3, <2>4, <2>5, <2>6
<1>9. \A k \in Hosts : host'[k].current \in Ids \cup {NoSource}
    BY HostTyped
<1> QED
    BY <1>6, <1>8, <1>9 DEF TypeOK, Ids, Row

(* The memory of a host whose capture is answered. *)
ReceiptOf(h, g, b) == [Idle EXCEPT !.op = host[h].op, !.pc = "answered", !.bytes = b, !.got = g]

LEMMA ReceiptTyped ==
    ASSUME Inv, NEW h \in Hosts, NEW b \in Bytes, NEW g \in SUBSET Ids, NEW e,
           e = ReceiptOf(h, g, b)
    PROVE  /\ e \in HostState
           /\ e.op = host[h].op /\ e.pc = "answered" /\ e.got = g /\ e.bytes = b
<1>1. host[h].op \in Operations
    BY HostTyped DEF Inv
<1>2. e \in HostState
    BY <1>1, IdleKnows DEF ReceiptOf, HostState, Pcs
<1> QED
    BY <1>2 DEF ReceiptOf, Idle

LEMMA CaptureSourceStep ==
    ASSUME Inv, NEW h \in Hosts, CaptureSource(h) PROVE Inv'
<1>1. host[h].pc = "commit" /\ Knows(host[h]) /\ host[h].op \in {"import", "update"}
    BY DEF CaptureSource, Inv, Knows
<1>2. PICK b \in Bytes :
         LET capture == Prepare(h, b)
             outcome == DecideCapture(capture)
         IN IF /\ VerifyDerived /\ VerifyOriginBindings
               /\ outcome # "refused"
               /\ outcome # "idempotent" => InsertAllowed(capture) /\ AdvanceLineageTipAllowed(capture)
            THEN IF outcome = "idempotent"
                 THEN /\ UNCHANGED db
                      /\ host' = Receipt(h, b, TipOf(capture.lineage))
                 ELSE /\ Len(rows) < MaxSources
                      /\ outcome = "created" => Cardinality({rows[s].lineage : s \in Stored}) < MaxLineages
                      /\ InsertCaptureFacts(capture, outcome)
                      /\ VerifyDerived' /\ VerifyOriginBindings'
                      /\ host' = Receipt(h, b, {Len(rows) + 1})
            ELSE UNCHANGED db /\ host' = Ended(h)
    BY DEF CaptureSource
<1>3. PICK c : c = Prepare(h, b)
    OBVIOUS
<1>4. PICK outcome : outcome = DecideCapture(c)
    OBVIOUS
<1>5. CASE UNCHANGED db /\ host' = Ended(h)
    BY <1>5, RefusedStep DEF Ended
<1>6. CASE /\ outcome = "idempotent" /\ UNCHANGED db
           /\ host' = Receipt(h, b, TipOf(c.lineage))
    <2>0. PICK g : g = TipOf(c.lineage)
        OBVIOUS
    <2>1. PICK e : e = ReceiptOf(h, g, b)
        OBVIOUS
    <2>2. \A s \in TipOf(c.lineage) : s \in Stored /\ TipOf(c.lineage) = {s}
        BY TipRecorded, TipIsNewest DEF Inv, Lineages, Stores
    <2>3. g \in SUBSET Ids
        BY <2>0, <2>2, RowTyped DEF Inv
    <2>4. /\ e \in HostState /\ e.op = host[h].op /\ e.pc = "answered"
          /\ e.got = g /\ e.bytes = b
        BY <2>1, <2>3, ReceiptTyped
    <2>5. \E s \in LoadCurrentSource(c.lineage) : SameCaptureBytes(c, s)
        BY <1>4, <1>6 DEF DecideCapture
    <2>6. c.bytes = b
        BY <1>3 DEF Prepare
    <2>7. \A s \in TipOf(c.lineage) : rows[s].bytes = b
        BY <2>2, <2>5, <2>6 DEF LoadCurrentSource, SameCaptureBytes
    <2>8. Knows(e)
        BY <1>1, <2>0, <2>2, <2>4, <2>7 DEF Knows
    <2> QED
        BY <1>6, <2>0, <2>1, <2>4, <2>8, ReadStep DEF Receipt, ReceiptOf
<1>7. CASE /\ outcome \notin {"idempotent", "refused"} /\ AdvanceLineageTipAllowed(c)
           /\ Len(rows) < MaxSources /\ InsertCaptureFacts(c, outcome)
           /\ host' = Receipt(h, b, {Len(rows) + 1})
    <2>1. c.bytes = b /\ Admitted(c, outcome)
        BY <1>1, <1>3, <1>4, <1>7, CaptureAdmitted
    <2>2. PICK n : n = Len(rows) + 1
        OBVIOUS
    <2>3. PICK e : e = ReceiptOf(h, {n}, b)
        OBVIOUS
    <2>4. {n} \in SUBSET Ids
        BY <1>7, <2>2, RowTyped, BoundsAssumption DEF Inv, Ids
    <2>5. e \in HostState /\ e.op = host[h].op /\ e.pc = "answered" /\ e.got = {n} /\ e.bytes = b
        BY <2>3, <2>4, ReceiptTyped
    <2>6. host' = [host EXCEPT ![h] = e]
        BY <1>7, <2>2, <2>3 DEF Receipt, ReceiptOf
    <2>7. host' \in [Hosts -> HostState]
        BY <2>5, <2>6 DEF Inv
    <2>8. TypeOK' /\ Lineages' /\ Stores'
        BY <1>7, <2>1, <2>7, CaptureTyped, CaptureKeepsLineages, CaptureKeepsStores
    <2>9. n \in Stored' /\ rows'[n].bytes = b
        BY <1>7, <2>1, <2>2, InsertedRow DEF Inv
    <2>10. Knows(e)'
        BY <1>1, <2>5, <2>9 DEF Knows
    <2>11. \A k \in Hosts : Knows(host[k])'
        <3> SUFFICES ASSUME NEW k \in Hosts PROVE Knows(host[k])'
            OBVIOUS
        <3>1. CASE k = h
            <4>1. host'[k] = e
                BY <2>6, <3>1 DEF Inv
            <4> QED
                BY <2>10, <4>1
        <3>2. CASE k # h
            <4>1. PICK d : d = host[k]
                OBVIOUS
            <4>2. host'[k] = d
                BY <2>6, <3>2, <4>1 DEF Inv
            <4>3. Knows(d)
                BY <4>1 DEF Inv
            <4>4. Knows(d)'
                BY <1>7, <2>1, <4>3, CaptureKeepsKnowledge
            <4> QED
                BY <4>2, <4>4
        <3> QED
            BY <3>1, <3>2
    <2> QED
        BY <2>7, <2>8, <2>11 DEF Inv
<1> QED
    BY <1>2, <1>3, <1>4, <1>5, <1>6, <1>7

-----------------------------------------------------------------------------
(* Deletion of a lineage *)

(* Closing and executing rewrite rows in place. *)
LEMMA RowsRewritten ==
    ASSUME TypeOK, NEW f \in [Stored -> Row], rows' = f
    PROVE  rows' \in Seq(Row) /\ Len(rows') = Len(rows) /\ Stored' = Stored
<1>1. Len(rows) \in Nat
    BY DEF TypeOK
<1>2. f \in [1..Len(rows) -> Row]
    BY DEF Stored
<1>3. f \in Seq(Row) /\ Len(f) = Len(rows)
    BY <1>1, <1>2
<1> QED
    BY <1>3 DEF Stored

(* A step that closes the lineage l, or works on a closed one: its rows T   *)
(* are not active afterwards, every other row and what belongs to it stays, *)
(* and a binding of l stays only while a row of l is pending or failed.     *)
Closes(l, T) ==
    /\ T = OfLineage(l) /\ T # {}
    /\ Stored' = Stored
    /\ \A s \in Stored : /\ rows'[s].lineage = rows[s].lineage
                         /\ rows'[s].version = rows[s].version
                         /\ rows'[s].supersedes = rows[s].supersedes
                         /\ rows'[s].bytes \in {rows[s].bytes, NoBytes}
    /\ \A s \in Stored \ T : /\ rows'[s] = rows[s]
                             /\ <<s, "active">> \in frags' <=> <<s, "active">> \in frags
                             /\ \A o : <<s, o>> \in audit => <<s, o>> \in audit'
    /\ \A s \in T : rows'[s].state # "active"
    /\ tips' = {t \in tips : t[2] \notin T}
    /\ recall' = recall \ T
    /\ bindings' \subseteq bindings
    /\ \A b \in bindings : b[2] # l => b \in bindings'
    /\ \A b \in bindings' : b[2] = l => \E s \in T : rows'[s].state \in {"pending", "failed"}

(* What such a step leaves of the lineages and of the active rows. *)
LEMMA ClosedRows ==
    ASSUME NEW l, NEW T, Closes(l, T)
    PROVE  /\ \A k : OfLineage(k)' = OfLineage(k)
           /\ \A s : IsActive(s)' <=> IsActive(s) /\ s \notin T
           /\ \A s \in Stored : HasNewer(s)' <=> HasNewer(s)
<1>1. \A k : OfLineage(k)' = OfLineage(k)
    BY DEF Closes, OfLineage
<1>2. \A s : IsActive(s)' <=> IsActive(s) /\ s \notin T
    <2>1. \A s \in T : s \in Stored
        BY DEF Closes, OfLineage
    <2> QED
        BY <2>1 DEF Closes, IsActive
<1>3. ASSUME NEW s \in Stored PROVE HasNewer(s)' <=> HasNewer(s)
    <2>1. PICK k : k = rows[s].lineage
        OBVIOUS
    <2>2. rows'[s].lineage = k /\ rows'[s].version = rows[s].version
        BY <2>1 DEF Closes
    <2>3. \A n \in OfLineage(k) : rows'[n].version = rows[n].version
        BY DEF Closes, OfLineage
    <2> QED
        BY <1>1, <2>1, <2>2, <2>3 DEF HasNewer
<1> QED
    BY <1>1, <1>2, <1>3

LEMMA ClosingKeepsLineages ==
    ASSUME Inv, NEW l, NEW T, Closes(l, T)
    PROVE  Lineages'
<1>1. /\ \A k : OfLineage(k)' = OfLineage(k)
      /\ \A s : IsActive(s)' <=> IsActive(s) /\ s \notin T
    BY ClosedRows
<1>2. /\ Stored' = Stored /\ T = OfLineage(l)
      /\ \A s \in Stored : /\ rows'[s].lineage = rows[s].lineage
                           /\ rows'[s].version = rows[s].version
                           /\ rows'[s].supersedes = rows[s].supersedes
      /\ tips' = {t \in tips : t[2] \notin T}
    BY DEF Closes
<1>3. Numbered /\ OneOfEach /\ Dense /\ Chained /\ AllOrNone /\ HasTip
    BY DEF Inv, Lineages
<1>4. Numbered' /\ OneOfEach'
    BY <1>2, <1>3 DEF Numbered, OneOfEach
<1>5. Dense'
    <2> SUFFICES ASSUME NEW s \in Stored, NEW m, m = rows[s].lineage, NEW k \in 1..rows[s].version
                 PROVE  \E t \in OfLineage(m)' : rows'[t].version = k
        BY <1>2 DEF Dense
    <2>1. PICK t \in OfLineage(m) : rows[t].version = k
        BY <1>3 DEF Dense
    <2>2. t \in Stored
        BY DEF OfLineage
    <2> QED
        BY <1>1, <1>2, <2>1, <2>2
<1>6. Chained'
    <2> SUFFICES ASSUME NEW s \in Stored, NEW m, m = rows[s].lineage
                 PROVE  IF rows[s].version = 1 THEN rows[s].supersedes = NoSource
                        ELSE /\ rows[s].supersedes \in OfLineage(m)'
                             /\ rows'[rows[s].supersedes].version = rows[s].version - 1
        BY <1>2 DEF Chained
    <2>1. rows[s].version # 1 => rows[s].supersedes \in Stored
        BY <1>3 DEF Chained, OfLineage
    <2> QED
        BY <1>1, <1>2, <1>3, <2>1 DEF Chained
<1>7. AllOrNone'
    <2>1. \A s, t \in Stored : rows[s].lineage = rows[t].lineage => (s \in T <=> t \in T)
        BY <1>2 DEF OfLineage
    <2> QED
        BY <1>1, <1>2, <1>3, <2>1 DEF AllOrNone
<1>8. HasTip'
    <2> SUFFICES ASSUME NEW s \in Stored, IsActive(s), s \notin T, NEW m, m = rows[s].lineage
                 PROVE  \E t \in OfLineage(m)' : <<m, t>> \in tips'
        BY <1>1, <1>2 DEF HasTip
    <2>1. PICK t \in OfLineage(m) : <<m, t>> \in tips
        BY <1>3 DEF HasTip
    <2>2. t \notin T
        BY <1>2 DEF OfLineage
    <2>3. <<m, t>>[2] = t
        OBVIOUS
    <2> QED
        BY <1>1, <1>2, <2>1, <2>2, <2>3
<1> QED
    BY <1>4, <1>5, <1>6, <1>7, <1>8 DEF Lineages

(* The checks at the end of the transaction find what they expect. *)
LEMMA ClosingKeepsStores ==
    ASSUME Inv, NEW l, NEW T, Closes(l, T)
    PROVE  Stores'
<1>1. /\ \A k : OfLineage(k)' = OfLineage(k)
      /\ \A s : IsActive(s)' <=> IsActive(s) /\ s \notin T
      /\ \A s \in Stored : HasNewer(s)' <=> HasNewer(s)
    BY ClosedRows
<1>2. /\ Stored' = Stored /\ T = OfLineage(l)
      /\ \A s \in Stored : /\ rows'[s].lineage = rows[s].lineage
                           /\ rows'[s].version = rows[s].version
      /\ \A s \in Stored \ T : rows'[s] = rows[s]
      /\ tips' = {t \in tips : t[2] \notin T} /\ recall' = recall \ T
    BY DEF Closes
<1>3. VerifyDerived /\ VerifyOriginBindingRows /\ \A s \in Stored : IsActive(s) => CaptureVerifies(s)
    BY DEF Inv, Stores, VerifyOriginBindings
<1>4. tips' = ExpectedTips'
    <2>1. ExpectedTips' = {<<rows[s].lineage, s>> : s \in {t \in Stored : IsActive(t) /\ t \notin T /\ ~HasNewer(t)}}
        BY <1>1, <1>2 DEF ExpectedTips
    <2>2. tips = {<<rows[s].lineage, s>> : s \in {t \in Stored : IsActive(t) /\ ~HasNewer(t)}}
        BY <1>3 DEF VerifyDerived, ExpectedTips
    <2> QED
        BY <1>2, <2>1, <2>2
<1>5. recall' = ExpectedRecall'
    <2>1. \A s : s \in recall <=> s \in Stored /\ <<rows[s].lineage, s>> \in tips /\ <<s, "active">> \in frags
        BY <1>3 DEF VerifyDerived, ExpectedRecall, FragmentsComplete
    <2>2. \A s : s \in ExpectedRecall' <=>
             s \in Stored /\ <<rows[s].lineage, s>> \in tips' /\ <<s, "active">> \in frags'
        BY <1>2, <1>4 DEF ExpectedRecall, FragmentsComplete
    <2>3. \A s \in Stored : <<rows[s].lineage, s>> \in tips' <=> <<rows[s].lineage, s>> \in tips /\ s \notin T
        BY <1>2
    <2>4. \A s \in Stored \ T : <<s, "active">> \in frags' <=> <<s, "active">> \in frags
        BY DEF Closes
    <2> QED
        BY <1>2, <2>1, <2>2, <2>3, <2>4
<1>6. VerifyOriginBindingRows'
    <2>1. ASSUME NEW t \in Stored
          PROVE  /\ IsActive(t)' => t \notin T /\ rows'[t] = rows[t] /\ rows[t].lineage # l
                 /\ ~HasNewer(t)' <=> ~HasNewer(t)
        BY <1>1, <1>2 DEF OfLineage
    <2>2. ExpectedBindings' \subseteq bindings'
        <3> SUFFICES ASSUME NEW t \in Stored, IsActive(t)', rows'[t].origin # NoSource, ~HasNewer(t)'
                     PROVE  <<rows'[t].origin, rows'[t].lineage>> \in bindings'
            BY <1>2 DEF ExpectedBindings
        <3>1. rows'[t] = rows[t] /\ rows[t].lineage # l
            BY <2>1
        <3>2. <<rows[t].origin, rows[t].lineage>> \in ExpectedBindings
            BY <1>1, <2>1, <3>1 DEF ExpectedBindings
        <3>3. <<rows[t].origin, rows[t].lineage>> \in bindings
            BY <1>3, <3>2 DEF VerifyOriginBindingRows
        <3>4. <<rows[t].origin, rows[t].lineage>>[2] # l
            BY <3>1
        <3> QED
            BY <3>1, <3>3, <3>4 DEF Closes
    <2>3. ASSUME NEW b \in bindings' \ ExpectedBindings'
          PROVE  BelongsToClosedPlan(b)'
        <3>1. CASE b[2] = l
            <4>1. PICK s \in T : rows'[s].state \in {"pending", "failed"}
                BY <3>1 DEF Closes
            <4> QED
                BY <1>1, <1>2, <3>1, <4>1 DEF BelongsToClosedPlan
        <3>2. CASE b[2] # l
            <4>1. b \in bindings
                BY DEF Closes
            <4>2. b \notin ExpectedBindings
                <5> SUFFICES ASSUME NEW t \in Stored, IsActive(t), rows[t].origin # NoSource, ~HasNewer(t),
                                    b = <<rows[t].origin, rows[t].lineage>>
                             PROVE  FALSE
                    BY DEF ExpectedBindings
                <5>1. rows[t].lineage # l
                    BY <3>2
                <5>2. t \notin T
                    BY <1>2, <5>1 DEF OfLineage
                <5> QED
                    BY <1>1, <1>2, <5>2 DEF ExpectedBindings
            <4>3. PICK s \in OfLineage(b[2]) : rows[s].state \in {"pending", "failed"}
                BY <1>3, <4>1, <4>2 DEF VerifyOriginBindingRows, BelongsToClosedPlan
            <4>4. s \in Stored \ T
                BY <1>2, <3>2 DEF OfLineage
            <4> QED
                BY <1>1, <1>2, <4>3, <4>4 DEF BelongsToClosedPlan
        <3> QED
            BY <3>1, <3>2
    <2> QED
        BY <2>2, <2>3 DEF VerifyOriginBindingRows
<1>7. ASSUME NEW t \in Stored, IsActive(t)' PROVE CaptureVerifies(t)'
    <2>1. IsActive(t) /\ t \notin T /\ rows'[t] = rows[t] /\ CaptureVerifies(t)
        BY <1>1, <1>2, <1>3, <1>7
    <2>2. SupersededStored(t)'
        <3>1. PICK m : m = rows[t].lineage
            OBVIOUS
        <3>2. rows[t].supersedes # NoSource =>
                 rows[t].supersedes \in OfLineage(m) /\ rows[rows[t].supersedes].version < rows[t].version
            BY <2>1, <3>1 DEF CaptureVerifies, LoadSource, SupersededStored
        <3>3. rows[t].supersedes # NoSource => rows[t].supersedes \in Stored
            BY <3>2 DEF OfLineage
        <3> QED
            BY <1>1, <1>2, <2>1, <3>1, <3>2, <3>3 DEF SupersededStored
    <2>3. LoadSource(t)'
        BY <1>7, <2>1, <2>2 DEF CaptureVerifies, LoadSource, Decodes
    <2>4. ValidateExistingCapture(rows[t].origin, t)'
        BY <2>1 DEF CaptureVerifies, ValidateExistingCapture, FragmentsComplete, Closes
    <2> QED
        BY <2>1, <2>3, <2>4 DEF CaptureVerifies
<1> QED
    BY <1>2, <1>4, <1>5, <1>6, <1>7 DEF Stores, VerifyDerived, VerifyOriginBindings

(* What a host relies on survives the deletion of any lineage. *)
LEMMA ClosingKeepsKnowledge ==
    ASSUME NEW l, NEW T, Closes(l, T), NEW e, Knows(e)
    PROVE  Knows(e)'
<1>1. /\ \A k : OfLineage(k)' = OfLineage(k)
      /\ \A s : IsActive(s)' <=> IsActive(s) /\ s \notin T
    BY ClosedRows
<1>2. Stored' = Stored /\ \A s \in Stored : rows'[s].bytes \in {rows[s].bytes, NoBytes}
    BY DEF Closes
<1> QED
    BY <1>1, <1>2 DEF Knows

(* The targets of an accepted delete request are the whole lineage. *)
LEMMA TargetsAreWhole ==
    ASSUME Inv, NEW T, NEW l, ValidateTargets(T, l)
    PROVE  T = OfLineage(l) /\ T # {} /\ T \subseteq Stored /\ \A s \in T : IsActive(s)
<1>1. T # {} /\ T = ActiveOf(l) /\ \A s \in T : IsActive(s)
    BY DEF ValidateTargets
<1>2. PICK s \in T : TRUE
    BY <1>1
<1>3. s \in OfLineage(l) /\ IsActive(s)
    BY <1>1, <1>2 DEF ActiveOf
<1>4. \A t \in OfLineage(l) : IsActive(t)
    BY <1>3 DEF Inv, Lineages, AllOrNone, OfLineage
<1> QED
    BY <1>1, <1>4 DEF ActiveOf, OfLineage, IsActive

LEMMA RequestCloses ==
    ASSUME Inv, NEW T, NEW l, ValidateTargets(T, l), CloseTargetsToRecall(T), UNCHANGED <<bindings, audit>>
    PROVE  /\ Closes(l, T)
           /\ rows' \in Seq(Row) /\ Len(rows') = Len(rows)
           /\ frags' \subseteq Ids \X DeletionStates
<1>1. T = OfLineage(l) /\ T # {} /\ T \subseteq Stored /\ \A s \in T : IsActive(s)
    BY TargetsAreWhole
<1>2. PICK f : f = [s \in Stored |-> IF s \in T THEN [rows[s] EXCEPT !.state = "pending"] ELSE rows[s]]
    OBVIOUS
<1>3. rows' = f
    BY <1>2 DEF CloseTargetsToRecall
<1>4. /\ \A s \in T : /\ f[s] \in Row
                      /\ f[s].lineage = rows[s].lineage /\ f[s].version = rows[s].version
                      /\ f[s].supersedes = rows[s].supersedes /\ f[s].bytes = rows[s].bytes
                      /\ f[s].state = "pending"
      /\ \A s \in Stored \ T : f[s] = rows[s]
    <2>1. \A s \in Stored : rows[s] \in Row
        BY RowTyped DEF Inv
    <2>2. ASSUME NEW r \in Row
          PROVE  /\ [r EXCEPT !.state = "pending"] \in Row
                 /\ [r EXCEPT !.state = "pending"].lineage = r.lineage
                 /\ [r EXCEPT !.state = "pending"].version = r.version
                 /\ [r EXCEPT !.state = "pending"].supersedes = r.supersedes
                 /\ [r EXCEPT !.state = "pending"].bytes = r.bytes
                 /\ [r EXCEPT !.state = "pending"].state = "pending"
        BY DEF Row, DeletionStates
    <2> QED
        BY <1>1, <1>2, <2>1, <2>2
<1>5. f \in [Stored -> Row]
    BY <1>1, <1>2, <1>4, RowTyped DEF Inv
<1>6. rows' \in Seq(Row) /\ Len(rows') = Len(rows) /\ Stored' = Stored
    BY <1>3, <1>5, RowsRewritten DEF Inv
<1>7. /\ tips' = {t \in tips : t[2] \notin T} /\ recall' = recall \ T
      /\ frags' = {x \in frags : x[1] \notin T} \cup {<<s, "pending">> : s \in T}
    BY DEF CloseTargetsToRecall
<1>8. frags' \subseteq Ids \X DeletionStates
    BY <1>1, <1>7, RowTyped DEF Inv, TypeOK, DeletionStates
<1>9. \A s \in Stored \ T : <<s, "active">> \in frags' <=> <<s, "active">> \in frags
    BY <1>7
<1>10. \A s \in T : rows'[s].state \in {"pending", "failed"} /\ rows'[s].state # "active"
    BY <1>3, <1>4
<1>11. \A s \in Stored : /\ rows'[s].lineage = rows[s].lineage
                         /\ rows'[s].version = rows[s].version
                         /\ rows'[s].supersedes = rows[s].supersedes
                         /\ rows'[s].bytes \in {rows[s].bytes, NoBytes}
    BY <1>3, <1>4
<1>12. \A s \in Stored \ T : rows'[s] = rows[s]
    BY <1>3, <1>4
<1>13. Closes(l, T)
    BY <1>1, <1>6, <1>7, <1>9, <1>10, <1>11, <1>12 DEF Closes
<1> QED
    BY <1>6, <1>8, <1>13

(* A deletion step of one host keeps the invariant. *)
LEMMA ClosingStep ==
    ASSUME Inv, NEW h \in Hosts, NEW e \in HostState, host' = [host EXCEPT ![h] = e], Knows(e)',
           NEW l, NEW T, Closes(l, T),
           rows' \in Seq(Row), Len(rows') = Len(rows),
           frags' \subseteq Ids \X DeletionStates, audit' \subseteq audit
    PROVE  Inv'
<1>1. Lineages' /\ Stores'
    BY ClosingKeepsLineages, ClosingKeepsStores
<1>2. host' \in [Hosts -> HostState]
    BY DEF Inv
<1>3. TypeOK'
    <2>1. TypeOK /\ Len(rows') <= MaxSources
        BY DEF Inv, TypeOK
    <2>2. tips' \subseteq tips /\ recall' \subseteq recall /\ bindings' \subseteq bindings
        BY DEF Closes
    <2>3. \A k \in Hosts : host'[k].current \in Ids \cup {NoSource}
        BY <1>2, HostTyped
    <2>4. /\ tips' \subseteq Ids \X Ids /\ bindings' \subseteq Ids \X Ids
          /\ audit' \subseteq Ids \X {"created", "versioned"} /\ recall' \subseteq Ids
        BY <2>1, <2>2 DEF TypeOK
    <2> QED
        BY <2>1, <2>3, <2>4 DEF TypeOK, Ids, Row, DeletionStates
<1>4. ASSUME NEW k \in Hosts PROVE Knows(host[k])'
    <2>1. CASE k = h
        <3>1. host'[k] = e
            BY <2>1 DEF Inv
        <3> QED
            BY <3>1
    <2>2. CASE k # h
        <3>1. PICK d : d = host[k]
            OBVIOUS
        <3>2. host'[k] = d /\ Knows(d)
            BY <2>2, <3>1 DEF Inv
        <3>3. Knows(d)'
            BY <3>2, ClosingKeepsKnowledge
        <3> QED
            BY <3>2, <3>3
    <2> QED
        BY <2>1, <2>2
<1> QED
    BY <1>1, <1>2, <1>3, <1>4 DEF Inv

LEMMA StoreDeleteRequestStep ==
    ASSUME Inv, NEW h \in Hosts, StoreDeleteRequest(h) PROVE Inv'
<1>1. host \in [Hosts -> HostState] /\ host[h].pc = "store" /\ Knows(host[h]) /\ host[h] \in HostState
    BY DEF StoreDeleteRequest, Inv
<1>2. CASE ~ValidateTargets(host[h].todo, host[h].lineage)
    BY <1>2, RefusedStep DEF StoreDeleteRequest, Ended
<1>3. CASE ValidateTargets(host[h].todo, host[h].lineage)
    <2>1. PICK T : T = host[h].todo
        OBVIOUS
    <2>2. PICK l : l = host[h].lineage
        OBVIOUS
    <2>3. PICK e : e = [host[h] EXCEPT !.pc = "execute"]
        OBVIOUS
    <2>4. /\ ValidateTargets(T, l) /\ CloseTargetsToRecall(T) /\ UNCHANGED <<bindings, audit>>
          /\ host' = [host EXCEPT ![h].pc = "execute"]
        BY <1>3, <2>1, <2>2 DEF StoreDeleteRequest
    <2>5. /\ Closes(l, T) /\ rows' \in Seq(Row) /\ Len(rows') = Len(rows)
          /\ frags' \subseteq Ids \X DeletionStates
        BY <2>4, RequestCloses
    <2>6. /\ e \in HostState /\ e.pc = "execute" /\ e.todo = T /\ e.lineage = l
          /\ e.op = host[h].op /\ e.got = host[h].got
        BY <1>1, <2>1, <2>2, <2>3 DEF HostState, Pcs
    <2>7. host' = [host EXCEPT ![h] = e]
        BY <1>1, <2>3, <2>4
    <2>8. Knows(e)'
        <3>1. /\ \A k : OfLineage(k)' = OfLineage(k)
              /\ \A s : IsActive(s)' <=> IsActive(s) /\ s \notin T
            BY <2>5, ClosedRows
        <3>2. T = OfLineage(l) /\ T # {}
            BY <2>5 DEF Closes
        <3> QED
            BY <1>1, <2>6, <3>1, <3>2 DEF Knows
    <2>9. audit' \subseteq audit
        BY <2>4
    <2> QED
        BY <2>5, <2>6, <2>7, <2>8, <2>9, ClosingStep
<1> QED
    BY <1>2, <1>3

(* One executed row. *)
Executed(r, failed) ==
    [r EXCEPT !.state = FinalState(failed),
              !.bytes = IF "SourceBody" \in failed THEN @ ELSE NoBytes,
              !.origin = IF "SourceMetadata" \in failed THEN @ ELSE NoSource]

LEMMA ExecutedRow ==
    ASSUME NEW r \in Row, NEW failed
    PROVE  /\ Executed(r, failed) \in Row
           /\ Executed(r, failed).lineage = r.lineage
           /\ Executed(r, failed).version = r.version
           /\ Executed(r, failed).supersedes = r.supersedes
           /\ Executed(r, failed).bytes \in {r.bytes, NoBytes}
           /\ Executed(r, failed).state = FinalState(failed)
<1>1. FinalState(failed) \in DeletionStates
    BY DEF FinalState, DeletionStates
<1> QED
    BY <1>1 DEF Executed, Row

LEMMA ExecutionCloses ==
    ASSUME Inv, NEW h \in Hosts, NEW failed \in SUBSET Components, ExecuteDeletion(h, failed)
    PROVE  /\ Closes(host[h].lineage, host[h].todo)
           /\ rows' \in Seq(Row) /\ Len(rows') = Len(rows)
           /\ frags' \subseteq Ids \X DeletionStates /\ audit' \subseteq audit
<1>1. host \in [Hosts -> HostState] /\ host[h].pc = "execute" /\ Knows(host[h])
    BY DEF ExecuteDeletion, Inv
<1>2. PICK T : T = host[h].todo
    OBVIOUS
<1>3. PICK l : l = host[h].lineage
    OBVIOUS
<1>4. T = OfLineage(l) /\ T # {} /\ T \subseteq Stored /\ \A s \in T : ~IsActive(s)
    BY <1>1, <1>2, <1>3 DEF Knows, OfLineage
<1>5. PICK f : f = [s \in Stored |-> IF s \notin T THEN rows[s] ELSE Executed(rows[s], failed)]
    OBVIOUS
<1>6. rows' = f
    BY <1>2, <1>5 DEF ExecuteDeletion, Executed
<1>7. /\ \A s \in T : /\ f[s] \in Row
                      /\ f[s].lineage = rows[s].lineage /\ f[s].version = rows[s].version
                      /\ f[s].supersedes = rows[s].supersedes /\ f[s].bytes \in {rows[s].bytes, NoBytes}
                      /\ f[s].state = FinalState(failed)
      /\ \A s \in Stored \ T : f[s] = rows[s]
    <2>1. \A s \in Stored : rows[s] \in Row
        BY RowTyped DEF Inv
    <2> QED
        BY <1>4, <1>5, <2>1, ExecutedRow
<1>8. f \in [Stored -> Row]
    BY <1>4, <1>5, <1>7, RowTyped DEF Inv
<1>9. rows' \in Seq(Row) /\ Len(rows') = Len(rows) /\ Stored' = Stored
    BY <1>6, <1>8, RowsRewritten DEF Inv
<1>10. /\ frags' = {x \in frags : "SourceFragment" \in failed \/ x[1] \notin T}
       /\ UNCHANGED <<tips, recall>> /\ host' = [host EXCEPT ![h] = Idle]
       /\ IF "MinimalAudit" \in failed THEN UNCHANGED <<bindings, audit>>
          ELSE /\ audit' = {a \in audit : a[1] \notin T}
               /\ bindings' = {b \in bindings : b[2] # l}
    BY <1>2, <1>3, <1>4 DEF ExecuteDeletion, PurgeSourceEntryState
<1>11. tips' = {t \in tips : t[2] \notin T} /\ recall' = recall \ T
    <2>1. \A t \in tips : IsActive(t[2])
        BY DEF Inv, Stores, VerifyDerived, ExpectedTips
    <2>2. \A s \in recall : IsActive(s)
        BY DEF Inv, Stores, VerifyDerived, ExpectedRecall, ExpectedTips
    <2> QED
        BY <1>4, <1>10, <2>1, <2>2
<1>12. /\ audit' \subseteq audit
       /\ \A s \in Stored \ T : \A o : <<s, o>> \in audit => <<s, o>> \in audit'
    BY <1>10
<1>13. /\ bindings' \subseteq bindings /\ \A b \in bindings : b[2] # l => b \in bindings'
       /\ \A b \in bindings' : b[2] = l => \E s \in T : rows'[s].state \in {"pending", "failed"}
    <2>1. CASE "MinimalAudit" \in failed
        <3>1. FinalState(failed) = "pending"
            BY <2>1 DEF FinalState
        <3> QED
            BY <1>4, <1>6, <1>7, <1>10, <2>1, <3>1
    <2>2. CASE "MinimalAudit" \notin failed
        BY <1>10, <2>2
    <2> QED
        BY <2>1, <2>2
<1>14. \A s \in T : rows'[s].state # "active"
    BY <1>6, <1>7 DEF FinalState
<1>15. \A s \in Stored \ T : <<s, "active">> \in frags' <=> <<s, "active">> \in frags
    BY <1>10
<1>16. \A s \in Stored : /\ rows'[s].lineage = rows[s].lineage
                         /\ rows'[s].version = rows[s].version
                         /\ rows'[s].supersedes = rows[s].supersedes
                         /\ rows'[s].bytes \in {rows[s].bytes, NoBytes}
    BY <1>6, <1>7
<1>17. \A s \in Stored \ T : rows'[s] = rows[s]
    BY <1>6, <1>7
<1>18. Closes(l, T)
    BY <1>4, <1>9, <1>11, <1>12, <1>13, <1>14, <1>15, <1>16, <1>17 DEF Closes
<1>19. frags' \subseteq Ids \X DeletionStates
    BY <1>10 DEF Inv, TypeOK
<1> QED
    BY <1>2, <1>3, <1>9, <1>12, <1>18, <1>19

LEMMA ExecuteDeletionStep ==
    ASSUME Inv, NEW h \in Hosts, NEW failed \in SUBSET Components, ExecuteDeletion(h, failed)
    PROVE  Inv'
<1>1. Knows(Idle)' /\ Idle \in HostState
    BY IdleKnows DEF Idle, Knows
<1>2. host' = [host EXCEPT ![h] = Idle]
    BY DEF ExecuteDeletion
<1> QED
    BY <1>1, <1>2, ExecutionCloses, ClosingStep

-----------------------------------------------------------------------------
(* The invariant *)

LEMMA InitInv == Init => Inv
<1> SUFFICES ASSUME Init PROVE Inv
    OBVIOUS
<1>1. rows = <<>> /\ Stored = {} /\ Len(rows) = 0
    BY DEF Init, Stored
<1>2. /\ tips = {} /\ bindings = {} /\ audit = {} /\ frags = {} /\ recall = {}
      /\ host = [h \in Hosts |-> Idle]
    BY DEF Init
<1>3. host \in [Hosts -> HostState] /\ \A h \in Hosts : Knows(host[h])
    BY <1>2, IdleKnows
<1>4. TypeOK
    <2>1. rows \in Seq(Row) /\ Len(rows) <= MaxSources
        BY <1>1, BoundsAssumption
    <2>2. \A h \in Hosts : host[h].current \in Ids \cup {NoSource}
        BY <1>3, HostTyped
    <2> QED
        BY <1>2, <2>1, <2>2 DEF TypeOK
<1>5. Lineages
    BY <1>1 DEF Lineages, Numbered, OneOfEach, Dense, Chained, AllOrNone, HasTip
<1>6. Stores
    BY <1>1, <1>2 DEF Stores, VerifyDerived, ExpectedTips, ExpectedRecall, VerifyOriginBindings,
                      VerifyOriginBindingRows, ExpectedBindings
<1> QED
    BY <1>3, <1>4, <1>5, <1>6 DEF Inv

LEMMA StutterInv == ASSUME Inv, UNCHANGED vars PROVE Inv'
<1>1. UNCHANGED db /\ host' = host
    BY DEF vars, db
<1>2. CASE Hosts = {}
    BY <1>2, HostsAssumption
<1>3. CASE Hosts # {}
    <2>1. PICK h \in Hosts : TRUE
        BY <1>3
    <2>2. host' \in [Hosts -> HostState] /\ Knows(host'[h])
        BY <1>1 DEF Inv
    <2> QED
        BY <1>1, <2>2, MoveOn
<1> QED
    BY <1>2, <1>3

LEMMA NextInv == Inv /\ [Next]_vars => Inv'
<1> SUFFICES ASSUME Inv, [Next]_vars PROVE Inv'
    OBVIOUS
<1>1. CASE UNCHANGED vars
    BY <1>1, StutterInv
<1>2. CASE Next
    <2>1. PICK h \in Hosts :
             \/ StartImport(h)
             \/ StartRead(h, "list", NoSource)
             \/ \E op \in {"update", "versions", "delete"}, l \in {rows[s].lineage : s \in Stored} :
                  StartRead(h, op, l)
             \/ ReadActualBindings(h) \/ ReadExtraBinding(h) \/ ReadActiveCapture(h)
             \/ ResolveSourceLineage(h) \/ LoadResolvedSource(h)
             \/ CaptureSource(h) \/ CaptureRollsBack(h)
             \/ ListTips(h) \/ ListSummary(h) \/ CountVersions(h)
             \/ ReadTip(h) \/ ReadVersions(h) \/ LoadVersion(h)
             \/ StartSearch(h) \/ VerifyCatalog(h) \/ MatchRecall(h) \/ CiteHit(h)
             \/ StoreDeleteRequest(h)
             \/ \E failed \in {c \in SUBSET Components : Cardinality(c) <= MaxFailed} : ExecuteDeletion(h, failed)
             \/ Crash(h)
        BY <1>2 DEF Next
    <2>2. CASE StartImport(h)
        BY <2>2, StartImportStep
    <2>3. CASE StartRead(h, "list", NoSource)
        BY <2>3, StartReadStep
    <2>10. CASE \E op \in {"update", "versions", "delete"}, l \in {rows[s].lineage : s \in Stored} :
                   StartRead(h, op, l)
        <3>1. \A s \in Stored : rows[s].lineage \in Ids
            BY RowTyped DEF Inv
        <3> QED
            BY <2>10, <3>1, StartReadStep
    <2>4. CASE ReadActualBindings(h) \/ ReadExtraBinding(h) \/ ReadActiveCapture(h)
        BY <2>4, ReadActualBindingsStep, ReadExtraBindingStep, ReadActiveCaptureStep
    <2>5. CASE ResolveSourceLineage(h) \/ LoadResolvedSource(h)
        BY <2>5, ResolveStep, LoadResolvedStep
    <2>6. CASE CaptureSource(h)
        BY <2>6, CaptureSourceStep
    <2>7. CASE CaptureRollsBack(h)
        BY <2>7, RefusedStep DEF CaptureRollsBack, Ended
    <2>8. CASE ListTips(h) \/ ListSummary(h) \/ CountVersions(h)
               \/ ReadTip(h) \/ ReadVersions(h) \/ LoadVersion(h)
        BY <2>8, ListTipsStep, ListSummaryStep, CountVersionsStep, ReadTipStep, ReadVersionsStep,
           LoadVersionStep
    <2>9. CASE StartSearch(h) \/ VerifyCatalog(h) \/ MatchRecall(h) \/ CiteHit(h)
        BY <2>9, StartSearchStep, VerifyCatalogStep, MatchRecallStep, CiteHitStep
    <2>11. CASE StoreDeleteRequest(h)
        BY <2>11, StoreDeleteRequestStep
    <2>12. CASE \E failed \in {c \in SUBSET Components : Cardinality(c) <= MaxFailed} : ExecuteDeletion(h, failed)
        BY <2>12, ExecuteDeletionStep
    <2>13. CASE Crash(h)
        BY <2>13, RefusedStep DEF Crash
    <2> QED
        BY <2>1, <2>2, <2>3, <2>4, <2>5, <2>6, <2>7, <2>8, <2>9, <2>10, <2>11, <2>12, <2>13
<1> QED
    BY <1>1, <1>2

(* Whatever the hosts do and wherever they stop, every committed state of   *)
(* the library keeps Inv.                                                   *)
THEOREM LocalInvariance == Spec => []Inv
    BY InitInv, NextInv, PTL DEF Spec

-----------------------------------------------------------------------------
(* What the invariant says of whole lineages *)

(* The versions of a lineage with a tip are exactly 1..n, n the version of  *)
(* the tip, and n is how many rows it has: the rows are in bijection with   *)
(* their versions.                                                          *)
LEMMA LineageCounted ==
    ASSUME Inv, NEW l, NEW s, <<l, s>> \in tips
    PROVE  /\ s \in ActiveOf(l) /\ ActiveOf(l) = OfLineage(l)
           /\ {rows[t].version : t \in ActiveOf(l)} = 1..rows[s].version
           /\ Cardinality(ActiveOf(l)) = rows[s].version
           /\ TipOf(l) = {s} /\ ~HasNewer(s)
<1>1. /\ s \in Stored /\ IsActive(s) /\ rows[s].lineage = l /\ ~HasNewer(s)
      /\ TipOf(l) = {s}
    BY TipIsNewest DEF Inv, Lineages, Stores
<1>2. s \in OfLineage(l) /\ \A t \in OfLineage(l) : t \in Stored /\ rows[t].lineage = l /\ IsActive(t)
    BY <1>1 DEF OfLineage, Inv, Lineages, AllOrNone
<1>3. ActiveOf(l) = OfLineage(l)
    BY <1>2 DEF ActiveOf, IsActive
<1>4. \A t \in OfLineage(l) : rows[t].version \in Nat /\ rows[t].version >= 1
    BY <1>2, RowTyped DEF Inv, Ids
<1>5. \A t \in OfLineage(l) : rows[t].version \in 1..rows[s].version
    <2>1. \A t \in OfLineage(l) : ~(rows[t].version > rows[s].version)
        BY <1>1 DEF HasNewer
    <2> QED
        BY <1>2, <1>4, <2>1
<1>6. \A k \in 1..rows[s].version : \E t \in OfLineage(l) : rows[t].version = k
    BY <1>1 DEF Inv, Lineages, Dense
<1>7. {rows[t].version : t \in OfLineage(l)} = 1..rows[s].version
    BY <1>5, <1>6
<1>8. \A t, u \in OfLineage(l) : rows[t].version = rows[u].version => t = u
    BY <1>2 DEF Inv, Lineages, OneOfEach
<1>9. PICK f : f = [t \in OfLineage(l) |-> rows[t].version]
    OBVIOUS
<1>10. f \in Bijection(OfLineage(l), 1..rows[s].version)
    <2>1. f \in [OfLineage(l) -> 1..rows[s].version]
        BY <1>5, <1>9
    <2>2. \A t, u \in OfLineage(l) : f[t] = f[u] => t = u
        BY <1>8, <1>9
    <2>3. \A k \in 1..rows[s].version : \E t \in OfLineage(l) : f[t] = k
        BY <1>6, <1>9
    <2> QED
        BY <2>1, <2>2, <2>3 DEF Bijection, Injection, Surjection, IsInjective
<1>11. IsFiniteSet(OfLineage(l))
    <2>1. IsFiniteSet(1..Len(rows))
        BY FS_Interval, RowTyped DEF Inv
    <2>2. OfLineage(l) \in SUBSET (1..Len(rows))
        BY DEF OfLineage, Stored
    <2> QED
        BY <2>1, <2>2, FS_Subset
<1>12. Cardinality(OfLineage(l)) = Cardinality(1..rows[s].version)
    <2>1. ExistsBijection(OfLineage(l), 1..rows[s].version)
        BY <1>10 DEF ExistsBijection
    <2> QED
        BY <1>11, <2>1, FS_Bijection
<1>13. Cardinality(1..rows[s].version) = rows[s].version
    BY <1>2, <1>4, FS_Interval
<1> QED
    BY <1>1, <1>2, <1>3, <1>7, <1>12, <1>13

(* The library's own checks and its lineages, from the invariant. *)
LEMMA InvSound == Inv => LibrarySound
<1> SUFFICES ASSUME Inv PROVE LibrarySound
    OBVIOUS
<1>1. LineageWhole
    <2> SUFFICES ASSUME NEW r \in Stored, NEW l, l = rows[r].lineage
                 PROVE  IF ActiveOf(l) = {} THEN TipOf(l) = {}
                        ELSE /\ ActiveOf(l) = OfLineage(l)
                             /\ {rows[s].version : s \in ActiveOf(l)} = 1..Cardinality(ActiveOf(l))
                             /\ \A s \in ActiveOf(l) : rows[s].version > 1 =>
                                   /\ rows[s].supersedes \in ActiveOf(l)
                                   /\ rows[rows[s].supersedes].version = rows[s].version - 1
                             /\ \E s \in ActiveOf(l) : TipOf(l) = {s} /\ ~HasNewer(s)
                             /\ \E b \in bindings : b[2] = l
        BY DEF LineageWhole
    <2>1. CASE ActiveOf(l) = {}
        <3>1. \A s \in TipOf(l) : s \in ActiveOf(l)
            BY TipRecorded, LineageCounted DEF Inv
        <3> QED
            BY <2>1, <3>1
    <2>2. CASE ActiveOf(l) # {}
        <3>1. PICK a \in ActiveOf(l) : TRUE
            BY <2>2
        <3>2. a \in Stored /\ IsActive(a) /\ rows[a].lineage = l
            BY <3>1 DEF ActiveOf, OfLineage, IsActive
        <3>3. PICK t : <<l, t>> \in tips
            BY <3>2 DEF Inv, Lineages, HasTip
        <3>4. /\ t \in ActiveOf(l) /\ ActiveOf(l) = OfLineage(l)
              /\ {rows[s].version : s \in ActiveOf(l)} = 1..rows[t].version
              /\ Cardinality(ActiveOf(l)) = rows[t].version
              /\ TipOf(l) = {t} /\ ~HasNewer(t)
            BY <3>3, LineageCounted
        <3>5. \A s \in ActiveOf(l) : rows[s].version > 1 =>
                 /\ rows[s].supersedes \in ActiveOf(l)
                 /\ rows[rows[s].supersedes].version = rows[s].version - 1
            <4>1. \A s \in OfLineage(l) : s \in Stored /\ rows[s].lineage = l
                BY DEF OfLineage
            <4> QED
                BY <3>4, <4>1 DEF Inv, Lineages, Chained
        <3>6. \E b \in bindings : b[2] = l
            <4>1. t \in Stored /\ IsActive(t) /\ rows[t].lineage = l
                BY <3>4 DEF ActiveOf, OfLineage, IsActive
            <4>2. rows[t].origin # NoSource
                BY <4>1 DEF Inv, Stores, VerifyOriginBindings, CaptureVerifies
            <4>3. <<rows[t].origin, rows[t].lineage>> \in ExpectedBindings
                BY <3>4, <4>1, <4>2 DEF ExpectedBindings
            <4>4. <<rows[t].origin, rows[t].lineage>> \in bindings
                BY <4>3 DEF Inv, Stores, VerifyOriginBindings, VerifyOriginBindingRows
            <4> QED
                BY <4>1, <4>4
        <3> QED
            BY <2>2, <3>4, <3>5, <3>6
    <2> QED
        BY <2>1, <2>2
<1>2. LibraryReadable
    <2>1. VerifyDerived /\ VerifyOriginBindings
        BY DEF Inv, Stores
    <2>2. ASSUME NEW u \in tips
          PROVE  LoadSource(u[2]) /\ VersionsCounted(u[2]) /\ VersionsOk(ActiveOf(u[1]), u[2])
        <3>1. <<u[1], u[2]>> \in tips
            BY DEF Inv, TypeOK
        <3>2. /\ u[2] \in ActiveOf(u[1])
              /\ {rows[t].version : t \in ActiveOf(u[1])} = 1..rows[u[2]].version
              /\ Cardinality(ActiveOf(u[1])) = rows[u[2]].version
            BY <3>1, LineageCounted
        <3>3. u[2] \in Stored /\ IsActive(u[2]) /\ rows[u[2]].lineage = u[1]
            BY <3>2 DEF ActiveOf, OfLineage, IsActive
        <3>4. LoadSource(u[2])
            BY <2>1, <3>3 DEF VerifyOriginBindings, CaptureVerifies
        <3> QED
            BY <3>2, <3>3, <3>4 DEF VersionsCounted, VersionsOk
    <2> QED
        BY <2>1, <2>2 DEF LibraryReadable
<1> QED
    BY <1>1, <1>2 DEF LibrarySound, Inv

(* Whatever captures, updates and deletions several hosts interleave, and   *)
(* wherever one of them stops, the stored library is whole: every open      *)
(* lineage is numbered 1..n with the newest version as its tip and a        *)
(* binding, a closed one is closed as a whole, and every check of the       *)
(* catalog and of capture_source succeeds on it (source_capture.rs,         *)
(* source_catalog.rs, deletion_store.rs).                                   *)
THEOREM LibraryAlwaysSound == Spec => []LibrarySound
    BY LocalInvariance, InvSound, PTL

(* A capture receipt names a version with the bytes the host read from the  *)
(* file, even after other hosts' captures and deletions (capture_source).   *)
THEOREM ReceiptsAreAlwaysTrue == Spec => []ReceiptIsTrue
<1>1. Inv => ReceiptIsTrue
    BY DEF Inv, Knows, ReceiptIsTrue
<1> QED
    BY <1>1, LocalInvariance, PTL

-----------------------------------------------------------------------------
(* What a step does to the rows *)

(* A step leaves the rows alone, stores an admitted capture or closes a     *)
(* lineage.                                                                 *)
LEMMA RowSteps ==
    ASSUME Inv, Next
    PROVE  \/ UNCHANGED rows
           \/ \E c, outcome : Admitted(c, outcome) /\ InsertCaptureFacts(c, outcome)
           \/ \E l, T : Closes(l, T)
<1>1. PICK h \in Hosts :
         \/ UNCHANGED db
         \/ CaptureSource(h)
         \/ StoreDeleteRequest(h)
         \/ \E failed \in SUBSET Components : ExecuteDeletion(h, failed)
    BY
       DEF Next, StartImport, StartRead, ReadActualBindings, ReadExtraBinding,
           ReadActiveCapture,
           ResolveSourceLineage, LoadResolvedSource, CaptureRollsBack, ListTips, ListSummary,
           CountVersions, ReadTip, ReadVersions, LoadVersion, StartSearch, VerifyCatalog, MatchRecall,
           CiteHit, Crash
<1>2. CASE UNCHANGED db
    BY <1>2 DEF db
<1>3. CASE CaptureSource(h)
    <2>1. PICK b \in Bytes :
             \/ UNCHANGED db
             \/ /\ DecideCapture(Prepare(h, b)) \notin {"refused", "idempotent"}
                /\ AdvanceLineageTipAllowed(Prepare(h, b))
                /\ InsertCaptureFacts(Prepare(h, b), DecideCapture(Prepare(h, b)))
        BY <1>3 DEF CaptureSource
    <2>2. CASE UNCHANGED db
        BY <2>2 DEF db
    <2>3. CASE /\ DecideCapture(Prepare(h, b)) \notin {"refused", "idempotent"}
               /\ AdvanceLineageTipAllowed(Prepare(h, b))
               /\ InsertCaptureFacts(Prepare(h, b), DecideCapture(Prepare(h, b)))
        <3>1. PICK c : c = Prepare(h, b)
            OBVIOUS
        <3>2. PICK outcome : outcome = DecideCapture(c)
            OBVIOUS
        <3>3. host[h].pc = "commit"
            BY <1>3 DEF CaptureSource
        <3>4. Admitted(c, outcome)
            BY <2>3, <3>1, <3>2, <3>3, CaptureAdmitted
        <3>5. InsertCaptureFacts(c, outcome)
            BY <2>3, <3>1, <3>2
        <3> QED
            BY <3>4, <3>5
    <2> QED
        BY <2>1, <2>2, <2>3
<1>4. CASE StoreDeleteRequest(h)
    <2>1. CASE UNCHANGED db
        BY <2>1 DEF db
    <2>2. CASE ~UNCHANGED db
        <3>1. PICK T : T = host[h].todo
            OBVIOUS
        <3>2. PICK l : l = host[h].lineage
            OBVIOUS
        <3>3. ValidateTargets(T, l) /\ CloseTargetsToRecall(T) /\ UNCHANGED <<bindings, audit>>
            BY <1>4, <2>2, <3>1, <3>2 DEF StoreDeleteRequest
        <3>4. Closes(l, T)
            BY <3>3, RequestCloses
        <3> QED
            BY <3>4
    <2> QED
        BY <2>1, <2>2
<1>5. CASE \E failed \in SUBSET Components : ExecuteDeletion(h, failed)
    <2>1. PICK l : l = host[h].lineage
        OBVIOUS
    <2>2. PICK T : T = host[h].todo
        OBVIOUS
    <2>3. Closes(l, T)
        BY <1>5, <2>1, <2>2, ExecutionCloses
    <2> QED
        BY <2>3
<1> QED
    BY <1>1, <1>2, <1>3, <1>4, <1>5

(* A lineage with a closed version never gains a version and none of its    *)
(* versions becomes active again, whatever a host resolved before the       *)
(* deletion (advance_lineage_tip, decide_capture).                          *)
THEOREM ClosedLineagesStayClosed == Spec => ClosedStaysClosed
<1> DEFINE Step == \A l \in {rows[s].lineage : s \in Stored} :
                      (\E s \in OfLineage(l) : ~IsActive(s)) =>
                         \A s \in 1..Len(rows') : rows'[s].lineage = l =>
                            s \in Stored /\ (rows'[s].state = "active" => IsActive(s))
<1>1. Inv /\ Next => Step
    <2> SUFFICES ASSUME Inv, Next, NEW l, NEW z \in OfLineage(l), ~IsActive(z),
                        NEW s \in Stored', rows'[s].lineage = l
                 PROVE  s \in Stored /\ (rows'[s].state = "active" => IsActive(s))
        BY DEF Stored
    <2>1. CASE UNCHANGED rows
        BY <2>1 DEF Stored, IsActive
    <2>2. CASE \E c, outcome : Admitted(c, outcome) /\ InsertCaptureFacts(c, outcome)
        <3>1. PICK c, outcome : Admitted(c, outcome) /\ InsertCaptureFacts(c, outcome)
            BY <2>2
        <3>2. PICK n : n = Len(rows) + 1
            OBVIOUS
        <3>3. /\ Stored' = Stored \cup {n} /\ rows'[n].lineage = c.lineage
              /\ \A t \in Stored : rows'[t] = rows[t]
            BY <3>1, <3>2, InsertedRow DEF Inv
        <3>4. l # c.lineage
            BY <3>1, AdmittedIsNewest
        <3> QED
            BY <3>3, <3>4 DEF IsActive
    <2>3. CASE \E k, T : Closes(k, T)
        <3>1. PICK k, T : Closes(k, T)
            BY <2>3
        <3>2. Stored' = Stored /\ (IsActive(s)' => IsActive(s))
            BY <3>1, ClosedRows DEF Closes
        <3> QED
            BY <3>2 DEF IsActive
    <2> QED
        BY <2>1, <2>2, <2>3, RowSteps
<1>2. Inv /\ [Next]_vars => [Step]_vars
    BY <1>1
<1> QED
    BY <1>2, LocalInvariance, PTL DEF Spec, ClosedStaysClosed

(* The verification a capture runs before it commits never rolls it back:   *)
(* once decide_capture and advance_lineage_tip have let it through, the     *)
(* derived tables and the bindings it leaves are the expected ones          *)
(* (source_capture.rs, capture_source).                                     *)
THEOREM CapturesPassTheirOwnChecks ==
    ASSUME Inv, NEW h \in Hosts, host[h].pc = "commit", NEW b \in Bytes, NEW c, c = Prepare(h, b),
           NEW outcome, outcome = DecideCapture(c), outcome \notin {"refused", "idempotent"},
           AdvanceLineageTipAllowed(c), InsertCaptureFacts(c, outcome)
    PROVE  VerifyDerived' /\ VerifyOriginBindings'
<1>1. c.bytes = b /\ Admitted(c, outcome)
    BY CaptureAdmitted
<1> QED
    BY <1>1, CaptureKeepsStores DEF Stores

(* Likewise a delete request: once its targets are accepted, the            *)
(* verification before its commit succeeds (deletion_store.rs,              *)
(* store_delete_request).                                                   *)
THEOREM RequestsPassTheirOwnChecks ==
    ASSUME Inv, NEW T, NEW l, ValidateTargets(T, l), CloseTargetsToRecall(T), UNCHANGED <<bindings, audit>>
    PROVE  VerifyDerived' /\ VerifyOriginBindings'
    BY RequestCloses, ClosingKeepsStores DEF Stores

-----------------------------------------------------------------------------
(* What the answers of the reading use cases rest on *)

(* A stored version stays where it is in its lineage, and what is closed    *)
(* stays closed.                                                            *)
Evolves ==
    /\ Len(rows) <= Len(rows')
    /\ \A s \in Stored : /\ rows'[s].lineage = rows[s].lineage
                         /\ rows'[s].version = rows[s].version
                         /\ rows'[s].state = "active" => rows[s].state = "active"

(* What was not current when the call began is not current now. *)
KnownMoment(e) ==
    /\ e.since.stored <= Len(rows)
    /\ e.since.current \subseteq Stored
    /\ \A s \in Stored :
          s <= e.since.stored /\ s \notin e.since.current => ~IsActive(s) \/ HasNewer(s)

(* Before the statements that fill it the answer is empty.                  *)
NothingYet(e) ==
    e.pc \notin {"summary", "count", "history", "cite", "answered"} => e.got = {}

(* The tips a list has read, one for each lineage, were current during the  *)
(* call, and every lineage that was there and is still open has one.        *)
ListKnown(e) ==
    e.pc \in {"summary", "count"} =>
       LET all == e.todo \cup e.got IN
       /\ all \subseteq Stored
       /\ \A s \in all : WithinCall(e, s)
       /\ \A s, t \in all : rows[s].lineage = rows[t].lineage => s = t
       /\ \A s \in e.since.current : IsActive(s) => \E t \in all : rows[t].lineage = rows[s].lineage
       /\ e.pc = "count" => e.current \in e.todo

(* The tip of a version list was current during the call; its versions are  *)
(* all those that were there.                                               *)
VersionsKnown(e) ==
    e.op = "versions" /\ e.pc \in {"rows", "history"} =>
       /\ WithinCall(e, e.current)
       /\ e.pc = "history" =>
            /\ e.todo \subseteq Stored
            /\ e.current \in e.todo \cup e.got
            /\ \A s \in ActiveOf(e.lineage) : s <= e.since.stored => s \in e.todo \cup e.got

SearchKnown(e) ==
    e.pc \in {"verify", "match", "cite"} => e.todo \cup e.got \subseteq e.since.current

Remembers(e) ==
    KnownMoment(e) /\ NothingYet(e) /\ ListKnown(e) /\ VersionsKnown(e) /\ SearchKnown(e)

ReadInv == Inv /\ \A h \in Hosts : Remembers(host[h])

LEMMA LeastOf == ASSUME NEW T \in SUBSET Nat, T # {} PROVE \E x \in T : \A y \in T : x <= y
<1>1. IsWellFoundedOn(OpToRel(<, Nat), Nat)
    BY NatLessThanWellFounded, Zenon
<1>2. PICK x \in T : \A y \in T : ~(<<y, x>> \in OpToRel(<, Nat))
    BY <1>1, WFMin, Zenon
<1>3. \A y \in T : ~(y < x)
    BY <1>2 DEF OpToRel
<1> QED
    BY <1>3

LEMMA MinMember == ASSUME NEW T \in SUBSET Stored, T # {}, Len(rows) \in Nat PROVE Min(T) \in T
<1>1. T \in SUBSET Nat
    BY DEF Stored
<1> QED
    BY <1>1, LeastOf DEF Min

LEMMA RowsEvolve == ASSUME Inv, [Next]_vars PROVE Evolves
<1>0. Len(rows) \in Nat
    BY RowTyped DEF Inv
<1>1. CASE UNCHANGED rows
    BY <1>0, <1>1 DEF Evolves
<1>2. CASE \E c, outcome : Admitted(c, outcome) /\ InsertCaptureFacts(c, outcome)
    <2>1. PICK c, outcome : InsertCaptureFacts(c, outcome)
        BY <1>2
    <2>2. Len(rows') = Len(rows) + 1
        BY <1>0, <2>1 DEF InsertCaptureFacts, Inv, TypeOK
    <2>3. PICK n : n = Len(rows) + 1
        OBVIOUS
    <2>4. \A s \in Stored : rows'[s] = rows[s]
        BY <2>1, <2>3, InsertedRow DEF Inv
    <2> QED
        BY <1>0, <2>2, <2>4 DEF Evolves
<1>3. CASE \E l, T : Closes(l, T)
    <2>1. PICK l, T : Closes(l, T)
        BY <1>3
    <2>2. Len(rows) <= Len(rows')
        <3>1. 1..Len(rows') = 1..Len(rows)
            BY <2>1 DEF Closes, Stored
        <3>2. Len(rows) \in 1..Len(rows) \/ Len(rows) = 0
            BY <1>0
        <3>3. Inv'
            BY NextInv
        <3>4. Len(rows') \in Nat
            BY <3>3 DEF Inv, TypeOK
        <3> QED
            BY <1>0, <3>1, <3>2, <3>4
    <2>3. \A s \in Stored : rows'[s].state = "active" => rows[s].state = "active"
        BY <2>1 DEF Closes
    <2> QED
        BY <2>1, <2>2, <2>3 DEF Evolves, Closes
<1>4. CASE Next
    BY <1>1, <1>2, <1>3, <1>4, RowSteps
<1> QED
    BY <1>1, <1>4 DEF vars

(* What a call remembers outlasts the commits of others.                    *)
LEMMA RemembersStays ==
    ASSUME Inv, Inv', Evolves, NEW e \in HostState, Remembers(e)
    PROVE  Remembers(e)'
<1>0. /\ Len(rows) \in Nat /\ Len(rows') \in Nat /\ e.since.stored \in Nat
      /\ e.since.current \subseteq Stored
    BY HostTyped, RowTyped DEF Inv, TypeOK, Moments, Remembers, KnownMoment
<1>1. /\ \A s \in Stored : s \in Stored' /\ (IsActive(s)' => IsActive(s))
      /\ \A s \in Stored' : s <= Len(rows) => s \in Stored
    BY <1>0 DEF Evolves, Stored, IsActive
<1>2. ASSUME NEW s \in Stored, HasNewer(s) PROVE HasNewer(s)'
    <2>1. PICK n \in Stored : rows[n].lineage = rows[s].lineage /\ rows[n].version > rows[s].version
        BY <1>2 DEF HasNewer, OfLineage
    <2>2. n \in Stored' /\ rows'[n].lineage = rows'[s].lineage /\ rows'[n].version > rows'[s].version
        BY <1>1, <2>1 DEF Evolves
    <2> QED
        BY <2>2 DEF HasNewer, OfLineage
<1>3. KnownMoment(e)'
    <2>1. e.since.stored <= Len(rows') /\ e.since.current \subseteq Stored'
        BY <1>0, <1>1 DEF Evolves, Remembers, KnownMoment
    <2>2. ASSUME NEW s \in Stored', s <= e.since.stored, s \notin e.since.current
          PROVE  (~IsActive(s) \/ HasNewer(s))'
        <3>1. s \in Stored
            BY <1>0, <1>1, <2>2 DEF Stored, Remembers, KnownMoment
        <3>2. ~IsActive(s) \/ HasNewer(s)
            BY <2>2, <3>1 DEF Remembers, KnownMoment
        <3> QED
            BY <1>1, <1>2, <3>1, <3>2
    <2> QED
        BY <2>1, <2>2 DEF KnownMoment
<1>4. ListKnown(e)'
    <2> SUFFICES ASSUME e.pc \in {"summary", "count"}
                 PROVE  ListKnown(e)'
        BY DEF ListKnown
    <2>1. PICK all : all = e.todo \cup e.got
        OBVIOUS
    <2>2. /\ all \subseteq Stored
          /\ \A s \in all : WithinCall(e, s)
          /\ \A s, t \in all : rows[s].lineage = rows[t].lineage => s = t
          /\ \A s \in e.since.current : IsActive(s) => \E t \in all : rows[t].lineage = rows[s].lineage
          /\ e.pc = "count" => e.current \in e.todo
        BY <2>1 DEF Remembers, ListKnown
    <2>3. all \subseteq Stored'
        BY <1>1, <2>2
    <2>4. \A s, t \in all : rows'[s].lineage = rows'[t].lineage => s = t
        BY <2>2 DEF Evolves
    <2>5. ASSUME NEW s \in e.since.current, IsActive(s)'
          PROVE  \E t \in all : rows'[t].lineage = rows'[s].lineage
        <3>1. s \in Stored /\ IsActive(s)
            BY <1>0, <1>1, <2>5
        <3>2. PICK t \in all : rows[t].lineage = rows[s].lineage
            BY <2>2, <3>1
        <3> QED
            BY <2>2, <3>1, <3>2 DEF Evolves
    <2> QED
        BY <2>1, <2>2, <2>3, <2>4, <2>5 DEF ListKnown, WithinCall
<1>5. VersionsKnown(e)'
    <2>1. ASSUME NEW l, NEW s \in ActiveOf(l)', s <= e.since.stored PROVE s \in ActiveOf(l)
        <3>1. s \in Stored' /\ rows'[s].lineage = l /\ rows'[s].state = "active"
            BY <2>1 DEF ActiveOf, OfLineage
        <3>2. s \in Stored
            BY <1>0, <1>1, <2>1, <3>1 DEF Stored, Remembers, KnownMoment
        <3> QED
            BY <3>1, <3>2 DEF ActiveOf, OfLineage, Evolves
    <2>2. e.todo \subseteq Stored => e.todo \subseteq Stored'
        BY <1>1
    <2> QED
        BY <2>1, <2>2 DEF Remembers, VersionsKnown, WithinCall
<1> QED
    BY <1>3, <1>4, <1>5 DEF Remembers, NothingYet, SearchKnown

(* At the call itself nothing has been superseded or closed since.          *)
LEMMA NowKnown == ASSUME Inv, NEW e, e.since = Moment PROVE KnownMoment(e)
<1>1. e.since.stored = Len(rows) /\ e.since.current = {t[2] : t \in tips} /\ Len(rows) \in Nat
    BY RowTyped DEF Moment, Inv
<1>2. {t[2] : t \in tips} \subseteq Stored
    <2> SUFFICES ASSUME NEW t \in tips PROVE t[2] \in Stored
        OBVIOUS
    <2>1. <<t[1], t[2]>> \in tips
        BY DEF Inv, TypeOK
    <2> QED
        BY <2>1, TipIsNewest DEF Inv, Lineages, Stores
<1>3. ASSUME NEW s \in Stored, IsActive(s), ~HasNewer(s) PROVE s \in {t[2] : t \in tips}
    <2>1. <<rows[s].lineage, s>> \in tips
        BY <1>3 DEF Inv, Stores, VerifyDerived, ExpectedTips
    <2>2. <<rows[s].lineage, s>>[2] = s
        OBVIOUS
    <2> QED
        BY <2>1, <2>2
<1> QED
    BY <1>1, <1>2, <1>3 DEF KnownMoment

LEMMA IdleMoment == ASSUME Inv, NEW e, e.since = Idle.since PROVE KnownMoment(e)
<1>1. e.since.stored = 0 /\ e.since.current = {} /\ Len(rows) \in Nat
    BY RowTyped DEF Idle, Inv
<1> QED
    BY <1>1 DEF KnownMoment, Stored

LEMMA SameMoment ==
    ASSUME NEW e, NEW f, e.since = f.since, KnownMoment(f) PROVE KnownMoment(e)
    BY DEF KnownMoment

(* Between its first and its last statements a call remembers no more than  *)
(* its moment.                                                              *)
LEMMA QuietRemembers ==
    ASSUME NEW e, KnownMoment(e), e.got = {} \/ e.pc = "answered",
           e.pc \notin {"summary", "count", "rows", "history", "verify", "match", "cite"}
    PROVE  Remembers(e)
    BY DEF Remembers, NothingYet, ListKnown, VersionsKnown, SearchKnown

LEMMA IdleRemembers == ASSUME Inv PROVE Remembers(Idle)
<1>1. Idle.got = {} /\ Idle.pc = "idle"
    BY DEF Idle
<1> QED
    BY <1>1, IdleMoment, QuietRemembers

(* A recorded tip was current when the call began or was captured since.    *)
LEMMA TipWithinCall ==
    ASSUME Inv, NEW e \in HostState, KnownMoment(e), NEW l, NEW s, <<l, s>> \in tips
    PROVE  WithinCall(e, s)
<1>1. s \in Stored /\ IsActive(s) /\ ~HasNewer(s)
    BY TipIsNewest DEF Inv, Lineages, Stores
<1>2. s \in Nat /\ e.since.stored \in Nat
    BY <1>1, HostTyped, RowTyped DEF Inv, Stored, Moments
<1> QED
    BY <1>1, <1>2 DEF KnownMoment, WithinCall

(* The own steps of a call, one by one. *)

LEMMA StartReadRemembers ==
    ASSUME Inv, NEW h \in Hosts, NEW op, NEW l, StartRead(h, op, l)
    PROVE  Remembers(host'[h])
<1> DEFINE moment == IF op \in {"list", "versions"} THEN Moment ELSE Idle.since
           e == [Idle EXCEPT !.op = op, !.pc = "actual", !.lineage = l, !.expected = ExpectedBindings,
                             !.since = moment]
<1>1. host' = [host EXCEPT ![h] = e]
    BY DEF StartRead, Idle
<1>2. moment \in {Moment, Idle.since}
    OBVIOUS
<1> HIDE DEF moment
<1>3. e.since = moment /\ e.got = {} /\ e.pc = "actual"
    BY DEF Idle
<1> HIDE DEF e
<1>4. host'[h] = e
    BY <1>1 DEF Inv
<1>5. KnownMoment(e)
    BY <1>2, <1>3, IdleMoment, NowKnown
<1>6. Remembers(e)
    BY <1>3, <1>5, QuietRemembers
<1> QED
    BY <1>4, <1>6

LEMMA StartRemembers ==
    ASSUME Inv, NEW h \in Hosts,
           \/ StartImport(h)
           \/ \E op, l : StartRead(h, op, l)
           \/ StartSearch(h)
    PROVE  Remembers(host'[h])
<1>0. host \in [Hosts -> HostState]
    BY DEF Inv
<1>1. CASE StartImport(h)
    <2>1. host'[h].since = Idle.since /\ host'[h].got = {} /\ host'[h].pc = "commit"
        BY <1>0, <1>1 DEF StartImport, Idle
    <2> QED
        BY <2>1, IdleMoment, QuietRemembers
<1>2. CASE \E op, l : StartRead(h, op, l)
    BY <1>2, StartReadRemembers
<1>3. CASE StartSearch(h)
    <2>1. /\ host'[h].since = Moment /\ host'[h].got = {} /\ host'[h].pc = "verify"
          /\ host'[h].todo = ExpectedRecall
        BY <1>0, <1>3 DEF StartSearch, Idle
    <2>2. ExpectedRecall \subseteq Moment.current
        <3> SUFFICES ASSUME NEW s \in ExpectedRecall PROVE s \in {t[2] : t \in tips}
            BY DEF Moment
        <3>1. <<rows[s].lineage, s>> \in tips
            BY DEF ExpectedRecall, Inv, Stores, VerifyDerived
        <3>2. <<rows[s].lineage, s>>[2] = s
            OBVIOUS
        <3> QED
            BY <3>1, <3>2
    <2>3. KnownMoment(host'[h])
        BY <2>1, NowKnown
    <2> QED
        BY <2>1, <2>2, <2>3 DEF Remembers, NothingYet, ListKnown, VersionsKnown, SearchKnown
<1> QED
    BY <1>1, <1>2, <1>3

(* The statements before a call knows what to answer, and the end of one.   *)
LEMMA QuietStepRemembers ==
    ASSUME ReadInv, NEW h \in Hosts,
           \/ host'[h] = Idle
           \/ /\ host'[h].since = host[h].since /\ host'[h].got = {}
              /\ host'[h].pc \notin {"summary", "count", "rows", "history", "verify", "match", "cite"}
    PROVE  Remembers(host'[h])
<1>1. Inv /\ KnownMoment(host[h])
    BY DEF ReadInv, Remembers
<1>2. CASE host'[h] = Idle
    BY <1>1, <1>2, IdleRemembers
<1>3. CASE host'[h] # Idle
    BY <1>1, <1>3, SameMoment, QuietRemembers
<1> QED
    BY <1>2, <1>3

LEMMA BindingsRemembered ==
    ASSUME ReadInv, NEW h \in Hosts,
           \/ ReadActualBindings(h) \/ ReadExtraBinding(h) \/ ReadActiveCapture(h)
           \/ ResolveSourceLineage(h) \/ LoadResolvedSource(h)
           \/ CaptureRollsBack(h) \/ Crash(h)
    PROVE  Remembers(host'[h])
<1>1. host \in [Hosts -> HostState] /\ NothingYet(host[h])
    BY DEF Inv, ReadInv, Remembers
<1>2. CASE host'[h] = Idle
    BY <1>2, QuietStepRemembers
<1>3. CASE host'[h] # Idle
    <2>1. NextStatement(host[h].op) \in {"resolve", "tips", "tip", "idle"}
        BY DEF NextStatement
    <2>2. host[h].pc \in {"actual", "extras", "validate", "resolve", "load"}
        BY <1>1, <1>3
           DEF ReadActualBindings, ReadExtraBinding, ReadActiveCapture, ResolveSourceLineage,
               LoadResolvedSource, CaptureRollsBack, Crash, Ended
    <2>3. /\ host'[h].since = host[h].since /\ host'[h].got = host[h].got
          /\ host'[h].pc \in {"extras", "validate", "resolve", "tips", "tip", "idle", "load", "commit"}
        <3>1. CASE ReadActualBindings(h)
            BY <1>1, <1>3, <3>1 DEF ReadActualBindings, Ended, HostState
        <3>2. CASE ReadExtraBinding(h)
            <4>1. PICK b : b = CHOOSE d \in host[h].todo : \A c \in host[h].todo : d[1] <= c[1]
                OBVIOUS
            <4>2. \/ host' = [host EXCEPT ![h].pc = "validate", ![h].todo = {s \in Stored : IsActive(s)}]
                  \/ host' = [host EXCEPT ![h].todo = @ \ {b}]
                  \/ host' = Ended(h)
                BY <3>2, <4>1 DEF ReadExtraBinding
            <4>3. host[h].pc = "extras"
                BY <3>2 DEF ReadExtraBinding
            <4> QED
                BY <1>1, <1>3, <4>2, <4>3 DEF Ended, HostState
        <3>3. CASE ReadActiveCapture(h)
            <4>1. \/ host' = [host EXCEPT ![h].pc = NextStatement(host[h].op)]
                  \/ host' = [host EXCEPT ![h].todo = @ \ {Min(@)}]
                  \/ host' = Ended(h)
                BY <3>3 DEF ReadActiveCapture
            <4>2. host[h].pc = "validate"
                BY <3>3 DEF ReadActiveCapture
            <4> QED
                BY <1>1, <1>3, <2>1, <4>1, <4>2 DEF Ended, HostState
        <3>4. CASE ResolveSourceLineage(h)
            BY <1>1, <1>3, <3>4 DEF ResolveSourceLineage, Ended, HostState
        <3>5. CASE LoadResolvedSource(h)
            BY <1>1, <1>3, <3>5 DEF LoadResolvedSource, Ended, HostState
        <3>6. CASE CaptureRollsBack(h) \/ Crash(h)
            BY <1>1, <1>3, <3>6 DEF CaptureRollsBack, Crash, Ended
        <3> QED
            BY <3>1, <3>2, <3>3, <3>4, <3>5, <3>6
    <2>4. host'[h].got = {}
        BY <1>1, <2>2, <2>3 DEF NothingYet
    <2> QED
        BY <2>3, <2>4, QuietStepRemembers
<1> QED
    BY <1>2, <1>3

LEMMA ListTipsRemembers ==
    ASSUME ReadInv, NEW h \in Hosts, ListTips(h) PROVE Remembers(host'[h])
<1>1. /\ Inv /\ host \in [Hosts -> HostState] /\ host[h] \in HostState /\ host[h].pc = "tips"
      /\ host[h].op = "list" /\ KnownMoment(host[h]) /\ host[h].got = {}
    BY DEF ReadInv, Inv, Knows, ListTips, Remembers, NothingYet
<1>2. PICK e : e = host'[h]
    OBVIOUS
<1>3. PICK all : all = {t[2] : t \in tips}
    OBVIOUS
<1>4. /\ e.since = host[h].since /\ e.got = {} /\ e.pc = "summary" /\ e.op = "list"
      /\ e.todo = all
    BY <1>1, <1>2, <1>3 DEF ListTips, HostState
<1>5. KnownMoment(e)
    BY <1>1, <1>4, SameMoment
<1>6. \A s \in all : \E l : <<l, s>> \in tips
    <2> SUFFICES ASSUME NEW t \in tips PROVE <<t[1], t[2]>> \in tips
        BY <1>3
    <2> QED
        BY <1>1 DEF Inv, TypeOK
<1>7. \A l, s : <<l, s>> \in tips => s \in all
    BY <1>3
<1>8. \A s \in all : s \in Stored /\ WithinCall(e, s)
    <2>1. \A s \in all : s \in Stored /\ WithinCall(host[h], s)
        BY <1>1, <1>6, TipIsNewest, TipWithinCall DEF Inv, Lineages, Stores
    <2> QED
        BY <1>4, <2>1 DEF WithinCall
<1>9. ASSUME NEW s \in all, NEW t \in all, rows[s].lineage = rows[t].lineage PROVE s = t
    <2>1. PICK l, k : <<l, s>> \in tips /\ <<k, t>> \in tips
        BY <1>6
    <2>2. rows[s].lineage = l /\ TipOf(l) = {s} /\ rows[t].lineage = k /\ TipOf(k) = {t}
        BY <1>1, <2>1, TipIsNewest DEF Inv, Lineages, Stores
    <2> QED
        BY <1>9, <2>2
<1>10. ASSUME NEW s \in Stored, IsActive(s) PROVE \E t \in all : rows[t].lineage = rows[s].lineage
    <2>1. PICK t \in OfLineage(rows[s].lineage) : <<rows[s].lineage, t>> \in tips
        BY <1>1, <1>10 DEF Inv, Lineages, HasTip
    <2> QED
        BY <1>7, <2>1 DEF OfLineage
<1>11. ListKnown(e)
    BY <1>4, <1>5, <1>8, <1>9, <1>10 DEF ListKnown, KnownMoment
<1> QED
    BY <1>2, <1>4, <1>5, <1>11 DEF Remembers, NothingYet, VersionsKnown, SearchKnown

LEMMA ListSummaryRemembers ==
    ASSUME ReadInv, NEW h \in Hosts, ListSummary(h) PROVE Remembers(host'[h])
<1>1. /\ Inv /\ host \in [Hosts -> HostState] /\ host[h] \in HostState /\ host[h].pc = "summary"
      /\ host[h].op = "list" /\ KnownMoment(host[h]) /\ ListKnown(host[h])
    BY DEF ReadInv, Inv, Knows, ListSummary, Remembers
<1>2. CASE host'[h] = Idle
    BY <1>2, QuietStepRemembers
<1>3. CASE host'[h] # Idle
    <2>1. PICK e : e = host'[h]
        OBVIOUS
    <2>2. host[h].todo # {} /\ host' = [host EXCEPT ![h].pc = "count", ![h].current = Min(host[h].todo)]
        BY <1>1, <1>3 DEF ListSummary, Ended
    <2>3. /\ e.since = host[h].since /\ e.got = host[h].got /\ e.pc = "count" /\ e.op = "list"
          /\ e.todo = host[h].todo /\ e.current = Min(host[h].todo)
        BY <1>1, <2>1, <2>2 DEF HostState
    <2>4. e.current \in e.todo
        <3>1. host[h].todo \in SUBSET Stored /\ Len(rows) \in Nat
            BY <1>1, RowTyped DEF ListKnown, Inv
        <3> QED
            BY <2>2, <2>3, <3>1, MinMember
    <2>5. KnownMoment(e)
        BY <1>1, <2>3, SameMoment
    <2>6. ListKnown(e)
        BY <1>1, <2>3, <2>4 DEF ListKnown, WithinCall
    <2> QED
        BY <2>1, <2>3, <2>5, <2>6 DEF Remembers, NothingYet, VersionsKnown, SearchKnown
<1> QED
    BY <1>2, <1>3

LEMMA CountVersionsRemembers ==
    ASSUME ReadInv, NEW h \in Hosts, CountVersions(h) PROVE Remembers(host'[h])
<1>1. /\ Inv /\ host \in [Hosts -> HostState] /\ host[h] \in HostState /\ host[h].pc = "count"
      /\ host[h].op = "list" /\ KnownMoment(host[h]) /\ ListKnown(host[h])
    BY DEF ReadInv, Inv, Knows, CountVersions, Remembers
<1>2. CASE host'[h] = Idle
    BY <1>2, QuietStepRemembers
<1>3. CASE host'[h] # Idle
    <2>1. PICK e : e = host'[h]
        OBVIOUS
    <2>2. PICK s : s = host[h].current
        OBVIOUS
    <2>3. host' = [host EXCEPT ![h].pc = "summary", ![h].current = NoSource,
                               ![h].todo = @ \ {s}, ![h].got = @ \cup {s}]
        BY <1>1, <1>3, <2>2 DEF CountVersions, Ended
    <2>4. /\ e.since = host[h].since /\ e.got = host[h].got \cup {s} /\ e.pc = "summary"
          /\ e.op = "list" /\ e.todo = host[h].todo \ {s}
        BY <1>1, <2>1, <2>3 DEF HostState
    <2>5. e.todo \cup e.got = host[h].todo \cup host[h].got
        BY <1>1, <2>2, <2>4 DEF ListKnown
    <2>6. KnownMoment(e)
        BY <1>1, <2>4, SameMoment
    <2>7. ListKnown(e)
        BY <1>1, <2>4, <2>5 DEF ListKnown, WithinCall
    <2> QED
        BY <2>1, <2>4, <2>6, <2>7 DEF Remembers, NothingYet, VersionsKnown, SearchKnown
<1> QED
    BY <1>2, <1>3

LEMMA ReadTipRemembers ==
    ASSUME ReadInv, NEW h \in Hosts, ReadTip(h) PROVE Remembers(host'[h])
<1>1. /\ Inv /\ host \in [Hosts -> HostState] /\ host[h] \in HostState /\ host[h].pc = "tip"
      /\ KnownMoment(host[h]) /\ host[h].got = {}
    BY DEF ReadInv, Inv, ReadTip, Remembers, NothingYet
<1>2. CASE host'[h] = Idle
    BY <1>2, QuietStepRemembers
<1>3. CASE host'[h] # Idle
    <2>1. PICK e : e = host'[h]
        OBVIOUS
    <2>2. PICK l : l = host[h].lineage
        OBVIOUS
    <2>3. TipOf(l) # {} /\ host' = [host EXCEPT ![h].pc = "rows", ![h].current = Min(TipOf(l))]
        BY <1>1, <1>3, <2>2 DEF ReadTip, Ended
    <2>4. PICK s \in TipOf(l) : TRUE
        BY <2>3
    <2>5. <<l, s>> \in tips /\ s \in Stored /\ TipOf(l) = {s}
        BY <1>1, <2>4, TipRecorded, TipIsNewest DEF Inv, Lineages, Stores
    <2>6. Min(TipOf(l)) = s
        BY <1>1, <2>5, MinOfOne, RowTyped DEF Inv, Stored
    <2>7. e.since = host[h].since /\ e.got = {} /\ e.pc = "rows" /\ e.current = s
        BY <1>1, <2>1, <2>3, <2>6 DEF HostState
    <2>8. KnownMoment(e)
        BY <1>1, <2>7, SameMoment
    <2>9. WithinCall(host[h], s)
        BY <1>1, <2>5, TipWithinCall
    <2>10. WithinCall(e, e.current)
        BY <2>7, <2>9 DEF WithinCall
    <2> QED
        BY <2>1, <2>7, <2>8, <2>10 DEF Remembers, NothingYet, ListKnown, VersionsKnown, SearchKnown
<1> QED
    BY <1>2, <1>3

LEMMA ReadVersionsRemembers ==
    ASSUME ReadInv, NEW h \in Hosts, ReadVersions(h) PROVE Remembers(host'[h])
<1>1. /\ Inv /\ host \in [Hosts -> HostState] /\ host[h] \in HostState /\ host[h].pc = "rows"
      /\ KnownMoment(host[h]) /\ host[h].got = {} /\ VersionsKnown(host[h])
    BY DEF ReadInv, Inv, ReadVersions, Remembers, NothingYet
<1>2. CASE host'[h] = Idle
    BY <1>2, QuietStepRemembers
<1>3. CASE host'[h] # Idle
    <2>1. PICK e : e = host'[h]
        OBVIOUS
    <2>2. PICK T : T = ActiveOf(host[h].lineage)
        OBVIOUS
    <2>3. VersionsOk(T, host[h].current) /\ host' = [host EXCEPT ![h].pc = "history", ![h].todo = T]
        BY <1>1, <1>3, <2>2 DEF ReadVersions, Ended
    <2>4. /\ e.since = host[h].since /\ e.got = {} /\ e.pc = "history" /\ e.todo = T
          /\ e.current = host[h].current /\ e.lineage = host[h].lineage /\ e.op = host[h].op
        BY <1>1, <2>1, <2>3 DEF HostState
    <2>5. KnownMoment(e)
        BY <1>1, <2>4, SameMoment
    <2>6. VersionsKnown(e)
        BY <1>1, <2>2, <2>3, <2>4 DEF VersionsKnown, VersionsOk, WithinCall, ActiveOf, OfLineage
    <2> QED
        BY <2>1, <2>4, <2>5, <2>6 DEF Remembers, NothingYet, ListKnown, SearchKnown
<1> QED
    BY <1>2, <1>3

LEMMA LoadVersionRemembers ==
    ASSUME ReadInv, NEW h \in Hosts, LoadVersion(h) PROVE Remembers(host'[h])
<1>1. /\ Inv /\ host \in [Hosts -> HostState] /\ host[h] \in HostState /\ host[h].pc = "history"
      /\ KnownMoment(host[h]) /\ VersionsKnown(host[h])
    BY DEF ReadInv, Inv, LoadVersion, Remembers
<1>2. PICK s : s = Min(host[h].todo)
    OBVIOUS
<1>3. CASE host[h].todo = {} /\ host[h].op # "versions"
    <2>1. host' = [host EXCEPT ![h].pc = "store", ![h].todo = host[h].got, ![h].got = {}]
        BY <1>3 DEF LoadVersion
    <2>2. host'[h].since = host[h].since /\ host'[h].got = {} /\ host'[h].pc = "store"
        BY <1>1, <2>1 DEF HostState
    <2> QED
        BY <2>2, QuietStepRemembers
<1>4. CASE host[h].todo # {} /\ LoadSource(s)
    <2>1. PICK e : e = host'[h]
        OBVIOUS
    <2>2. host' = [host EXCEPT ![h].todo = @ \ {s}, ![h].got = @ \cup {s}]
        BY <1>1, <1>2, <1>4 DEF LoadVersion
    <2>3. /\ e.since = host[h].since /\ e.got = host[h].got \cup {s} /\ e.pc = "history"
          /\ e.todo = host[h].todo \ {s} /\ e.op = host[h].op
          /\ e.current = host[h].current /\ e.lineage = host[h].lineage
        BY <1>1, <2>1, <2>2 DEF HostState
    <2>4. KnownMoment(e)
        BY <1>1, <2>3, SameMoment
    <2>5. VersionsKnown(e)
        BY <1>1, <2>3 DEF VersionsKnown, WithinCall
    <2> QED
        BY <2>1, <2>3, <2>4, <2>5 DEF Remembers, NothingYet, ListKnown, SearchKnown
<1>5. CASE \/ host[h].todo = {} /\ host[h].op = "versions"
           \/ host[h].todo # {} /\ ~LoadSource(s)
    <2>1. host'[h] = Idle
        BY <1>1, <1>2, <1>5 DEF LoadVersion, Ended
    <2> QED
        BY <2>1, QuietStepRemembers
<1> QED
    BY <1>3, <1>4, <1>5

LEMMA SearchRemembers ==
    ASSUME ReadInv, NEW h \in Hosts, VerifyCatalog(h) \/ MatchRecall(h) \/ CiteHit(h)
    PROVE  Remembers(host'[h])
<1>1. /\ Inv /\ host \in [Hosts -> HostState] /\ host[h] \in HostState
      /\ KnownMoment(host[h]) /\ NothingYet(host[h]) /\ SearchKnown(host[h])
    BY DEF ReadInv, Inv, Remembers
<1>2. CASE host'[h] = Idle
    BY <1>2, QuietStepRemembers
<1>3. CASE host'[h] # Idle
    <2>1. PICK e : e = host'[h]
        OBVIOUS
    <2>2. /\ e.since = host[h].since /\ e.pc \in {"match", "cite"}
          /\ e.todo \cup e.got \subseteq e.since.current
          /\ e.pc = "match" => e.got = {}
        <3>1. CASE VerifyCatalog(h)
            <4>1. host[h].pc = "verify" /\ host' = [host EXCEPT ![h].pc = "match", ![h].expected = {}]
                BY <1>1, <1>3, <3>1 DEF VerifyCatalog, Ended
            <4>2. /\ e.since = host[h].since /\ e.pc = "match"
                  /\ e.todo = host[h].todo /\ e.got = host[h].got
                BY <1>1, <2>1, <4>1 DEF HostState
            <4> QED
                BY <1>1, <4>1, <4>2 DEF SearchKnown, NothingYet
        <3>2. CASE MatchRecall(h)
            <4>1. PICK hits \in SUBSET (recall \cap host[h].todo) :
                     /\ host[h].pc = "match"
                     /\ host' = [host EXCEPT ![h].pc = "cite", ![h].todo = hits]
                BY <3>2 DEF MatchRecall
            <4>2. e.since = host[h].since /\ e.pc = "cite" /\ e.todo = hits /\ e.got = host[h].got
                BY <1>1, <2>1, <4>1 DEF HostState
            <4> QED
                BY <1>1, <4>1, <4>2 DEF SearchKnown
        <3>3. CASE CiteHit(h)
            <4>1. PICK s : s = Min(host[h].todo)
                OBVIOUS
            <4>2. /\ host[h].pc = "cite" /\ host[h].todo # {}
                  /\ host' = [host EXCEPT ![h].todo = @ \ {s}, ![h].got = @ \cup {s}]
                BY <1>1, <1>3, <3>3, <4>1 DEF CiteHit, Ended
            <4>3. /\ e.since = host[h].since /\ e.pc = "cite" /\ e.todo = host[h].todo \ {s}
                  /\ e.got = host[h].got \cup {s}
                BY <1>1, <2>1, <4>2 DEF HostState
            <4>4. s \in host[h].todo
                <5>1. host[h].todo \in SUBSET Stored /\ Len(rows) \in Nat
                    BY <1>1, <4>2, RowTyped DEF SearchKnown, KnownMoment, Inv
                <5> QED
                    BY <4>1, <4>2, <5>1, MinMember
            <4> QED
                BY <1>1, <4>2, <4>3, <4>4 DEF SearchKnown
        <3> QED
            BY <3>1, <3>2, <3>3
    <2>3. KnownMoment(e)
        BY <1>1, <2>2, SameMoment
    <2> QED
        BY <2>1, <2>2, <2>3 DEF Remembers, NothingYet, ListKnown, VersionsKnown, SearchKnown
<1> QED
    BY <1>2, <1>3

LEMMA WriteRemembers ==
    ASSUME ReadInv, NEW h \in Hosts,
           \/ CaptureSource(h) \/ StoreDeleteRequest(h)
           \/ \E failed \in SUBSET Components : ExecuteDeletion(h, failed)
    PROVE  Remembers(host'[h])
<1>1. Inv /\ host \in [Hosts -> HostState] /\ NothingYet(host[h]) /\ KnownMoment(host[h])
    BY DEF ReadInv, Inv, Remembers
<1>2. CASE CaptureSource(h)
    <2>1. PICK b, g : host' = Receipt(h, b, g) \/ host' = Ended(h)
        BY <1>2 DEF CaptureSource
    <2>2. host'[h] = Idle \/ (host'[h].since = Idle.since /\ host'[h].pc = "answered")
        <3>1. CASE host' = Receipt(h, b, g)
            <4>1. host'[h] = [Idle EXCEPT !.op = host[h].op, !.pc = "answered", !.bytes = b, !.got = g]
                BY <1>1, <3>1 DEF Receipt
            <4> QED
                BY <4>1 DEF Idle
        <3>2. CASE host' = Ended(h)
            BY <1>1, <3>2 DEF Ended
        <3> QED
            BY <2>1, <3>1, <3>2
    <2> QED
        BY <1>1, <2>2, IdleMoment, IdleRemembers, QuietRemembers
<1>3. CASE StoreDeleteRequest(h)
    <2>1. \/ host' = Ended(h)
          \/ host[h].pc = "store" /\ host' = [host EXCEPT ![h].pc = "execute"]
        BY <1>3 DEF StoreDeleteRequest
    <2>2. \/ host'[h] = Idle
          \/ host'[h].since = host[h].since /\ host'[h].got = {} /\ host'[h].pc = "execute"
        BY <1>1, <2>1 DEF Ended, HostState, NothingYet
    <2> QED
        BY <2>2, QuietStepRemembers
<1>4. CASE \E failed \in SUBSET Components : ExecuteDeletion(h, failed)
    <2>1. host' = [host EXCEPT ![h] = Idle]
        BY <1>4, Zenon DEF ExecuteDeletion
    <2>2. host'[h] = Idle
        BY <1>1, <2>1
    <2> QED
        BY <2>2, QuietStepRemembers
<1> QED
    BY <1>2, <1>3, <1>4

(* A step is of one host; the others keep their memory.                     *)
LEMMA OwnStepRemembers ==
    ASSUME ReadInv, Next
    PROVE  \E h \in Hosts : Remembers(host'[h]) /\ \A k \in Hosts \ {h} : host'[k] = host[k]
<1>0. Inv /\ host \in [Hosts -> HostState]
    BY DEF ReadInv, Inv
<1>1. PICK h \in Hosts :
         \/ StartImport(h) \/ (\E op, l : StartRead(h, op, l)) \/ StartSearch(h)
         \/ ReadActualBindings(h) \/ ReadExtraBinding(h) \/ ReadActiveCapture(h)
         \/ ResolveSourceLineage(h) \/ LoadResolvedSource(h)
         \/ CaptureRollsBack(h) \/ Crash(h)
         \/ ListTips(h) \/ ListSummary(h) \/ CountVersions(h)
         \/ ReadTip(h) \/ ReadVersions(h) \/ LoadVersion(h)
         \/ VerifyCatalog(h) \/ MatchRecall(h) \/ CiteHit(h)
         \/ CaptureSource(h) \/ StoreDeleteRequest(h)
         \/ \E failed \in SUBSET Components : ExecuteDeletion(h, failed)
    BY DEF Next
<1>2. CASE StartImport(h) \/ (\E op, l : StartRead(h, op, l)) \/ StartSearch(h)
    <2>1. Remembers(host'[h])
        BY <1>0, <1>2, StartRemembers
    <2>2. \E e : host' = [host EXCEPT ![h] = e]
        BY <1>2, Zenon DEF StartImport, StartRead, StartSearch
    <2> QED
        BY <1>0, <2>1, <2>2
<1>3. CASE \/ ReadActualBindings(h) \/ ReadExtraBinding(h) \/ ReadActiveCapture(h)
           \/ ResolveSourceLineage(h) \/ LoadResolvedSource(h)
           \/ CaptureRollsBack(h) \/ Crash(h)
    <2>1. Remembers(host'[h])
        BY <1>3, BindingsRemembered
    <2>2. \A k \in Hosts \ {h} : host'[k] = host[k]
        BY <1>0, <1>3
           DEF ReadActualBindings, ReadExtraBinding, ReadActiveCapture, ResolveSourceLineage,
               LoadResolvedSource, CaptureRollsBack, Crash, Ended
    <2> QED
        BY <2>1, <2>2
<1>4. CASE \/ ListTips(h) \/ ListSummary(h) \/ CountVersions(h)
           \/ ReadTip(h) \/ ReadVersions(h) \/ LoadVersion(h)
    <2>1. Remembers(host'[h])
        BY <1>4, ListTipsRemembers, ListSummaryRemembers, CountVersionsRemembers,
           ReadTipRemembers, ReadVersionsRemembers, LoadVersionRemembers
    <2>2. \A k \in Hosts \ {h} : host'[k] = host[k]
        BY <1>0, <1>4
           DEF ListTips, ListSummary, CountVersions, ReadTip, ReadVersions, LoadVersion, Ended
    <2> QED
        BY <2>1, <2>2
<1>5. CASE VerifyCatalog(h) \/ MatchRecall(h) \/ CiteHit(h)
    <2>1. Remembers(host'[h])
        BY <1>5, SearchRemembers
    <2>2. \A k \in Hosts \ {h} : host'[k] = host[k]
        BY <1>0, <1>5 DEF VerifyCatalog, MatchRecall, CiteHit, Ended
    <2> QED
        BY <2>1, <2>2
<1>6. CASE \/ CaptureSource(h) \/ StoreDeleteRequest(h)
           \/ \E failed \in SUBSET Components : ExecuteDeletion(h, failed)
    <2>1. Remembers(host'[h])
        BY <1>6, WriteRemembers
    <2>2. \A k \in Hosts \ {h} : host'[k] = host[k]
        <3>1. CASE CaptureSource(h)
            <4>1. PICK b, g : host' = Receipt(h, b, g) \/ host' = Ended(h)
                BY <3>1 DEF CaptureSource
            <4> QED
                BY <1>0, <4>1 DEF Receipt, Ended
        <3>2. CASE StoreDeleteRequest(h)
            <4>1. host' = Ended(h) \/ host' = [host EXCEPT ![h].pc = "execute"]
                BY <3>2 DEF StoreDeleteRequest
            <4> QED
                BY <1>0, <4>1 DEF Ended
        <3>3. CASE \E failed \in SUBSET Components : ExecuteDeletion(h, failed)
            <4>1. host' = [host EXCEPT ![h] = Idle]
                BY <3>3, Zenon DEF ExecuteDeletion
            <4> QED
                BY <1>0, <4>1
        <3> QED
            BY <1>6, <3>1, <3>2, <3>3
    <2> QED
        BY <2>1, <2>2
<1> QED
    BY <1>1, <1>2, <1>3, <1>4, <1>5, <1>6

LEMMA NextReadInv == ReadInv /\ [Next]_vars => ReadInv'
<1> SUFFICES ASSUME ReadInv, [Next]_vars PROVE ReadInv'
    OBVIOUS
<1>1. Inv /\ Inv' /\ Evolves
    BY NextInv, RowsEvolve DEF ReadInv
<1>2. \A k \in Hosts : Remembers(host'[k])
    BY OwnStepRemembers DEF ReadInv, vars
<1>3. ASSUME NEW k \in Hosts PROVE Remembers(host[k])'
    <2>1. PICK e : e = host'[k]
        OBVIOUS
    <2>2. e \in HostState
        BY <1>1, <2>1 DEF Inv
    <2>3. Remembers(e)
        BY <1>2, <2>1
    <2>4. Remembers(e)'
        BY <1>1, <2>2, <2>3, RemembersStays
    <2> QED
        BY <2>1, <2>4
<1> QED
    BY <1>1, <1>3 DEF ReadInv

LEMMA InitReadInv == Init => ReadInv
<1> SUFFICES ASSUME Init PROVE ReadInv
    OBVIOUS
<1>1. Inv
    BY InitInv
<1>2. \A h \in Hosts : host[h] = Idle
    BY DEF Init
<1> QED
    BY <1>1, <1>2, IdleRemembers DEF ReadInv

(* What a list, a version list or a search answers was so during the call,  *)
(* for any number of hosts that capture, update and delete between its      *)
(* statements: nothing is shown that was superseded or closed before the    *)
(* call, no lineage that stayed open is missing or there twice, and no      *)
(* version of the history that is still there was overlooked                *)
(* (source_catalog.rs, read.rs).                                            *)
THEOREM AnswersAlwaysOfTheCall == Spec => []AnswersAreOfTheCall
<1>1. ReadInv => AnswersAreOfTheCall
    <2> SUFFICES ASSUME ReadInv, NEW h \in Hosts, NEW e, e = host[h], Answers(e)
                 PROVE  /\ e.op \in {"list", "search"} => \A s \in e.got : WithinCall(e, s)
                        /\ e.op = "list" => \A s \in e.since.current : IsActive(s) =>
                             \E t \in e.got : \A u \in e.got : rows[u].lineage = rows[s].lineage <=> u = t
                        /\ e.op = "versions" =>
                             /\ e.current \in e.got /\ WithinCall(e, e.current)
                             /\ \A s \in ActiveOf(e.lineage) : s <= e.since.stored => s \in e.got
        BY Zenon DEF AnswersAreOfTheCall
    <2>1. Knows(e) /\ Remembers(e) /\ e.todo = {} /\ e.pc \in {"summary", "history", "cite"}
        BY DEF ReadInv, Inv, Answers
    <2>2. CASE e.pc = "summary"
        <3>1. e.op = "list"
            BY <2>1, <2>2 DEF Knows
        <3>2. /\ \A s \in e.got : WithinCall(e, s)
              /\ \A s, t \in e.got : rows[s].lineage = rows[t].lineage => s = t
              /\ \A s \in e.since.current : IsActive(s) => \E t \in e.got : rows[t].lineage = rows[s].lineage
            BY <2>1, <2>2 DEF Remembers, ListKnown
        <3>3. ASSUME NEW s \in e.since.current, IsActive(s)
              PROVE  \E t \in e.got : \A u \in e.got : rows[u].lineage = rows[s].lineage <=> u = t
            <4>1. PICK t \in e.got : rows[t].lineage = rows[s].lineage
                BY <3>2, <3>3
            <4> QED
                BY <3>2, <4>1
        <3> QED
            BY <3>1, <3>2, <3>3
    <2>3. CASE e.pc = "history"
        <3>1. e.op \in {"versions", "delete"}
            BY <2>1, <2>3 DEF Knows
        <3>2. e.op = "versions" =>
                 /\ e.current \in e.got /\ WithinCall(e, e.current)
                 /\ \A s \in ActiveOf(e.lineage) : s <= e.since.stored => s \in e.got
            BY <2>1, <2>3 DEF Remembers, VersionsKnown
        <3> QED
            BY <3>1, <3>2
    <2>4. CASE e.pc = "cite"
        <3>1. e.op = "search"
            BY <2>1, <2>4 DEF Knows
        <3>2. \A s \in e.got : WithinCall(e, s)
            BY <2>1, <2>4 DEF Remembers, SearchKnown, WithinCall
        <3> QED
            BY <3>1, <3>2
    <2> QED
        BY <2>1, <2>2, <2>3, <2>4
<1> QED
    BY <1>1, InitReadInv, NextReadInv, PTL DEF Spec

-----------------------------------------------------------------------------
(***************************************************************************)
(* What the migration of the bodies into a vault promises, proved for any  *)
(* sources and attempts, and that it implements BodyHome.                  *)
(*                                                                         *)
(* The inline body is removed because the object was found; that it is     *)
(* found after a loss of power as well rests on syncs made many steps, or  *)
(* several interrupted calls, before.  MigrationInv says how far the files *)
(* of an item are at each state of its row and at each step of the running *)
(* call.                                                                   *)
(***************************************************************************)
(* An attempt id is drawn once and belongs to one item.                     *)
MigrationTokens ==
    /\ \A s \in Sources : tok[s] # NoAttempt => tok[s] \in used
    /\ \A s, t \in Sources : tok[s] = tok[t] /\ tok[s] # NoAttempt => s = t
    /\ whole \subseteq used
    /\ wholeDisk \subseteq whole

(* Every entry, seen or on the disk, is the attempt of an item; an object   *)
(* is linked once its file is on the disk, and stays.                       *)
MigrationEntries ==
    /\ \A a \in stage \cup stageDisk : \E s \in Sources : tok[s] = a
    /\ \A a \in stageDisk \ stage : \E s \in Sources : objDisk[s] = a
    /\ \A s \in Sources : obj[s] # NoAttempt => obj[s] = tok[s] /\ tok[s] \in wholeDisk
    /\ \A s \in Sources : objDisk[s] # NoAttempt => objDisk[s] = obj[s]

(* The rows of an item agree, and a reference means a durable object.       *)
MigrationRows ==
    \A s \in Sources :
        /\ row[s] \in {"referenced", "retired"} <=> ref[s] # NoAttempt
        /\ ref[s] # NoAttempt => ref[s] = tok[s] /\ objDisk[s] = tok[s]
        /\ row[s] = "retired" => s \notin inline
        /\ row[s] \in {"planned", "prepared", "referenced"} => s \in inline
        /\ version = 8 /\ row[s] = "none" => s \notin inline /\ art[s] # "active"
        /\ version = 7 => row[s] = "none" /\ (art[s] = "active" => s \in inline)
        /\ migration = "objects_ready" => row[s] \in {"none", "retired"}

(* What the running call works on.                                          *)
MigrationControl ==
    /\ version = 7 <=> migration = "none"
    /\ pc = "inventory" => version = 7
    /\ pc \notin {"idle", "inventory"} => version = 8
    /\ pc \notin {"idle", "inventory", "inspect", "next"} => cur \in Sources
    /\ pc = "prepare" => /\ row[cur] \in {"planned", "prepared"}
                         /\ tok[cur] \notin stage
                         /\ obj[cur] = NoAttempt
    /\ pc \in PublishSteps \cup {"reference"} => row[cur] = "prepared"
    /\ pc \in FinishSteps => row[cur] \in {"prepared", "referenced"}
    /\ pc \in {"readback", "retire"} => row[cur] = "referenced"

(* How far the files of the current item have got.                          *)
MigrationProgress ==
    /\ pc \in {"create", "write", "filesync", "stagesync", "link", "fin_link"} =>
         obj[cur] = NoAttempt
    /\ pc = "create" => tok[cur] \notin whole
    /\ pc = "filesync" => tok[cur] \in whole
    /\ pc \in {"stagesync", "link", "fin_link"} => tok[cur] \in wholeDisk
    /\ pc \in {"objsync", "fin_objsync"} => obj[cur] = tok[cur]
    /\ pc \in {"unstage", "unstagesync", "reference", "fin_unstage", "fin_stagesync"} =>
         objDisk[cur] = tok[cur]

MigrationInv ==
    /\ MigrationTypeOK
    /\ MigrationTokens
    /\ MigrationEntries
    /\ MigrationRows
    /\ MigrationControl
    /\ MigrationProgress

-----------------------------------------------------------------------------
(* A step that changes no row keeps what Inv says of the rows, as long as   *)
(* no object on the disk is lost.                                           *)
LEMMA MigrationRowsStutter ==
    ASSUME MigrationRows, UNCHANGED dbVars,
           \A s \in Sources : ref[s] # NoAttempt => objDisk'[s] = objDisk[s]
    PROVE  MigrationRows'
BY DEF MigrationRows, dbVars

(* A step that changes no file and no attempt keeps the rest.               *)
LEMMA MigrationFilesStutter ==
    MigrationTokens /\ MigrationEntries /\ UNCHANGED <<dirVars, tok, used>> => MigrationTokens' /\ MigrationEntries'
BY DEF MigrationTokens, MigrationEntries, dirVars

(* The item that a step on files works on has an attempt of its own.        *)
MigrationCurrent ==
    /\ cur \in Sources
    /\ row[cur] \in {"prepared", "referenced"}
    /\ tok[cur] \in Attempts
    /\ tok[cur] # NoAttempt

LEMMA MigrationCurrentAttempt ==
    ASSUME MigrationInv, pc \in {"reference", "readback", "retire"} \cup PublishSteps \cup FinishSteps
    PROVE  MigrationCurrent
BY NoAttemptAssumption
   DEF MigrationCurrent, MigrationInv, MigrationControl, MigrationTypeOK, Entry,
    PublishSteps, FinishSteps

-----------------------------------------------------------------------------
(* The steps on the files: publication and recovery.                        *)

LEMMA MigrationPublishCreateInv == MigrationInv /\ PublishCreate => MigrationInv'
<1> SUFFICES ASSUME MigrationInv, PublishCreate
             PROVE  MigrationInv'
  OBVIOUS
<1> USE DEF MigrationInv, PublishCreate, CreateStaging, Goto, dbVars
<1>0. MigrationCurrent
  BY MigrationCurrentAttempt DEF PublishSteps, FinishSteps
<1>1. MigrationTypeOK'
  BY <1>0
     DEF MigrationTypeOK, DirTypeOK, Entry, Steps, PublishSteps, FinishSteps,
      MigrationCurrent
<1>2. MigrationTokens'
  BY <1>0
     DEF MigrationCurrent, MigrationTokens, MigrationProgress, Authenticates, Absent,
      MigrationTypeOK, DirTypeOK
<1>3. MigrationEntries'
  BY <1>0
     DEF MigrationCurrent, MigrationEntries, MigrationProgress, MigrationTokens, MigrationTypeOK,
      DirTypeOK
<1>4. MigrationRows'
  BY MigrationRowsStutter, <1>0 DEF MigrationRows, MigrationEntries
<1>5. MigrationControl'
  BY <1>0 DEF MigrationControl, MigrationCurrent, PublishSteps, FinishSteps
<1>6. MigrationProgress'
  BY <1>0
     DEF MigrationCurrent, MigrationProgress, MigrationEntries, MigrationControl,
         Authenticates,
      Absent, Published,
              PublishSteps, FinishSteps, MigrationTypeOK, DirTypeOK
<1> QED
  BY <1>1, <1>2, <1>3, <1>4, <1>5, <1>6

LEMMA MigrationPublishWriteInv == MigrationInv /\ PublishWrite => MigrationInv'
<1> SUFFICES ASSUME MigrationInv, PublishWrite
             PROVE  MigrationInv'
  OBVIOUS
<1> USE DEF MigrationInv, PublishWrite, WriteStaging, Goto, dbVars
<1>0. MigrationCurrent
  BY MigrationCurrentAttempt DEF PublishSteps, FinishSteps
<1>1. MigrationTypeOK'
  BY <1>0
     DEF MigrationTypeOK, DirTypeOK, Entry, Steps, PublishSteps, FinishSteps,
      MigrationCurrent
<1>2. MigrationTokens'
  BY <1>0
     DEF MigrationCurrent, MigrationTokens, MigrationProgress, Authenticates, Absent,
      MigrationTypeOK, DirTypeOK
<1>3. MigrationEntries'
  BY <1>0
     DEF MigrationCurrent, MigrationEntries, MigrationProgress, MigrationTokens, MigrationTypeOK,
      DirTypeOK
<1>4. MigrationRows'
  BY MigrationRowsStutter, <1>0 DEF MigrationRows, MigrationEntries
<1>5. MigrationControl'
  BY <1>0 DEF MigrationControl, MigrationCurrent, PublishSteps, FinishSteps
<1>6. MigrationProgress'
  BY <1>0
     DEF MigrationCurrent, MigrationProgress, MigrationEntries, MigrationControl,
         Authenticates,
      Absent, Published,
              PublishSteps, FinishSteps, MigrationTypeOK, DirTypeOK
<1> QED
  BY <1>1, <1>2, <1>3, <1>4, <1>5, <1>6

LEMMA MigrationPublishFileSyncInv == MigrationInv /\ PublishFileSync => MigrationInv'
<1> SUFFICES ASSUME MigrationInv, PublishFileSync
             PROVE  MigrationInv'
  OBVIOUS
<1> USE DEF MigrationInv, PublishFileSync, SyncFile, Goto, dbVars
<1>0. MigrationCurrent
  BY MigrationCurrentAttempt DEF PublishSteps, FinishSteps
<1>1. MigrationTypeOK'
  BY <1>0
     DEF MigrationTypeOK, DirTypeOK, Entry, Steps, PublishSteps, FinishSteps,
      MigrationCurrent
<1>2. MigrationTokens'
  BY <1>0
     DEF MigrationCurrent, MigrationTokens, MigrationProgress, Authenticates, Absent,
      MigrationTypeOK, DirTypeOK
<1>3. MigrationEntries'
  BY <1>0
     DEF MigrationCurrent, MigrationEntries, MigrationProgress, MigrationTokens, MigrationTypeOK,
      DirTypeOK
<1>4. MigrationRows'
  BY MigrationRowsStutter, <1>0 DEF MigrationRows, MigrationEntries
<1>5. MigrationControl'
  BY <1>0 DEF MigrationControl, MigrationCurrent, PublishSteps, FinishSteps
<1>6. MigrationProgress'
  BY <1>0
     DEF MigrationCurrent, MigrationProgress, MigrationEntries, MigrationControl,
         Authenticates,
      Absent, Published,
              PublishSteps, FinishSteps, MigrationTypeOK, DirTypeOK
<1> QED
  BY <1>1, <1>2, <1>3, <1>4, <1>5, <1>6

LEMMA MigrationPublishStagingSyncInv == MigrationInv /\ PublishStagingSync => MigrationInv'
<1> SUFFICES ASSUME MigrationInv, PublishStagingSync
             PROVE  MigrationInv'
  OBVIOUS
<1> USE DEF MigrationInv, PublishStagingSync, SyncStaging, Goto, dbVars
<1>0. MigrationCurrent
  BY MigrationCurrentAttempt DEF PublishSteps, FinishSteps
<1>1. MigrationTypeOK'
  BY <1>0
     DEF MigrationTypeOK, DirTypeOK, Entry, Steps, PublishSteps, FinishSteps,
      MigrationCurrent
<1>2. MigrationTokens'
  BY <1>0
     DEF MigrationCurrent, MigrationTokens, MigrationProgress, Authenticates, Absent,
      MigrationTypeOK, DirTypeOK
<1>3. MigrationEntries'
  BY <1>0
     DEF MigrationCurrent, MigrationEntries, MigrationProgress, MigrationTokens, MigrationTypeOK,
      DirTypeOK
<1>4. MigrationRows'
  BY MigrationRowsStutter, <1>0 DEF MigrationRows, MigrationEntries
<1>5. MigrationControl'
  BY <1>0 DEF MigrationControl, MigrationCurrent, PublishSteps, FinishSteps
<1>6. MigrationProgress'
  BY <1>0
     DEF MigrationCurrent, MigrationProgress, MigrationEntries, MigrationControl,
         Authenticates,
      Absent, Published,
              PublishSteps, FinishSteps, MigrationTypeOK, DirTypeOK
<1> QED
  BY <1>1, <1>2, <1>3, <1>4, <1>5, <1>6

LEMMA MigrationPublishLinkInv == MigrationInv /\ PublishLink => MigrationInv'
<1> SUFFICES ASSUME MigrationInv, PublishLink
             PROVE  MigrationInv'
  OBVIOUS
<1> USE DEF MigrationInv, PublishLink, LinkObject, Goto, dbVars
<1>0. MigrationCurrent
  BY MigrationCurrentAttempt DEF PublishSteps, FinishSteps
<1>1. MigrationTypeOK'
  BY <1>0
     DEF MigrationTypeOK, DirTypeOK, Entry, Steps, PublishSteps, FinishSteps,
      MigrationCurrent
<1>2. MigrationTokens'
  BY <1>0
     DEF MigrationCurrent, MigrationTokens, MigrationProgress, Authenticates, Absent,
      MigrationTypeOK, DirTypeOK
<1>3. MigrationEntries'
  BY <1>0
     DEF MigrationCurrent, MigrationEntries, MigrationProgress, MigrationTokens, MigrationTypeOK,
      DirTypeOK
<1>4. MigrationRows'
  BY MigrationRowsStutter, <1>0 DEF MigrationRows, MigrationEntries
<1>5. MigrationControl'
  BY <1>0 DEF MigrationControl, MigrationCurrent, PublishSteps, FinishSteps
<1>6. MigrationProgress'
  BY <1>0
     DEF MigrationCurrent, MigrationProgress, MigrationEntries, MigrationControl,
         Authenticates,
      Absent, Published,
              PublishSteps, FinishSteps, MigrationTypeOK, DirTypeOK
<1> QED
  BY <1>1, <1>2, <1>3, <1>4, <1>5, <1>6

LEMMA MigrationPublishObjectSyncInv == MigrationInv /\ PublishObjectSync => MigrationInv'
<1> SUFFICES ASSUME MigrationInv, PublishObjectSync
             PROVE  MigrationInv'
  OBVIOUS
<1> USE DEF MigrationInv, PublishObjectSync, SyncObjects, Goto, dbVars
<1>0. MigrationCurrent
  BY MigrationCurrentAttempt DEF PublishSteps, FinishSteps
<1>1. MigrationTypeOK'
  BY <1>0
     DEF MigrationTypeOK, DirTypeOK, Entry, Steps, PublishSteps, FinishSteps,
      MigrationCurrent
<1>2. MigrationTokens'
  BY <1>0
     DEF MigrationCurrent, MigrationTokens, MigrationProgress, Authenticates, Absent,
      MigrationTypeOK, DirTypeOK
<1>3. MigrationEntries'
  BY <1>0
     DEF MigrationCurrent, MigrationEntries, MigrationProgress, MigrationTokens, MigrationTypeOK,
      DirTypeOK
<1>4. MigrationRows'
  BY MigrationRowsStutter, <1>0 DEF MigrationRows, MigrationEntries
<1>5. MigrationControl'
  BY <1>0 DEF MigrationControl, MigrationCurrent, PublishSteps, FinishSteps
<1>6. MigrationProgress'
  BY <1>0
     DEF MigrationCurrent, MigrationProgress, MigrationEntries, MigrationControl,
         Authenticates,
      Absent, Published,
              PublishSteps, FinishSteps, MigrationTypeOK, DirTypeOK
<1> QED
  BY <1>1, <1>2, <1>3, <1>4, <1>5, <1>6

LEMMA MigrationPublishRemoveStagingInv == MigrationInv /\ PublishRemoveStaging => MigrationInv'
<1> SUFFICES ASSUME MigrationInv, PublishRemoveStaging
             PROVE  MigrationInv'
  OBVIOUS
<1> USE DEF MigrationInv, PublishRemoveStaging, RemoveStaging, Goto, dbVars
<1>0. MigrationCurrent
  BY MigrationCurrentAttempt DEF PublishSteps, FinishSteps
<1>1. MigrationTypeOK'
  BY <1>0
     DEF MigrationTypeOK, DirTypeOK, Entry, Steps, PublishSteps, FinishSteps,
      MigrationCurrent
<1>2. MigrationTokens'
  BY <1>0
     DEF MigrationCurrent, MigrationTokens, MigrationProgress, Authenticates, Absent,
      MigrationTypeOK, DirTypeOK
<1>3. MigrationEntries'
  BY <1>0
     DEF MigrationCurrent, MigrationEntries, MigrationProgress, MigrationTokens, MigrationTypeOK,
      DirTypeOK
<1>4. MigrationRows'
  BY MigrationRowsStutter, <1>0 DEF MigrationRows, MigrationEntries
<1>5. MigrationControl'
  BY <1>0 DEF MigrationControl, MigrationCurrent, PublishSteps, FinishSteps
<1>6. MigrationProgress'
  BY <1>0
     DEF MigrationCurrent, MigrationProgress, MigrationEntries, MigrationControl,
         Authenticates,
      Absent, Published,
              PublishSteps, FinishSteps, MigrationTypeOK, DirTypeOK
<1> QED
  BY <1>1, <1>2, <1>3, <1>4, <1>5, <1>6

LEMMA MigrationPublishCleanupSyncInv == MigrationInv /\ PublishCleanupSync => MigrationInv'
<1> SUFFICES ASSUME MigrationInv, PublishCleanupSync
             PROVE  MigrationInv'
  OBVIOUS
<1> USE DEF MigrationInv, PublishCleanupSync, SyncStaging, Goto, dbVars
<1>0. MigrationCurrent
  BY MigrationCurrentAttempt DEF PublishSteps, FinishSteps
<1>1. MigrationTypeOK'
  BY <1>0
     DEF MigrationTypeOK, DirTypeOK, Entry, Steps, PublishSteps, FinishSteps,
      MigrationCurrent
<1>2. MigrationTokens'
  BY <1>0
     DEF MigrationCurrent, MigrationTokens, MigrationProgress, Authenticates, Absent,
      MigrationTypeOK, DirTypeOK
<1>3. MigrationEntries'
  BY <1>0
     DEF MigrationCurrent, MigrationEntries, MigrationProgress, MigrationTokens, MigrationTypeOK,
      DirTypeOK
<1>4. MigrationRows'
  BY MigrationRowsStutter, <1>0 DEF MigrationRows, MigrationEntries
<1>5. MigrationControl'
  BY <1>0 DEF MigrationControl, MigrationCurrent, PublishSteps, FinishSteps
<1>6. MigrationProgress'
  BY <1>0
     DEF MigrationCurrent, MigrationProgress, MigrationEntries, MigrationControl,
         Authenticates,
      Absent, Published,
              PublishSteps, FinishSteps, MigrationTypeOK, DirTypeOK
<1> QED
  BY <1>1, <1>2, <1>3, <1>4, <1>5, <1>6

LEMMA MigrationFinishInspectInv == MigrationInv /\ FinishInspect => MigrationInv'
<1> SUFFICES ASSUME MigrationInv, FinishInspect
             PROVE  MigrationInv'
  OBVIOUS
<1> USE DEF MigrationInv, FinishInspect, SyncFile, Goto, dbVars
<1>0. MigrationCurrent
  BY MigrationCurrentAttempt DEF PublishSteps, FinishSteps
<1>1. MigrationTypeOK'
  BY <1>0
     DEF MigrationTypeOK, DirTypeOK, Entry, Steps, PublishSteps, FinishSteps,
      MigrationCurrent
<1>2. MigrationTokens'
  BY <1>0
     DEF MigrationCurrent, MigrationTokens, MigrationProgress, Authenticates, Absent,
      MigrationTypeOK, DirTypeOK
<1>3. MigrationEntries'
  BY <1>0
     DEF MigrationCurrent, MigrationEntries, MigrationProgress, MigrationTokens, MigrationTypeOK,
      DirTypeOK
<1>4. MigrationRows'
  BY MigrationRowsStutter, <1>0 DEF MigrationRows, MigrationEntries
<1>5. MigrationControl'
  BY <1>0 DEF MigrationControl, MigrationCurrent, PublishSteps, FinishSteps
<1>6. MigrationProgress'
  BY <1>0
     DEF MigrationCurrent, MigrationProgress, MigrationEntries, MigrationControl,
         Authenticates,
      Absent, Published,
              PublishSteps, FinishSteps, MigrationTypeOK, DirTypeOK
<1> QED
  BY <1>1, <1>2, <1>3, <1>4, <1>5, <1>6

LEMMA MigrationFinishLinkInv == MigrationInv /\ FinishLink => MigrationInv'
<1> SUFFICES ASSUME MigrationInv, FinishLink
             PROVE  MigrationInv'
  OBVIOUS
<1> USE DEF MigrationInv, FinishLink, LinkObject, Goto, dbVars
<1>0. MigrationCurrent
  BY MigrationCurrentAttempt DEF PublishSteps, FinishSteps
<1>1. MigrationTypeOK'
  BY <1>0
     DEF MigrationTypeOK, DirTypeOK, Entry, Steps, PublishSteps, FinishSteps,
      MigrationCurrent
<1>2. MigrationTokens'
  BY <1>0
     DEF MigrationCurrent, MigrationTokens, MigrationProgress, Authenticates, Absent,
      MigrationTypeOK, DirTypeOK
<1>3. MigrationEntries'
  BY <1>0
     DEF MigrationCurrent, MigrationEntries, MigrationProgress, MigrationTokens, MigrationTypeOK,
      DirTypeOK
<1>4. MigrationRows'
  BY MigrationRowsStutter, <1>0 DEF MigrationRows, MigrationEntries
<1>5. MigrationControl'
  BY <1>0 DEF MigrationControl, MigrationCurrent, PublishSteps, FinishSteps
<1>6. MigrationProgress'
  BY <1>0
     DEF MigrationCurrent, MigrationProgress, MigrationEntries, MigrationControl,
         Authenticates,
      Absent, Published,
              PublishSteps, FinishSteps, MigrationTypeOK, DirTypeOK
<1> QED
  BY <1>1, <1>2, <1>3, <1>4, <1>5, <1>6

LEMMA MigrationFinishObjectSyncInv == MigrationInv /\ FinishObjectSync => MigrationInv'
<1> SUFFICES ASSUME MigrationInv, FinishObjectSync
             PROVE  MigrationInv'
  OBVIOUS
<1> USE DEF MigrationInv, FinishObjectSync, SyncObjects, Goto, dbVars
<1>0. MigrationCurrent
  BY MigrationCurrentAttempt DEF PublishSteps, FinishSteps
<1>1. MigrationTypeOK'
  BY <1>0
     DEF MigrationTypeOK, DirTypeOK, Entry, Steps, PublishSteps, FinishSteps,
      MigrationCurrent
<1>2. MigrationTokens'
  BY <1>0
     DEF MigrationCurrent, MigrationTokens, MigrationProgress, Authenticates, Absent,
      MigrationTypeOK, DirTypeOK
<1>3. MigrationEntries'
  BY <1>0
     DEF MigrationCurrent, MigrationEntries, MigrationProgress, MigrationTokens, MigrationTypeOK,
      DirTypeOK
<1>4. MigrationRows'
  BY MigrationRowsStutter, <1>0 DEF MigrationRows, MigrationEntries
<1>5. MigrationControl'
  BY <1>0 DEF MigrationControl, MigrationCurrent, PublishSteps, FinishSteps
<1>6. MigrationProgress'
  BY <1>0
     DEF MigrationCurrent, MigrationProgress, MigrationEntries, MigrationControl,
         Authenticates,
      Absent, Published,
              PublishSteps, FinishSteps, MigrationTypeOK, DirTypeOK
<1> QED
  BY <1>1, <1>2, <1>3, <1>4, <1>5, <1>6

LEMMA MigrationFinishRemoveStagingInv == MigrationInv /\ FinishRemoveStaging => MigrationInv'
<1> SUFFICES ASSUME MigrationInv, FinishRemoveStaging
             PROVE  MigrationInv'
  OBVIOUS
<1> USE DEF MigrationInv, FinishRemoveStaging, RemoveStaging, Goto, dbVars
<1>0. MigrationCurrent
  BY MigrationCurrentAttempt DEF PublishSteps, FinishSteps
<1>1. MigrationTypeOK'
  BY <1>0
     DEF MigrationTypeOK, DirTypeOK, Entry, Steps, PublishSteps, FinishSteps,
      MigrationCurrent
<1>2. MigrationTokens'
  BY <1>0
     DEF MigrationCurrent, MigrationTokens, MigrationProgress, Authenticates, Absent,
      MigrationTypeOK, DirTypeOK
<1>3. MigrationEntries'
  BY <1>0
     DEF MigrationCurrent, MigrationEntries, MigrationProgress, MigrationTokens, MigrationTypeOK,
      DirTypeOK
<1>4. MigrationRows'
  BY MigrationRowsStutter, <1>0 DEF MigrationRows, MigrationEntries
<1>5. MigrationControl'
  BY <1>0 DEF MigrationControl, MigrationCurrent, PublishSteps, FinishSteps
<1>6. MigrationProgress'
  BY <1>0
     DEF MigrationCurrent, MigrationProgress, MigrationEntries, MigrationControl,
         Authenticates,
      Absent, Published,
              PublishSteps, FinishSteps, MigrationTypeOK, DirTypeOK
<1> QED
  BY <1>1, <1>2, <1>3, <1>4, <1>5, <1>6

LEMMA MigrationFinishStagingSyncInv == MigrationInv /\ FinishStagingSync => MigrationInv'
<1> SUFFICES ASSUME MigrationInv, FinishStagingSync
             PROVE  MigrationInv'
  OBVIOUS
<1> USE DEF MigrationInv, FinishStagingSync, SyncStaging, Goto, dbVars
<1>0. MigrationCurrent
  BY MigrationCurrentAttempt DEF PublishSteps, FinishSteps
<1>1. MigrationTypeOK'
  BY <1>0
     DEF MigrationTypeOK, DirTypeOK, Entry, Steps, PublishSteps, FinishSteps,
      MigrationCurrent
<1>2. MigrationTokens'
  BY <1>0
     DEF MigrationCurrent, MigrationTokens, MigrationProgress, Authenticates, Absent,
      MigrationTypeOK, DirTypeOK
<1>3. MigrationEntries'
  BY <1>0
     DEF MigrationCurrent, MigrationEntries, MigrationProgress, MigrationTokens, MigrationTypeOK,
      DirTypeOK
<1>4. MigrationRows'
  BY MigrationRowsStutter, <1>0 DEF MigrationRows, MigrationEntries
<1>5. MigrationControl'
  BY <1>0 DEF MigrationControl, MigrationCurrent, PublishSteps, FinishSteps
<1>6. MigrationProgress'
  BY <1>0
     DEF MigrationCurrent, MigrationProgress, MigrationEntries, MigrationControl,
         Authenticates,
      Absent, Published,
              PublishSteps, FinishSteps, MigrationTypeOK, DirTypeOK
<1> QED
  BY <1>1, <1>2, <1>3, <1>4, <1>5, <1>6

-----------------------------------------------------------------------------
(* The steps that only look: opening, inspecting, choosing an item, reading *)
(* back, and the end of a call by an error.                                 *)
LEMMA LookingInv ==
    ASSUME MigrationInv, \/ StartMigration \/ Inspect \/ \E s \in Sources : NextItem(s)
                \/ ReadBack \/ MigrationFails
    PROVE  MigrationInv'
<1> USE DEF MigrationInv
<1>1. UNCHANGED <<dirVars, dbVars>>
  BY DEF StartMigration, Inspect, NextItem, ReadBack, MigrationFails
<1>2. MigrationTokens' /\ MigrationEntries' /\ MigrationRows'
  BY <1>1, MigrationFilesStutter, MigrationRowsStutter DEF dbVars, dirVars
<1>3. CASE StartMigration
  BY <1>1, <1>2, <1>3 DEF StartMigration, Goto, MigrationTypeOK, DirTypeOK, Steps,
      MigrationControl, MigrationProgress,
                          PublishSteps, FinishSteps, dirVars, dbVars
<1>4. CASE Inspect
  BY <1>1, <1>2, <1>4
     DEF Inspect, Goto, MigrationTypeOK, DirTypeOK, Steps, MigrationControl,
      MigrationProgress,
                          PublishSteps, FinishSteps, dirVars, dbVars
<1>5. CASE \E s \in Sources : NextItem(s)
  <2>1. PICK s \in Sources : NextItem(s)
    BY <1>5
  <2>2. row[s] \in {"planned", "prepared", "referenced"}
    BY <2>1 DEF NextItem, Items, MigrationTypeOK
  <2>3. row[s] = "planned" => tok[s] = NoAttempt /\ obj[s] = NoAttempt
    BY DEF MigrationTypeOK, MigrationEntries
  <2>4. NoAttempt \notin stage
    BY NoAttemptAssumption DEF MigrationTypeOK, DirTypeOK
  <2>5. MigrationTypeOK'
    BY <1>1, <2>1
       DEF NextItem, MigrationTypeOK, DirTypeOK, Steps, FinishSteps, dirVars,
        dbVars
  <2>6. MigrationControl' /\ MigrationProgress'
    BY <1>1, <2>1, <2>2, <2>3, <2>4
       DEF NextItem, Absent, MigrationControl, MigrationProgress, PublishSteps,
           FinishSteps, dirVars, dbVars
  <2> QED
    BY <1>2, <2>5, <2>6
<1>6. CASE ReadBack
  BY <1>1, <1>2, <1>6
     DEF ReadBack, Goto, MigrationTypeOK, DirTypeOK, Steps, MigrationControl,
      MigrationProgress,
                          PublishSteps, FinishSteps, dirVars, dbVars
<1>7. CASE MigrationFails
  BY <1>1, <1>2, <1>7 DEF MigrationFails, MigrationTypeOK, DirTypeOK, Steps, MigrationControl,
      MigrationProgress,
                          PublishSteps, FinishSteps, dirVars, dbVars
<1> QED
  BY <1>3, <1>4, <1>5, <1>6, <1>7

-----------------------------------------------------------------------------
(* The transactions.                                                        *)

(* Every body gets its row, and no attempt or file exists before that.      *)
LEMMA InitializeInventoryInv == MigrationInv /\ InitializeInventory => MigrationInv'
<1> SUFFICES ASSUME MigrationInv, InitializeInventory
             PROVE  MigrationInv'
  OBVIOUS
<1> USE DEF MigrationInv, InitializeInventory, Goto
<1>1. \A s \in Sources : row[s] = "none" /\ tok[s] = NoAttempt /\ ref[s] = NoAttempt
  BY DEF MigrationControl, MigrationRows, MigrationTypeOK
<1>2. MigrationTypeOK'
  BY <1>1 DEF MigrationTypeOK, DirTypeOK, dirVars, Steps
<1>3. MigrationTokens' /\ MigrationEntries'
  BY MigrationFilesStutter
<1>4. MigrationRows'
  BY <1>1 DEF MigrationRows, MigrationControl
<1>5. MigrationControl' /\ MigrationProgress'
  BY DEF MigrationControl, MigrationProgress, PublishSteps, FinishSteps
<1> QED
  BY <1>2, <1>3, <1>4, <1>5

(* A fresh attempt replaces one of which no file is left, on the disk       *)
(* either.                                                                  *)
LEMMA PrepareInv == ASSUME NEW a \in Attempts, MigrationInv, PrepareItem(a) PROVE MigrationInv'
<1> USE DEF MigrationInv, PrepareItem, Goto
<1>0. cur \in Sources /\ a # NoAttempt /\ a \notin used
  BY NoAttemptAssumption DEF MigrationControl
<1>1. ref[cur] = NoAttempt /\ obj[cur] = NoAttempt /\ objDisk[cur] = NoAttempt
  BY <1>0 DEF MigrationControl, MigrationRows, MigrationEntries
<1>2. tok[cur] \notin stage \cup stageDisk
  <2>1. tok[cur] \notin stage
    BY DEF MigrationControl
  <2>2. ASSUME tok[cur] \in stageDisk
        PROVE  FALSE
    <3>1. tok[cur] # NoAttempt
      BY <2>2, NoAttemptAssumption DEF MigrationTypeOK, DirTypeOK
    <3>2. PICK s \in Sources : objDisk[s] = tok[cur]
      BY <2>1, <2>2 DEF MigrationEntries
    <3>3. tok[s] = tok[cur]
      BY <3>1, <3>2 DEF MigrationEntries
    <3>4. s = cur
      BY <1>0, <3>1, <3>3 DEF MigrationTokens
    <3> QED
      BY <1>1, <3>1, <3>2, <3>4
  <2> QED
    BY <2>1, <2>2
<1>3. MigrationTypeOK'
  BY <1>0 DEF MigrationTypeOK, DirTypeOK, dirVars, Entry, Steps, PublishSteps
<1>4. MigrationTokens'
  BY <1>0 DEF MigrationTokens, dirVars, MigrationTypeOK
<1>5. \A s \in Sources : s # cur => tok'[s] = tok[s]
  BY DEF MigrationTypeOK
<1>6. MigrationEntries'
  BY <1>0, <1>1, <1>2, <1>5 DEF MigrationEntries, dirVars
<1>7. MigrationRows'
  BY <1>0, <1>1, <1>5 DEF MigrationRows, MigrationControl, dirVars, MigrationTypeOK
<1>8. MigrationControl'
  BY <1>0 DEF MigrationControl, PublishSteps, FinishSteps, MigrationTypeOK
<1>9. MigrationProgress'
  BY <1>0, <1>1 DEF MigrationProgress, dirVars, MigrationTypeOK, MigrationTokens
<1> QED
  BY <1>3, <1>4, <1>6, <1>7, <1>8, <1>9

(* The reference is written when the object is on the disk.                 *)
LEMMA CommitReferenceInv == MigrationInv /\ CommitReference => MigrationInv'
<1> SUFFICES ASSUME MigrationInv, CommitReference
             PROVE  MigrationInv'
  OBVIOUS
<1> USE DEF MigrationInv, CommitReference, Goto
<1>0. MigrationCurrent
  BY MigrationCurrentAttempt
<1>1. MigrationTypeOK'
  BY <1>0 DEF MigrationTypeOK, DirTypeOK, dirVars, Entry, Steps, FinishSteps,
      MigrationCurrent
<1>2. MigrationTokens' /\ MigrationEntries'
  BY MigrationFilesStutter
<1>3. MigrationRows'
  BY <1>0
     DEF MigrationRows, MigrationControl, MigrationProgress, MigrationCurrent, dirVars,
         MigrationTypeOK
<1>4. MigrationControl' /\ MigrationProgress'
  BY <1>0
     DEF MigrationControl, MigrationProgress, MigrationCurrent, PublishSteps,
         FinishSteps,
      MigrationTypeOK, dirVars
<1> QED
  BY <1>1, <1>2, <1>3, <1>4

LEMMA RetireInlineInv == MigrationInv /\ RetireInline => MigrationInv'
<1> SUFFICES ASSUME MigrationInv, RetireInline
             PROVE  MigrationInv'
  OBVIOUS
<1> USE DEF MigrationInv, RetireInline
<1>0. MigrationCurrent
  BY MigrationCurrentAttempt
<1>1. MigrationTypeOK'
  BY <1>0 DEF MigrationTypeOK, DirTypeOK, dirVars, Steps, MigrationCurrent
<1>2. MigrationTokens' /\ MigrationEntries'
  BY MigrationFilesStutter
<1>3. MigrationRows'
  BY <1>0 DEF MigrationRows, MigrationControl, MigrationCurrent, dirVars, MigrationTypeOK
<1>4. MigrationControl' /\ MigrationProgress'
  BY DEF MigrationControl, MigrationProgress, PublishSteps, FinishSteps
<1> QED
  BY <1>1, <1>2, <1>3, <1>4

LEMMA FinishMigrationInv == MigrationInv /\ FinishMigration => MigrationInv'
<1> SUFFICES ASSUME MigrationInv, FinishMigration
             PROVE  MigrationInv'
  OBVIOUS
<1> USE DEF MigrationInv, FinishMigration, Goto
<1>1. MigrationTypeOK'
  BY DEF MigrationTypeOK, DirTypeOK, dirVars, Steps
<1>2. MigrationTokens' /\ MigrationEntries'
  BY MigrationFilesStutter
<1>3. MigrationRows'
  BY DEF MigrationRows, Items, dirVars, MigrationTypeOK
<1>4. MigrationControl' /\ MigrationProgress'
  BY DEF MigrationControl, MigrationProgress, PublishSteps, FinishSteps
<1> QED
  BY <1>1, <1>2, <1>3, <1>4

(* Power is lost: what was synced stays, and only that counted.             *)
LEMMA MigrationPowerLossInv == MigrationInv /\ PowerLoss => MigrationInv'
<1> SUFFICES ASSUME MigrationInv, PowerLoss
             PROVE  MigrationInv'
  OBVIOUS
<1> USE DEF MigrationInv, PowerLoss, dbVars
<1>1. PICK kept \in SUBSET ((stage \ stageDisk) \cup (stageDisk \ stage)),
           back \in SUBSET {s \in Sources : obj[s] # objDisk[s]},
           torn \in SUBSET (whole \ wholeDisk) :
             /\ stage' = (stage \cap stageDisk) \cup kept
             /\ obj' = [s \in Sources |-> IF s \in back THEN objDisk[s] ELSE obj[s]]
             /\ whole' = whole \ torn
             /\ stageDisk' = stage'
             /\ objDisk' = obj'
             /\ wholeDisk' = whole'
  BY DEF DirPowerLoss
<1>2. MigrationTypeOK'
  BY <1>1 DEF MigrationTypeOK, DirTypeOK, Steps
<1>3. \A s \in Sources : objDisk[s] # NoAttempt => objDisk'[s] = objDisk[s]
  BY <1>1 DEF MigrationEntries
<1>4. wholeDisk \subseteq wholeDisk' /\ whole' \subseteq whole
  BY <1>1 DEF MigrationTokens
<1>5. MigrationTokens'
  BY <1>1, <1>4 DEF MigrationTokens
<1>6. MigrationEntries'
  BY <1>1, <1>4 DEF MigrationEntries
<1>7. MigrationRows'
  <2>1. \A s \in Sources : ref[s] # NoAttempt => objDisk'[s] = objDisk[s]
    BY <1>3 DEF MigrationRows
  <2> QED
    BY <2>1, MigrationRowsStutter
<1>8. MigrationControl' /\ MigrationProgress'
  BY DEF MigrationControl, MigrationProgress, PublishSteps, FinishSteps
<1> QED
  BY <1>2, <1>5, <1>6, <1>7, <1>8

-----------------------------------------------------------------------------
LEMMA MigrationInvInit == MigrationInit => MigrationInv
BY NoAttemptAssumption
   DEF MigrationInit, DirInit, MigrationInv, MigrationTypeOK, DirTypeOK, Entry, Steps,
       MigrationTokens, MigrationEntries, MigrationRows, MigrationControl,
       MigrationProgress, PublishSteps, FinishSteps

LEMMA MigrationInvNext == MigrationInv /\ [MigrationNext]_migrationVars => MigrationInv'
<1> SUFFICES ASSUME MigrationInv, [MigrationNext]_migrationVars
             PROVE  MigrationInv'
  OBVIOUS
<1>1. CASE StartMigration
  BY <1>1, LookingInv
<1>2. CASE Advance
  BY <1>2, LookingInv, InitializeInventoryInv, PrepareInv, MigrationPublishCreateInv,
      MigrationPublishWriteInv,
     MigrationPublishFileSyncInv, MigrationPublishStagingSyncInv, MigrationPublishLinkInv,
     MigrationPublishObjectSyncInv,
     MigrationPublishRemoveStagingInv, MigrationPublishCleanupSyncInv, MigrationFinishInspectInv,
     MigrationFinishLinkInv,
     MigrationFinishObjectSyncInv, MigrationFinishRemoveStagingInv, MigrationFinishStagingSyncInv,
     CommitReferenceInv,
     RetireInlineInv, FinishMigrationInv
     DEF Advance
<1>3. CASE MigrationFails \/ PowerLoss
  BY <1>3, LookingInv, MigrationPowerLossInv
<1>4. CASE UNCHANGED migrationVars
  BY <1>4
     DEF migrationVars, dirVars, dbVars, MigrationInv, MigrationTypeOK, DirTypeOK,
         MigrationTokens,
      MigrationEntries, MigrationRows, MigrationControl,
              MigrationProgress
<1> QED
  BY <1>1, <1>2, <1>3, <1>4 DEF MigrationNext

(* The strengthened invariant, from which the theorems below follow.        *)
THEOREM MigrationInvariance == MigrationSpec => []MigrationInv
BY MigrationInvInit, MigrationInvNext, PTL DEF MigrationSpec

(* Rows, files and steps keep to the states the schema and the coordinator  *)
(* know, through every interruption.                                        *)
THEOREM MigrationTypeCorrect == MigrationSpec => []MigrationTypeOK
<1>1. MigrationInv => MigrationTypeOK
  BY DEF MigrationInv
<1> QED
  BY <1>1, MigrationInvariance, PTL

(* No body is ever without a home that survives a loss of power.            *)
THEOREM BodiesAreNeverLost == MigrationSpec => []NoBodyLost
<1>1. ASSUME MigrationInv, NEW s \in Items, s \notin inline
      PROVE  ref[s] # NoAttempt /\ Durable(s)
  <2>1. s \in Sources /\ row[s] = "retired"
    BY <1>1 DEF Items, MigrationInv, MigrationRows, MigrationTypeOK
  <2>2. ref[s] # NoAttempt /\ ref[s] = tok[s] /\ objDisk[s] = tok[s]
    BY <1>1, <2>1 DEF MigrationInv, MigrationRows
  <2>3. tok[s] \in wholeDisk
    BY <1>1, <2>1, <2>2 DEF MigrationInv, MigrationEntries
  <2> QED
    BY <2>2, <2>3 DEF Durable
<1>2. MigrationInv => NoBodyLost
  BY <1>1 DEF NoBodyLost
<1> QED
  BY <1>2, MigrationInvariance, PTL

(* A file that does not authenticate is the staging file of a prepared      *)
(* item.                                                                    *)
THEOREM TornFilesArePrepared == MigrationSpec => []TornFileIsPrepared
<1>1. ASSUME MigrationInv, NEW a \in stage \ whole
      PROVE  Torn
  <2>1. PICK s \in Sources : tok[s] = a
    BY <1>1 DEF MigrationInv, MigrationEntries
  <2>2. tok[s] # NoAttempt
    BY <1>1, <2>1, NoAttemptAssumption DEF MigrationInv, MigrationTypeOK, DirTypeOK
  <2>3. ASSUME ref[s] # NoAttempt PROVE FALSE
    BY <1>1, <2>1, <2>2, <2>3 DEF MigrationInv, MigrationRows, MigrationEntries, MigrationTokens
  <2>4. row[s] = "prepared"
    BY <1>1, <2>2, <2>3 DEF MigrationInv, MigrationRows, MigrationTypeOK
  <2> QED
    BY <2>1, <2>4 DEF Torn
<1>2. MigrationInv => \A s \in Sources : obj[s] # NoAttempt => obj[s] = tok[s] /\ obj[s] \in whole
  BY DEF MigrationInv, MigrationEntries, MigrationTokens
<1>3. MigrationInv => TornFileIsPrepared
  BY <1>1, <1>2 DEF TornFileIsPrepared
<1> QED
  BY <1>3, MigrationInvariance, PTL

(* A call that was interrupted anywhere is accepted again.                  *)
THEOREM InterruptedCallsResume == MigrationSpec => []ResumeAccepted
<1>1. ASSUME MigrationInv
      PROVE  VerifyStructure
  BY <1>1 DEF VerifyStructure, MigrationInv, MigrationRows, MigrationControl, MigrationTypeOK
<1>2. ASSUME MigrationInv, version = 7
      PROVE  stage = {} /\ \A s \in Sources : obj[s] = NoAttempt
  <2>1. \A s \in Sources : tok[s] = NoAttempt
    BY <1>2 DEF MigrationInv, MigrationRows, MigrationTypeOK
  <2> QED
    BY <1>2, <2>1, NoAttemptAssumption
       DEF MigrationInv, MigrationEntries, MigrationTypeOK, DirTypeOK
<1>3. ASSUME MigrationInv, ~Torn
      PROVE  InspectAll
  <2> USE <1>3 DEF MigrationInv
  <2>1. \A s \in Sources : tok[s] # NoAttempt => row[s] \notin {"none", "planned"}
    BY DEF MigrationTypeOK
  <2>2. \A a \in stage : \E s \in Sources : tok[s] = a /\ tok[s] # NoAttempt
    BY NoAttemptAssumption DEF MigrationEntries, MigrationTypeOK, DirTypeOK
  <2>3. VerifyInventory
    BY <2>1, <2>2 DEF VerifyInventory, Items, MigrationEntries
  <2>4. ASSUME NEW s \in Sources, row[s] \notin {"none", "planned"}
        PROVE  Authenticates(s, tok[s])
    <3>1. tok[s] \in stage => tok[s] \in whole
      <4>1. CASE row[s] = "prepared"
        BY <4>1 DEF Torn
      <4>2. CASE row[s] # "prepared"
        BY <2>4, <4>2 DEF MigrationRows, MigrationEntries, MigrationTokens, MigrationTypeOK
      <4> QED
        BY <4>1, <4>2
    <3> QED
      BY <3>1 DEF Authenticates, MigrationEntries, MigrationTokens
  <2>5. ASSUME NEW s \in Sources, row[s] \in {"referenced", "retired"}
        PROVE  ReadReference(s)
    <3>1. ref[s] # NoAttempt /\ ref[s] = tok[s] /\ objDisk[s] = tok[s]
      BY <2>5 DEF MigrationRows
    <3>2. obj[s] = tok[s]
      BY <3>1 DEF MigrationEntries
    <3> QED
      BY <2>4, <2>5, <3>1, <3>2 DEF ReadReference, Published
  <2> QED
    BY <2>3, <2>4, <2>5 DEF InspectAll, Items
<1>4. MigrationInv => ResumeAccepted
  BY <1>1, <1>2, <1>3 DEF ResumeAccepted
<1> QED
  BY <1>4, MigrationInvariance, PTL

(* The attempt of an item is replaced only when no file of it is left.      *)
THEOREM NoAttemptLeftBehind == MigrationSpec => NoFileOrphaned
<1> DEFINE Kept == \A s \in Sources : tok[s] # NoAttempt /\ tok'[s] # tok[s] =>
                                         tok[s] \notin stage /\ obj[s] = NoAttempt
<1>1. ASSUME MigrationInv, [MigrationNext]_migrationVars
      PROVE  Kept
  <2>1. CASE tok' = tok
    BY <2>1
  <2>2. CASE \E a \in Attempts : PrepareItem(a)
    BY <1>1, <2>2 DEF PrepareItem, MigrationInv, MigrationControl, MigrationTypeOK
  <2> QED
    BY <1>1, <2>1, <2>2
       DEF MigrationNext, Advance, migrationVars, dbVars, StartMigration, InitializeInventory, Inspect, NextItem,
           PublishCreate, PublishWrite, PublishFileSync, PublishStagingSync,
           PublishLink,
           PublishObjectSync, PublishRemoveStaging, PublishCleanupSync, FinishInspect,
           FinishLink, FinishObjectSync, FinishRemoveStaging, FinishStagingSync,
           CommitReference, ReadBack, RetireInline, FinishMigration, MigrationFails, PowerLoss
<1>2. MigrationInv /\ [MigrationNext]_migrationVars => [Kept]_migrationVars
  BY <1>1
<1> QED
  BY <1>2, MigrationInvariance, PTL DEF MigrationSpec, NoFileOrphaned

-----------------------------------------------------------------------------
(* The migration implements BodyHome.                                       *)

(* The initial states of the migration are initial states of BodyHome.      *)
LEMMA HomeInitially == MigrationInit => Home!HomeInit
BY DEF MigrationInit, Home!HomeInit, home

(* A step that leaves references, inline bodies and readiness alone is not  *)
(* seen by BodyHome.                                                        *)
LEMMA HomeStutter ==
    UNCHANGED <<inline, ref, migration>> =>
        UNCHANGED <<home, migration = "objects_ready">>
BY DEF home

LEMMA HomeStep == MigrationInv /\ [MigrationNext]_migrationVars =>
                    [Home!HomeNext]_<<home, migration = "objects_ready">>
<1> SUFFICES ASSUME MigrationInv, [MigrationNext]_migrationVars
             PROVE  [Home!HomeNext]_<<home, migration = "objects_ready">>
  OBVIOUS
<1>1. CASE UNCHANGED <<inline, ref, migration>>
  BY <1>1, HomeStutter
<1>2. CASE InitializeInventory
  <2>1. migration # "objects_ready" /\ migration' # "objects_ready"
    BY <1>2 DEF InitializeInventory, MigrationInv, MigrationControl, MigrationTypeOK
  <2>2. UNCHANGED home
    BY <1>2 DEF InitializeInventory, home
  <2> QED
    BY <2>1, <2>2
<1>3. CASE CommitReference
  <2>0. MigrationCurrent
    BY <1>3, MigrationCurrentAttempt DEF CommitReference
  <2>1. home[cur] = "inline"
    BY <1>3, <2>0
       DEF CommitReference, MigrationCurrent, home, MigrationInv, MigrationRows
  <2>2. home' = [home EXCEPT ![cur] = "both"]
    BY <1>3, <2>0
       DEF CommitReference, MigrationCurrent, home, MigrationInv, MigrationRows,
        MigrationTypeOK
  <2>3. Home!Publish(cur)
    BY <1>3, <2>1, <2>2 DEF CommitReference, Home!Publish
  <2> QED
    BY <2>0, <2>3 DEF Home!HomeNext, MigrationCurrent
<1>4. CASE RetireInline
  <2>0. MigrationCurrent
    BY <1>4, MigrationCurrentAttempt DEF RetireInline
  <2>1. home[cur] = "both"
    BY <1>4, <2>0 DEF RetireInline, MigrationCurrent, home, MigrationInv, MigrationRows
  <2>2. home' = [home EXCEPT ![cur] = "object"]
    BY <1>4, <2>0
       DEF RetireInline, MigrationCurrent, home, MigrationInv, MigrationRows, MigrationTypeOK
  <2>3. Home!Retire(cur)
    BY <1>4, <2>1, <2>2 DEF RetireInline, Home!Retire
  <2> QED
    BY <2>0, <2>3 DEF Home!HomeNext, MigrationCurrent
<1>5. CASE FinishMigration
  <2>1. \A s \in Sources : s \notin inline
    BY <1>5
       DEF FinishMigration, Items, MigrationInv, MigrationRows, MigrationControl,
           MigrationTypeOK
  <2>2. \A s \in Sources : home[s] \in {"nowhere", "object"}
    BY <2>1 DEF home
  <2>3. UNCHANGED home
    BY <1>5 DEF FinishMigration, home
  <2>4. Home!DeclareReady
    BY <1>5, <2>2, <2>3 DEF FinishMigration, Home!DeclareReady
  <2> QED
    BY <2>4 DEF Home!HomeNext
<1> QED
  BY <1>1, <1>2, <1>3, <1>4, <1>5
     DEF MigrationNext, Advance, migrationVars, dbVars, StartMigration, Inspect, NextItem, PrepareItem,
         PublishCreate, PublishWrite, PublishFileSync, PublishStagingSync, PublishLink,
         PublishObjectSync, PublishRemoveStaging, PublishCleanupSync, FinishInspect,
         FinishLink, FinishObjectSync, FinishRemoveStaging, FinishStagingSync,
         ReadBack, MigrationFails, PowerLoss

(* Through every failure, loss of power and repeated call, the migration    *)
(* does to a reader of the library only what BodyHome allows.               *)
THEOREM MigrationImplementsBodyHome == MigrationSpec => MovesEveryBody
BY HomeInitially, HomeStep, MigrationInvariance, PTL
   DEF MigrationSpec, MovesEveryBody, Home!HomeSpec
=============================================================================
