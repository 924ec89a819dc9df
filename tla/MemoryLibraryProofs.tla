------------------------- MODULE MemoryLibraryProofs -------------------------
(***************************************************************************)
(* The memory history stays well formed, every active record of it loads,  *)
(* and the derived rows are what the canonical facts say, proved for any   *)
(* number of sources, proposals, decisions and memories.                   *)
(***************************************************************************)
EXTENDS MemoryLibrary, SequenceTheorems, FiniteSetTheorems, WellFoundedInduction, TLAPS

(* The number of memories bounds the breadth-first searches.                *)
LEMMA MemoriesFinite ==
    /\ IsFiniteSet(Memories) /\ Cardinality(Memories) \in Nat
    /\ NoMemory \notin Memories /\ Memories \cap Sources = {}
    /\ MaxVersion \in Nat /\ MaxDecisions \in Nat
    /\ \A l \in Lineages, v \in 0..MaxVersion : <<l, v>> \notin Memories
<1>1. Memories \cap Sources = {}  BY LibraryAssumption DEF Sources
<1>2. QED  BY <1>1, LibraryAssumption, FS_CardinalityType

-----------------------------------------------------------------------------
(* Induction over the steps of a search, as the existence of a first step   *)
(* at which a claim fails.                                                  *)
LEMMA LeastNumber ==
    ASSUME NEW T, T \subseteq Nat, T # {}
    PROVE  \E x \in T : \A y \in T : x <= y
<1>1. IsWellFoundedOn(OpToRel(<, Nat), Nat)  BY NatLessThanWellFounded
<1>2. PICK x \in T : \A y \in T : ~(<<y, x>> \in OpToRel(<, Nat))
  BY <1>1, WFMin
<1>3. ASSUME NEW y \in T PROVE x <= y
  <2>1. ~(<<y, x>> \in OpToRel(<, Nat))  BY <1>2
  <2>2. ~(<<y, x>> \in {ss \in Nat \X Nat : ss[1] < ss[2]})  BY <2>1, Zenon DEF OpToRel
  <2>3. ~(y < x)  BY <2>2
  <2>4. QED  BY <2>3
<1>4. QED  BY <1>3

(* The numbers for which a claim fails are none, if 0 is not one of them    *)
(* and the claim passes from each number to the next.                       *)
LEMMA NoFirstFailure ==
    ASSUME NEW Failing, Failing \subseteq Nat, 0 \notin Failing,
           \A i \in Nat : i + 1 \in Failing => i \in Failing
    PROVE  Failing = {}
<1> SUFFICES ASSUME Failing # {} PROVE FALSE  OBVIOUS
<1>1. PICK x \in Failing : \A y \in Failing : x <= y  BY LeastNumber
<1>2. x - 1 \in Nat /\ (x - 1) + 1 = x  OBVIOUS
<1>3. QED  BY <1>1, <1>2

(* The first n steps of the search of Ancestors.                            *)
AncestorSteps(reach, m, n) ==
    reach = [i \in 0..n |-> IF i = 0 THEN {m}
                            ELSE LET before == reach[i - 1]
                                 IN before \cup UNION {record[k].supersedes : k \in before}]

LEMMA AncestorStepsExist ==
    ASSUME NEW m, NEW n \in Nat
    PROVE  \E reach : AncestorSteps(reach, m, n)
<1> DEFINE Failing == {i \in Nat : ~\E reach : AncestorSteps(reach, m, i)}
<1>1. 0 \notin Failing
  <2>1. AncestorSteps([i \in 0..0 |-> {m}], m, 0)  BY DEF AncestorSteps
  <2>2. QED  BY <2>1
<1>2. ASSUME NEW x \in Nat, x \notin Failing PROVE x + 1 \notin Failing
  <2>1. PICK r : AncestorSteps(r, m, x)  BY <1>2
  <2> DEFINE next(S) == S \cup UNION {record[k].supersedes : k \in S}
             q == [i \in 0..(x + 1) |-> IF i = x + 1 THEN next(r[x]) ELSE r[i]]
  <2>2. ASSUME NEW i \in 0..(x + 1) PROVE q[i] = IF i = 0 THEN {m} ELSE next(q[i - 1])
    <3>1. CASE i = x + 1
      <4>1. q[i - 1] = r[x] /\ i # 0  BY <3>1
      <4>2. q[i] = next(r[x])  BY <3>1
      <4>3. QED  BY <4>1, <4>2
    <3>2. CASE i # x + 1
      <4>1. i \in 0..x  BY <3>2
      <4>2. r[i] = IF i = 0 THEN {m} ELSE next(r[i - 1])  BY <2>1, <4>1 DEF AncestorSteps
      <4>3. q[i] = r[i] /\ (i # 0 => q[i - 1] = r[i - 1])  BY <4>1
      <4>4. QED  BY <4>2, <4>3
    <3>3. QED  BY <3>1, <3>2
  <2>3. q = [i \in 0..(x + 1) |-> q[i]]  OBVIOUS
  <2>4. AncestorSteps(q, m, x + 1)
    <3> HIDE DEF q
    <3>1. QED  BY <2>2, <2>3 DEF AncestorSteps
  <2>5. QED  BY <2>4
<1>3. Failing \subseteq Nat  OBVIOUS
<1>4. Failing = {}
  <2> HIDE DEF Failing
  <2>1. QED  BY <1>1, <1>2, <1>3, NoFirstFailure
<1>5. QED  BY <1>4

LEMMA AncestorsAre ==
    ASSUME NEW m
    PROVE  \E reach : /\ AncestorSteps(reach, m, Cardinality(Memories))
                      /\ Ancestors(m) = reach[Cardinality(Memories)]
<1> DEFINE reach == CHOOSE r : AncestorSteps(r, m, Cardinality(Memories))
<1>1. AncestorSteps(reach, m, Cardinality(Memories))
  BY MemoriesFinite, AncestorStepsExist
<1>2. Ancestors(m) = reach[Cardinality(Memories)]  BY DEF Ancestors, AncestorSteps
<1>3. QED  BY <1>1, <1>2

(* The search never loses its start, and keeps to a set that has what its   *)
(* members supersede.                                                       *)
LEMMA AncestorsWithin ==
    ASSUME NEW m
    PROVE  /\ m \in Ancestors(m)
           /\ \A A : m \in A /\ (\A k \in A : record[k].supersedes \subseteq A)
                       => Ancestors(m) \subseteq A
<1> DEFINE N == Cardinality(Memories)
<1>1. PICK reach : AncestorSteps(reach, m, N) /\ Ancestors(m) = reach[N]  BY AncestorsAre
<1>2. N \in Nat  BY MemoriesFinite
<1> HIDE DEF N
<1>3. /\ reach[0] = {m}
      /\ \A i \in Nat : i + 1 <= N =>
           reach[i + 1] = reach[i] \cup UNION {record[k].supersedes : k \in reach[i]}
  BY <1>1, <1>2 DEF AncestorSteps
<1>4. m \in reach[N]
  <2> DEFINE Failing == {i \in 0..N : m \notin reach[i]}
  <2>1. Failing \subseteq Nat /\ 0 \notin Failing  BY <1>2, <1>3
  <2>2. \A i \in Nat : i + 1 \in Failing => i \in Failing  BY <1>2, <1>3
  <2>3. Failing = {}
    <3> HIDE DEF Failing
    <3>1. QED  BY <2>1, <2>2, NoFirstFailure
  <2>4. QED  BY <1>2, <2>3
<1>5. ASSUME NEW A, m \in A, \A k \in A : record[k].supersedes \subseteq A
      PROVE  reach[N] \subseteq A
  <2> DEFINE Failing == {i \in 0..N : ~(reach[i] \subseteq A)}
  <2>1. Failing \subseteq Nat /\ 0 \notin Failing  BY <1>2, <1>3, <1>5
  <2>2. ASSUME NEW i \in Nat, i + 1 \in Failing PROVE i \in Failing
    BY <1>2, <1>3, <1>5, <2>2
  <2>3. Failing = {}
    <3> HIDE DEF Failing
    <3>1. QED  BY <2>1, <2>2, NoFirstFailure
  <2>4. QED  BY <1>2, <2>3
<1>6. QED  BY <1>1, <1>4, <1>5

LEMMA LoadedRecordChecks ==
    ASSUME NEW m, RecordLoads(m)
    PROVE  Stored(m) /\ RecordChecks(m)
BY AncestorsWithin DEF RecordLoads

-----------------------------------------------------------------------------
(* The first n steps of the search of ResolveMemories.                      *)
ResolveSteps(reach, l, n) ==
    reach = [i \in 0..n |-> IF i = 0 THEN Citing(ActiveOf({l}))
                            ELSE LET before == reach[i - 1]
                                 IN before \cup Superseding(before)]

LEMMA ResolveStepsExist ==
    ASSUME NEW l, NEW n \in Nat
    PROVE  \E reach : ResolveSteps(reach, l, n)
<1> DEFINE Failing == {i \in Nat : ~\E reach : ResolveSteps(reach, l, i)}
<1>1. 0 \notin Failing
  <2>1. ResolveSteps([i \in 0..0 |-> Citing(ActiveOf({l}))], l, 0)  BY DEF ResolveSteps
  <2>2. QED  BY <2>1
<1>2. ASSUME NEW x \in Nat, x \notin Failing PROVE x + 1 \notin Failing
  <2>1. PICK r : ResolveSteps(r, l, x)  BY <1>2
  <2> DEFINE q == [i \in 0..(x + 1) |-> IF i = x + 1 THEN r[x] \cup Superseding(r[x]) ELSE r[i]]
  <2>2. ASSUME NEW i \in 0..(x + 1)
        PROVE  q[i] = IF i = 0 THEN Citing(ActiveOf({l})) ELSE q[i - 1] \cup Superseding(q[i - 1])
    <3>1. CASE i = x + 1
      <4>1. q[i - 1] = r[x] /\ i # 0  BY <3>1
      <4>2. q[i] = r[x] \cup Superseding(r[x])  BY <3>1
      <4>3. QED  BY <4>1, <4>2
    <3>2. CASE i # x + 1
      <4>1. i \in 0..x  BY <3>2
      <4>2. r[i] = IF i = 0 THEN Citing(ActiveOf({l})) ELSE r[i - 1] \cup Superseding(r[i - 1])
        BY <2>1, <4>1 DEF ResolveSteps
      <4>3. q[i] = r[i] /\ (i # 0 => q[i - 1] = r[i - 1])  BY <4>1
      <4>4. QED  BY <4>2, <4>3
    <3>3. QED  BY <3>1, <3>2
  <2>3. q = [i \in 0..(x + 1) |-> q[i]]  OBVIOUS
  <2>4. ResolveSteps(q, l, x + 1)
    <3> HIDE DEF q
    <3>1. QED  BY <2>2, <2>3 DEF ResolveSteps
  <2>5. QED  BY <2>4
<1>3. Failing \subseteq Nat  OBVIOUS
<1>4. Failing = {}
  <2> HIDE DEF Failing
  <2>1. QED  BY <1>1, <1>2, <1>3, NoFirstFailure
<1>5. QED  BY <1>4

(* The resolved records are active, include those that cite the lineage,    *)
(* and are closed under supersession: the search has as many steps as there *)
(* are memories, and every step but the last adds one.                      *)
LEMMA ResolvedIsClosed ==
    ASSUME DOMAIN record \subseteq Memories, NEW l
    PROVE  /\ ResolveMemories(l) \subseteq ActiveRecords
           /\ Citing(ActiveOf({l})) \subseteq ResolveMemories(l)
           /\ Superseding(ResolveMemories(l)) \subseteq ResolveMemories(l)
<1> DEFINE N == Cardinality(Memories)
           reach == CHOOSE r : ResolveSteps(r, l, N)
           start == Citing(ActiveOf({l}))
<1>1. N \in Nat /\ IsFiniteSet(Memories)  BY MemoriesFinite
<1>2. ResolveSteps(reach, l, N)  BY <1>1, ResolveStepsExist
<1>3. ResolveMemories(l) = reach[N]  BY DEF ResolveMemories, ResolveSteps
<1> HIDE DEF N, reach
<1>4. /\ reach[0] = start
      /\ \A i \in Nat : i + 1 <= N => reach[i + 1] = reach[i] \cup Superseding(reach[i])
  <2>1. \A i \in 0..N : reach[i] = IF i = 0 THEN start
                                   ELSE reach[i - 1] \cup Superseding(reach[i - 1])
    BY <1>2 DEF ResolveSteps
  <2>2. ASSUME NEW i \in Nat, i + 1 <= N
        PROVE  reach[i + 1] = reach[i] \cup Superseding(reach[i])
    <3>1. i + 1 \in 0..N /\ i + 1 # 0 /\ (i + 1) - 1 = i  BY <1>1, <2>2
    <3>2. reach[i + 1] = reach[(i + 1) - 1] \cup Superseding(reach[(i + 1) - 1])
      BY <2>1, <3>1
    <3>3. QED  BY <3>1, <3>2, Zenon
  <2> HIDE DEF start
  <2>3. 0 \in 0..N  BY <1>1
  <2>4. reach[0] = start  BY <2>1, <2>3
  <2>5. QED  BY <2>2, <2>4
<1> HIDE DEF start
<1>5. start \subseteq ActiveRecords /\ (\A S : Superseding(S) \subseteq ActiveRecords)
  BY DEF start, Citing, Superseding
<1>6. ActiveRecords \subseteq Memories  BY DEF ActiveRecords
<1> DEFINE Closed(S) == Superseding(S) \subseteq S
           Good(i) == /\ reach[i] \subseteq ActiveRecords /\ start \subseteq reach[i]
                      /\ Closed(reach[i]) \/ Cardinality(reach[i]) >= i
           Failing == {i \in 0..N : ~Good(i)}
<1>7. Failing \subseteq Nat /\ 0 \notin Failing
  <2>1. IsFiniteSet(reach[0])  BY <1>1, <1>4, <1>5, <1>6, FS_Subset
  <2>2. Cardinality(reach[0]) >= 0  BY <2>1, FS_CardinalityType
  <2>3. QED  BY <1>1, <1>4, <1>5, <2>2
<1>8. ASSUME NEW i \in Nat, i + 1 \in Failing PROVE i \in Failing
  <2> SUFFICES ASSUME Good(i) PROVE Good(i + 1)
    BY <1>1, <1>8
  <2>1. reach[i + 1] = reach[i] \cup Superseding(reach[i])  BY <1>1, <1>4, <1>8
  <2>2. reach[i + 1] \subseteq ActiveRecords /\ start \subseteq reach[i + 1]  BY <1>5, <2>1
  <2>3. CASE Closed(reach[i])
    <3>1. reach[i + 1] = reach[i]  BY <2>1, <2>3
    <3>2. QED  BY <2>2, <2>3, <3>1
  <2>4. CASE ~Closed(reach[i])
    <3>1. PICK k \in Superseding(reach[i]) : k \notin reach[i]  BY <2>4
    <3>2. reach[i + 1] \in SUBSET Memories /\ reach[i] \in SUBSET Memories
      BY <1>6, <2>2
    <3>3. IsFiniteSet(reach[i]) /\ IsFiniteSet(reach[i + 1])  BY <1>1, <3>2, FS_Subset
    <3>4. reach[i] \cup {k} \in SUBSET reach[i + 1]  BY <2>1, <3>1
    <3>5. Cardinality(reach[i] \cup {k}) = Cardinality(reach[i]) + 1
      BY <3>1, <3>3, FS_AddElement
    <3>6. Cardinality(reach[i] \cup {k}) <= Cardinality(reach[i + 1])
      BY <3>3, <3>4, FS_Subset
    <3>7. Cardinality(reach[i]) \in Nat /\ Cardinality(reach[i + 1]) \in Nat
      BY <3>3, FS_CardinalityType
    <3>8. Cardinality(reach[i + 1]) >= i + 1  BY <2>4, <3>5, <3>6, <3>7
    <3>9. QED  BY <2>2, <3>8
  <2>5. QED  BY <2>3, <2>4
<1>9. Failing = {}
  <2> HIDE DEF Failing
  <2>1. QED  BY <1>7, <1>8, NoFirstFailure
<1>10. Good(N)  BY <1>1, <1>9
<1>11. Closed(reach[N])
  <2>1. CASE Cardinality(reach[N]) >= N
    <3>1. reach[N] \in SUBSET Memories  BY <1>6, <1>10
    <3>2. IsFiniteSet(reach[N]) /\ Cardinality(reach[N]) <= Cardinality(Memories)
      BY <1>1, <3>1, FS_Subset
    <3>3. Cardinality(reach[N]) \in Nat  BY <3>2, FS_CardinalityType
    <3>4. Cardinality(Memories) = Cardinality(reach[N])  BY <1>1, <2>1, <3>2, <3>3 DEF N
    <3>5. Memories = reach[N]  BY <1>1, <3>1, <3>4, FS_Subset
    <3>6. QED  BY <1>5, <1>6, <3>5
  <2>2. QED  BY <1>10, <2>1
<1>12. QED  BY <1>3, <1>10, <1>11 DEF start
-----------------------------------------------------------------------------
(* The versions of a source lineage have no gaps, and a fragment is active  *)
(* only with its source.                                                    *)
SourcesOK ==
    /\ \A l \in Lineages : \A v, w \in 1..MaxVersion :
         v < w /\ source[<<l, w>>] # "absent" => source[<<l, v>>] # "absent"
    /\ \A s \in Sources : fragment[s] = "active" => source[s] = "active"

(* The targets of a proposal are stored, and what an active one cites is    *)
(* active.                                                                  *)
ProposalsOK ==
    \A p \in DOMAIN proposal :
       /\ proposal[p].targets \subseteq DOMAIN record
       /\ proposal[p].start \in Starts
       /\ proposal[p].state = "active" => \A s \in proposal[p].sources : fragment[s] = "active"

(* Decisions are chains, and no two proposals have a result in common.      *)
DecisionsOK ==
    /\ \A p \in Proposals : DecisionChainLoads(decisions[p])
    /\ \A p, q \in Proposals : \A i \in DOMAIN decisions[p], j \in DOMAIN decisions[q] :
         decisions[p][i].result = decisions[q][j].result /\ decisions[p][i].result # NoMemory
           => p = q

(* A record is what its proposal says, accepted, follows the versions it    *)
(* supersedes and ended them; one that was superseded is so by its cause.   *)
RecordOK(m) ==
    /\ record[m].origin \in DOMAIN proposal
    /\ Materializes(record[m].origin, m, record[m])
    /\ EventChainLoads(events[m])
    /\ \A t \in record[m].supersedes : Supersedes(m, record[m], t)
    /\ FollowsVersions(record[m])
    /\ StateOf(m) = "superseded" =>
         Stored(Last(m).cause) /\ m \in record[Last(m).cause].supersedes

RecordsOK == \A m \in DOMAIN record : RecordOK(m)

(* A record is active only with its proposal and with what it supersedes.   *)
ActiveOK ==
    \A m \in ActiveRecords :
       /\ proposal[record[m].origin].state = "active"
       /\ record[m].supersedes \subseteq ActiveRecords

(* A lineage begins with version 1 and has one confirmed record at most.    *)
LineagesOK ==
    /\ \A m \in DOMAIN record : \E k \in DOMAIN record :
         record[k].lineage = record[m].lineage /\ record[k].version = 1
    /\ \A m, k \in DOMAIN record :
         /\ record[m].lineage = record[k].lineage
         /\ StateOf(m) = "confirmed" /\ StateOf(k) = "confirmed"
         => m = k

(* Recall holds active rows only.                                           *)
RecallOK ==
    /\ \A s \in recall \cap Sources : source[s] = "active" /\ fragment[s] = "active"
    /\ recall \cap Memories \subseteq ActiveRecords

(* Exact, row by row.                                                       *)
Newest(l, v) ==
    /\ source[<<l, v>>] = "active"
    /\ \A w \in (v + 1)..MaxVersion : source[<<l, w>>] = "absent"

RowsExact ==
    /\ \A l \in Lineages, v \in 1..MaxVersion : tip[l] = v <=> Newest(l, v)
    /\ \A m \in Memories : projection[m] = IF m \in ActiveRecords THEN StateOf(m) ELSE "none"
    /\ \A s \in Sources :
         s \in recall <=> fragment[s] = "active" /\ source[s] = "active" /\ tip[s[1]] = s[2]
    /\ \A m \in Memories : m \in recall <=> m \in ActiveRecords /\ StateOf(m) = "confirmed"

Inv ==
    /\ TypeOK
    /\ SourcesOK
    /\ ProposalsOK
    /\ DecisionsOK
    /\ RecordsOK
    /\ ActiveOK
    /\ LineagesOK
    /\ RecallOK
    /\ ~damaged => RowsExact
-----------------------------------------------------------------------------
(* A lineage has one newest version at most, so the expected tip is it.     *)
LEMMA TipIsNewest ==
    ASSUME NEW l \in Lineages
    PROVE  /\ ExpectedTip(l) \in 0..MaxVersion
           /\ \A v \in 1..MaxVersion : ExpectedTip(l) = v <=> Newest(l, v)
<1>1. MaxVersion \in Nat  BY MemoriesFinite
<1>2. ASSUME NEW v \in 1..MaxVersion, NEW w \in 1..MaxVersion, Newest(l, v), Newest(l, w)
      PROVE  v = w
  <2>1. v < w => w \in (v + 1)..MaxVersion  BY <1>1
  <2>2. w < v => v \in (w + 1)..MaxVersion  BY <1>1
  <2>3. ~(v < w) /\ ~(w < v)  BY <1>2, <2>1, <2>2 DEF Newest
  <2>4. QED  BY <1>1, <2>3
<1>3. ExpectedTip(l) = IF \E v \in 1..MaxVersion : Newest(l, v)
                       THEN CHOOSE v \in 1..MaxVersion : Newest(l, v) ELSE 0
  BY DEF ExpectedTip, Newest
<1>4. CASE \E v \in 1..MaxVersion : Newest(l, v)
  <2>1. PICK v \in 1..MaxVersion : Newest(l, v)  BY <1>4
  <2>2. ExpectedTip(l) \in 1..MaxVersion /\ Newest(l, ExpectedTip(l))  BY <1>3, <1>4
  <2>3. \A w \in 1..MaxVersion : ExpectedTip(l) = w <=> Newest(l, w)  BY <1>2, <2>2
  <2>4. QED  BY <1>1, <2>2, <2>3
<1>5. CASE ~\E v \in 1..MaxVersion : Newest(l, v)
  BY <1>1, <1>3, <1>5
<1>6. QED  BY <1>4, <1>5

LEMMA ExactIsRowsExact == TypeOK => (Exact <=> RowsExact)
<1> SUFFICES ASSUME TypeOK PROVE Exact <=> RowsExact  OBVIOUS
<1>1. MaxVersion \in Nat /\ Memories \cap Sources = {}  BY MemoriesFinite
<1>2. tip = [l \in Lineages |-> ExpectedTip(l)]
        <=> \A l \in Lineages, v \in 1..MaxVersion : tip[l] = v <=> Newest(l, v)
  <2>1. tip \in [Lineages -> 0..MaxVersion]  BY DEF TypeOK
  <2>2. ASSUME NEW l \in Lineages
        PROVE  tip[l] = ExpectedTip(l) <=> \A v \in 1..MaxVersion : tip[l] = v <=> Newest(l, v)
    <3>1. /\ ExpectedTip(l) \in 0..MaxVersion
          /\ \A v \in 1..MaxVersion : ExpectedTip(l) = v <=> Newest(l, v)
      BY TipIsNewest
    <3>2. tip[l] \in 0..MaxVersion  BY <2>1
    <3>3. QED  BY <1>1, <3>1, <3>2
  <2>3. tip = [l \in Lineages |-> ExpectedTip(l)] <=> \A l \in Lineages : tip[l] = ExpectedTip(l)
    BY <2>1
  <2>4. QED  BY <2>2, <2>3
<1>3. projection = ExpectedProjection
        <=> \A m \in Memories :
              projection[m] = IF m \in ActiveRecords THEN StateOf(m) ELSE "none"
  BY DEF TypeOK, ExpectedProjection
<1>4. recall = ExpectedRecall(tip)
        <=> /\ \A s \in Sources :
                 s \in recall <=> fragment[s] = "active" /\ source[s] = "active" /\ tip[s[1]] = s[2]
            /\ \A m \in Memories : m \in recall <=> m \in ActiveRecords /\ StateOf(m) = "confirmed"
  <2>1. recall \subseteq Sources \cup Memories /\ ActiveRecords \subseteq Memories
    BY DEF TypeOK, ActiveRecords
  <2>2. \A s \in Sources : s \in ExpectedRecall(tip) <=>
          fragment[s] = "active" /\ source[s] = "active" /\ tip[s[1]] = s[2]
    BY <1>1, <2>1 DEF ExpectedRecall
  <2>3. \A m \in Memories : m \in ExpectedRecall(tip) <=>
          m \in ActiveRecords /\ StateOf(m) = "confirmed"
    BY <1>1, <2>1 DEF ExpectedRecall
  <2>4. ExpectedRecall(tip) \subseteq Sources \cup Memories
    BY <2>1 DEF ExpectedRecall
  <2>5. recall = ExpectedRecall(tip) <=>
          \A x \in Sources \cup Memories : x \in recall <=> x \in ExpectedRecall(tip)
    BY <2>1, <2>4
  <2>6. QED  BY <2>2, <2>3, <2>5
<1>5. QED  BY <1>2, <1>3, <1>4 DEF Exact, RowsExact

(* What an active record needs to load is there.                            *)
LEMMA ActiveRecordChecks ==
    ASSUME Inv, NoTime \notin Starts, NEW m \in ActiveRecords
    PROVE  RecordChecks(m)
<1> DEFINE p == record[m].origin
<1>1. Stored(m) /\ RecordOK(m) /\ record[m].state = "active"
  BY DEF Inv, RecordsOK, ActiveRecords, Stored
<1>2. record[m] \in Record  BY <1>1 DEF Inv, TypeOK, Stored
<1>3. p \in DOMAIN proposal /\ p \in Proposals /\ proposal[p] \in Proposal
  BY <1>1, <1>2 DEF RecordOK, Record, Inv, TypeOK
<1>4. ProposalLoads(p)
  <2>1. proposal[p].state = "active"  BY DEF Inv, ActiveOK
  <2>2. ASSUME NEW s \in proposal[p].sources PROVE FragmentLoads(s)
    <3>1. s \in Sources  BY <1>3 DEF Proposal
    <3>2. fragment[s] = "active" /\ source[s] = "active"
      BY <1>3, <2>1, <3>1 DEF Inv, ProposalsOK, SourcesOK
    <3>3. s[1] \in Lineages /\ s[2] \in 1..MaxVersion /\ s = <<s[1], s[2]>>
      BY <3>1 DEF Sources
    <3>4. MaxVersion \in Nat  BY MemoriesFinite
    <3>5. s[2] > 1 => s[2] - 1 \in 1..MaxVersion /\ s[2] - 1 < s[2]  BY <3>3, <3>4
    <3>6. source[<<s[1], s[2]>>] # "absent"  BY <3>2, <3>3
    <3>7. s[2] > 1 => source[<<s[1], s[2] - 1>>] # "absent"
      BY <3>3, <3>5, <3>6 DEF Inv, SourcesOK
    <3>8. QED  BY <3>2, <3>7 DEF FragmentLoads, SourceLoads
  <2>3. \A t \in proposal[p].targets : Stored(t)  BY <1>3 DEF Inv, ProposalsOK, Stored
  <2>4. QED  BY <1>3, <2>1, <2>2, <2>3 DEF ProposalLoads
<1>5. DecisionChainLoads(decisions[p])  BY <1>3 DEF Inv, DecisionsOK
<1>6. StateOf(m) = "superseded" => StoredSupersessionCause(m)
  <2> SUFFICES ASSUME StateOf(m) = "superseded" PROVE StoredSupersessionCause(m)
    OBVIOUS
  <2> DEFINE new == Last(m).cause
  <2>1. Stored(new) /\ m \in record[new].supersedes  BY <1>1 DEF RecordOK
  <2>2. RecordOK(new)  BY <2>1 DEF Inv, RecordsOK, Stored
  <2>3. Supersedes(new, record[new], m)  BY <2>1, <2>2 DEF RecordOK
  <2>4. record[new] \in Record /\ record[new].version \in Nat /\ record[m].version \in Nat
    BY <1>2, <2>1 DEF Inv, TypeOK, Stored, Record
  <2>5. record[m].version < record[new].version
    BY <2>1, <2>2 DEF RecordOK, FollowsVersions
  <2>6. /\ proposal[record[new].origin].targets = record[new].supersedes
        /\ record[new].start = proposal[record[new].origin].start
    BY <2>2 DEF RecordOK, Materializes
  <2>7. record[new].start \in Starts
    BY <2>2, <2>6 DEF RecordOK, Inv, ProposalsOK
  <2>8. Last(m).at = record[new].start  BY <2>3, <2>7 DEF Supersedes
  <2>9. QED  BY <2>1, <2>3, <2>4, <2>5, <2>6, <2>8 DEF StoredSupersessionCause, Supersedes
<1>7. QED  BY <1>1, <1>4, <1>5, <1>6 DEF RecordChecks, RecordOK

LEMMA ActiveRecordsLoad ==
    ASSUME Inv, NoTime \notin Starts
    PROVE  EveryRecordLoads
<1> SUFFICES ASSUME NEW m \in ActiveRecords PROVE RecordLoads(m)
  BY DEF EveryRecordLoads
<1>1. Ancestors(m) \subseteq ActiveRecords  BY AncestorsWithin DEF Inv, ActiveOK
<1>2. Stored(m)  BY DEF ActiveRecords, Stored
<1>3. QED  BY <1>1, <1>2, ActiveRecordChecks DEF RecordLoads

-----------------------------------------------------------------------------
(* The history is untouched when its facts are.                             *)
LEMMA HistoryKept ==
    ASSUME Inv, UNCHANGED <<proposal, decisions, record, events>>
    PROVE  /\ DecisionsOK' /\ RecordsOK' /\ ActiveOK' /\ LineagesOK'
           /\ ActiveRecords' = ActiveRecords
           /\ \A m \in Memories : StateOf(m)' = StateOf(m)
<1>1. DecisionsOK'  BY DEF Inv, DecisionsOK
<1>2. ActiveRecords' = ActiveRecords  BY DEF ActiveRecords
<1>3. \A m : StateOf(m)' = StateOf(m) /\ Last(m)' = Last(m)  BY DEF StateOf, Last
<1>4. RecordsOK'
  BY <1>3 DEF Inv, RecordsOK, RecordOK, Materializes, Accepted, Supersedes, FollowsVersions,
              Stored
<1>5. ActiveOK'  BY <1>2 DEF Inv, ActiveOK
<1>6. LineagesOK'  BY <1>3 DEF Inv, LineagesOK
<1>7. QED  BY <1>1, <1>2, <1>3, <1>4, <1>5, <1>6

LEMMA SourceFacts ==
    ASSUME NEW s \in Sources
    PROVE  s[1] \in Lineages /\ s[2] \in 1..MaxVersion /\ s = <<s[1], s[2]>>
BY DEF Sources

(* store_source_artifact: the new version is the newest, and recall loses   *)
(* the fragment of the one before.                                          *)
LEMMA StoreSourceInv ==
    ASSUME Inv, NEW l \in Lineages, NEW v \in 1..MaxVersion, StoreSource(l, v)
    PROVE  Inv'
<1> DEFINE new == <<l, v>>
<1>1. /\ source[new] = "absent" /\ (v > 1 => source[<<l, v - 1>>] # "absent")
      /\ source' = [source EXCEPT ![new] = "active"]
      /\ tip' = [tip EXCEPT ![l] = v]
      /\ recall' = recall \ {<<l, tip[l]>>}
      /\ UNCHANGED <<fragment, proposal, decisions, record, events, projection, damaged>>
  BY DEF StoreSource, AdvanceLineageTip
<1>2. new \in Sources /\ MaxVersion \in Nat  BY MemoriesFinite DEF Sources
<1>3. /\ source \in [Sources -> RowStates \cup {"absent"}]
      /\ tip \in [Lineages -> 0..MaxVersion]
  BY DEF Inv, TypeOK
<1>4. \A s \in Sources : source'[s] = IF s = new THEN "active" ELSE source[s]
  BY <1>1, <1>2, <1>3
<1>5. \A k \in Lineages, w \in 1..MaxVersion : <<k, w>> \in Sources
  BY DEF Sources
<1>6. TypeOK'
  <2>1. source' \in [Sources -> RowStates \cup {"absent"}]  BY <1>1, <1>2, <1>3 DEF RowStates
  <2>2. tip' \in [Lineages -> 0..MaxVersion]  BY <1>1, <1>2, <1>3
  <2>3. QED  BY <1>1, <2>1, <2>2 DEF Inv, TypeOK
<1>7. SourcesOK'
  <2>1. ASSUME NEW k \in Lineages, NEW u \in 1..MaxVersion, NEW w \in 1..MaxVersion,
               u < w, source'[<<k, w>>] # "absent"
        PROVE  source'[<<k, u>>] # "absent"
    <3>1. CASE <<k, w>> = new
      <4>1. k = l /\ w = v  BY <3>1
      <4>2. v > 1 /\ v - 1 \in 1..MaxVersion /\ (u = v - 1 \/ u < v - 1)
        BY <1>2, <2>1, <4>1
      <4>3. source[<<l, u>>] # "absent"  BY <1>1, <4>2 DEF Inv, SourcesOK
      <4>4. QED  BY <1>4, <1>5, <4>1, <4>3
    <3>2. CASE <<k, w>> # new
      <4>1. source[<<k, u>>] # "absent"
        BY <1>4, <1>5, <2>1, <3>2 DEF Inv, SourcesOK
      <4>2. QED  BY <1>4, <1>5, <4>1
    <3>3. QED  BY <3>1, <3>2
  <2>2. \A s \in Sources : fragment'[s] = "active" => source'[s] = "active"
    BY <1>1, <1>4 DEF Inv, SourcesOK
  <2>3. QED  BY <2>1, <2>2 DEF SourcesOK
<1>8. /\ DecisionsOK' /\ RecordsOK' /\ ActiveOK' /\ LineagesOK'
      /\ ActiveRecords' = ActiveRecords
      /\ \A m \in Memories : StateOf(m)' = StateOf(m)
  BY <1>1, HistoryKept
<1>9. ProposalsOK'  BY <1>1 DEF Inv, ProposalsOK
<1>10. RecallOK'  BY <1>1, <1>4, <1>8 DEF Inv, RecallOK
<1>11. ASSUME ~damaged' PROVE RowsExact'
  <2>1. RowsExact  BY <1>1, <1>11 DEF Inv
  <2>2. ASSUME NEW k \in Lineages, NEW w \in 1..MaxVersion PROVE tip'[k] = w <=> Newest(k, w)'
    <3>1. CASE k # l
      <4>1. \A u \in 1..MaxVersion : source'[<<k, u>>] = source[<<k, u>>]
        BY <1>4, <1>5, <3>1
      <4>2. \A u \in (w + 1)..MaxVersion : u \in 1..MaxVersion  BY <1>2
      <4>3. Newest(k, w)' <=> Newest(k, w)  BY <4>1, <4>2 DEF Newest
      <4>4. tip'[k] = tip[k]  BY <1>1, <1>3, <3>1
      <4>5. QED  BY <2>1, <4>3, <4>4 DEF RowsExact
    <3>2. CASE k = l
      <4>1. tip'[l] = v /\ source'[new] = "active"  BY <1>1, <1>2, <1>3, <1>4
      <4>2. ASSUME NEW u \in (v + 1)..MaxVersion PROVE source'[<<l, u>>] = "absent"
        <5>1. u \in 1..MaxVersion /\ v < u  BY <1>2
        <5>2. source[<<l, u>>] = "absent"  BY <1>1, <5>1 DEF Inv, SourcesOK
        <5>3. QED  BY <1>4, <1>5, <5>1, <5>2
      <4>3. Newest(l, v)'  BY <4>1, <4>2 DEF Newest
      <4>4. w < v => v \in (w + 1)..MaxVersion  BY <1>2
      <4>5. w > v => w \in (v + 1)..MaxVersion  BY <1>2
      <4>6. w # v => ~Newest(l, w)'  BY <1>2, <4>1, <4>2, <4>4, <4>5 DEF Newest
      <4>7. QED  BY <3>2, <4>1, <4>3, <4>6
    <3>3. QED  BY <3>1, <3>2
  <2>3. ASSUME NEW s \in Sources
        PROVE  s \in recall' <=>
                 fragment'[s] = "active" /\ source'[s] = "active" /\ tip'[s[1]] = s[2]
    <3>1. s[1] \in Lineages /\ s[2] \in 1..MaxVersion /\ s = <<s[1], s[2]>>  BY SourceFacts
    <3>2. s \in recall <=> fragment[s] = "active" /\ source[s] = "active" /\ tip[s[1]] = s[2]
      BY <2>1 DEF RowsExact
    <3>3. CASE s[1] = l
      <4>1. s \notin recall'  BY <1>1, <3>1, <3>2, <3>3
      <4>2. tip'[s[1]] = s[2] => s = new  BY <1>1, <1>3, <3>1, <3>3
      <4>3. fragment[new] # "active"  BY <1>1, <1>2 DEF Inv, SourcesOK
      <4>4. QED  BY <1>1, <4>1, <4>2, <4>3
    <3>4. CASE s[1] # l
      <4>1. s # new /\ s # <<l, tip[l]>>  BY <3>1, <3>4
      <4>2. tip'[s[1]] = tip[s[1]]  BY <1>1, <1>3, <3>1, <3>4
      <4>3. QED  BY <1>1, <1>4, <3>2, <4>1, <4>2
    <3>5. QED  BY <3>3, <3>4
  <2>4. ASSUME NEW m \in Memories PROVE m \in recall' <=> m \in recall
    <3>1. <<l, tip[l]>> \notin Memories  BY <1>3, MemoriesFinite
    <3>2. QED  BY <1>1, <3>1
  <2>5. QED  BY <1>1, <1>8, <2>1, <2>2, <2>3, <2>4 DEF RowsExact
<1>12. QED  BY <1>6, <1>7, <1>8, <1>9, <1>10, <1>11 DEF Inv

(* store_source_fragments: a fragment is recallable iff its source is the   *)
(* tip.                                                                     *)
LEMMA StoreFragmentInv ==
    ASSUME Inv, NEW s \in Sources, StoreFragment(s)
    PROVE  Inv'
<1>1. /\ fragment[s] = "absent" /\ source[s] = "active"
      /\ fragment' = [fragment EXCEPT ![s] = "active"]
      /\ recall' = IF tip[s[1]] = s[2] THEN recall \cup {s} ELSE recall
      /\ UNCHANGED <<source, proposal, decisions, record, events, tip, projection, damaged>>
  BY DEF StoreFragment, SourceLoads
<1>2. fragment \in [Sources -> RowStates \cup {"absent"}] /\ s \notin Memories
  BY MemoriesFinite DEF Inv, TypeOK
<1>3. \A t \in Sources : fragment'[t] = IF t = s THEN "active" ELSE fragment[t]
  BY <1>1, <1>2
<1>4. TypeOK'
  <2>1. fragment' \in [Sources -> RowStates \cup {"absent"}]  BY <1>1, <1>2 DEF RowStates
  <2>2. recall' \subseteq Sources \cup Memories  BY <1>1 DEF Inv, TypeOK
  <2>3. QED  BY <1>1, <2>1, <2>2 DEF Inv, TypeOK
<1>5. SourcesOK'  BY <1>1, <1>3 DEF Inv, SourcesOK
<1>6. /\ DecisionsOK' /\ RecordsOK' /\ ActiveOK' /\ LineagesOK'
      /\ ActiveRecords' = ActiveRecords
      /\ \A m \in Memories : StateOf(m)' = StateOf(m)
  BY <1>1, HistoryKept
<1>7. ProposalsOK'
  <2>1. \A p \in DOMAIN proposal : proposal[p].sources \subseteq Sources
    BY DEF Inv, TypeOK, Proposal
  <2>2. QED  BY <1>1, <1>3, <2>1 DEF Inv, ProposalsOK
<1>8. RecallOK'  BY <1>1, <1>2, <1>3, <1>6 DEF Inv, RecallOK
<1>9. ASSUME ~damaged' PROVE RowsExact'
  <2>1. RowsExact  BY <1>1, <1>9 DEF Inv
  <2>2. \A l \in Lineages, v \in 1..MaxVersion : Newest(l, v)' <=> Newest(l, v)
    BY <1>1 DEF Newest
  <2>3. ASSUME NEW t \in Sources
        PROVE  t \in recall' <=>
                 fragment'[t] = "active" /\ source'[t] = "active" /\ tip'[t[1]] = t[2]
    <3>1. t \in recall <=> fragment[t] = "active" /\ source[t] = "active" /\ tip[t[1]] = t[2]
      BY <2>1 DEF RowsExact
    <3>2. QED  BY <1>1, <1>3, <3>1
  <2>4. \A m \in Memories : m \in recall' <=> m \in recall  BY <1>1, <1>2
  <2>5. QED  BY <1>1, <1>6, <2>1, <2>2, <2>3, <2>4 DEF RowsExact
<1>10. QED  BY <1>4, <1>5, <1>6, <1>7, <1>8, <1>9 DEF Inv

(* Sources and derived rows are untouched when the records are not changed. *)
LEMMA RowsKept ==
    ASSUME Inv, UNCHANGED <<source, fragment, record, events, derived>>
    PROVE  SourcesOK' /\ RecallOK' /\ (~damaged' => RowsExact') /\ LineagesOK'
<1>1. UNCHANGED <<tip, projection, recall, damaged>>  BY DEF derived
<1>2. ActiveRecords' = ActiveRecords  BY DEF ActiveRecords
<1>3. \A m : StateOf(m)' = StateOf(m)  BY DEF StateOf, Last
<1>4. SourcesOK' /\ RecallOK' /\ LineagesOK'
  BY <1>1, <1>2, <1>3 DEF Inv, SourcesOK, RecallOK, LineagesOK
<1>5. \A l \in Lineages, v \in 1..MaxVersion : Newest(l, v)' <=> Newest(l, v)
  BY DEF Newest
<1>6. ~damaged' => RowsExact'
  BY <1>1, <1>2, <1>3, <1>5 DEF Inv, RowsExact
<1>7. QED  BY <1>4, <1>6

(* store_memory_proposal.                                                   *)
LEMMA StoreProposalInv ==
    ASSUME Inv, NEW p \in Proposals, NEW c \in Contents, NEW t \in Starts,
           NEW S \in SUBSET Sources, NEW T \in SUBSET Memories, StoreProposal(p, c, S, T, t)
    PROVE  Inv'
<1> DEFINE new == [state |-> "active", content |-> c, sources |-> S, targets |-> T, start |-> t]
<1>1. /\ p \notin DOMAIN proposal
      /\ proposal' = [q \in DOMAIN proposal \cup {p} |-> IF q = p THEN new ELSE proposal[q]]
      /\ UNCHANGED <<source, fragment, decisions, record, events, derived>>
  BY DEF StoreProposal
<1>2. (\A s \in S : fragment[s] = "active") /\ T \subseteq DOMAIN record
  BY DEF StoreProposal, ValidateProposalForStore, FragmentLoads, RecordLoads, Stored
<1>3. /\ DOMAIN proposal' = DOMAIN proposal \cup {p}
      /\ proposal'[p] = new
      /\ \A q \in DOMAIN proposal : proposal'[q] = proposal[q]
  BY <1>1
<1>4. new \in Proposal  BY LibraryAssumption DEF Proposal, RowStates
<1>5. TypeOK'
  <2>1. /\ DOMAIN proposal' \subseteq Proposals
        /\ proposal' \in [DOMAIN proposal' -> Proposal]
    BY <1>1, <1>3, <1>4 DEF Inv, TypeOK
  <2>2. QED  BY <1>1, <2>1 DEF Inv, TypeOK, derived
<1>6. ProposalsOK'
  <2>1. ASSUME NEW q \in DOMAIN proposal'
        PROVE  /\ proposal'[q].targets \subseteq DOMAIN record'
               /\ proposal'[q].start \in Starts
               /\ proposal'[q].state = "active" =>
                    \A s \in proposal'[q].sources : fragment'[s] = "active"
    <3>1. CASE q = p
      BY <1>1, <1>2, <1>3, <3>1
    <3>2. CASE q # p
      BY <1>1, <1>3, <3>2 DEF Inv, ProposalsOK
    <3>3. QED  BY <3>1, <3>2
  <2>2. QED  BY <2>1 DEF ProposalsOK
<1>7. SourcesOK' /\ RecallOK' /\ (~damaged' => RowsExact') /\ LineagesOK'
  BY <1>1, RowsKept
<1>8. DecisionsOK'  BY <1>1 DEF Inv, DecisionsOK
<1>9. \A m \in DOMAIN record : record[m].origin \in DOMAIN proposal
  BY DEF Inv, RecordsOK, RecordOK
<1>10. \A m \in DOMAIN record : proposal'[record[m].origin] = proposal[record[m].origin]
  BY <1>3, <1>9
<1>11. RecordsOK'
  <2>1. \A m : StateOf(m)' = StateOf(m) /\ Last(m)' = Last(m)  BY <1>1 DEF StateOf, Last
  <2>2. \A m \in DOMAIN record : record'[m].origin \in DOMAIN proposal'
    BY <1>1, <1>3, <1>9
  <2>3. QED
    BY <1>1, <1>10, <2>1, <2>2 DEF Inv, RecordsOK, RecordOK, Materializes, Accepted,
       Supersedes, FollowsVersions, Stored
<1>12. ActiveOK'  BY <1>1, <1>10 DEF Inv, ActiveOK, ActiveRecords
<1>13. QED  BY <1>5, <1>6, <1>7, <1>8, <1>11, <1>12 DEF Inv

(* store_memory_decision: a decided proposal gets no other decision.        *)
LEMMA StoreDecisionInv ==
    ASSUME Inv, NEW p \in Proposals, NEW previous \in 0..MaxDecisions,
           NEW d \in {"defer", "accept", "reject"}, NEW m \in Memories \cup {NoMemory},
           StoreDecision(p, previous, d, m)
    PROVE  Inv'
<1>1. PICK x : x = [previous |-> previous, decision |-> d, result |-> m]  OBVIOUS
<1>2. x \in Decision /\ x.previous = previous /\ x.decision = d /\ x.result = m
  BY <1>1, MemoriesFinite DEF Decision
<1>3. PICK c \in Seq(Decision) : c = decisions[p]  BY DEF Inv, TypeOK
<1>4. /\ decisions' = [decisions EXCEPT ![p] = Append(c, x)]
      /\ previous = Len(c) /\ (previous # 0 => c[previous].decision = "defer")
      /\ m # NoMemory => ResultFree(m)
      /\ UNCHANGED <<source, fragment, proposal, record, events, derived>>
  BY <1>1, <1>3 DEF StoreDecision, DecisionExtends
<1>5. /\ Append(c, x) \in Seq(Decision) /\ Len(c) \in Nat
      /\ DOMAIN Append(c, x) = 1..(Len(c) + 1) /\ DOMAIN c = 1..Len(c)
      /\ Len(Append(c, x)) = Len(c) + 1
      /\ Append(c, x)[Len(c) + 1] = x /\ \A i \in 1..Len(c) : Append(c, x)[i] = c[i]
  BY <1>2, <1>3, AppendProperties
<1>6. decisions \in [Proposals -> Seq(Decision)]  BY DEF Inv, TypeOK
<1>7. decisions'[p] = Append(c, x) /\ \A q \in Proposals : q # p => decisions'[q] = decisions[q]
  BY <1>4, <1>6
<1>8. TypeOK'
  <2>1. decisions' \in [Proposals -> Seq(Decision)]  BY <1>4, <1>5, <1>6
  <2>2. QED  BY <1>4, <2>1 DEF Inv, TypeOK, derived
<1>9. DecisionChainLoads(c)  BY <1>3 DEF Inv, DecisionsOK
<1>10. DecisionsOK'
  <2>1. ASSUME NEW i \in 1..(Len(c) + 1)
        PROVE  /\ Append(c, x)[i].previous = i - 1
               /\ i < Len(c) + 1 => Append(c, x)[i].decision = "defer"
    <3>1. CASE i = Len(c) + 1
      BY <1>2, <1>4, <1>5, <3>1
    <3>2. CASE i # Len(c) + 1
      <4> DEFINE n == Len(c)
      <4>0. n \in Nat /\ i \in 1..(n + 1)  BY <1>5
      <4>1. i \in 1..Len(c) /\ (i < Len(c) \/ i = Len(c))
        <5> HIDE DEF n
        <5>1. i \in 1..n /\ (i < n \/ i = n)  BY <3>2, <4>0 DEF n
        <5>2. QED  BY <5>1 DEF n
      <4>2. c[i].previous = i - 1  BY <1>5, <1>9, <4>1 DEF DecisionChainLoads, Chained
      <4>3. c[i].decision = "defer"
        BY <1>4, <1>5, <1>9, <4>1 DEF DecisionChainLoads
      <4>4. QED  BY <1>5, <4>1, <4>2, <4>3
    <3>3. QED  BY <3>1, <3>2
  <2>2. DecisionChainLoads(Append(c, x))
    BY <1>5, <2>1 DEF DecisionChainLoads, Chained
  <2>3. \A q \in Proposals : DecisionChainLoads(decisions'[q])
    BY <1>7, <2>2 DEF Inv, DecisionsOK
  <2>4. ASSUME NEW q \in Proposals, NEW i \in DOMAIN decisions'[q]
        PROVE  \/ i \in DOMAIN decisions[q] /\ decisions'[q][i] = decisions[q][i]
               \/ q = p /\ decisions'[q][i].result = m
    <3>1. CASE q # p
      BY <1>7, <2>4, <3>1
    <3>2. CASE q = p
      <4>1. i \in 1..(Len(c) + 1)  BY <1>5, <1>7, <2>4, <3>2
      <4>2. i = Len(c) + 1 \/ i \in 1..Len(c)  BY <1>5, <4>1
      <4>3. QED  BY <1>2, <1>3, <1>5, <1>7, <3>2, <4>2
    <3>3. QED  BY <3>1, <3>2
  <2>5. ASSUME NEW q \in Proposals, NEW k \in Proposals,
               NEW i \in DOMAIN decisions'[q], NEW j \in DOMAIN decisions'[k],
               decisions'[q][i].result = decisions'[k][j].result,
               decisions'[q][i].result # NoMemory
        PROVE  q = k
    <3>1. CASE /\ i \in DOMAIN decisions[q] /\ decisions'[q][i] = decisions[q][i]
               /\ j \in DOMAIN decisions[k] /\ decisions'[k][j] = decisions[k][j]
      BY <2>5, <3>1 DEF Inv, DecisionsOK
    <3>2. CASE /\ i \in DOMAIN decisions[q] /\ decisions'[q][i] = decisions[q][i]
               /\ k = p /\ decisions'[k][j].result = m
      BY <1>4, <2>5, <3>2 DEF ResultFree
    <3>3. CASE /\ j \in DOMAIN decisions[k] /\ decisions'[k][j] = decisions[k][j]
               /\ q = p /\ decisions'[q][i].result = m
      BY <1>4, <2>5, <3>3 DEF ResultFree
    <3>4. QED  BY <2>4, <3>1, <3>2, <3>3
  <2>6. QED  BY <2>3, <2>5 DEF DecisionsOK
<1>11. SourcesOK' /\ RecallOK' /\ (~damaged' => RowsExact') /\ LineagesOK'
  BY <1>4, RowsKept
<1>12. ProposalsOK' /\ ActiveOK'
  BY <1>4 DEF Inv, ProposalsOK, ActiveOK, ActiveRecords
<1>13. RecordsOK'
  <2>1. ASSUME NEW k \in DOMAIN record
        PROVE  decisions'[record[k].origin] = decisions[record[k].origin]
    <3>1. Accepted(record[k].origin, k)  BY DEF Inv, RecordsOK, RecordOK, Materializes
    <3>2. record[k].origin \in Proposals  BY DEF Inv, TypeOK, Record
    <3>3. record[k].origin # p  BY <1>3, <1>4, <1>5, <3>1 DEF Accepted
    <3>4. QED  BY <1>7, <3>2, <3>3
  <2>2. \A k : StateOf(k)' = StateOf(k) /\ Last(k)' = Last(k)  BY <1>4 DEF StateOf, Last
  <2>3. \A k \in DOMAIN record : Accepted(record[k].origin, k) <=> Accepted(record[k].origin, k)'
    BY <1>4, <2>1 DEF Accepted
  <2>4. QED
    BY <1>4, <2>2, <2>3
       DEF Inv, RecordsOK, RecordOK, Materializes, Supersedes, FollowsVersions, Stored
<1>14. QED  BY <1>8, <1>10, <1>11, <1>12, <1>13 DEF Inv

-----------------------------------------------------------------------------
(* Exact derived rows are rows of active facts.                             *)
LEMMA ExactRowsRest == TypeOK /\ RowsExact => RecallOK
BY DEF TypeOK, RowsExact, RecallOK

(* rebuild.                                                                 *)
LEMMA RebuildInv ==
    ASSUME Inv, Rebuild
    PROVE  Inv'
<1>1. /\ tip' = [l \in Lineages |-> ExpectedTip(l)] /\ projection' = ExpectedProjection
      /\ recall' = ExpectedRecall(tip')
      /\ UNCHANGED <<source, fragment, proposal, decisions, record, events>>
  BY DEF Rebuild, canonical
<1>2. /\ DecisionsOK' /\ RecordsOK' /\ ActiveOK' /\ LineagesOK'
      /\ ActiveRecords' = ActiveRecords
      /\ \A m : StateOf(m)' = StateOf(m)
  BY <1>1, HistoryKept DEF StateOf, Last
<1>3. SourcesOK' /\ ProposalsOK'  BY <1>1 DEF Inv, SourcesOK, ProposalsOK
<1>4. TypeOK'
  <2>1. tip' \in [Lineages -> 0..MaxVersion]  BY <1>1, TipIsNewest
  <2>2. ASSUME NEW m \in ActiveRecords PROVE m \in Memories /\ StateOf(m) \in EndTypes \cup {"confirmed"}
    <3>1. m \in Memories /\ m \in DOMAIN record  BY DEF ActiveRecords, Inv, TypeOK
    <3>2. events[m] \in Seq(Event) /\ events[m] # <<>>
      BY <3>1 DEF Inv, TypeOK, RecordsOK, RecordOK, EventChainLoads
    <3>3. Last(m) \in Event  BY <3>2 DEF Last
    <3>4. QED  BY <3>1, <3>3 DEF StateOf, Event
  <2>3. projection' \in [Memories -> EndTypes \cup {"confirmed", "none"}]
    BY <1>1, <2>2 DEF ExpectedProjection
  <2>4. recall' \subseteq Sources \cup Memories  BY <1>1, <2>2 DEF ExpectedRecall
  <2>5. damaged' = FALSE  BY DEF Rebuild
  <2>6. QED  BY <1>1, <2>1, <2>3, <2>4, <2>5 DEF Inv, TypeOK
<1>5. Exact'
  <2>1. \A l : ExpectedTip(l)' = ExpectedTip(l)  BY <1>1 DEF ExpectedTip
  <2>2. ExpectedProjection' = ExpectedProjection  BY <1>2 DEF ExpectedProjection
  <2>3. recall' = ExpectedRecall(tip)'  BY <1>1, <1>2 DEF ExpectedRecall
  <2>4. QED  BY <1>1, <2>1, <2>2, <2>3 DEF Exact
<1>6. TypeOK' => (Exact' <=> RowsExact')  BY ExactIsRowsExact, PTL
<1>7. RowsExact'  BY <1>4, <1>5, <1>6
<1>8. TypeOK' /\ RowsExact' => RecallOK'  BY ExactRowsRest, PTL
<1>9. QED  BY <1>2, <1>3, <1>4, <1>7, <1>8 DEF Inv

(* The derived rows are lost.                                               *)
LEMMA DamageDerivedInv ==
    ASSUME Inv, DamageDerived
    PROVE  Inv'
<1>1. /\ tip' = [l \in Lineages |-> 0] /\ projection' = [m \in Memories |-> "none"]
      /\ recall' = {} /\ damaged' = TRUE
      /\ UNCHANGED <<source, fragment, proposal, decisions, record, events>>
  BY DEF DamageDerived, canonical
<1>2. DecisionsOK' /\ RecordsOK' /\ ActiveOK' /\ LineagesOK'  BY <1>1, HistoryKept
<1>3. SourcesOK' /\ ProposalsOK'  BY <1>1 DEF Inv, SourcesOK, ProposalsOK
<1>4. TypeOK'  BY <1>1, MemoriesFinite DEF Inv, TypeOK
<1>5. RecallOK'  BY <1>1 DEF RecallOK
<1>6. QED  BY <1>1, <1>2, <1>3, <1>4, <1>5 DEF Inv

-----------------------------------------------------------------------------
(* A confirmed record has its confirmation and nothing else.                *)
LEMMA ConfirmedOnce ==
    ASSUME Inv, NEW m \in DOMAIN record, StateOf(m) = "confirmed"
    PROVE  /\ m \in Memories /\ events[m] \in Seq(Event)
           /\ EventChainLoads(events[m]) /\ Len(events[m]) = 1
<1>1. m \in Memories /\ events[m] \in Seq(Event)  BY DEF Inv, TypeOK
<1>2. EventChainLoads(events[m])  BY DEF Inv, RecordsOK, RecordOK
<1>3. PICK c \in Seq(Event) : c = events[m]  BY <1>1
<1>4. DOMAIN c = 1..Len(c) /\ Len(c) \in Nat /\ Len(c) # 0 /\ Len(c) <= 2
  BY <1>2, <1>3 DEF EventChainLoads
<1>5. Len(c) > 1 => c[Len(c)].type # "confirmed"
  BY <1>2, <1>3, <1>4 DEF EventChainLoads
<1>6. c[Len(c)].type = "confirmed"  BY <1>3 DEF StateOf, Last
<1>7. Len(c) = 1  BY <1>4, <1>5, <1>6
<1>8. QED  BY <1>1, <1>2, <1>3, <1>7

(* An end that follows the confirmation leaves an accepted chain.           *)
LEMMA EndedChain ==
    ASSUME NEW c \in Seq(Event), EventChainLoads(c), Len(c) = 1,
           NEW x \in Event, x.previous = 1, x.type # "confirmed"
    PROVE  /\ Append(c, x) \in Seq(Event) /\ EventChainLoads(Append(c, x))
           /\ Append(c, x)[Len(Append(c, x))] = x
<1>1. PICK d : d = Append(c, x)  OBVIOUS
<1>2. /\ d \in Seq(Event) /\ Len(d) = 2 /\ DOMAIN d = {1, 2} /\ d[1] = c[1] /\ d[2] = x
  <2>0. x \in Event /\ c \in Seq(Event)  OBVIOUS
  <2>1. /\ d \in Seq(Event) /\ Len(d) = Len(c) + 1 /\ d[Len(c) + 1] = x
        /\ \A i \in 1..Len(c) : d[i] = c[i]
    BY ONLY <1>1, <2>0, AppendProperties
  <2>2. Len(d) = 2 /\ d[2] = x /\ d[1] = c[1]  BY <2>1
  <2>3. DOMAIN d = 1..2  BY <2>1, <2>2
  <2>4. QED  BY <2>1, <2>2, <2>3
<1>3. c[1].previous = 0 /\ c[1].type = "confirmed"
  <2>1. 1 \in DOMAIN c  OBVIOUS
  <2>2. QED  BY <2>1 DEF EventChainLoads, Chained
<1>4. Chained(d)  BY <1>2, <1>3 DEF Chained
<1>5. EventChainLoads(d)  BY <1>2, <1>3, <1>4 DEF EventChainLoads
<1>6. QED  BY <1>1, <1>2, <1>5

(* append_memory_state_event: a confirmed record is in no one's way, so     *)
(* only its own rows change.                                                *)
LEMMA AppendMemoryStateEventInv ==
    ASSUME Inv, NEW m \in Memories, NEW previous \in 1..2,
           NEW cause \in Memories \cup {NoMemory}, NEW at \in Times,
           AppendMemoryStateEvent(m, previous, cause, at)
    PROVE  Inv'
<1>1. PICK x : x = [previous |-> previous, type |-> "ended", cause |-> cause, at |-> at]
  OBVIOUS
<1>2. x \in Event /\ x.previous = previous /\ x.type = "ended"
  BY <1>1 DEF Event, EndTypes
<1>3. /\ m \in DOMAIN record /\ previous = Len(events[m]) /\ StateOf(m) = "confirmed"
      /\ projection[m] = "confirmed" /\ m \in recall
      /\ events' = [events EXCEPT ![m] = Append(events[m], x)]
      /\ projection' = [projection EXCEPT ![m] = "ended"]
      /\ recall' = recall \ {m}
      /\ UNCHANGED <<source, fragment, proposal, decisions, record, tip, damaged>>
  BY <1>1 DEF AppendMemoryStateEvent, EventExtends, UpdatesDerived, Stored
<1>4. RecordChecks(m)
  BY LoadedRecordChecks DEF AppendMemoryStateEvent, EventExtends
<1>5. m \in ActiveRecords  BY <1>3, <1>4 DEF RecordChecks, ActiveRecords
<1>6. /\ events[m] \in Seq(Event) /\ EventChainLoads(events[m]) /\ Len(events[m]) = 1
  BY <1>3, ConfirmedOnce
<1>7. PICK c \in Seq(Event) : c = Append(events[m], x) /\ EventChainLoads(c) /\ c[Len(c)] = x
  BY <1>2, <1>3, <1>6, EndedChain
<1>8. events \in [Memories -> Seq(Event)]  BY DEF Inv, TypeOK
<1>9. events'[m] = c /\ \A k \in Memories : k # m => events'[k] = events[k]
  BY <1>3, <1>7, <1>8
<1>10. /\ StateOf(m)' = "ended"
       /\ \A k \in Memories : k # m => Last(k)' = Last(k) /\ StateOf(k)' = StateOf(k)
  BY <1>2, <1>7, <1>9 DEF StateOf, Last
<1>11. ActiveRecords' = ActiveRecords /\ DOMAIN record' = DOMAIN record
       /\ DOMAIN record \subseteq Memories
  BY <1>3 DEF ActiveRecords, Inv, TypeOK
<1>12. TypeOK'
  <2>1. events' \in [Memories -> Seq(Event)]  BY <1>3, <1>7, <1>8
  <2>2. projection' \in [Memories -> EndTypes \cup {"confirmed", "none"}]
    BY <1>3 DEF Inv, TypeOK, EndTypes
  <2>3. QED  BY <1>3, <2>1, <2>2 DEF Inv, TypeOK
<1>13. SourcesOK' /\ ProposalsOK' /\ DecisionsOK'
  BY <1>3 DEF Inv, SourcesOK, ProposalsOK, DecisionsOK
<1>14. RecordsOK'
  <2>1. ASSUME NEW k \in DOMAIN record PROVE RecordOK(k)'
    <3>1. RecordOK(k) /\ k \in Memories  BY <1>11 DEF Inv, RecordsOK
    <3>2. record[k].supersedes \subseteq Memories  BY DEF Inv, TypeOK, Record
    <3>3. EventChainLoads(events'[k])
      BY <1>7, <1>9, <3>1 DEF RecordOK
    <3>4. \A t \in record[k].supersedes : Supersedes(k, record[k], t)'
      <4>1. SUFFICES ASSUME NEW t \in record[k].supersedes
                     PROVE  Supersedes(k, record[k], t)'
        BY <1>3
      <4>2. Supersedes(k, record[k], t)  BY <3>1 DEF RecordOK
      <4>3. t # m /\ t \in Memories  BY <1>3, <3>2, <4>2 DEF Supersedes
      <4>4. QED  BY <1>3, <1>10, <4>2, <4>3 DEF Supersedes
    <3>5. FollowsVersions(record[k])'  BY <1>3, <3>1 DEF RecordOK, FollowsVersions
    <3>6. StateOf(k)' = "superseded" =>
            Stored(Last(k).cause)' /\ k \in record'[Last(k)'.cause].supersedes
      BY <1>3, <1>10, <3>1 DEF RecordOK, Stored
    <3>7. Materializes(record[k].origin, k, record[k])'
      BY <1>3, <3>1 DEF RecordOK, Materializes, Accepted
    <3>8. QED  BY <1>3, <3>1, <3>3, <3>4, <3>5, <3>6, <3>7 DEF RecordOK
  <2>2. QED  BY <1>11, <2>1 DEF RecordsOK
<1>15. ActiveOK'  BY <1>3, <1>11 DEF Inv, ActiveOK
<1>16. LineagesOK'
  <2>1. \A k \in DOMAIN record : StateOf(k)' = "confirmed" => StateOf(k) = "confirmed"
    BY <1>10, <1>11
  <2>2. QED  BY <1>3, <2>1 DEF Inv, LineagesOK
<1>17. RecallOK'  BY <1>3, <1>11 DEF Inv, RecallOK
<1>18. ASSUME ~damaged' PROVE RowsExact'
  <2>1. RowsExact  BY <1>3, <1>18 DEF Inv
  <2>2. m \notin Sources  BY MemoriesFinite
  <2>3. \A l \in Lineages, v \in 1..MaxVersion : Newest(l, v)' <=> Newest(l, v)
    BY <1>3 DEF Newest
  <2>4. projection \in [Memories -> EndTypes \cup {"confirmed", "none"}]  BY DEF Inv, TypeOK
  <2>5. ASSUME NEW k \in Memories
        PROVE  /\ projection'[k] = IF k \in ActiveRecords THEN StateOf(k)' ELSE "none"
               /\ k \in recall' <=> k \in ActiveRecords /\ StateOf(k)' = "confirmed"
    <3>1. CASE k = m
      BY <1>3, <1>5, <1>10, <2>4, <3>1
    <3>2. CASE k # m
      BY <1>3, <1>10, <2>1, <2>4, <3>2 DEF RowsExact
    <3>3. QED  BY <3>1, <3>2
  <2>6. \A s \in Sources : s \in recall' <=> s \in recall  BY <1>3, <2>2
  <2>7. QED  BY <1>3, <1>11, <2>1, <2>3, <2>5, <2>6 DEF RowsExact
<1>19. QED  BY <1>12, <1>13, <1>14, <1>15, <1>16, <1>17, <1>18 DEF Inv

(* materialize_accepted_memory: the superseded records were confirmed, so   *)
(* no record superseded them before, and a lineage is begun only once.      *)
LEMMA MaterializeInv ==
    ASSUME Inv, NEW p \in Proposals, NEW m \in Memories, NEW lineage \in MemoryLineages,
           NEW version \in 1..Cardinality(Memories), NEW at \in Times,
           MaterializeAcceptedMemory(p, m, lineage, version, at)
    PROVE  Inv'
<1>1. PICK r : r = [state |-> "active", lineage |-> lineage, version |-> version, origin |-> p,
                    sources |-> proposal[p].sources, supersedes |-> proposal[p].targets,
                    start |-> proposal[p].start]
  OBVIOUS
<1>2. /\ r.state = "active" /\ r.lineage = lineage /\ r.version = version /\ r.origin = p
      /\ r.sources = proposal[p].sources /\ r.supersedes = proposal[p].targets
      /\ r.start = proposal[p].start
  BY <1>1
<1>3. PICK x : x = [previous |-> 1, type |-> "superseded", cause |-> m, at |-> at]
  OBVIOUS
<1>4. x \in Event /\ x.previous = 1 /\ x.type = "superseded" /\ x.cause = m /\ x.at = at
  BY <1>3 DEF Event, EndTypes
<1>5. PICK y : y = [previous |-> 0, type |-> "confirmed", cause |-> NoMemory, at |-> NoTime]
  OBVIOUS
<1>6. y \in Event /\ y.previous = 0 /\ y.type = "confirmed"
  BY <1>5 DEF Event
<1>7. /\ m \notin DOMAIN record
      /\ Materializes(p, m, r)
      /\ ProposalLoads(p)
      /\ \A t \in r.supersedes : EventExtends(t, Len(events[t]))
      /\ ValidateSupersession(r, at)
      /\ VersionFree(r)
      /\ record' = [k \in DOMAIN record \cup {m} |-> IF k = m THEN r ELSE record[k]]
      /\ projection' = [k \in Memories |-> IF k = m THEN "confirmed"
                                           ELSE IF k \in r.supersedes THEN "superseded"
                                           ELSE projection[k]]
      /\ recall' = (recall \cup {m}) \ r.supersedes
      /\ UNCHANGED <<source, fragment, proposal, decisions, tip, damaged>>
  BY <1>1 DEF MaterializeAcceptedMemory, Stored
<1>8. events' = [k \in Memories |->
          IF k = m THEN <<y>>
          ELSE IF k \in r.supersedes
          THEN Append(events[k], [previous |-> Len(events[k]), type |-> "superseded",
                                  cause |-> m, at |-> at])
          ELSE events[k]]
  BY <1>1, <1>5 DEF MaterializeAcceptedMemory
<1>9. p \in DOMAIN proposal /\ proposal[p] \in Proposal /\ proposal[p].state = "active"
  BY <1>7 DEF ProposalLoads, Inv, TypeOK
<1>10. r \in Record /\ r.supersedes \subseteq Memories
  <2>1. /\ proposal[p].sources \in SUBSET Sources /\ proposal[p].targets \in SUBSET Memories
        /\ proposal[p].start \in Times \cup {NoTime}
    BY <1>9 DEF Proposal
  <2>2. version \in Nat  BY MemoriesFinite
  <2>3. QED  BY <1>1, <2>1, <2>2 DEF Record, RowStates
<1>11. DOMAIN record \subseteq Memories /\ events \in [Memories -> Seq(Event)]
  BY DEF Inv, TypeOK
<1>12. ASSUME NEW t \in r.supersedes
       PROVE  /\ t \in ActiveRecords /\ t \in DOMAIN record /\ t # m /\ StateOf(t) = "confirmed"
              /\ events[t] \in Seq(Event) /\ EventChainLoads(events[t]) /\ Len(events[t]) = 1
  <2>1. t \in DOMAIN record /\ StateOf(t) = "confirmed" /\ RecordLoads(t)
    BY <1>7 DEF EventExtends, Stored
  <2>2. record[t].state = "active"  BY <2>1, LoadedRecordChecks DEF RecordChecks
  <2>3. QED  BY <1>7, <2>1, <2>2, ConfirmedOnce DEF ActiveRecords
<1>13. /\ DOMAIN record' = DOMAIN record \cup {m} /\ record'[m] = r
       /\ \A k \in DOMAIN record : record'[k] = record[k]
  BY <1>7
<1>14. /\ events'[m] = <<y>>
       /\ \A k \in Memories : k # m /\ k \notin r.supersedes => events'[k] = events[k]
  BY <1>8
<1>15. ASSUME NEW t \in r.supersedes
       PROVE  events'[t] \in Seq(Event) /\ EventChainLoads(events'[t]) /\ Last(t)' = x
  <2>1. events'[t] = Append(events[t], x)  BY <1>3, <1>8, <1>10, <1>12
  <2>2. PICK c \in Seq(Event) : c = Append(events[t], x) /\ EventChainLoads(c) /\ c[Len(c)] = x
    BY <1>4, <1>12, EndedChain
  <2>3. QED  BY <2>1, <2>2 DEF Last
<1>16. /\ EventChainLoads(events'[m]) /\ events'[m] \in Seq(Event) /\ Last(m)' = y
  <2>0. PICK c : c = <<y>>  OBVIOUS
  <2>1. c \in Seq(Event) /\ c = <<y>>  BY ONLY <1>6, <2>0
  <2>2. Len(c) = 1 /\ c[1] = y /\ DOMAIN c = {1}
    <3>1. Len(c) = 1 /\ c[1] = y  BY ONLY <2>0
    <3>2. DOMAIN c = 1..Len(c)  BY <2>1
    <3>3. QED  BY ONLY <3>1, <3>2
  <2>3. EventChainLoads(c)
    <3>1. c # <<>>  BY ONLY <2>0
    <3>2. Chained(c)  BY <1>6, <2>2 DEF Chained
    <3>3. QED  BY <1>6, <2>2, <3>1, <3>2 DEF EventChainLoads
  <2>4. QED  BY <1>14, <2>1, <2>2, <2>3 DEF Last
<1>17. /\ StateOf(m)' = "confirmed"
       /\ \A t \in r.supersedes : StateOf(t)' = "superseded"
       /\ \A k \in Memories : k # m /\ k \notin r.supersedes =>
            Last(k)' = Last(k) /\ StateOf(k)' = StateOf(k)
  BY <1>4, <1>6, <1>14, <1>15, <1>16 DEF StateOf, Last
<1>18. ASSUME NEW k \in DOMAIN record, NEW u \in record[k].supersedes
       PROVE  u \in DOMAIN record /\ u # m /\ u \notin r.supersedes /\ Supersedes(k, record[k], u)
  <2>1. RecordOK(k)  BY DEF Inv, RecordsOK
  <2>2. Supersedes(k, record[k], u)  BY <2>1 DEF RecordOK
  <2>3. u \in DOMAIN record
    BY <2>1 DEF RecordOK, Materializes, Inv, ProposalsOK
  <2>4. QED  BY <1>7, <1>12, <2>2, <2>3 DEF Supersedes
<1>19. ActiveRecords' = ActiveRecords \cup {m}
  BY <1>2, <1>13 DEF ActiveRecords
<1>20. SourcesOK' /\ DecisionsOK'
  BY <1>7 DEF Inv, SourcesOK, DecisionsOK
<1>21. ProposalsOK'  BY <1>7, <1>13 DEF Inv, ProposalsOK
<1>22. TypeOK'
  <2>1. record' \in [DOMAIN record' -> Record] /\ DOMAIN record' \subseteq Memories
    BY <1>7, <1>10, <1>11, <1>13 DEF Inv, TypeOK
  <2>2. events' \in [Memories -> Seq(Event)]
    <3>1. \A k \in Memories : events'[k] \in Seq(Event)
      BY <1>11, <1>14, <1>15, <1>16
    <3>2. events' = [k \in Memories |-> events'[k]]  BY <1>8
    <3>3. QED  BY <3>1, <3>2
  <2>3. projection' \in [Memories -> EndTypes \cup {"confirmed", "none"}]
    BY <1>7 DEF Inv, TypeOK, EndTypes
  <2>4. recall' \subseteq Sources \cup Memories  BY <1>7 DEF Inv, TypeOK
  <2>5. QED  BY <1>7, <2>1, <2>2, <2>3, <2>4 DEF Inv, TypeOK
<1>23. RecordOK(m)'
  <2>1. Materializes(p, m, r)'  BY <1>7 DEF Materializes, Accepted
  <2>2. Materializes(record[m].origin, m, record[m])'
    BY <1>2, <1>13, <2>1 DEF Materializes, Accepted
  <2>3. ASSUME NEW t \in r.supersedes PROVE Supersedes(m, r, t)'
    <3>1. record'[t].lineage = r.lineage
      BY <1>7, <1>12, <1>13 DEF ValidateSupersession
    <3>2. r.start # NoTime => at = r.start  BY <1>7 DEF ValidateSupersession
    <3>3. QED  BY <1>4, <1>15, <1>17, <3>1, <3>2 DEF Supersedes
  <2>4. \A t \in r.supersedes : record'[t] = record[t]  BY <1>12, <1>13
  <2>5. FollowsVersions(r)'  BY <1>7, <2>4 DEF ValidateSupersession, FollowsVersions
  <2>6. \A t \in r.supersedes : Supersedes(m, record[m], t)'
    BY <1>13, <2>3 DEF Supersedes
  <2>7. FollowsVersions(record[m])'  BY <1>13, <2>5 DEF FollowsVersions
  <2>8. record'[m].origin \in DOMAIN proposal'  BY <1>2, <1>7, <1>9, <1>13
  <2>9. QED  BY <1>13, <1>16, <1>17, <2>2, <2>6, <2>7, <2>8 DEF RecordOK
<1>24. ASSUME NEW k \in DOMAIN record PROVE RecordOK(k)'
  <2>1. RecordOK(k) /\ k \in Memories /\ k # m  BY <1>7, <1>11 DEF Inv, RecordsOK
  <2>2. record'[k] = record[k]  BY <1>13
  <2>3. Materializes(record[k].origin, k, record[k])'
    BY <1>7, <2>1, <2>2 DEF RecordOK, Materializes, Accepted
  <2>4. EventChainLoads(events'[k])  BY <1>14, <1>15, <2>1 DEF RecordOK
  <2>5. ASSUME NEW u \in record[k].supersedes PROVE Supersedes(k, record[k], u)'
    <3>1. /\ u \in DOMAIN record /\ u # m /\ u \notin r.supersedes
          /\ Supersedes(k, record[k], u) /\ u \in Memories
      BY <1>11, <1>18
    <3>2. record'[u] = record[u] /\ Last(u)' = Last(u) /\ StateOf(u)' = StateOf(u)
      BY <1>13, <1>17, <3>1
    <3>3. QED  BY <2>2, <3>1, <3>2 DEF Supersedes
  <2>6. \A u \in record[k].supersedes : record'[u] = record[u]  BY <1>13, <1>18
  <2>7. FollowsVersions(record[k])'  BY <2>1, <2>2, <2>6 DEF RecordOK, FollowsVersions
  <2>8. ASSUME StateOf(k)' = "superseded"
        PROVE  Stored(Last(k).cause)' /\ k \in record'[Last(k)'.cause].supersedes
    <3>1. CASE k \in r.supersedes
      BY <1>4, <1>13, <1>15, <3>1 DEF Stored
    <3>2. CASE k \notin r.supersedes
      <4>1. Last(k)' = Last(k) /\ StateOf(k) = "superseded"  BY <1>17, <2>1, <2>8, <3>2
      <4>2. Last(k).cause \in DOMAIN record /\ k \in record[Last(k).cause].supersedes
        BY <2>1, <4>1 DEF RecordOK, Stored
      <4>3. QED  BY <1>13, <4>1, <4>2 DEF Stored
    <3>3. QED  BY <3>1, <3>2
  <2>9. record'[k].origin \in DOMAIN proposal'  BY <1>7, <2>1, <2>2 DEF RecordOK
  <2>10. \A u \in record'[k].supersedes : Supersedes(k, record[k], u)'  BY <2>2, <2>5
  <2>11. QED  BY <2>3, <2>4, <2>7, <2>8, <2>9, <2>10 DEF RecordOK
<1>25. RecordsOK'  BY <1>13, <1>23, <1>24 DEF RecordsOK
<1>26. ActiveOK'
  <2>1. ASSUME NEW k \in ActiveRecords'
        PROVE  /\ proposal'[record'[k].origin].state = "active"
               /\ record'[k].supersedes \subseteq ActiveRecords'
    <3>1. CASE k = m
      BY <1>2, <1>7, <1>9, <1>12, <1>13, <1>19, <3>1
    <3>2. CASE k # m
      <4>1. k \in ActiveRecords /\ k \in DOMAIN record  BY <1>19, <3>2 DEF ActiveRecords
      <4>2. QED  BY <1>7, <1>13, <1>19, <4>1 DEF Inv, ActiveOK
    <3>3. QED  BY <3>1, <3>2
  <2>2. QED  BY <2>1 DEF ActiveOK
<1>27. LineagesOK'
  <2>1. ASSUME NEW k \in DOMAIN record'
        PROVE  \E j \in DOMAIN record' :
                 record'[j].lineage = record'[k].lineage /\ record'[j].version = 1
    <3>1. CASE k # m
      <4>1. k \in DOMAIN record  BY <1>13, <3>1
      <4>2. PICK j \in DOMAIN record : record[j].lineage = record[k].lineage /\ record[j].version = 1
        BY <4>1 DEF Inv, LineagesOK
      <4>3. QED  BY <1>13, <4>1, <4>2
    <3>2. CASE k = m /\ r.supersedes = {}
      <4>1. r.version = 1  BY <1>7, <3>2 DEF ValidateSupersession, FollowsVersions
      <4>2. QED  BY <1>13, <3>2, <4>1
    <3>3. CASE k = m /\ r.supersedes # {}
      <4>1. PICK t \in r.supersedes : TRUE  BY <3>3
      <4>2. t \in DOMAIN record /\ record[t].lineage = r.lineage
        BY <1>7, <1>12 DEF ValidateSupersession
      <4>3. PICK j \in DOMAIN record : record[j].lineage = record[t].lineage /\ record[j].version = 1
        BY <4>2 DEF Inv, LineagesOK
      <4>4. QED  BY <1>13, <3>3, <4>2, <4>3
    <3>4. QED  BY <3>1, <3>2, <3>3
  <2>2. ASSUME NEW k \in DOMAIN record, record[k].lineage = r.lineage,
               StateOf(k) = "confirmed", k \notin r.supersedes
        PROVE  FALSE
    <3>1. CASE r.supersedes = {}
      <4>1. r.version = 1  BY <1>7, <3>1 DEF ValidateSupersession, FollowsVersions
      <4>2. PICK j \in DOMAIN record : record[j].lineage = record[k].lineage /\ record[j].version = 1
        BY DEF Inv, LineagesOK
      <4>3. QED  BY <1>7, <2>2, <4>1, <4>2 DEF VersionFree
    <3>2. CASE r.supersedes # {}
      <4>1. PICK t \in r.supersedes : TRUE  BY <3>2
      <4>2. t \in DOMAIN record /\ record[t].lineage = r.lineage /\ StateOf(t) = "confirmed"
        BY <1>7, <1>12 DEF ValidateSupersession
      <4>3. t = k  BY <2>2, <4>2 DEF Inv, LineagesOK
      <4>4. QED  BY <2>2, <4>1, <4>3
    <3>3. QED  BY <3>1, <3>2
  <2>3. ASSUME NEW k \in DOMAIN record, StateOf(k)' = "confirmed"
        PROVE  StateOf(k) = "confirmed" /\ k \notin r.supersedes
    BY <1>7, <1>11, <1>17, <2>3
  <2>4. ASSUME NEW k \in DOMAIN record', NEW j \in DOMAIN record',
               record'[k].lineage = record'[j].lineage,
               StateOf(k)' = "confirmed", StateOf(j)' = "confirmed"
        PROVE  k = j
    <3>1. CASE k = m /\ j # m
      BY <1>13, <2>2, <2>3, <2>4, <3>1
    <3>2. CASE k # m /\ j = m
      BY <1>13, <2>2, <2>3, <2>4, <3>2
    <3>3. CASE k # m /\ j # m
      <4>1. /\ k \in DOMAIN record /\ j \in DOMAIN record
            /\ record[k].lineage = record[j].lineage
            /\ StateOf(k) = "confirmed" /\ StateOf(j) = "confirmed"
        BY <1>13, <2>3, <2>4, <3>3
      <4>2. QED  BY <4>1 DEF Inv, LineagesOK
    <3>4. QED  BY <3>1, <3>2, <3>3
  <2>5. QED  BY <2>1, <2>4 DEF LineagesOK
<1>28. m \notin Sources /\ r.supersedes \cap Sources = {}  BY <1>10, MemoriesFinite
<1>29. RecallOK'  BY <1>7, <1>19, <1>28 DEF Inv, RecallOK
<1>30. ASSUME ~damaged' PROVE RowsExact'
  <2>1. RowsExact  BY <1>7, <1>30 DEF Inv
  <2>2. \A l \in Lineages, v \in 1..MaxVersion : Newest(l, v)' <=> Newest(l, v)
    BY <1>7 DEF Newest
  <2>3. ASSUME NEW k \in Memories
        PROVE  /\ projection'[k] = IF k \in ActiveRecords' THEN StateOf(k)' ELSE "none"
               /\ k \in recall' <=> k \in ActiveRecords' /\ StateOf(k)' = "confirmed"
    <3>1. CASE k = m
      <4>1. m \notin r.supersedes  BY <1>12
      <4>2. QED  BY <1>7, <1>17, <1>19, <3>1, <4>1
    <3>2. CASE k # m /\ k \in r.supersedes
      BY <1>7, <1>12, <1>17, <1>19, <3>2
    <3>3. CASE k # m /\ k \notin r.supersedes
      BY <1>7, <1>17, <1>19, <2>1, <3>3 DEF RowsExact
    <3>4. QED  BY <3>1, <3>2, <3>3
  <2>4. \A s \in Sources : s \in recall' <=> s \in recall  BY <1>7, <1>28
  <2>5. QED  BY <1>7, <2>1, <2>2, <2>3, <2>4 DEF RowsExact
<1>31. QED  BY <1>20, <1>21, <1>22, <1>25, <1>26, <1>27, <1>29, <1>30 DEF Inv

-----------------------------------------------------------------------------
(* CloseTargets without the check of the derived rows, which rolls the      *)
(* transaction back when it fails.                                          *)
ClosesUnverified(S, M) ==
    LET P == ClosedProposals(S, M) IN
    /\ ValidateSemanticTargets(S, M)
    /\ source' = [s \in Sources |-> IF s \in S THEN "closed" ELSE source[s]]
    /\ fragment' = [s \in Sources |->
                      IF s \in S /\ fragment[s] = "active" THEN "closed" ELSE fragment[s]]
    /\ proposal' = [p \in DOMAIN proposal |->
                      IF p \in P THEN [proposal[p] EXCEPT !.state = "closed"] ELSE proposal[p]]
    /\ record' = [m \in DOMAIN record |->
                    IF m \in M THEN [record[m] EXCEPT !.state = "closed"] ELSE record[m]]
    /\ UNCHANGED <<decisions, events, damaged>>
    /\ tip' = [l \in Lineages |-> IF <<l, tip[l]>> \in S THEN 0 ELSE tip[l]]
    /\ projection' = [m \in Memories |-> IF m \in M THEN "none" ELSE projection[m]]
    /\ recall' = recall \ ({s \in S : fragment[s] = "active"} \cup M)

LEMMA CloseTargetsIs ==
    ASSUME NEW S, NEW M
    PROVE  CloseTargets(S, M) <=> ClosesUnverified(S, M) /\ Verify'
BY DEF CloseTargets, CloseDerived, ClosesUnverified

(* close_targets_to_recall: a record that stays active cites no closed      *)
(* source, supersedes no closed record and came from a proposal of its own, *)
(* so its facts stay active.                                                *)
LEMMA ClosedFacts ==
    ASSUME Inv, NEW S \in SUBSET Sources, NEW M \in SUBSET Memories, ClosesUnverified(S, M)
    PROVE  /\ TypeOK' /\ SourcesOK' /\ ProposalsOK' /\ DecisionsOK' /\ RecordsOK'
           /\ ActiveOK' /\ LineagesOK'
<1>1. PICK P : P = ClosedProposals(S, M)  OBVIOUS
<1>2. /\ \A s \in S : source[s] = "active"
      /\ M \subseteq ActiveRecords /\ Citing(S) \subseteq M /\ Superseding(M) \subseteq M
  BY DEF ClosesUnverified, ValidateSemanticTargets
<1>3. /\ source' = [s \in Sources |-> IF s \in S THEN "closed" ELSE source[s]]
      /\ fragment' = [s \in Sources |->
                        IF s \in S /\ fragment[s] = "active" THEN "closed" ELSE fragment[s]]
      /\ proposal' = [p \in DOMAIN proposal |->
                        IF p \in P THEN [proposal[p] EXCEPT !.state = "closed"] ELSE proposal[p]]
      /\ record' = [m \in DOMAIN record |->
                      IF m \in M THEN [record[m] EXCEPT !.state = "closed"] ELSE record[m]]
      /\ UNCHANGED <<decisions, events, damaged>>
  BY <1>1 DEF ClosesUnverified
<1>4. /\ tip' = [l \in Lineages |-> IF <<l, tip[l]>> \in S THEN 0 ELSE tip[l]]
      /\ projection' = [m \in Memories |-> IF m \in M THEN "none" ELSE projection[m]]
      /\ recall' \subseteq recall
  BY DEF ClosesUnverified
<1>5. /\ DOMAIN proposal' = DOMAIN proposal
      /\ \A q \in DOMAIN proposal :
           /\ proposal'[q] \in Proposal
           /\ proposal'[q].sources = proposal[q].sources
           /\ proposal'[q].targets = proposal[q].targets
           /\ proposal'[q].start = proposal[q].start
           /\ proposal'[q].state = IF q \in P THEN "closed" ELSE proposal[q].state
  <2>1. ASSUME NEW q \in DOMAIN proposal
        PROVE  /\ proposal'[q] \in Proposal
               /\ proposal'[q].sources = proposal[q].sources
               /\ proposal'[q].targets = proposal[q].targets
               /\ proposal'[q].start = proposal[q].start
               /\ proposal'[q].state = IF q \in P THEN "closed" ELSE proposal[q].state
    <3>1. proposal[q] \in Proposal  BY DEF Inv, TypeOK
    <3>2. proposal'[q] = IF q \in P THEN [proposal[q] EXCEPT !.state = "closed"] ELSE proposal[q]
      BY <1>3
    <3>3. QED  BY <3>1, <3>2 DEF Proposal, RowStates
  <2>2. QED  BY <1>3, <2>1
<1>6. /\ DOMAIN record' = DOMAIN record /\ DOMAIN record \subseteq Memories
      /\ \A m \in DOMAIN record :
           /\ record'[m] \in Record
           /\ record'[m].lineage = record[m].lineage /\ record'[m].version = record[m].version
           /\ record'[m].origin = record[m].origin /\ record'[m].sources = record[m].sources
           /\ record'[m].supersedes = record[m].supersedes /\ record'[m].start = record[m].start
           /\ record'[m].state = IF m \in M THEN "closed" ELSE record[m].state
  <2>1. ASSUME NEW m \in DOMAIN record
        PROVE  /\ record'[m] \in Record
               /\ record'[m].lineage = record[m].lineage /\ record'[m].version = record[m].version
               /\ record'[m].origin = record[m].origin /\ record'[m].sources = record[m].sources
               /\ record'[m].supersedes = record[m].supersedes /\ record'[m].start = record[m].start
               /\ record'[m].state = IF m \in M THEN "closed" ELSE record[m].state
    <3>1. record[m] \in Record  BY DEF Inv, TypeOK
    <3>2. record'[m] = IF m \in M THEN [record[m] EXCEPT !.state = "closed"] ELSE record[m]
      BY <1>3
    <3>3. QED  BY <3>1, <3>2 DEF Record, RowStates
  <2>2. QED  BY <1>3, <2>1 DEF Inv, TypeOK
<1>7. \A m : StateOf(m)' = StateOf(m) /\ Last(m)' = Last(m)  BY <1>3 DEF StateOf, Last
<1>8. ActiveRecords' = ActiveRecords \ M  BY <1>6 DEF ActiveRecords
<1>9. TypeOK'
  <2>1. /\ source' \in [Sources -> RowStates \cup {"absent"}]
        /\ fragment' \in [Sources -> RowStates \cup {"absent"}]
    BY <1>3 DEF Inv, TypeOK, RowStates
  <2>2. /\ proposal' \in [DOMAIN proposal' -> Proposal] /\ DOMAIN proposal' \subseteq Proposals
        /\ record' \in [DOMAIN record' -> Record] /\ DOMAIN record' \subseteq Memories
    BY <1>3, <1>5, <1>6 DEF Inv, TypeOK
  <2>3. tip' \in [Lineages -> 0..MaxVersion]  BY <1>4, MemoriesFinite DEF Inv, TypeOK
  <2>4. projection' \in [Memories -> EndTypes \cup {"confirmed", "none"}]
    BY <1>4 DEF Inv, TypeOK
  <2>5. recall' \subseteq Sources \cup Memories  BY <1>4 DEF Inv, TypeOK
  <2>6. QED  BY <1>3, <2>1, <2>2, <2>3, <2>4, <2>5 DEF Inv, TypeOK
<1>10. SourcesOK'
  <2>1. \A s \in Sources : source'[s] = "absent" <=> source[s] = "absent"
    BY <1>2, <1>3
  <2>2. \A l \in Lineages, v \in 1..MaxVersion : <<l, v>> \in Sources  BY DEF Sources
  <2>3. \A s \in Sources : fragment'[s] = "active" => source'[s] = "active"
    BY <1>3 DEF Inv, SourcesOK
  <2>4. QED  BY <2>1, <2>2, <2>3 DEF Inv, SourcesOK
<1>11. ASSUME NEW q \in DOMAIN proposal, proposal[q].state = "active", q \notin P,
              NEW s \in proposal[q].sources
       PROVE  fragment[s] = "active" /\ s \notin S /\ s \in Sources
  <2>1. fragment[s] = "active"  BY <1>11 DEF Inv, ProposalsOK
  <2>2. s \in Sources  BY DEF Inv, TypeOK, Proposal
  <2>3. QED  BY <1>1, <1>11, <2>1, <2>2 DEF ClosedProposals
<1>12. ProposalsOK'
  <2>1. ASSUME NEW q \in DOMAIN proposal', proposal'[q].state = "active",
               NEW s \in proposal'[q].sources
        PROVE  fragment'[s] = "active"
    <3>1. q \in DOMAIN proposal /\ q \notin P /\ proposal[q].state = "active"
          /\ s \in proposal[q].sources
      BY <1>5, <2>1
    <3>2. QED  BY <1>3, <1>11, <3>1
  <2>2. \A q \in DOMAIN proposal' :
          proposal'[q].targets \subseteq DOMAIN record' /\ proposal'[q].start \in Starts
    BY <1>5, <1>6 DEF Inv, ProposalsOK
  <2>3. QED  BY <2>1, <2>2 DEF ProposalsOK
<1>13. DecisionsOK'  BY <1>3 DEF Inv, DecisionsOK
<1>14. RecordsOK'
  <2>1. ASSUME NEW k \in DOMAIN record PROVE RecordOK(k)'
    <3>1. RecordOK(k)  BY DEF Inv, RecordsOK
    <3>2. record[k].supersedes \subseteq DOMAIN record
      BY <3>1 DEF RecordOK, Materializes, Inv, ProposalsOK
    <3>3. record[k].origin \in DOMAIN proposal  BY <3>1 DEF RecordOK
    <3>4. Materializes(record[k].origin, k, record[k])'
      <4>1. Accepted(record[k].origin, k)'
        BY <1>3, <1>6, <3>1 DEF RecordOK, Materializes, Accepted
      <4>2. QED  BY <1>5, <1>6, <3>1, <3>3, <4>1 DEF RecordOK, Materializes
    <3>5. \A u \in record'[k].supersedes : Supersedes(k, record[k], u)'
      BY <1>6, <1>7, <3>1, <3>2 DEF RecordOK, Supersedes
    <3>6. FollowsVersions(record[k])'  BY <1>6, <3>1, <3>2 DEF RecordOK, FollowsVersions
    <3>7. StateOf(k)' = "superseded" =>
            Stored(Last(k).cause)' /\ k \in record'[Last(k)'.cause].supersedes
      BY <1>6, <1>7, <3>1 DEF RecordOK, Stored
    <3>8. EventChainLoads(events'[k])  BY <1>3, <3>1 DEF RecordOK
    <3>9. record'[k].origin \in DOMAIN proposal'  BY <1>5, <1>6, <3>3
    <3>10. QED  BY <3>4, <3>5, <3>6, <3>7, <3>8, <3>9 DEF RecordOK
  <2>2. QED  BY <1>6, <2>1 DEF RecordsOK
<1>15. ActiveOK'
  <2>1. ASSUME NEW k \in ActiveRecords, k \notin M
        PROVE  /\ proposal'[record'[k].origin].state = "active"
               /\ record'[k].supersedes \subseteq ActiveRecords'
    <3> DEFINE p == record[k].origin
    <3>1. k \in DOMAIN record /\ RecordOK(k)  BY DEF ActiveRecords, Inv, RecordsOK
    <3>2. p \in DOMAIN proposal /\ Accepted(p, k) /\ record[k].sources = proposal[p].sources
      BY <3>1 DEF RecordOK, Materializes
    <3>3. proposal[p].state = "active" /\ record[k].supersedes \subseteq ActiveRecords
      BY DEF Inv, ActiveOK
    <3>4. ASSUME NEW j \in M, record[j].origin = p PROVE FALSE
      <4>1. j \in DOMAIN record  BY <1>2 DEF ActiveRecords
      <4>2. Accepted(p, j)  BY <3>4, <4>1 DEF Inv, RecordsOK, RecordOK, Materializes
      <4>3. j = k  BY <3>2, <4>2 DEF Accepted
      <4>4. QED  BY <2>1, <4>3
    <3>5. ASSUME NEW s \in proposal[p].sources, s \in S PROVE FALSE
      <4>1. record[k].sources \cap S # {}  BY <3>2, <3>5
      <4>2. QED  BY <1>2, <2>1, <4>1 DEF Citing
    <3>6. p \notin P  BY <1>1, <3>4, <3>5 DEF ClosedProposals
    <3>7. record[k].supersedes \cap M = {}  BY <1>2, <2>1 DEF Superseding
    <3>8. QED  BY <1>5, <1>6, <1>8, <3>1, <3>2, <3>3, <3>6, <3>7
  <2>2. QED  BY <1>8, <2>1 DEF ActiveOK
<1>16. LineagesOK'  BY <1>6, <1>7 DEF Inv, LineagesOK
<1>17. QED  BY <1>9, <1>10, <1>12, <1>13, <1>14, <1>15, <1>16

LEMMA CloseTargetsInv ==
    ASSUME Inv, NEW S \in SUBSET Sources, NEW M \in SUBSET Memories, CloseTargets(S, M)
    PROVE  Inv'
<1>1. /\ TypeOK' /\ SourcesOK' /\ ProposalsOK' /\ DecisionsOK' /\ RecordsOK'
      /\ ActiveOK' /\ LineagesOK'
  BY CloseTargetsIs, ClosedFacts
<1>2. Exact'  BY DEF CloseTargets, CloseDerived, Verify
<1>3. TypeOK' => (Exact' <=> RowsExact')  BY ExactIsRowsExact, PTL
<1>4. TypeOK' /\ RowsExact' => RecallOK'  BY ExactRowsRest, PTL
<1>5. QED  BY <1>1, <1>2, <1>3, <1>4 DEF Inv

(* The rows that closing leaves are exact while none were lost, since the   *)
(* targets take whole lineages with them.                                   *)
LEMMA ClosingLeavesExactRows ==
    ASSUME Inv, ~damaged, NEW S \in SUBSET Sources, NEW M \in SUBSET Memories, ClosesUnverified(S, M)
    PROVE  RowsExact'
<1>1. RowsExact /\ MaxVersion \in Nat /\ Memories \cap Sources = {}
  BY MemoriesFinite DEF Inv
<1>2. /\ \A s \in S : source[s] = "active"
      /\ M \subseteq ActiveRecords /\ ActiveOf({s[1] : s \in S}) \subseteq S
  BY DEF ClosesUnverified, ValidateSemanticTargets
<1>3. /\ source' = [s \in Sources |-> IF s \in S THEN "closed" ELSE source[s]]
      /\ fragment' = [s \in Sources |->
                        IF s \in S /\ fragment[s] = "active" THEN "closed" ELSE fragment[s]]
      /\ events' = events
      /\ tip' = [l \in Lineages |-> IF <<l, tip[l]>> \in S THEN 0 ELSE tip[l]]
      /\ projection' = [m \in Memories |-> IF m \in M THEN "none" ELSE projection[m]]
      /\ recall' = recall \ ({s \in S : fragment[s] = "active"} \cup M)
  BY DEF ClosesUnverified
<1>4. ActiveRecords' = ActiveRecords \ M
  <2>1. DOMAIN record' = DOMAIN record  BY DEF ClosesUnverified
  <2>2. ASSUME NEW m \in DOMAIN record
        PROVE  record'[m].state = IF m \in M THEN "closed" ELSE record[m].state
    <3>1. record[m] \in Record  BY DEF Inv, TypeOK
    <3>2. record'[m] = IF m \in M THEN [record[m] EXCEPT !.state = "closed"] ELSE record[m]
      BY DEF ClosesUnverified
    <3>3. QED  BY <3>1, <3>2 DEF Record
  <2>3. QED  BY <2>1, <2>2 DEF ActiveRecords
<1>5. \A m : StateOf(m)' = StateOf(m)  BY <1>3 DEF StateOf, Last
<1>6. \A l \in Lineages, v \in 1..MaxVersion : <<l, v>> \in Sources  BY DEF Sources
<1>7. tip \in [Lineages -> 0..MaxVersion]  BY DEF Inv, TypeOK
<1>8. ASSUME NEW l \in Lineages, NEW v \in 1..MaxVersion PROVE tip'[l] = v <=> Newest(l, v)'
  <2>1. tip[l] = v <=> Newest(l, v)  BY <1>1 DEF RowsExact
  <2>2. \A w \in (v + 1)..MaxVersion : w \in 1..MaxVersion  BY <1>1
  <2>3. \A w \in 1..MaxVersion :
          /\ source'[<<l, w>>] = "absent" <=> source[<<l, w>>] = "absent"
          /\ source'[<<l, w>>] = "active" <=> source[<<l, w>>] = "active" /\ <<l, w>> \notin S
    BY <1>2, <1>3, <1>6
  <2>4. Newest(l, v)' <=> Newest(l, v) /\ <<l, v>> \notin S
    BY <2>2, <2>3 DEF Newest
  <2>5. tip'[l] = IF <<l, tip[l]>> \in S THEN 0 ELSE tip[l]  BY <1>3
  <2>6. v # 0  OBVIOUS
  <2>7. QED  BY <2>1, <2>4, <2>5, <2>6
<1>9. ASSUME NEW s \in Sources
      PROVE  s \in recall' <=>
               fragment'[s] = "active" /\ source'[s] = "active" /\ tip'[s[1]] = s[2]
  <2>1. s[1] \in Lineages /\ s[2] \in 1..MaxVersion /\ s = <<s[1], s[2]>>  BY SourceFacts
  <2>2. s \in recall <=> fragment[s] = "active" /\ source[s] = "active" /\ tip[s[1]] = s[2]
    BY <1>1 DEF RowsExact
  <2>3. s \notin M  BY <1>1
  <2>4. tip'[s[1]] = IF <<s[1], tip[s[1]]>> \in S THEN 0 ELSE tip[s[1]]  BY <1>3, <2>1
  <2>5. CASE s \in S
    BY <1>3, <2>2, <2>5
  <2>6. CASE s \notin S
    <3>1. s \in recall' <=> s \in recall  BY <1>3, <2>3, <2>6
    <3>2. fragment'[s] = fragment[s] /\ source'[s] = source[s]  BY <1>3, <2>6
    <3>3. s[2] # 0  BY <2>1
    <3>4. QED  BY <2>1, <2>2, <2>4, <2>6, <3>1, <3>2, <3>3
  <2>7. QED  BY <2>5, <2>6
<1>10. ASSUME NEW m \in Memories
       PROVE  /\ projection'[m] = IF m \in ActiveRecords' THEN StateOf(m)' ELSE "none"
              /\ m \in recall' <=> m \in ActiveRecords' /\ StateOf(m)' = "confirmed"
  <2>1. m \notin S  BY <1>1
  <2>2. QED  BY <1>1, <1>3, <1>4, <1>5, <2>1 DEF RowsExact
<1>11. QED  BY <1>8, <1>9, <1>10 DEF RowsExact

(* A catalog with exact rows loads when the records do.                     *)
LEMMA CatalogLoadsWith == Inv /\ EveryRecordLoads => CatalogLoads
<1> SUFFICES ASSUME Inv, EveryRecordLoads PROVE CatalogLoads  OBVIOUS
<1>1. ASSUME NEW l \in Lineages, ExpectedTip(l) # 0 PROVE SourceLoads(<<l, ExpectedTip(l)>>)
  <2>1. PICK v \in 1..MaxVersion : ExpectedTip(l) = v /\ Newest(l, v)
    <3>1. /\ ExpectedTip(l) \in 0..MaxVersion
          /\ \A v \in 1..MaxVersion : ExpectedTip(l) = v <=> Newest(l, v)
      BY TipIsNewest
    <3>2. MaxVersion \in Nat  BY MemoriesFinite
    <3>3. ExpectedTip(l) \in 1..MaxVersion  BY <1>1, <3>1, <3>2
    <3>4. QED  BY <3>1, <3>3
  <2>2. source[<<l, v>>] = "active"  BY <2>1 DEF Newest
  <2>3. v > 1 => v - 1 \in 1..MaxVersion /\ v - 1 < v  BY MemoriesFinite
  <2>4. v > 1 => source[<<l, v - 1>>] # "absent"  BY <2>2, <2>3 DEF Inv, SourcesOK
  <2>5. QED  BY <2>1, <2>2, <2>4 DEF SourceLoads
<1>2. QED  BY <1>1 DEF CatalogLoads, EveryRecordLoads

LEMMA RecordsLoad == NoTime \notin Starts /\ Inv => EveryRecordLoads
BY ActiveRecordsLoad

(* begin closes the targets, verifies the catalog and the derived rows, and *)
(* rolls back on a mismatch.  It never does: whatever closure was accepted, *)
(* what it leaves verifies, as long as no derived row was lost before and   *)
(* every proposal has a known start.                                        *)
THEOREM ClosingIsNeverRolledBack ==
    ASSUME NoTime \notin Starts, Inv, ~damaged,
           NEW S \in SUBSET Sources, NEW M \in SUBSET Memories, ClosesUnverified(S, M)
    PROVE  Verify'
<1>1. /\ TypeOK' /\ SourcesOK' /\ ProposalsOK' /\ DecisionsOK' /\ RecordsOK'
      /\ ActiveOK' /\ LineagesOK'
  BY ClosedFacts
<1>2. RowsExact'  BY ClosingLeavesExactRows
<1>3. TypeOK' => (Exact' <=> RowsExact')  BY ExactIsRowsExact, PTL
<1>4. TypeOK' /\ RowsExact' => RecallOK'  BY ExactRowsRest, PTL
<1>5. Inv'  BY <1>1, <1>2, <1>4 DEF Inv
<1>6. NoTime \notin Starts /\ Inv' => EveryRecordLoads'  BY RecordsLoad, PTL
<1>7. Inv' /\ EveryRecordLoads' => CatalogLoads'  BY CatalogLoadsWith, PTL
<1>8. QED  BY <1>1, <1>2, <1>3, <1>5, <1>6, <1>7 DEF Verify

-----------------------------------------------------------------------------
LEMMA InvInit == Init => Inv
<1> SUFFICES ASSUME Init PROVE Inv  OBVIOUS
<1>1. MaxVersion \in Nat  BY MemoriesFinite
<1>2. DOMAIN proposal = {} /\ DOMAIN record = {} /\ ActiveRecords = {}
  BY DEF Init, ActiveRecords
<1>3. TypeOK
  <2>1. /\ proposal \in [DOMAIN proposal -> Proposal] /\ record \in [DOMAIN record -> Record]
    BY <1>2 DEF Init
  <2>2. <<>> \in Seq(Decision) /\ <<>> \in Seq(Event)  OBVIOUS
  <2>3. /\ decisions \in [Proposals -> Seq(Decision)] /\ events \in [Memories -> Seq(Event)]
    BY <2>2 DEF Init
  <2>4. /\ source \in [Sources -> RowStates \cup {"absent"}]
        /\ fragment \in [Sources -> RowStates \cup {"absent"}]
    BY DEF Init
  <2>5. 0 \in 0..MaxVersion  BY <1>1
  <2>6. tip \in [Lineages -> 0..MaxVersion]  BY <2>5 DEF Init
  <2>7. projection \in [Memories -> EndTypes \cup {"confirmed", "none"}]  BY DEF Init
  <2>8. recall \subseteq Sources \cup Memories /\ damaged \in BOOLEAN  BY DEF Init
  <2>9. QED  BY <1>2, <2>1, <2>3, <2>4, <2>6, <2>7, <2>8 DEF TypeOK
<1>4. SourcesOK
  <2>1. \A l \in Lineages, v \in 1..MaxVersion : <<l, v>> \in Sources  BY DEF Sources
  <2>2. QED  BY <2>1 DEF Init, SourcesOK
<1>5. ProposalsOK /\ RecordsOK /\ ActiveOK /\ LineagesOK /\ RecallOK
  BY <1>2 DEF Init, ProposalsOK, RecordsOK, ActiveOK, LineagesOK, RecallOK
<1>6. DecisionsOK
  <2>1. \A p \in Proposals : decisions[p] = <<>> /\ DOMAIN decisions[p] = {}  BY DEF Init
  <2>2. QED  BY <2>1 DEF DecisionsOK, DecisionChainLoads, Chained
<1>7. RowsExact
  <2>1. \A l \in Lineages, v \in 1..MaxVersion : <<l, v>> \in Sources  BY DEF Sources
  <2>2. ASSUME NEW l \in Lineages, NEW v \in 1..MaxVersion PROVE tip[l] # v /\ ~Newest(l, v)
    <3>1. tip[l] = 0 /\ v # 0  BY <1>1 DEF Init
    <3>2. source[<<l, v>>] = "absent"  BY <2>1 DEF Init
    <3>3. QED  BY <3>1, <3>2 DEF Newest
  <2>3. \A s \in Sources : s \notin recall /\ fragment[s] # "active"  BY DEF Init
  <2>4. \A m \in Memories : projection[m] = "none" /\ m \notin recall  BY DEF Init
  <2>5. QED  BY <1>2, <2>2, <2>3, <2>4 DEF RowsExact
<1>8. QED  BY <1>3, <1>4, <1>5, <1>6, <1>7 DEF Inv

LEMMA InvNext == Inv /\ [Next]_vars => Inv'
<1> SUFFICES ASSUME Inv, [Next]_vars PROVE Inv'  OBVIOUS
<1>1. CASE \E l \in Lineages, v \in 1..MaxVersion : StoreSource(l, v)
  BY <1>1, StoreSourceInv
<1>2. CASE \E s \in Sources : StoreFragment(s)
  BY <1>2, StoreFragmentInv
<1>3. CASE \E p \in Proposals, c \in Contents, t \in Starts :
             \E S \in SUBSET Sources, T \in SUBSET Memories : StoreProposal(p, c, S, T, t)
  BY <1>3, StoreProposalInv
<1>4. CASE \E p \in Proposals, previous \in 0..MaxDecisions, m \in Memories \cup {NoMemory} :
             \E d \in {"defer", "accept", "reject"} : StoreDecision(p, previous, d, m)
  BY <1>4, StoreDecisionInv
<1>5. CASE \E p \in Proposals, m \in Memories, k \in MemoryLineages, at \in Times :
             \E v \in 1..Cardinality(Memories) : MaterializeAcceptedMemory(p, m, k, v, at)
  BY <1>5, MaterializeInv
<1>6. CASE \E m \in Memories, previous \in 1..2, cause \in Memories \cup {NoMemory}, at \in Times :
             AppendMemoryStateEvent(m, previous, cause, at)
  BY <1>6, AppendMemoryStateEventInv
<1>7. CASE \E S \in SUBSET Sources, M \in SUBSET Memories : CloseTargets(S, M)
  BY <1>7, CloseTargetsInv
<1>8. CASE Rebuild
  BY <1>8, RebuildInv
<1>9. CASE DamageDerived
  BY <1>9, DamageDerivedInv
<1>10. CASE UNCHANGED vars
  <2>1. UNCHANGED <<source, fragment, proposal, decisions, record, events, derived>>
    BY <1>10 DEF vars, canonical
  <2>2. SourcesOK' /\ RecallOK' /\ (~damaged' => RowsExact') /\ LineagesOK'
    BY <2>1, RowsKept
  <2>3. DecisionsOK' /\ RecordsOK' /\ ActiveOK'  BY <2>1, HistoryKept
  <2>4. ProposalsOK'  BY <2>1 DEF Inv, ProposalsOK
  <2>5. TypeOK'  BY <2>1 DEF Inv, TypeOK, derived
  <2>6. QED  BY <2>2, <2>3, <2>4, <2>5 DEF Inv
<1>11. QED
  BY <1>1, <1>2, <1>3, <1>4, <1>5, <1>6, <1>7, <1>8, <1>9, <1>10 DEF Next

(* The history of sources, proposals, decisions, records and events keeps   *)
(* its references, chains and states, and recall its active rows, through   *)
(* every transaction of the stores and every closing.                       *)
THEOREM LibraryInvariance == Spec => []Inv
BY InvInit, InvNext, PTL DEF Spec

(* The stored history is well formed: a proposal is decided once, a result  *)
(* belongs to one proposal, and a memory lineage is a chain with one        *)
(* confirmed record at most, however many supersessions were accepted.      *)
THEOREM HistoryAlwaysWellFormed == Spec => []HistoryWellFormed
<1>1. Inv => HistoryWellFormed
  <2> SUFFICES ASSUME Inv PROVE HistoryWellFormed  OBVIOUS
  <2>1. ASSUME NEW p \in Proposals, NEW m \in Memories, Accepted(p, m)
        PROVE  /\ Len(decisions[p]) \in DOMAIN decisions[p]
               /\ decisions[p][Len(decisions[p])].result = m
    <3>1. PICK c \in Seq(Decision) : c = decisions[p]  BY DEF Inv, TypeOK
    <3>2. c # <<>> /\ c[Len(c)].result = m  BY <2>1, <3>1 DEF Accepted
    <3>3. Len(c) \in DOMAIN c  BY <3>1, <3>2
    <3>4. QED  BY <3>1, <3>2, <3>3
  <2>2. ASSUME NEW p \in Proposals, NEW q \in Proposals, NEW m \in Memories,
               Accepted(p, m), Accepted(q, m)
        PROVE  p = q
    <3>1. m # NoMemory  BY MemoriesFinite
    <3>2. QED  BY <2>1, <2>2, <3>1 DEF Inv, DecisionsOK
  <2>3. ASSUME NEW p \in Proposals, NEW m \in Memories, Accepted(p, m), Stored(m)
        PROVE  record[m].origin = p
    <3>1. record[m] \in Record /\ RecordOK(m)  BY <2>3 DEF Stored, Inv, TypeOK, RecordsOK
    <3>2. record[m].origin \in Proposals /\ Accepted(record[m].origin, m)
      BY <3>1 DEF Record, RecordOK, Materializes
    <3>3. QED  BY <2>2, <2>3, <3>2
  <2>4. DecidedOnce  BY <2>2, <2>3 DEF DecidedOnce, Inv, DecisionsOK
  <2>5. MemoryLineageIsChain
    <3>1. ASSUME NEW m \in DOMAIN record, NEW k \in DOMAIN record,
                 record[m].supersedes \cap record[k].supersedes # {}
          PROVE  m = k
      <4>1. PICK t \in record[m].supersedes : t \in record[k].supersedes  BY <3>1
      <4>2. Supersedes(m, record[m], t) /\ Supersedes(k, record[k], t)
        BY <4>1 DEF Inv, RecordsOK, RecordOK
      <4>3. QED  BY <4>2 DEF Supersedes
    <3>2. QED  BY <3>1 DEF MemoryLineageIsChain, Inv, LineagesOK
  <2>6. QED  BY <2>4, <2>5 DEF HistoryWellFormed, Inv
<1>2. QED  BY <1>1, LibraryInvariance, PTL

(* The rows that the transactions maintain are those a rebuild would write, *)
(* so verify, which guards searches, captures and opens, finds no           *)
(* difference.                                                              *)
THEOREM DerivedAlwaysExact == Spec => []DerivedExact
<1>1. Inv => DerivedExact  BY ExactIsRowsExact DEF Inv, DerivedExact
<1>2. QED  BY <1>1, LibraryInvariance, PTL

(* Nothing is recalled whose content, or a source it cites, was closed for  *)
(* deletion, even while derived rows are lost.                              *)
THEOREM RecallAlwaysRestsOnActive == Spec => []RecallRestsOnActive
<1>1. Inv => RecallRestsOnActive
  <2> SUFFICES ASSUME Inv PROVE RecallRestsOnActive  OBVIOUS
  <2>1. ASSUME NEW m \in recall \cap Memories
        PROVE  /\ record[m].state = "active"
               /\ \A s \in record[m].sources : source[s] = "active" /\ fragment[s] = "active"
    <3>1. m \in ActiveRecords  BY DEF Inv, RecallOK
    <3>2. m \in DOMAIN record /\ record[m].state = "active" /\ RecordOK(m)
      BY <3>1 DEF ActiveRecords, Inv, RecordsOK
    <3>3. /\ record[m].origin \in DOMAIN proposal
          /\ record[m].sources = proposal[record[m].origin].sources
      BY <3>2 DEF RecordOK, Materializes
    <3>4. \A s \in record[m].sources : fragment[s] = "active"
      BY <3>1, <3>3 DEF Inv, ActiveOK, ProposalsOK
    <3>5. record[m].sources \subseteq Sources  BY <3>2 DEF Inv, TypeOK, Record
    <3>6. QED  BY <3>2, <3>4, <3>5 DEF Inv, SourcesOK
  <2>2. QED  BY <2>1 DEF RecallRestsOnActive, Inv, RecallOK
<1>2. QED  BY <1>1, LibraryInvariance, PTL

(* The closure resolved for a lineage is one that the closing transaction   *)
(* accepts: the breadth-first search has enough steps to reach every record *)
(* that supersedes a resolved one.                                          *)
THEOREM ResolvedClosureAlwaysAccepted == Spec => []ResolvedClosureAccepted
<1>1. Inv => ResolvedClosureAccepted
  <2> SUFFICES ASSUME Inv, NEW l \in Lineages, ActiveOf({l}) # {}
               PROVE  ValidateSemanticTargets(ActiveOf({l}), ResolveMemories(l))
    BY DEF ResolvedClosureAccepted
  <2>1. DOMAIN record \subseteq Memories  BY DEF Inv, TypeOK
  <2>2. /\ ResolveMemories(l) \subseteq ActiveRecords
        /\ Citing(ActiveOf({l})) \subseteq ResolveMemories(l)
        /\ Superseding(ResolveMemories(l)) \subseteq ResolveMemories(l)
    BY <2>1, ResolvedIsClosed
  <2>3. {s[1] : s \in ActiveOf({l})} \subseteq {l}  BY DEF ActiveOf
  <2>4. ActiveOf({s[1] : s \in ActiveOf({l})}) \subseteq ActiveOf({l})
    BY <2>3 DEF ActiveOf
  <2>5. ActiveOf({l}) \subseteq {s \in Sources : source[s] = "active"}  BY DEF ActiveOf
  <2>6. QED  BY <2>2, <2>4, <2>5 DEF ValidateSemanticTargets
<1>2. QED  BY <1>1, LibraryInvariance, PTL

(* Every active record loads, with its proposal, decisions, events and all  *)
(* the records it supersedes, when every proposal has a known start: with   *)
(* an unknown one a superseded record does not load (memory_unknown_start). *)
THEOREM EveryRecordAlwaysLoads ==
    ASSUME NoTime \notin Starts
    PROVE  Spec => []EveryRecordLoads
<1>1. Inv => EveryRecordLoads  BY ActiveRecordsLoad
<1>2. QED  BY <1>1, LibraryInvariance, PTL

(* Verify, which guards every search, capture and open, fails only after    *)
(* derived rows were lost, and then rebuild is accepted: what it loads      *)
(* first, the whole catalog, always loads.                                  *)
THEOREM LibraryAlwaysVerifies ==
    ASSUME NoTime \notin Starts
    PROVE  Spec => [](CatalogLoads /\ (~damaged => Verify))
<1>1. Inv => CatalogLoads  BY RecordsLoad, CatalogLoadsWith
<1>2. Inv => (~damaged => Exact)  BY ExactIsRowsExact DEF Inv
<1>3. Inv => CatalogLoads /\ (~damaged => Verify)  BY <1>1, <1>2 DEF Verify
<1>4. QED  BY <1>3, LibraryInvariance, PTL
=============================================================================
