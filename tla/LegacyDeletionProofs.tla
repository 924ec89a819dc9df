------------------------ MODULE LegacyDeletionProofs ------------------------
(***************************************************************************)
(* What LegacyDeletion promises, proved for any sources, proposals and     *)
(* memory records, any citations and supersessions, and any number of      *)
(* requests, attempts, failures and crashes.                               *)
(*                                                                         *)
(* validate_resume judges the rows an unfinished deletion left by the      *)
(* results it stored.  That it never refuses a genuine history rests on    *)
(* three facts about histories: the closures of two requests share no row  *)
(* (Apart), a row that depends on a target belongs to that request or to   *)
(* an older one (Reached), and only the request that names a row ever      *)
(* removes anything of it, in a transaction that also stores the result    *)
(* (Explained).                                                            *)
(***************************************************************************)
EXTENDS LegacyDeletion, WellFoundedInduction, TLAPS

(* The rows of a stored request are closed, and only those of a request     *)
(* are; a row is named by one request.                                      *)
TargetsClosed ==
    \A r \in Stored :
       /\ \A s \in Targets(r).sources : source[s] # "active"
       /\ \A m \in Targets(r).memories : memory[m] # "active"
       /\ \A p \in Targets(r).proposals : proposal[p] # "active"
ClosedTargeted ==
    /\ \A m \in Memories : memory[m] # "active" => \E q \in Stored : m \in Targets(q).memories
    /\ \A p \in Proposals : proposal[p] # "active" => \E q \in Stored : p \in Targets(q).proposals
Apart ==
    \A q, r \in Stored : q # r =>
       /\ Targets(q).sources \cap Targets(r).sources = {}
       /\ Targets(q).proposals \cap Targets(r).proposals = {}

(* A record that is still active has its proposal, with the same citations. *)
Paired ==
    \A m \in Memories : memory[m] = "active" =>
       proposal[Origin[m]] = "active" /\ mlink[m] = plink[Origin[m]]

(* What depends on a target belongs to its request or to an older one.      *)
Reached(r) ==
    /\ \A s \in Targets(r).sources :
          /\ \A m \in Memories : s \in mlink[m] => \E q \in 1..r : m \in Targets(q).memories
          /\ \A p \in Proposals : s \in plink[p] => \E q \in 1..r : p \in Targets(q).proposals
    /\ \A m \in Targets(r).memories :
          /\ Origin[m] \in Targets(r).proposals
          /\ \A n \in Memories : <<n, m>> \in Supersedes => \E q \in 1..r : n \in Targets(q).memories

Closures ==
    TargetsClosed /\ ClosedTargeted /\ Apart /\ Paired /\ \A r \in Stored : Reached(r)

(* The body of a source is gone without a vault having taken it over.       *)
BodyMissing(s) == IF vault THEN object[s] = "none" ELSE s \notin inline

(* What is missing of a request's rows, a result of the request explains.   *)
Explained(r) ==
    /\ \A s \in Targets(r).sources :
          /\ s \notin fragment => LegacyComponentProof(r, "SourceFragment") # {}
          /\ BodyMissing(s) => LegacyComponentProof(r, "SourceBody") # {}
    /\ \A p \in Targets(r).proposals :
          \/ p \in {Origin[m] : m \in Targets(r).memories}
          \/ plink[p] \cap Targets(r).sources # {}
          \/ /\ LegacyComponentProof(r, "MemoryProposal") # {}
             /\ p \in redacted /\ plink[p] = {}

Untouched ==
    \A s \in Sources : source[s] = "active" =>
       /\ s \in fragment
       /\ IF vault THEN object[s] = "referenced" ELSE s \in inline

(* Before the migration there is nothing of the vault, after it no body     *)
(* outside.                                                                 *)
Phases ==
    /\ vault => inline = {}
    /\ ~vault => /\ plan = {}
                 /\ \A s \in Sources : object[s] = "none" /\ receipt[s] = NoReceipt
                 /\ \A r \in Requests : \A k \in 1..Len(attempts[r]) : attempts[r][k].legacy

(* An object is retired, or a receipt written, for a request that was       *)
(* adopted or begun there.                                                  *)
Retiring ==
    /\ plan \subseteq Stored
    /\ \A s \in Sources : receipt[s] # NoReceipt => receipt[s][1] \in plan
    /\ \A s \in Sources : object[s] \in {"deleting", "deleted"} =>
          \E q \in plan : s \in Targets(q).sources

Remains == (\A r \in Stored : Explained(r)) /\ Untouched /\ Phases /\ Retiring

(* The components before the n-th have left nothing to do.                  *)
Done(r, n) ==
    /\ n > 1 => \A p \in Targets(r).proposals : plink[p] = {} /\ p \in redacted
    /\ n > 2 => \A m \in Targets(r).memories : mlink[m] = {}
    /\ n > 3 => \A s \in Targets(r).sources : s \notin fragment
    /\ n > 4 => \A s \in Targets(r).sources : s \notin inline /\ object[s] \in {"none", "deleted"}

(* An executor's place in its attempt.                                      *)
Underway(r) ==
    /\ run[r].pc # "idle" => r \in Stored
    /\ run[r].pc = "run" =>
         /\ Len(attempts[r]) >= 1
         /\ \A i \in run[r].next..Len(Order) : attempts[r][Len(attempts[r])].result[Order[i]] = "none"
         /\ ~run[r].failed => Done(r, run[r].next)

Inv ==
    /\ TypeOK
    /\ Closures
    /\ Remains
    /\ \A r \in Requests : Underway(r)
    /\ InventoryVerifies
    /\ DeletedMeansGone

-----------------------------------------------------------------------------
(* Components, attempts and results *)

LEMMA OrderFacts ==
    /\ Len(Order) = 6
    /\ Order[1] = "MemoryProposal" /\ Order[2] = "MemoryRecord" /\ Order[3] = "SourceFragment"
    /\ Order[4] = "SourceBody" /\ Order[5] = "Retained" /\ Order[6] = "MinimalAudit"
    BY DEF Order

LEMMA ComponentFacts ==
    /\ ComponentTypes = {"MemoryProposal", "MemoryRecord", "SourceFragment", "SourceBody",
                         "Retained", "MinimalAudit"}
    /\ \A i \in 1..6 : Order[i] \in ComponentTypes
    /\ \A i, j \in 1..6 : Order[i] = Order[j] => i = j
<1>1. \A i \in 1..6 : i = 1 \/ i = 2 \/ i = 3 \/ i = 4 \/ i = 5 \/ i = 6
    OBVIOUS
<1>2. \A i \in 1..6 : Order[i] \in ComponentTypes
    BY OrderFacts DEF ComponentTypes
<1>3. ComponentTypes = {"MemoryProposal", "MemoryRecord", "SourceFragment", "SourceBody",
                        "Retained", "MinimalAudit"}
    <2>1. \A c \in ComponentTypes : \E i \in 1..6 : c = Order[i]
        BY OrderFacts DEF ComponentTypes
    <2>2. \A c \in ComponentTypes : c \in {"MemoryProposal", "MemoryRecord", "SourceFragment",
                                           "SourceBody", "Retained", "MinimalAudit"}
        BY <1>1, <2>1, OrderFacts
    <2> QED
        BY <1>2, <2>2, OrderFacts
<1>4. \A i, j \in 1..6 : Order[i] = Order[j] => i = j
    BY <1>1, OrderFacts
<1> QED
    BY <1>2, <1>3, <1>4

(* A nonempty set of numbers has a least one. *)
LEMMA LeastNumber ==
    ASSUME NEW T, T \subseteq Nat, T # {}
    PROVE  \E k \in T : \A j \in T : k <= j
<1>1. IsWellFoundedOn(OpToRel(<, Nat), Nat)
    BY NatLessThanWellFounded
<1>2. PICK k \in T : \A j \in T : ~(<<j, k>> \in OpToRel(<, Nat))
    BY <1>1, WFMin
<1>3. ASSUME NEW j \in T PROVE k <= j
    <2>1. ~(<<j, k>> \in OpToRel(<, Nat))
        BY <1>2
    <2>2. ~(<<j, k>> \in {ss \in Nat \X Nat : ss[1] < ss[2]})
        BY <2>1, Zenon DEF OpToRel
    <2> QED
        BY <2>2
<1> QED
    BY <1>3

(* The types of what the steps change. *)
LEMMA RequestTyped ==
    TypeOK => /\ Len(request) \in Nat /\ Len(request) <= MaxRequests
              /\ \A r \in Stored : /\ r \in Requests
                                   /\ Targets(r) \in Closure
                                   /\ Targets(r).sources \subseteq Sources
                                   /\ Targets(r).proposals \subseteq Proposals
                                   /\ Targets(r).memories \subseteq Memories
<1> SUFFICES ASSUME TypeOK
             PROVE  /\ Len(request) \in Nat /\ Len(request) <= MaxRequests
                    /\ \A r \in Stored : /\ r \in Requests
                                         /\ Targets(r) \in Closure
                                         /\ Targets(r).sources \subseteq Sources
                                         /\ Targets(r).proposals \subseteq Proposals
                                         /\ Targets(r).memories \subseteq Memories
    OBVIOUS
<1>1. request \in Seq(Closure) /\ Len(request) \in Nat /\ Len(request) <= MaxRequests
    BY DEF TypeOK
<1>2. MaxRequests \in Nat
    BY LegacyAssumption
<1>3. \A r \in Stored : r \in Requests
    BY <1>1, <1>2 DEF Stored, Requests
<1>4. \A r \in Stored : Targets(r) \in Closure
    BY <1>1 DEF Stored, Targets
<1> QED
    BY <1>1, <1>3, <1>4 DEF Closure

LEMMA RunTyped ==
    TypeOK => \A r \in Requests :
       /\ run[r].pc \in {"idle", "retire", "run", "store"} /\ run[r].next \in 1..7
       /\ run[r].failed \in BOOLEAN
       /\ attempts[r] \in Seq(Attempt) /\ Len(attempts[r]) \in Nat
<1> SUFFICES ASSUME TypeOK, NEW r \in Requests
             PROVE  /\ run[r].pc \in {"idle", "retire", "run", "store"} /\ run[r].next \in 1..7
                    /\ run[r].failed \in BOOLEAN
                    /\ attempts[r] \in Seq(Attempt) /\ Len(attempts[r]) \in Nat
    OBVIOUS
<1>1. run[r] \in [pc : {"idle", "retire", "run", "store"}, next : 1..7, failed : BOOLEAN]
    BY OrderFacts DEF TypeOK
<1>2. attempts[r] \in Seq(Attempt)
    BY DEF TypeOK
<1> QED
    BY <1>1, <1>2

(* What a new attempt leaves of the earlier ones. *)
LEMMA AttemptBegun ==
    ASSUME TypeOK, NEW r \in Requests, BeginAttempt(r)
    PROVE  /\ attempts' \in [Requests -> Seq(Attempt)]
           /\ \A q \in Requests \ {r} : attempts'[q] = attempts[q]
           /\ Len(attempts'[r]) = Len(attempts[r]) + 1
           /\ \A k \in 1..Len(attempts[r]) : attempts'[r][k] = attempts[r][k]
           /\ attempts'[r][Len(attempts[r]) + 1].legacy = ~vault
           /\ \A c \in ComponentTypes : attempts'[r][Len(attempts[r]) + 1].result[c] = "none"
<1> DEFINE a == [legacy |-> ~vault, result |-> [c \in ComponentTypes |-> "none"]]
<1>1. a \in Attempt /\ a.legacy = ~vault /\ \A c \in ComponentTypes : a.result[c] = "none"
    BY DEF Attempt, TypeOK
<1>2. attempts' = [attempts EXCEPT ![r] = Append(attempts[r], a)]
    BY DEF BeginAttempt, TypeOK
<1> HIDE DEF a
<1>3. attempts \in [Requests -> Seq(Attempt)] /\ attempts[r] \in Seq(Attempt)
    BY DEF TypeOK
<1>4. /\ Append(attempts[r], a) \in Seq(Attempt)
      /\ Len(Append(attempts[r], a)) = Len(attempts[r]) + 1
      /\ \A k \in 1..Len(attempts[r]) : Append(attempts[r], a)[k] = attempts[r][k]
      /\ Append(attempts[r], a)[Len(attempts[r]) + 1] = a
    BY <1>1, <1>3
<1>5. attempts'[r] = Append(attempts[r], a) /\ \A q \in Requests \ {r} : attempts'[q] = attempts[q]
    BY <1>2, <1>3
<1>6. attempts' \in [Requests -> Seq(Attempt)]
    BY <1>2, <1>3, <1>4
<1> QED
    BY <1>1, <1>4, <1>5, <1>6

(* What a recorded result changes: one component of the last attempt. *)
LEMMA ResultRecorded ==
    ASSUME TypeOK, NEW r \in Requests, NEW status \in {"succeeded", "failed"}, Record(r, status),
           Len(attempts[r]) >= 1, run[r].next \in 1..6, NEW n, n = Len(attempts[r]),
           NEW cur, cur = Current(r)
    PROVE  /\ attempts' \in [Requests -> Seq(Attempt)]
           /\ \A q \in Requests \ {r} : attempts'[q] = attempts[q]
           /\ Len(attempts'[r]) = n
           /\ \A k \in 1..n : /\ k # n => attempts'[r][k] = attempts[r][k]
                              /\ attempts'[r][k].legacy = attempts[r][k].legacy
           /\ \A c \in ComponentTypes :
                 attempts'[r][n].result[c] = IF c = cur THEN status ELSE attempts[r][n].result[c]
<1>1. cur \in ComponentTypes
    BY ComponentFacts DEF Current
<1>2. attempts \in [Requests -> Seq(Attempt)] /\ attempts[r] \in Seq(Attempt) /\ n \in Nat /\ n \in 1..n
    BY DEF TypeOK
<1>3. PICK a : a = attempts[r]
    OBVIOUS
<1>4. a \in Seq(Attempt) /\ Len(a) = n /\ a[n] \in Attempt
    BY <1>2, <1>3
<1>5. PICK x : x = [a[n] EXCEPT !.result = [a[n].result EXCEPT ![cur] = status]]
    OBVIOUS
<1>6. /\ x \in Attempt /\ x.legacy = a[n].legacy
      /\ \A c \in ComponentTypes : x.result[c] = IF c = cur THEN status ELSE a[n].result[c]
    <2>1. a[n].result \in [ComponentTypes -> {"none", "succeeded", "failed"}] /\ a[n].legacy \in BOOLEAN
        BY <1>4 DEF Attempt
    <2>2. PICK f : f = [a[n].result EXCEPT ![cur] = status]
        OBVIOUS
    <2>3. /\ f \in [ComponentTypes -> {"none", "succeeded", "failed"}]
          /\ \A c \in ComponentTypes : f[c] = IF c = cur THEN status ELSE a[n].result[c]
        BY <1>1, <2>1, <2>2
    <2>4. x = [a[n] EXCEPT !.result = f]
        BY <1>5, <2>2
    <2>5. x \in Attempt /\ x.legacy = a[n].legacy /\ x.result = f
        BY <1>4, <2>3, <2>4 DEF Attempt
    <2> QED
        BY <2>3, <2>5
<1>7. PICK b : b = [a EXCEPT ![n] = x]
    OBVIOUS
<1>8. b \in Seq(Attempt) /\ Len(b) = n /\ b[n] = x /\ \A k \in 1..n : k # n => b[k] = a[k]
    BY <1>2, <1>4, <1>6, <1>7
<1>9. attempts' = [attempts EXCEPT ![r] = b]
    BY <1>2, <1>3, <1>4, <1>5, <1>7 DEF Record
<1>10. attempts' \in [Requests -> Seq(Attempt)] /\ attempts'[r] = b
       /\ \A q \in Requests \ {r} : attempts'[q] = attempts[q]
    BY <1>2, <1>8, <1>9
<1> QED
    BY <1>3, <1>6, <1>8, <1>10

-----------------------------------------------------------------------------
(* What every step of an execution leaves as it is *)

(* Results are never taken back. *)
ProofsGrow ==
    \A q \in Requests : \A c \in ComponentTypes :
       LegacyComponentProof(q, c) \subseteq LegacyComponentProof(q, c)'

LEMMA ProofsSame == ASSUME UNCHANGED attempts PROVE ProofsGrow
    BY DEF ProofsGrow, LegacyComponentProof

LEMMA ProofsGrowBegin ==
    ASSUME TypeOK, NEW r \in Requests, BeginAttempt(r)
    PROVE  ProofsGrow
<1> SUFFICES ASSUME NEW q \in Requests, NEW c \in ComponentTypes, NEW k \in LegacyComponentProof(q, c)
             PROVE  k \in LegacyComponentProof(q, c)'
    BY DEF ProofsGrow
<1>1. /\ k \in 1..Len(attempts[q]) /\ attempts[q][k].result[c] = "succeeded"
      /\ c = "SourceBody" => attempts[q][k].legacy
    BY DEF LegacyComponentProof
<1>2. Len(attempts[q]) \in Nat
    BY RunTyped
<1>3. k \in 1..Len(attempts'[q]) /\ attempts'[q][k] = attempts[q][k]
    BY <1>1, <1>2, AttemptBegun
<1> QED
    BY <1>1, <1>3 DEF LegacyComponentProof

LEMMA ProofsGrowRecord ==
    ASSUME TypeOK, NEW r \in Requests, NEW status \in {"succeeded", "failed"}, Record(r, status),
           Len(attempts[r]) >= 1, run[r].next \in 1..6,
           attempts[r][Len(attempts[r])].result[Current(r)] = "none"
    PROVE  ProofsGrow
<1> SUFFICES ASSUME NEW q \in Requests, NEW c \in ComponentTypes, NEW k \in LegacyComponentProof(q, c)
             PROVE  k \in LegacyComponentProof(q, c)'
    BY DEF ProofsGrow
<1>1. /\ k \in 1..Len(attempts[q]) /\ attempts[q][k].result[c] = "succeeded"
      /\ c = "SourceBody" => attempts[q][k].legacy
    BY DEF LegacyComponentProof
<1>2. PICK n : n = Len(attempts[r])
    OBVIOUS
<1>3. PICK cur : cur = Current(r)
    OBVIOUS
<1>4. /\ \A p \in Requests \ {r} : attempts'[p] = attempts[p]
      /\ Len(attempts'[r]) = n
      /\ \A j \in 1..n : /\ j # n => attempts'[r][j] = attempts[r][j]
                         /\ attempts'[r][j].legacy = attempts[r][j].legacy
      /\ \A d \in ComponentTypes :
            attempts'[r][n].result[d] = IF d = cur THEN status ELSE attempts[r][n].result[d]
    BY <1>2, <1>3, ResultRecorded
<1>5. CASE q # r
    BY <1>1, <1>4, <1>5 DEF LegacyComponentProof
<1>6. CASE q = r /\ k # n
    BY <1>1, <1>2, <1>4, <1>6 DEF LegacyComponentProof
<1>7. CASE q = r /\ k = n
    <2>1. c # cur
        BY <1>1, <1>2, <1>3, <1>7
    <2> QED
        BY <1>1, <1>2, <1>4, <1>7, <2>1 DEF LegacyComponentProof
<1> QED
    BY <1>5, <1>6, <1>7

(* Rows only lose what a deletion takes from them. *)
Shrinks ==
    /\ request' = request
    /\ \A p \in Proposals : plink'[p] \subseteq plink[p]
    /\ \A m \in Memories : mlink'[m] \subseteq mlink[m]
    /\ redacted \subseteq redacted' /\ fragment' \subseteq fragment /\ inline' \subseteq inline
    /\ \A s \in Sources : object[s] \in {"none", "deleted"} => object'[s] \in {"none", "deleted"}

(* Closed rows stay closed, open ones open. *)
SameOpen ==
    /\ \A s \in Sources : source'[s] = "active" <=> source[s] = "active"
    /\ \A m \in Memories : memory'[m] = "active" <=> memory[m] = "active"
    /\ \A p \in Proposals : proposal'[p] = "active" <=> proposal[p] = "active"

LEMMA TargetsSame == ASSUME request' = request
                     PROVE  Stored' = Stored /\ \A r : Targets(r)' = Targets(r)
    BY DEF Stored, Targets

LEMMA DoneKept ==
    ASSUME TypeOK, Shrinks, NEW q \in Stored, NEW n, Done(q, n)
    PROVE  Done(q, n)'
<1>1. Targets(q)' = Targets(q)
    BY TargetsSame DEF Shrinks
<1>2. /\ Targets(q).sources \subseteq Sources /\ Targets(q).proposals \subseteq Proposals
      /\ Targets(q).memories \subseteq Memories
    BY RequestTyped
<1>3. n > 1 => \A p \in Targets(q).proposals : plink'[p] = {} /\ p \in redacted'
    BY <1>2 DEF Done, Shrinks
<1>4. n > 2 => \A m \in Targets(q).memories : mlink'[m] = {}
    BY <1>2 DEF Done, Shrinks
<1>5. n > 3 => \A s \in Targets(q).sources : s \notin fragment'
    BY <1>2 DEF Done, Shrinks
<1>6. n > 4 => \A s \in Targets(q).sources : s \notin inline' /\ object'[s] \in {"none", "deleted"}
    BY <1>2 DEF Done, Shrinks
<1> QED
    BY <1>1, <1>3, <1>4, <1>5, <1>6 DEF Done

(* The executors of the other requests do not notice the step. *)
LEMMA UnderwayKept ==
    ASSUME TypeOK, Shrinks, NEW q \in Requests, Underway(q),
           run'[q] = run[q], attempts'[q] = attempts[q]
    PROVE  Underway(q)'
<1>1. Stored' = Stored
    BY TargetsSame DEF Shrinks
<1>2. run[q].pc = "run" /\ ~run[q].failed => Done(q, run[q].next)'
    <2> SUFFICES ASSUME run[q].pc = "run", ~run[q].failed PROVE Done(q, run[q].next)'
        OBVIOUS
    <2>1. PICK n : n = run[q].next
        OBVIOUS
    <2>2. q \in Stored /\ Done(q, n)
        BY <2>1 DEF Underway
    <2>3. Done(q, n)'
        BY <2>2, DoneKept
    <2> QED
        BY <2>1, <2>3
<1> QED
    BY <1>1, <1>2 DEF Underway

LEMMA ClosuresKept ==
    ASSUME TypeOK, Closures, Shrinks, SameOpen,
           \A m \in Memories : memory[m] = "active" =>
              mlink'[m] = mlink[m] /\ plink'[Origin[m]] = plink[Origin[m]]
    PROVE  Closures'
<1>1. Stored' = Stored /\ \A r : Targets(r)' = Targets(r)
    BY TargetsSame DEF Shrinks
<1>2. \A r \in Stored : /\ Targets(r).sources \subseteq Sources /\ Targets(r).proposals \subseteq Proposals
                        /\ Targets(r).memories \subseteq Memories
    BY RequestTyped
<1>3. TargetsClosed'
    BY <1>1, <1>2 DEF Closures, TargetsClosed, SameOpen
<1>4. ClosedTargeted'
    BY <1>1 DEF Closures, ClosedTargeted, SameOpen
<1>5. Apart'
    BY <1>1 DEF Closures, Apart
<1>6. Paired'
    <2>1. \A m \in Memories : Origin[m] \in Proposals
        BY LegacyAssumption
    <2> QED
        BY <2>1 DEF Closures, Paired, SameOpen
<1>7. ASSUME NEW r \in Stored PROVE Reached(r)'
    <2>1. Reached(r)
        BY DEF Closures
    <2>2. \A s : (\A m \in Memories : s \in mlink'[m] => s \in mlink[m])
                 /\ (\A p \in Proposals : s \in plink'[p] => s \in plink[p])
        BY DEF Shrinks
    <2> QED
        BY <1>1, <2>1, <2>2 DEF Reached
<1> QED
    BY <1>1, <1>3, <1>4, <1>5, <1>6, <1>7 DEF Closures

(* A step that takes nothing from the rows. *)
LEMMA RemainsKept ==
    ASSUME TypeOK, Remains, ProofsGrow,
           UNCHANGED <<request, fragment, inline, plink, redacted, object, plan, receipt, vault>>,
           \A s \in Sources : source'[s] = "active" => source[s] = "active",
           ~vault => \A r \in Requests : \A k \in 1..Len(attempts'[r]) : attempts'[r][k].legacy
    PROVE  Remains'
<1>1. Stored' = Stored /\ \A r : Targets(r)' = Targets(r)
    BY TargetsSame
<1>2. ASSUME NEW r \in Stored PROVE Explained(r)'
    <2>1. Explained(r) /\ r \in Requests
        BY RequestTyped DEF Remains
    <2>2. \A c \in {"SourceFragment", "SourceBody", "MemoryProposal"} :
             LegacyComponentProof(r, c) # {} => LegacyComponentProof(r, c)' # {}
        BY <2>1, ComponentFacts DEF ProofsGrow
    <2>3. \A s : BodyMissing(s)' <=> BodyMissing(s)
        BY DEF BodyMissing
    <2> QED
        BY <1>1, <2>1, <2>2, <2>3 DEF Explained
<1>3. Untouched'
    BY DEF Remains, Untouched
<1>4. Phases'
    BY DEF Remains, Phases
<1>5. Retiring'
    BY <1>1 DEF Remains, Retiring
<1> QED
    BY <1>1, <1>2, <1>3, <1>4, <1>5 DEF Remains

LEMMA ReceiptTyped ==
    TypeOK => \A s \in Sources : receipt[s] # NoReceipt => receipt[s][1] \in Requests /\ receipt[s][2] \in Nat
    BY DEF TypeOK

LEMMA InventoryKept ==
    ASSUME TypeOK, InventoryVerifies, ProofsGrow, UNCHANGED <<request, object, plan, receipt>>,
           inline' \subseteq inline,
           \A s \in Sources : Closed(source[s]) => Closed(source'[s])
    PROVE  InventoryVerifies'
<1>1. \A r : Targets(r)' = Targets(r)
    BY TargetsSame
<1>2. ASSUME NEW s \in Sources, receipt[s] # NoReceipt
      PROVE  VerifyRecordedBodyAbsence(receipt[s][1], s)'
    <2>1. PICK r : r = receipt[s][1]
        OBVIOUS
    <2>2. r \in Requests /\ VerifyRecordedBodyAbsence(r, s)
        BY <1>2, <2>1, ReceiptTyped DEF InventoryVerifies
    <2>3. LegacyComponentProof(r, "SourceBody") \subseteq LegacyComponentProof(r, "SourceBody")'
        BY <2>2, ComponentFacts DEF ProofsGrow
    <2>4. VerifyRecordedBodyAbsence(r, s)'
        BY <1>1, <2>2, <2>3 DEF VerifyRecordedBodyAbsence
    <2> QED
        BY <2>1, <2>4
<1>3. \A r \in plan : \A s \in Targets(r).sources :
         object[s] \in {"deleting", "deleted"} \/ receipt[s] # NoReceipt
    BY DEF InventoryVerifies
<1>4. \A s \in Sources : object[s] \in {"deleting", "deleted"} => Closed(source'[s])
    BY DEF InventoryVerifies
<1> QED
    BY <1>1, <1>2, <1>3, <1>4 DEF InventoryVerifies, Closed

LEMMA GoneKept ==
    ASSUME DeletedMeansGone, Shrinks,
           \A s \in Sources : source'[s] = "deleted" => source[s] = "deleted",
           \A m \in Memories : memory'[m] = "deleted" => memory[m] = "deleted",
           \A p \in Proposals : proposal'[p] = "deleted" => proposal[p] = "deleted"
    PROVE  DeletedMeansGone'
<1>1. \A s \in Sources : source'[s] = "deleted" =>
         s \notin inline' /\ s \notin fragment' /\ object'[s] \in {"none", "deleted"}
    BY DEF DeletedMeansGone, Shrinks
<1>2. \A m \in Memories : memory'[m] = "deleted" => mlink'[m] = {}
    BY DEF DeletedMeansGone, Shrinks
<1>3. \A p \in Proposals : proposal'[p] = "deleted" => plink'[p] = {} /\ p \in redacted'
    BY DEF DeletedMeansGone, Shrinks
<1> QED
    BY <1>1, <1>2, <1>3 DEF DeletedMeansGone

-----------------------------------------------------------------------------
(* The steps of an executor that leave the rows alone *)

(* A step after which rows, objects and plans are what they were. *)
LEMMA RowsAsTheyWere ==
    ASSUME Inv, UNCHANGED <<rows, object, request, plan, receipt, vault>>, ProofsGrow,
           ~vault => \A r \in Requests : \A k \in 1..Len(attempts'[r]) : attempts'[r][k].legacy
    PROVE  /\ Closures' /\ Remains' /\ InventoryVerifies' /\ DeletedMeansGone'
           /\ Shrinks
<1>1. Shrinks /\ SameOpen
    BY DEF Shrinks, SameOpen, rows
<1>2. Closures'
    BY <1>1, ClosuresKept DEF Inv, rows
<1>3. Remains'
    BY RemainsKept DEF Inv, rows
<1>4. InventoryVerifies'
    BY InventoryKept DEF Inv, rows
<1>5. DeletedMeansGone'
    BY <1>1, GoneKept DEF Inv, rows
<1> QED
    BY <1>1, <1>2, <1>3, <1>4, <1>5

(* The legacy mark of the attempts in the plain library. *)
LEMMA LegacyBegun ==
    ASSUME TypeOK, Phases, NEW r \in Requests, BeginAttempt(r), ~vault
    PROVE  \A q \in Requests : \A k \in 1..Len(attempts'[q]) : attempts'[q][k].legacy
<1> SUFFICES ASSUME NEW q \in Requests, NEW k \in 1..Len(attempts'[q]) PROVE attempts'[q][k].legacy
    OBVIOUS
<1>1. \A p \in Requests : \A j \in 1..Len(attempts[p]) : attempts[p][j].legacy
    BY DEF Phases
<1>2. CASE q # r
    BY <1>1, <1>2, AttemptBegun
<1>3. CASE q = r
    <2>1. Len(attempts[r]) \in Nat /\ Len(attempts'[r]) = Len(attempts[r]) + 1
        BY AttemptBegun, RunTyped
    <2>2. k \in 1..Len(attempts[r]) \/ k = Len(attempts[r]) + 1
        BY <1>3, <2>1
    <2>3. CASE k \in 1..Len(attempts[r])
        BY <1>1, <1>3, <2>3, AttemptBegun
    <2>4. CASE k = Len(attempts[r]) + 1
        BY <1>3, <2>4, AttemptBegun
    <2> QED
        BY <2>2, <2>3, <2>4
<1> QED
    BY <1>2, <1>3

LEMMA LegacyRecorded ==
    ASSUME TypeOK, Phases, NEW r \in Requests, NEW status \in {"succeeded", "failed"}, Record(r, status),
           Len(attempts[r]) >= 1, run[r].next \in 1..6, ~vault
    PROVE  \A q \in Requests : \A k \in 1..Len(attempts'[q]) : attempts'[q][k].legacy
<1>1. \A p \in Requests : \A j \in 1..Len(attempts[p]) : attempts[p][j].legacy
    BY DEF Phases
<1>2. PICK n : n = Len(attempts[r])
    OBVIOUS
<1>3. PICK cur : cur = Current(r)
    OBVIOUS
<1>4. /\ \A p \in Requests \ {r} : attempts'[p] = attempts[p]
      /\ Len(attempts'[r]) = n
      /\ \A j \in 1..n : attempts'[r][j].legacy = attempts[r][j].legacy
    BY <1>2, <1>3, ResultRecorded
<1> QED
    BY <1>1, <1>2, <1>4

LEMMA AttemptBegins ==
    ASSUME Inv, NEW r \in Requests, r \in Stored, BeginAttempt(r),
           UNCHANGED <<rows, object, request, evidence, plan, receipt, vault, faults>>
    PROVE  Inv'
<1> USE DEF Inv
<1>1. ProofsGrow
    BY ProofsGrowBegin
<1>2. Closures' /\ Remains' /\ InventoryVerifies' /\ DeletedMeansGone' /\ Shrinks
    BY <1>1, RowsAsTheyWere, LegacyBegun DEF Remains
<1>3. TypeOK'
    <2>1. attempts' \in [Requests -> Seq(Attempt)]
        BY AttemptBegun
    <2>2. run' \in [Requests -> [pc : {"idle", "retire", "run", "store"},
                                 next : 1..(Len(Order) + 1), failed : BOOLEAN]]
        BY OrderFacts DEF TypeOK, BeginAttempt
    <2> QED
        BY <2>1, <2>2 DEF TypeOK, rows
<1>4. ASSUME NEW q \in Requests PROVE Underway(q)'
    <2>1. CASE q # r
        <3>1. run'[q] = run[q] /\ attempts'[q] = attempts[q]
            BY <2>1, AttemptBegun DEF BeginAttempt, TypeOK
        <3> QED
            BY <1>2, <3>1, UnderwayKept
    <2>2. CASE q = r
        <3>1. run'[r].pc = "run" /\ run'[r].next = 1
            BY DEF BeginAttempt, TypeOK
        <3>2. Len(attempts'[r]) = Len(attempts[r]) + 1 /\ Len(attempts[r]) \in Nat
            BY AttemptBegun, RunTyped
        <3>3. \A i \in 1..6 : attempts'[r][Len(attempts'[r])].result[Order[i]] = "none"
            <4>1. \A c \in ComponentTypes : attempts'[r][Len(attempts[r]) + 1].result[c] = "none"
                BY AttemptBegun
            <4> QED
                BY <3>2, <4>1, ComponentFacts
        <3>4. Stored' = Stored
            BY TargetsSame
        <3>5. Done(r, run[r].next)'
            BY <3>1 DEF Done
        <3> QED
            <4>1. \A i \in run'[r].next..Len(Order) : attempts'[r][Len(attempts'[r])].result[Order[i]] = "none"
                BY <3>1, <3>3, OrderFacts
            <4>2. Len(attempts'[r]) >= 1
                BY <3>2
            <4> QED
                BY <2>2, <3>4, <3>5, <4>1, <4>2 DEF Underway
    <2> QED
        BY <2>1, <2>2
<1> QED
    BY <1>2, <1>3, <1>4

(* A step that moves only an executor, out of its components. *)
LEMMA ExecutorMoves ==
    ASSUME Inv, NEW r \in Requests, NEW e, run' = [run EXCEPT ![r] = e],
           e \in [pc : {"idle", "store"}, next : 1..7, failed : BOOLEAN],
           e.pc = "idle" \/ r \in Stored,
           UNCHANGED <<rows, object, request, attempts, plan, receipt, vault>>,
           evidence' \in SUBSET Requests, faults' \in [failed : 0..MaxFailed, crashes : 0..MaxCrashes]
    PROVE  Inv'
<1> USE DEF Inv
<1>1. Closures' /\ Remains' /\ InventoryVerifies' /\ DeletedMeansGone' /\ Shrinks
    <2>1. ~vault => \A q \in Requests : \A k \in 1..Len(attempts'[q]) : attempts'[q][k].legacy
        BY DEF Remains, Phases
    <2> QED
        BY <2>1, ProofsSame, RowsAsTheyWere
<1>2. TypeOK'
    BY OrderFacts DEF TypeOK, rows
<1>3. ASSUME NEW q \in Requests PROVE Underway(q)'
    <2>1. CASE q # r
        <3>1. run'[q] = run[q] /\ attempts'[q] = attempts[q]
            BY <2>1 DEF TypeOK
        <3> QED
            BY <1>1, <3>1, UnderwayKept
    <2>2. CASE q = r
        <3>1. run'[r] = e /\ Stored' = Stored
            BY TargetsSame DEF TypeOK
        <3> QED
            BY <2>2, <3>1 DEF Underway
    <2> QED
        BY <2>1, <2>2
<1> QED
    BY <1>1, <1>2, <1>3

LEMMA ExecutorSteps ==
    ASSUME Inv, NEW r \in Requests,
           \/ ExecuteDeletion(r) \/ ExecuteObjectDeletion(r) \/ EndAttempt(r) \/ StoreEvidence(r)
           \/ Crash(r)
    PROVE  Inv'
<1>1. TypeOK /\ Underway(r) /\ MaxFailed \in Nat /\ MaxCrashes \in Nat
    BY LegacyAssumption DEF Inv
<1>2. run[r].pc # "idle" => r \in Stored
    BY <1>1 DEF Underway
<1>3. CASE ExecuteDeletion(r)
    BY <1>3, AttemptBegins DEF ExecuteDeletion
<1>4. CASE ExecuteObjectDeletion(r)
    BY <1>2, <1>4, AttemptBegins DEF ExecuteObjectDeletion
<1>5. CASE EndAttempt(r)
    <2>1. PICK e : e = [run[r] EXCEPT !.pc = "store"]
        OBVIOUS
    <2>2. e \in [pc : {"idle", "store"}, next : 1..7, failed : BOOLEAN]
        <3>1. run[r] \in [pc : {"idle", "retire", "run", "store"}, next : 1..7, failed : BOOLEAN]
            BY <1>1, OrderFacts DEF TypeOK
        <3> QED
            BY <2>1, <3>1
    <2>3. run' = [run EXCEPT ![r] = e]
        BY <1>5, <2>1 DEF EndAttempt
    <2>4. /\ UNCHANGED <<rows, object, request, attempts, plan, receipt, vault>>
          /\ evidence' = evidence /\ faults' = faults /\ r \in Stored
        BY <1>2, <1>5 DEF EndAttempt
    <2>5. evidence' \in SUBSET Requests /\ faults' \in [failed : 0..MaxFailed, crashes : 0..MaxCrashes]
        BY <1>1, <2>4 DEF TypeOK
    <2> QED
        BY <2>2, <2>3, <2>4, <2>5, ExecutorMoves
<1>6. Idle \in [pc : {"idle", "store"}, next : 1..7, failed : BOOLEAN] /\ Idle.pc = "idle"
    BY DEF Idle
<1>7. CASE StoreEvidence(r)
    <2>1. /\ UNCHANGED <<rows, object, request, attempts, plan, receipt, vault>> /\ faults' = faults
          /\ run' = [run EXCEPT ![r] = Idle]
        BY <1>7 DEF StoreEvidence
    <2>2. evidence' \in SUBSET Requests /\ faults' \in [failed : 0..MaxFailed, crashes : 0..MaxCrashes]
        BY <1>1, <1>7, <2>1 DEF TypeOK, StoreEvidence
    <2> QED
        BY <1>6, <2>1, <2>2, ExecutorMoves
<1>8. CASE Crash(r)
    <2>1. /\ UNCHANGED <<rows, object, request, attempts, plan, receipt, vault>> /\ evidence' = evidence
          /\ run' = [run EXCEPT ![r] = Idle]
        BY <1>8 DEF Crash
    <2>2. evidence' \in SUBSET Requests /\ faults' \in [failed : 0..MaxFailed, crashes : 0..MaxCrashes]
        <3>1. faults \in [failed : 0..MaxFailed, crashes : 0..MaxCrashes] /\ evidence \in SUBSET Requests
            BY <1>1 DEF TypeOK
        <3>2. faults' = [faults EXCEPT !.crashes = faults.crashes + 1] /\ faults.crashes < MaxCrashes
            BY <1>8 DEF Crash
        <3>3. faults.crashes + 1 \in 0..MaxCrashes
            BY <1>1, <3>1, <3>2
        <3> QED
            BY <2>1, <3>1, <3>2, <3>3
    <2> QED
        BY <1>6, <2>1, <2>2, ExecutorMoves
<1> QED
    BY <1>3, <1>4, <1>5, <1>7, <1>8

-----------------------------------------------------------------------------
(* The components of an attempt *)

(* What recording a result does to the executors. *)
LEMMA RecordMoves ==
    ASSUME TypeOK, NEW r \in Requests, Underway(r), run[r].pc = "run", run[r].next \in 1..6,
           NEW status \in {"succeeded", "failed"}, Record(r, status)
    PROVE  /\ run' \in [Requests -> [pc : {"idle", "retire", "run", "store"},
                                     next : 1..(Len(Order) + 1), failed : BOOLEAN]]
           /\ attempts' \in [Requests -> Seq(Attempt)]
           /\ \A q \in Requests \ {r} : run'[q] = run[q] /\ attempts'[q] = attempts[q]
           /\ run'[r].pc = "run" /\ run'[r].next = run[r].next + 1
           /\ run'[r].failed <=> (run[r].failed \/ status = "failed")
           /\ Len(attempts[r]) >= 1
           /\ attempts[r][Len(attempts[r])].result[Current(r)] = "none"
           /\ ProofsGrow
           /\ r \in Stored
<1>1. /\ Len(attempts[r]) >= 1 /\ r \in Stored
      /\ attempts[r][Len(attempts[r])].result[Current(r)] = "none"
    BY OrderFacts DEF Underway, Current
<1>2. ProofsGrow
    BY <1>1, ProofsGrowRecord
<1>3. /\ attempts' \in [Requests -> Seq(Attempt)]
      /\ \A q \in Requests \ {r} : attempts'[q] = attempts[q]
    BY <1>1, ResultRecorded
<1>4. PICK e : e = [run[r] EXCEPT !.next = run[r].next + 1,
                                  !.failed = run[r].failed \/ status = "failed"]
    OBVIOUS
<1>5. run' = [run EXCEPT ![r] = e]
    BY <1>4 DEF Record, TypeOK
<1>6. run[r] \in [pc : {"idle", "retire", "run", "store"}, next : 1..7, failed : BOOLEAN]
    BY OrderFacts DEF TypeOK
<1>7. /\ e \in [pc : {"idle", "retire", "run", "store"}, next : 1..7, failed : BOOLEAN]
      /\ e.pc = "run" /\ e.next = run[r].next + 1
      /\ e.failed <=> (run[r].failed \/ status = "failed")
    <2>1. PICK b : b = (run[r].failed \/ status = "failed")
        OBVIOUS
    <2>2. PICK k : k = run[r].next + 1
        OBVIOUS
    <2>3. b \in BOOLEAN /\ k \in 1..7
        BY <2>1, <2>2
    <2>4. e = [run[r] EXCEPT !.next = k, !.failed = b]
        BY <1>4, <2>1, <2>2
    <2>5. PICK f : f = run[r]
        OBVIOUS
    <2>6. e = [f EXCEPT !.next = k, !.failed = b] /\ f.pc = "run"
          /\ f \in [pc : {"idle", "retire", "run", "store"}, next : 1..7, failed : BOOLEAN]
        BY <1>6, <2>4, <2>5
    <2>7. /\ e \in [pc : {"idle", "retire", "run", "store"}, next : 1..7, failed : BOOLEAN]
          /\ e.pc = "run" /\ e.next = k /\ e.failed = b
        BY <2>3, <2>6
    <2> QED
        BY <2>1, <2>2, <2>7
<1>8. run \in [Requests -> [pc : {"idle", "retire", "run", "store"}, next : 1..7, failed : BOOLEAN]]
    BY OrderFacts DEF TypeOK
<1>9. run' \in [Requests -> [pc : {"idle", "retire", "run", "store"},
                             next : 1..(Len(Order) + 1), failed : BOOLEAN]]
    BY <1>5, <1>7, <1>8, OrderFacts
<1>10. run'[r] = e /\ \A q \in Requests \ {r} : run'[q] = run[q]
    BY <1>5, <1>8
<1> QED
    BY <1>1, <1>2, <1>3, <1>7, <1>9, <1>10

(* The attempt goes on after its result. *)
LEMMA RecordUnderway ==
    ASSUME TypeOK, \A q \in Requests : Underway(q), NEW r \in Requests, run[r].pc = "run",
           run[r].next \in 1..6, NEW status \in {"succeeded", "failed"}, Record(r, status), Shrinks,
           NEW k, k = run[r].next + 1, ~run[r].failed /\ status = "succeeded" => Done(r, k)'
    PROVE  \A q \in Requests : Underway(q)'
<1> SUFFICES ASSUME NEW q \in Requests PROVE Underway(q)'
    OBVIOUS
<1>0. Underway(r) /\ Underway(q)
    OBVIOUS
<1>1. /\ \A p \in Requests \ {r} : run'[p] = run[p] /\ attempts'[p] = attempts[p]
      /\ run'[r].pc = "run" /\ run'[r].next = run[r].next + 1
      /\ run'[r].failed <=> (run[r].failed \/ status = "failed")
      /\ Len(attempts[r]) >= 1 /\ r \in Stored
    BY <1>0, RecordMoves
<1>2. CASE q # r
    BY <1>0, <1>1, <1>2, UnderwayKept
<1>3. CASE q = r
    <2>1. Stored' = Stored
        BY TargetsSame DEF Shrinks
    <2>2. PICK n : n = Len(attempts[r])
        OBVIOUS
    <2>3. PICK cur : cur = Current(r)
        OBVIOUS
    <2>4. /\ Len(attempts'[r]) = n
          /\ \A c \in ComponentTypes :
                attempts'[r][n].result[c] = IF c = cur THEN status ELSE attempts[r][n].result[c]
        BY <1>1, <2>2, <2>3, ResultRecorded
    <2>5. ASSUME NEW i \in run'[r].next..Len(Order)
          PROVE  attempts'[r][n].result[Order[i]] = "none"
        <3>1. i \in 1..6 /\ i \in run[r].next..Len(Order) /\ i # run[r].next
            BY <1>1, OrderFacts
        <3>2. Order[i] \in ComponentTypes /\ Order[i] # cur
            BY <2>3, <3>1, ComponentFacts DEF Current
        <3>3. attempts[r][n].result[Order[i]] = "none"
            BY <1>0, <2>2, <3>1 DEF Underway
        <3> QED
            BY <2>4, <3>2, <3>3
    <2>6. ~run'[r].failed => Done(r, run[r].next)'
        <3>1. SUFFICES ASSUME ~run'[r].failed PROVE Done(r, run[r].next)'
            OBVIOUS
        <3>2. Done(r, k)' /\ run'[r].next = k
            BY <1>1, <3>1
        <3> QED
            BY <3>2 DEF Done
    <2> QED
        BY <1>1, <1>3, <2>1, <2>2, <2>4, <2>5, <2>6 DEF Underway
<1> QED
    BY <1>2, <1>3

LEMMA FailureIsKept ==
    ASSUME Inv, NEW r \in Requests, ComponentFails(r)
    PROVE  Inv'
<1> USE DEF Inv
<1>1. /\ run[r].pc = "run" /\ run[r].next \in 1..6 /\ Record(r, "failed") /\ Underway(r)
      /\ UNCHANGED <<rows, object, request, evidence, plan, receipt, vault>>
    BY RunTyped, OrderFacts DEF ComponentFails
<1>2. /\ run' \in [Requests -> [pc : {"idle", "retire", "run", "store"},
                                next : 1..(Len(Order) + 1), failed : BOOLEAN]]
      /\ attempts' \in [Requests -> Seq(Attempt)]
      /\ Len(attempts[r]) >= 1 /\ ProofsGrow
    BY <1>1, RecordMoves
<1>3. Closures' /\ Remains' /\ InventoryVerifies' /\ DeletedMeansGone' /\ Shrinks
    <2>1. ~vault => \A q \in Requests : \A k \in 1..Len(attempts'[q]) : attempts'[q][k].legacy
        BY <1>1, <1>2, LegacyRecorded DEF Remains
    <2> QED
        BY <1>1, <1>2, <2>1, RowsAsTheyWere
<1>4. faults' \in [failed : 0..MaxFailed, crashes : 0..MaxCrashes]
    <2>1. faults \in [failed : 0..MaxFailed, crashes : 0..MaxCrashes] /\ MaxFailed \in Nat
        BY LegacyAssumption DEF TypeOK
    <2>2. CASE faults' = faults
        BY <2>1, <2>2
    <2>3. CASE faults.failed < MaxFailed /\ faults' = [faults EXCEPT !.failed = faults.failed + 1]
        <3>1. faults.failed + 1 \in 0..MaxFailed
            BY <2>1, <2>3
        <3> QED
            BY <2>1, <2>3, <3>1
    <2> QED
        BY <2>2, <2>3 DEF ComponentFails
<1>5. TypeOK'
    BY <1>1, <1>2, <1>4 DEF TypeOK, rows
<1>6. \A q \in Requests : Underway(q)'
    BY <1>1, <1>3, RecordUnderway
<1> QED
    BY <1>3, <1>5, <1>6

(* The audit says deleted only after every component succeeded. *)
LEMMA AuditIsKept ==
    ASSUME Inv, NEW r \in Requests, MinimalAudit(r)
    PROVE  Inv'
<1> USE DEF Inv
<1>1. /\ run[r].pc = "run" /\ run[r].next = 6 /\ Record(r, "succeeded") /\ Underway(r)
      /\ UNCHANGED <<inline, fragment, plink, mlink, redacted, object, request, evidence,
                     plan, receipt, vault, faults>>
    BY OrderFacts DEF MinimalAudit
<1>2. /\ run' \in [Requests -> [pc : {"idle", "retire", "run", "store"},
                                next : 1..(Len(Order) + 1), failed : BOOLEAN]]
      /\ attempts' \in [Requests -> Seq(Attempt)]
      /\ Len(attempts[r]) >= 1 /\ ProofsGrow /\ r \in Stored
    BY <1>1, RecordMoves
<1>3. /\ source' = [s \in Sources |-> IF s \in Targets(r).sources THEN FinalState(r) ELSE source[s]]
      /\ proposal' = [p \in Proposals |->
                        IF p \in Targets(r).proposals THEN FinalState(r) ELSE proposal[p]]
      /\ memory' = [m \in Memories |->
                      IF m \in Targets(r).memories THEN FinalState(r) ELSE memory[m]]
    BY DEF MinimalAudit
<1>4. FinalState(r) \in {"failed", "deleted"} /\ (FinalState(r) = "deleted" => ~run[r].failed)
    BY DEF FinalState
<1>5. TypeOK'
    <2>1. /\ source' \in [Sources -> RowStates] /\ proposal' \in [Proposals -> RowStates]
          /\ memory' \in [Memories -> RowStates]
        BY <1>3, <1>4 DEF TypeOK, RowStates
    <2> QED
        BY <1>1, <1>2, <2>1 DEF TypeOK
<1>6. Shrinks
    BY <1>1 DEF Shrinks
<1>7. SameOpen
    <2>1. /\ \A s \in Targets(r).sources : source[s] # "active"
          /\ \A m \in Targets(r).memories : memory[m] # "active"
          /\ \A p \in Targets(r).proposals : proposal[p] # "active"
        BY <1>2 DEF Closures, TargetsClosed
    <2> QED
        BY <1>3, <1>4, <2>1 DEF SameOpen
<1>8. Closures'
    BY <1>1, <1>6, <1>7, ClosuresKept
<1>9. Remains'
    <2>1. ~vault => \A q \in Requests : \A k \in 1..Len(attempts'[q]) : attempts'[q][k].legacy
        BY <1>1, <1>2, LegacyRecorded DEF Remains
    <2>2. \A s \in Sources : source'[s] = "active" => source[s] = "active"
        BY <1>7 DEF SameOpen
    <2> QED
        BY <1>1, <1>2, <2>1, <2>2, RemainsKept
<1>10. InventoryVerifies'
    <2>1. \A s \in Sources : Closed(source[s]) => Closed(source'[s])
        BY <1>3, <1>4 DEF Closed
    <2> QED
        BY <1>1, <1>2, <2>1, InventoryKept
<1>11. ~run[r].failed => Done(r, 6)
    BY <1>1 DEF Underway
<1>12. DeletedMeansGone'
    <2>1. ASSUME NEW s \in Sources, source'[s] = "deleted"
          PROVE  s \notin inline /\ s \notin fragment /\ object[s] \in {"none", "deleted"}
        <3>1. source[s] = "deleted" \/ (s \in Targets(r).sources /\ ~run[r].failed)
            BY <1>3, <1>4, <2>1
        <3> QED
            BY <1>11, <3>1 DEF DeletedMeansGone, Done
    <2>2. ASSUME NEW m \in Memories, memory'[m] = "deleted" PROVE mlink[m] = {}
        <3>1. memory[m] = "deleted" \/ (m \in Targets(r).memories /\ ~run[r].failed)
            BY <1>3, <1>4, <2>2
        <3> QED
            BY <1>11, <3>1 DEF DeletedMeansGone, Done
    <2>3. ASSUME NEW p \in Proposals, proposal'[p] = "deleted" PROVE plink[p] = {} /\ p \in redacted
        <3>1. proposal[p] = "deleted" \/ (p \in Targets(r).proposals /\ ~run[r].failed)
            BY <1>3, <1>4, <2>3
        <3> QED
            BY <1>11, <3>1 DEF DeletedMeansGone, Done
    <2> QED
        BY <1>1, <2>1, <2>2, <2>3 DEF DeletedMeansGone
<1>13. \A q \in Requests : Underway(q)'
    <2>1. PICK k : k = 7
        OBVIOUS
    <2>2. k = run[r].next + 1
        BY <1>1, <2>1
    <2>3. ~run[r].failed => Done(r, 7)
        BY <1>11 DEF Done
    <2>4. ~run[r].failed => Done(r, k)'
        BY <1>2, <1>6, <2>1, <2>3, DoneKept
    <2>5. run[r].next \in 1..6
        BY <1>1
    <2> QED
        BY <1>1, <1>6, <2>2, <2>4, <2>5, RecordUnderway
<1> QED
    BY <1>5, <1>8, <1>9, <1>10, <1>12, <1>13

(* A component that succeeded has a result that explains what it removed. *)
LEMMA ResultExplains ==
    ASSUME TypeOK, NEW r \in Requests, Record(r, "succeeded"), Len(attempts[r]) >= 1,
           run[r].next \in 1..6,
           NEW c \in ComponentTypes, c = Current(r),
           c = "SourceBody" => attempts[r][Len(attempts[r])].legacy
    PROVE  LegacyComponentProof(r, c)' # {}
<1>1. PICK n : n = Len(attempts[r])
    OBVIOUS
<1>2. n \in Nat /\ n \in 1..n
    BY <1>1, RunTyped
<1>3. /\ Len(attempts'[r]) = n
      /\ \A k \in 1..n : attempts'[r][k].legacy = attempts[r][k].legacy
      /\ \A d \in ComponentTypes :
            attempts'[r][n].result[d] = IF d = c THEN "succeeded" ELSE attempts[r][n].result[d]
    BY <1>1, ResultRecorded
<1>4. n \in LegacyComponentProof(r, c)'
    BY <1>1, <1>2, <1>3 DEF LegacyComponentProof
<1> QED
    BY <1>4

(* What a component does to the rows: only those of its request lose        *)
(* anything, and each component something of its own.                       *)
ComponentEffect(r) ==
    /\ \A p \in Proposals : plink'[p] = IF Current(r) = "MemoryProposal" /\ p \in Targets(r).proposals
                                        THEN {} ELSE plink[p]
    /\ \A m \in Memories : mlink'[m] = IF Current(r) = "MemoryRecord" /\ m \in Targets(r).memories
                                       THEN {} ELSE mlink[m]
    /\ redacted' = IF Current(r) = "MemoryProposal" THEN redacted \cup Targets(r).proposals ELSE redacted
    /\ fragment' = IF Current(r) = "SourceFragment" THEN fragment \ Targets(r).sources ELSE fragment
    /\ inline' = IF Current(r) = "SourceBody" THEN inline \ Targets(r).sources ELSE inline

LEMMA ComponentIsItsEffect ==
    ASSUME TypeOK, NEW r \in Stored, ComponentAction(r)
    PROVE  /\ ComponentEffect(r)
           /\ plink' \in [Proposals -> SUBSET Sources] /\ mlink' \in [Memories -> SUBSET Sources]
           /\ redacted' \in SUBSET Proposals /\ fragment' \in SUBSET Sources /\ inline' \in SUBSET Sources
<1>1. /\ Targets(r).sources \subseteq Sources /\ Targets(r).proposals \subseteq Proposals
      /\ Targets(r).memories \subseteq Memories
    BY RequestTyped
<1>2. /\ plink \in [Proposals -> SUBSET Sources] /\ mlink \in [Memories -> SUBSET Sources]
      /\ redacted \in SUBSET Proposals /\ fragment \in SUBSET Sources /\ inline \in SUBSET Sources
    BY DEF TypeOK
<1>3. CASE RedactMemoryProposals(r)
    BY <1>1, <1>2, <1>3 DEF RedactMemoryProposals, ComponentEffect
<1>4. CASE RedactMemoryRecords(r)
    BY <1>1, <1>2, <1>4 DEF RedactMemoryRecords, ComponentEffect
<1>5. CASE DeleteSourceFragments(r)
    BY <1>1, <1>2, <1>5 DEF DeleteSourceFragments, ComponentEffect
<1>6. CASE DeleteSourceBodies(r)
    BY <1>1, <1>2, <1>6 DEF DeleteSourceBodies, ComponentEffect
<1>7. CASE RetainMinimal(r)
    BY <1>1, <1>2, <1>7 DEF RetainMinimal, ComponentEffect
<1> QED
    BY <1>3, <1>4, <1>5, <1>6, <1>7 DEF ComponentAction

(* The other requests keep their rows as they were. *)
LEMMA OthersExplained ==
    ASSUME TypeOK, Apart, ProofsGrow, NEW r \in Stored, NEW q \in Stored, q # r, Explained(q),
           ComponentEffect(r), UNCHANGED <<object, request, vault>>
    PROVE  Explained(q)'
<1>1. Targets(q)' = Targets(q) /\ q \in Requests
    BY TargetsSame, RequestTyped
<1>2. /\ Targets(q).sources \cap Targets(r).sources = {}
      /\ Targets(q).proposals \cap Targets(r).proposals = {}
      /\ Targets(q).proposals \subseteq Proposals
    BY RequestTyped DEF Apart
<1>3. \A c \in {"SourceFragment", "SourceBody", "MemoryProposal"} :
         LegacyComponentProof(q, c) # {} => LegacyComponentProof(q, c)' # {}
    BY <1>1, ComponentFacts DEF ProofsGrow
<1>4. \A s \in Targets(q).sources : (s \in fragment' <=> s \in fragment) /\ (s \in inline' <=> s \in inline)
    BY <1>2 DEF ComponentEffect
<1>5. \A p \in Targets(q).proposals : plink'[p] = plink[p] /\ (p \in redacted => p \in redacted')
    BY <1>2 DEF ComponentEffect
<1>6. \A s \in Targets(q).sources : BodyMissing(s)' <=> BodyMissing(s)
    BY <1>4 DEF BodyMissing
<1> QED
    BY <1>1, <1>3, <1>4, <1>5, <1>6 DEF Explained

(* What a component takes from its own request, its result explains. *)
LEMMA OwnExplained ==
    ASSUME TypeOK, Phases, ProofsGrow, NEW r \in Stored, Explained(r), ComponentEffect(r),
           Record(r, "succeeded"), Len(attempts[r]) >= 1, run[r].next \in 1..6,
           UNCHANGED <<object, request, vault>>
    PROVE  Explained(r)'
<1>1. Targets(r)' = Targets(r) /\ r \in Requests /\ Targets(r).proposals \subseteq Proposals
    BY TargetsSame, RequestTyped
<1>2. \A c \in {"SourceFragment", "SourceBody", "MemoryProposal"} :
         LegacyComponentProof(r, c) # {} => LegacyComponentProof(r, c)' # {}
    BY <1>1, ComponentFacts DEF ProofsGrow
<1>3. \A c \in {"SourceFragment", "MemoryProposal"} :
         Current(r) = c => LegacyComponentProof(r, c)' # {}
    BY <1>1, ComponentFacts, ResultExplains
<1>4. Current(r) = "SourceBody" /\ ~vault => LegacyComponentProof(r, "SourceBody")' # {}
    <2> SUFFICES ASSUME Current(r) = "SourceBody", ~vault PROVE LegacyComponentProof(r, "SourceBody")' # {}
        OBVIOUS
    <2>1. attempts[r][Len(attempts[r])].legacy
        <3>1. Len(attempts[r]) \in 1..Len(attempts[r])
            BY <1>1, RunTyped
        <3> QED
            BY <1>1, <3>1 DEF Phases
    <2> QED
        BY <1>1, <2>1, ComponentFacts, ResultExplains
<1>5. ASSUME NEW s \in Targets(r).sources
      PROVE  /\ s \notin fragment' => LegacyComponentProof(r, "SourceFragment")' # {}
             /\ BodyMissing(s)' => LegacyComponentProof(r, "SourceBody")' # {}
    <2>1. s \notin fragment' => s \notin fragment \/ Current(r) = "SourceFragment"
        BY DEF ComponentEffect
    <2>2. BodyMissing(s)' => BodyMissing(s) \/ (Current(r) = "SourceBody" /\ ~vault)
        BY DEF ComponentEffect, BodyMissing
    <2> QED
        BY <1>2, <1>3, <1>4, <2>1, <2>2 DEF Explained
<1>6. ASSUME NEW p \in Targets(r).proposals
      PROVE  \/ p \in {Origin[m] : m \in Targets(r).memories}
             \/ plink'[p] \cap Targets(r).sources # {}
             \/ /\ LegacyComponentProof(r, "MemoryProposal")' # {}
                /\ p \in redacted' /\ plink'[p] = {}
    <2>1. CASE Current(r) = "MemoryProposal"
        BY <1>1, <1>3, <2>1 DEF ComponentEffect
    <2>2. CASE Current(r) # "MemoryProposal"
        <3>1. plink'[p] = plink[p] /\ redacted' = redacted
            BY <1>1, <2>2 DEF ComponentEffect
        <3> QED
            BY <1>2, <3>1 DEF Explained
    <2> QED
        BY <2>1, <2>2
<1> QED
    BY <1>1, <1>5, <1>6 DEF Explained

(* The next component finds the work of this one done. *)
LEMMA ComponentDone ==
    ASSUME TypeOK, Phases, NEW r \in Stored, ComponentEffect(r), ComponentPossible(r),
           UNCHANGED <<object, request, vault>>, NEW n \in 1..5, run[r].next = n, Done(r, n), Shrinks
    PROVE  Done(r, n + 1)'
<1>1. /\ Targets(r).sources \subseteq Sources /\ Targets(r).proposals \subseteq Proposals
      /\ Targets(r).memories \subseteq Memories /\ Targets(r)' = Targets(r)
    BY RequestTyped, TargetsSame
<1>2. Done(r, n)'
    BY DoneKept
<1>3. n = 1 => \A p \in Targets(r).proposals : plink'[p] = {} /\ p \in redacted'
    BY <1>1, OrderFacts DEF ComponentEffect, Current
<1>4. n = 2 => \A m \in Targets(r).memories : mlink'[m] = {}
    BY <1>1, OrderFacts DEF ComponentEffect, Current
<1>5. n = 3 => \A s \in Targets(r).sources : s \notin fragment'
    BY <1>1, OrderFacts DEF ComponentEffect, Current
<1>6. n = 4 => \A s \in Targets(r).sources : s \notin inline' /\ object'[s] \in {"none", "deleted"}
    <2> SUFFICES ASSUME n = 4, NEW s \in Targets(r).sources
                 PROVE  s \notin inline' /\ object'[s] \in {"none", "deleted"}
        OBVIOUS
    <2>1. Current(r) = "SourceBody" /\ s \notin inline'
        BY OrderFacts DEF ComponentEffect, Current
    <2>2. object[s] \in {"none", "deleted"}
        BY <1>1, <2>1 DEF ComponentPossible, BodyAbsent, VerifyRecordedBodyAbsence, Phases
    <2> QED
        BY <2>1, <2>2
<1>7. PICK k : k = n + 1
    OBVIOUS
<1>8. Done(r, k)'
    <2>1. k > 1 => \A p \in Targets(r).proposals : plink'[p] = {} /\ p \in redacted'
        BY <1>1, <1>2, <1>3, <1>7 DEF Done
    <2>2. k > 2 => \A m \in Targets(r).memories : mlink'[m] = {}
        BY <1>1, <1>2, <1>4, <1>7 DEF Done
    <2>3. k > 3 => \A s \in Targets(r).sources : s \notin fragment'
        BY <1>1, <1>2, <1>5, <1>7 DEF Done
    <2>4. k > 4 => \A s \in Targets(r).sources : s \notin inline' /\ object'[s] \in {"none", "deleted"}
        BY <1>1, <1>2, <1>6, <1>7 DEF Done
    <2> QED
        BY <1>1, <2>1, <2>2, <2>3, <2>4 DEF Done
<1> QED
    BY <1>7, <1>8

LEMMA SuccessIsKept ==
    ASSUME Inv, NEW r \in Requests, ComponentSucceeds(r)
    PROVE  Inv'
<1> USE DEF Inv
<1>1. /\ run[r].pc = "run" /\ run[r].next \in 1..5 /\ run[r].next \in 1..6 /\ Record(r, "succeeded")
      /\ Underway(r) /\ ComponentPossible(r) /\ ComponentAction(r)
      /\ UNCHANGED <<source, proposal, memory, object, request, evidence, plan, receipt, vault, faults>>
    BY RunTyped, OrderFacts DEF ComponentSucceeds
<1>2. /\ run' \in [Requests -> [pc : {"idle", "retire", "run", "store"},
                                next : 1..(Len(Order) + 1), failed : BOOLEAN]]
      /\ attempts' \in [Requests -> Seq(Attempt)]
      /\ Len(attempts[r]) >= 1 /\ ProofsGrow /\ r \in Stored
    BY <1>1, RecordMoves
<1>3. /\ ComponentEffect(r)
      /\ plink' \in [Proposals -> SUBSET Sources] /\ mlink' \in [Memories -> SUBSET Sources]
      /\ redacted' \in SUBSET Proposals /\ fragment' \in SUBSET Sources /\ inline' \in SUBSET Sources
    BY <1>1, <1>2, ComponentIsItsEffect
<1>4. TypeOK'
    BY <1>1, <1>2, <1>3 DEF TypeOK
<1>5. Shrinks
    BY <1>1, <1>3 DEF Shrinks, ComponentEffect
<1>6. SameOpen
    BY <1>1 DEF SameOpen
<1>7. /\ \A s \in Targets(r).sources : source[s] # "active"
      /\ \A m \in Targets(r).memories : memory[m] # "active"
      /\ \A p \in Targets(r).proposals : proposal[p] # "active"
    BY <1>2 DEF Closures, TargetsClosed
<1>8. Closures'
    <2>1. ASSUME NEW m \in Memories, memory[m] = "active"
          PROVE  mlink'[m] = mlink[m] /\ plink'[Origin[m]] = plink[Origin[m]]
        <3>1. m \notin Targets(r).memories /\ Origin[m] \in Proposals /\ Origin[m] \notin Targets(r).proposals
            BY <1>7, <2>1, LegacyAssumption DEF Closures, Paired
        <3> QED
            BY <1>3, <3>1 DEF ComponentEffect
    <2> QED
        BY <1>5, <1>6, <2>1, ClosuresKept
<1>9. Remains'
    <2>1. Stored' = Stored /\ \A q : Targets(q)' = Targets(q)
        BY <1>1, TargetsSame
    <2>2. ASSUME NEW q \in Stored PROVE Explained(q)'
        <3>1. Explained(q) /\ Apart /\ Phases
            BY DEF Remains, Closures
        <3>2. CASE q = r
            BY <1>1, <1>2, <1>3, <3>1, <3>2, OwnExplained
        <3>3. CASE q # r
            BY <1>1, <1>2, <1>3, <3>1, <3>3, OthersExplained
        <3> QED
            BY <3>2, <3>3
    <2>3. Untouched'
        <3>1. \A s \in Sources : source'[s] = "active" =>
                 (s \in fragment' <=> s \in fragment) /\ (s \in inline' <=> s \in inline)
            BY <1>1, <1>3, <1>7 DEF ComponentEffect
        <3> QED
            BY <1>1, <3>1 DEF Remains, Untouched
    <2>4. Phases'
        <3>1. ~vault => \A q \in Requests : \A k \in 1..Len(attempts'[q]) : attempts'[q][k].legacy
            BY <1>1, <1>2, LegacyRecorded DEF Remains
        <3>2. vault => inline' = {}
            BY <1>5 DEF Remains, Phases, Shrinks
        <3> QED
            BY <1>1, <3>1, <3>2 DEF Remains, Phases
    <2>5. Retiring'
        BY <1>1, <2>1 DEF Remains, Retiring
    <2> QED
        BY <2>1, <2>2, <2>3, <2>4, <2>5 DEF Remains
<1>10. InventoryVerifies'
    BY <1>1, <1>2, <1>5, InventoryKept DEF Shrinks
<1>11. DeletedMeansGone'
    BY <1>1, <1>5, GoneKept
<1>12. \A q \in Requests : Underway(q)'
    <2>1. PICK n : n = run[r].next
        OBVIOUS
    <2>2. PICK k : k = n + 1
        OBVIOUS
    <2>3. ~run[r].failed => Done(r, k)'
        <3> SUFFICES ASSUME ~run[r].failed PROVE Done(r, k)'
            OBVIOUS
        <3>1. Done(r, n) /\ n \in 1..5 /\ Phases
            BY <1>1, <2>1 DEF Underway, Remains
        <3>2. Done(r, n + 1)'
            BY <1>1, <1>2, <1>3, <1>5, <2>1, <3>1, ComponentDone
        <3> QED
            BY <2>2, <3>2
    <2> QED
        BY <1>1, <1>5, <2>1, <2>2, <2>3, RecordUnderway
<1> QED
    BY <1>4, <1>8, <1>9, <1>10, <1>11, <1>12

-----------------------------------------------------------------------------
(* Objects: migration, adoption and retirement *)

LEMMA ClosuresSame ==
    ASSUME Closures, UNCHANGED <<source, proposal, memory, request, plink, mlink>>
    PROVE  Closures'
    BY DEF Closures, TargetsClosed, ClosedTargeted, Apart, Paired, Reached, Stored, Targets

(* What is missing stays missing and explained, while objects are retired. *)
LEMMA ExplainedSame ==
    ASSUME TypeOK, \A r \in Stored : Explained(r), UNCHANGED <<request, attempts, fragment, plink, redacted>>,
           \A s \in Sources : BodyMissing(s)' => BodyMissing(s)
    PROVE  \A r \in Stored' : Explained(r)'
<1> SUFFICES ASSUME NEW r \in Stored PROVE Explained(r)'
    BY TargetsSame
<1>1. Targets(r)' = Targets(r) /\ Targets(r).sources \subseteq Sources /\ Explained(r)
    BY TargetsSame, RequestTyped
<1>2. \A c : LegacyComponentProof(r, c)' = LegacyComponentProof(r, c)
    BY DEF LegacyComponentProof
<1> QED
    BY <1>1, <1>2 DEF Explained

LEMMA RetirementIsKept ==
    ASSUME Inv, NEW r \in Requests, NEW s \in Sources, FinishRetirement(r, s)
    PROVE  Inv'
<1> USE DEF Inv
<1>1. /\ object[s] = "deleting" /\ object' = [object EXCEPT ![s] = "deleted"]
      /\ UNCHANGED <<rows, request, attempts, evidence, plan, receipt, vault, run, faults>>
      /\ object \in [Sources -> {"none", "referenced", "deleting", "deleted"}]
    BY DEF FinishRetirement, TypeOK
<1>2. \A x \in Sources : object'[x] = IF x = s THEN "deleted" ELSE object[x]
    BY <1>1
<1>3. vault /\ receipt[s] = NoReceipt
    BY <1>1 DEF Remains, Phases, InventoryVerifies, VerifyRecordedBodyAbsence
<1>4. TypeOK'
    BY <1>1 DEF TypeOK, rows
<1>5. Shrinks
    BY <1>1, <1>2 DEF Shrinks, rows
<1>6. Closures'
    BY <1>1, ClosuresSame DEF rows
<1>7. Remains'
    <2>1. \A x \in Sources : BodyMissing(x)' => BodyMissing(x)
        BY <1>1, <1>2, <1>3 DEF BodyMissing
    <2>2. \A q \in Stored' : Explained(q)'
        BY <1>1, <2>1, ExplainedSame DEF Remains, rows
    <2>3. Untouched'
        BY <1>1, <1>2, <1>3 DEF Remains, Untouched, rows
    <2>4. Phases'
        BY <1>1, <1>3 DEF Remains, Phases, rows
    <2>5. Retiring'
        <3>1. Stored' = Stored /\ \A q : Targets(q)' = Targets(q)
            BY <1>1, TargetsSame
        <3>2. \A x \in Sources : object'[x] \in {"deleting", "deleted"} =>
                 \E q \in plan : x \in Targets(q).sources
            BY <1>1, <1>2 DEF Remains, Retiring
        <3> QED
            BY <1>1, <3>1, <3>2 DEF Remains, Retiring
    <2> QED
        BY <2>2, <2>3, <2>4, <2>5 DEF Remains
<1>8. InventoryVerifies'
    <2>1. \A q : Targets(q)' = Targets(q) /\ LegacyComponentProof(q, "SourceBody")' = LegacyComponentProof(q, "SourceBody")
        BY <1>1 DEF Targets, LegacyComponentProof
    <2>2. \A q \in plan : \A x \in Targets(q).sources :
             object'[x] \in {"deleting", "deleted"} \/ receipt[x] # NoReceipt
        <3>1. \A q \in plan : Targets(q).sources \subseteq Sources
            BY RequestTyped DEF Remains, Retiring
        <3> QED
            BY <1>1, <1>2, <3>1 DEF InventoryVerifies
    <2>3. ASSUME NEW x \in Sources, receipt[x] # NoReceipt
          PROVE  VerifyRecordedBodyAbsence(receipt[x][1], x)'
        <3>1. VerifyRecordedBodyAbsence(receipt[x][1], x) /\ x # s
            BY <1>3, <2>3 DEF InventoryVerifies
        <3> QED
            BY <1>1, <1>2, <2>1, <3>1 DEF VerifyRecordedBodyAbsence, rows
    <2>4. \A x \in Sources : object'[x] \in {"deleting", "deleted"} => Closed(source[x])
        BY <1>1, <1>2 DEF InventoryVerifies
    <2> QED
        BY <1>1, <2>1, <2>2, <2>3, <2>4 DEF InventoryVerifies, rows
<1>9. DeletedMeansGone'
    BY <1>1, <1>5, GoneKept DEF rows
<1>10. \A q \in Requests : Underway(q)'
    BY <1>1, <1>5, UnderwayKept
<1> QED
    BY <1>4, <1>6, <1>7, <1>8, <1>9, <1>10

LEMMA MigrationIsKept ==
    ASSUME Inv, MigrateBodies
    PROVE  Inv'
<1> USE DEF Inv
<1>1. /\ ~vault /\ Running = {} /\ vault' = TRUE /\ inline' = {}
      /\ object' = [s \in Sources |-> IF s \in inline THEN "referenced" ELSE "none"]
      /\ UNCHANGED <<source, proposal, memory, fragment, plink, mlink, redacted, request,
                     attempts, evidence, plan, receipt, run, faults>>
    BY DEF MigrateBodies
<1>2. plan = {} /\ \A s \in Sources : object[s] = "none" /\ receipt[s] = NoReceipt
    BY <1>1 DEF Remains, Phases
<1>3. TypeOK'
    BY <1>1 DEF TypeOK
<1>4. Closures'
    BY <1>1, ClosuresSame
<1>5. Remains'
    <2>1. \A x \in Sources : BodyMissing(x)' => BodyMissing(x)
        BY <1>1 DEF BodyMissing
    <2>2. \A q \in Stored' : Explained(q)'
        BY <1>1, <2>1, ExplainedSame DEF Remains
    <2>3. Untouched'
        BY <1>1 DEF Remains, Untouched
    <2>4. Phases'
        BY <1>1 DEF Phases
    <2>5. Retiring'
        BY <1>1, <1>2 DEF Retiring
    <2> QED
        BY <2>2, <2>3, <2>4, <2>5 DEF Remains
<1>6. InventoryVerifies'
    BY <1>1, <1>2 DEF InventoryVerifies
<1>7. DeletedMeansGone'
    BY <1>1 DEF DeletedMeansGone
<1>8. ASSUME NEW q \in Requests PROVE Underway(q)'
    BY <1>1 DEF Underway, Running
<1> QED
    BY <1>3, <1>4, <1>5, <1>6, <1>7, <1>8

(* The one executor of the vault has just begun. *)
LEMMA OnlyRetiring ==
    ASSUME TypeOK, Running = {}, NEW r \in Requests, NEW e, e = [Idle EXCEPT !.pc = "retire"],
           run' = [run EXCEPT ![r] = e], r \in Stored'
    PROVE  /\ \A q \in Requests : Underway(q)'
           /\ run' \in [Requests -> [pc : {"idle", "retire", "run", "store"},
                                     next : 1..(Len(Order) + 1), failed : BOOLEAN]]
<1>1. e.pc = "retire" /\ e \in [pc : {"idle", "retire", "run", "store"},
                                next : 1..(Len(Order) + 1), failed : BOOLEAN]
    <2>1. PICK i : i = Idle
        OBVIOUS
    <2>2. i \in [pc : {"idle", "retire", "run", "store"}, next : 1..7, failed : BOOLEAN]
        BY <2>1 DEF Idle
    <2>3. e = [i EXCEPT !.pc = "retire"]
        BY <2>1
    <2>4. e.pc = "retire" /\ e \in [pc : {"idle", "retire", "run", "store"}, next : 1..7, failed : BOOLEAN]
        BY <2>2, <2>3
    <2>5. Len(Order) + 1 = 7
        BY OrderFacts
    <2> QED
        BY <2>4, <2>5
<1>2. run \in [Requests -> [pc : {"idle", "retire", "run", "store"},
                            next : 1..(Len(Order) + 1), failed : BOOLEAN]]
    BY DEF TypeOK
<1>3. \A q \in Requests : run'[q].pc = IF q = r THEN "retire" ELSE "idle"
    BY <1>1, <1>2 DEF Running
<1>4. ASSUME NEW q \in Requests PROVE Underway(q)'
    <2>1. run'[q].pc # "run" /\ (run'[q].pc # "idle" => q = r)
        BY <1>3
    <2> QED
        BY <2>1 DEF Underway
<1> QED
    BY <1>1, <1>2, <1>4

LEMMA PinnedIsAProof ==
    ASSUME TypeOK, NEW r \in Requests, LegacyComponentProof(r, "SourceBody") # {}
    PROVE  PinnedAttempt(r) \in LegacyComponentProof(r, "SourceBody") /\ PinnedAttempt(r) \in Nat \ {0}
<1>1. LegacyComponentProof(r, "SourceBody") \subseteq Nat \ {0}
    BY RunTyped DEF LegacyComponentProof
<1>2. PICK T : T = LegacyComponentProof(r, "SourceBody")
    OBVIOUS
<1>3. \E k \in T : \A j \in T : k <= j
    BY <1>1, <1>2, LeastNumber
<1>4. PinnedAttempt(r) = CHOOSE k \in T : \A j \in T : k <= j
    BY <1>2 DEF PinnedAttempt
<1>5. PinnedAttempt(r) \in T
    BY <1>3, <1>4
<1> QED
    BY <1>1, <1>2, <1>5

LEMMA AdoptionIsKept ==
    ASSUME Inv, NEW r \in Requests, BeginDeletion(r)
    PROVE  Inv'
<1> USE DEF Inv
<1>1. /\ vault /\ Running = {} /\ r \in Stored
      /\ run' = [run EXCEPT ![r] = [Idle EXCEPT !.pc = "retire"]]
      /\ UNCHANGED <<rows, request, attempts, evidence, vault, faults>>
    BY DEF BeginDeletion
<1>2. Stored' = Stored /\ \A q : Targets(q)' = Targets(q)
    BY <1>1, TargetsSame
<1>3. /\ \A q \in Requests : Underway(q)'
      /\ run' \in [Requests -> [pc : {"idle", "retire", "run", "store"},
                                next : 1..(Len(Order) + 1), failed : BOOLEAN]]
    BY <1>1, <1>2, OnlyRetiring
<1>4. CASE UNCHANGED <<plan, receipt, object>>
    <2>1. Closures' /\ Remains' /\ InventoryVerifies' /\ DeletedMeansGone'
        BY <1>1, <1>4, ProofsSame, RowsAsTheyWere
    <2>2. TypeOK'
        BY <1>1, <1>3, <1>4 DEF TypeOK, rows
    <2> QED
        BY <1>3, <2>1, <2>2
<1>5. CASE AdoptLegacyDeletion(r)
    <2> DEFINE k == PinnedAttempt(r)
    <2>1. /\ ValidateResume(r) /\ plan' = plan \cup {r}
          /\ receipt' = [s \in Sources |-> IF s \in Targets(r).sources /\ object[s] = "none"
                                           THEN <<r, k>> ELSE receipt[s]]
          /\ object' = [s \in Sources |-> IF s \in Targets(r).sources /\ object[s] = "referenced"
                                          THEN "deleting" ELSE object[s]]
        BY <1>5 DEF AdoptLegacyDeletion
    <2>2. \A s \in Targets(r).sources : object[s] = "none" =>
             k \in LegacyComponentProof(r, "SourceBody") /\ k \in Nat \ {0}
        BY <2>1, PinnedIsAProof DEF ValidateResume, ResumeSources
    <2>3. \A s \in Targets(r).sources : /\ s \in Sources /\ Closed(source[s]) /\ s \notin inline
                                        /\ object[s] \in {"none", "referenced"}
        BY <1>1, <2>1, RequestTyped DEF ValidateResume, ResumeSources
    <2> HIDE DEF k
    <2>4. <<r, k>> # NoReceipt /\ <<r, k>>[1] = r /\ <<r, k>>[2] = k
        BY DEF NoReceipt, Requests
    <2>5. TypeOK'
        <3>1. receipt \in [Sources -> (Requests \X (Nat \ {0})) \cup {NoReceipt}]
            BY DEF TypeOK
        <3>2. receipt' \in [Sources -> (Requests \X (Nat \ {0})) \cup {NoReceipt}]
            BY <2>1, <2>2, <3>1
        <3>3. object' \in [Sources -> {"none", "referenced", "deleting", "deleted"}]
            BY <2>1 DEF TypeOK
        <3>4. plan' \in SUBSET Requests
            BY <2>1 DEF TypeOK
        <3> QED
            BY <1>1, <1>3, <3>2, <3>3, <3>4 DEF TypeOK, rows
    <2>6. Shrinks
        BY <1>1, <2>1 DEF Shrinks, rows
    <2>7. Closures'
        BY <1>1, ClosuresSame DEF rows
    <2>8. Remains'
        <3>1. \A x \in Sources : BodyMissing(x)' => BodyMissing(x)
            BY <1>1, <2>1 DEF BodyMissing
        <3>2. \A q \in Stored' : Explained(q)'
            BY <1>1, <3>1, ExplainedSame DEF Remains, rows
        <3>3. Untouched'
            BY <1>1, <2>1, <2>3 DEF Remains, Untouched, rows, Closed
        <3>4. Phases'
            BY <1>1 DEF Remains, Phases, rows
        <3>5. Retiring'
            <4>1. plan' \subseteq Stored
                BY <1>1, <2>1 DEF Remains, Retiring
            <4>2. \A s \in Sources : object'[s] \in {"deleting", "deleted"} =>
                     \E q \in plan' : s \in Targets(q).sources
                BY <2>1 DEF Remains, Retiring
            <4>3. \A s \in Sources : receipt'[s] # NoReceipt => receipt'[s][1] \in plan'
                BY <2>1, <2>4 DEF Remains, Retiring
            <4> QED
                BY <1>2, <4>1, <4>2, <4>3 DEF Retiring
        <3> QED
            BY <3>2, <3>3, <3>4, <3>5 DEF Remains
    <2>9. InventoryVerifies'
        <3>1. \A q : LegacyComponentProof(q, "SourceBody")' = LegacyComponentProof(q, "SourceBody")
            BY <1>1 DEF LegacyComponentProof
        <3>2. ASSUME NEW q \in plan', NEW x \in Targets(q).sources
              PROVE  object'[x] \in {"deleting", "deleted"} \/ receipt'[x] # NoReceipt
            <4>1. q = r \/ q \in plan
                BY <2>1
            <4>2. CASE q = r
                BY <2>1, <2>3, <2>4, <4>2
            <4>3. CASE q \in plan
                <5>1. x \in Sources /\ (object[x] \in {"deleting", "deleted"} \/ receipt[x] # NoReceipt)
                    BY <4>3, RequestTyped DEF Remains, Retiring, InventoryVerifies
                <5> QED
                    BY <2>1, <2>4, <5>1
            <4> QED
                BY <4>1, <4>2, <4>3
        <3>3. ASSUME NEW x \in Sources, receipt'[x] # NoReceipt
              PROVE  VerifyRecordedBodyAbsence(receipt[x][1], x)'
            <4>1. CASE x \in Targets(r).sources /\ object[x] = "none"
                <5>1. receipt'[x] = <<r, k>> /\ object'[x] = "none"
                    BY <2>1, <4>1
                <5>2. /\ x \in Targets(r).sources /\ Closed(source'[x]) /\ receipt'[x][1] = r
                      /\ receipt'[x][2] \in LegacyComponentProof(r, "SourceBody") /\ x \notin inline'
                    BY <1>1, <2>2, <2>3, <2>4, <4>1, <5>1 DEF rows
                <5> QED
                    BY <1>2, <3>1, <5>1, <5>2 DEF VerifyRecordedBodyAbsence
            <4>2. CASE ~(x \in Targets(r).sources /\ object[x] = "none")
                <5>1. receipt'[x] = receipt[x]
                    BY <2>1, <4>2
                <5>2. VerifyRecordedBodyAbsence(receipt[x][1], x)
                    BY <3>3, <5>1 DEF InventoryVerifies
                <5>3. object'[x] = "none"
                    BY <2>1, <5>2 DEF VerifyRecordedBodyAbsence
                <5> QED
                    BY <1>1, <1>2, <3>1, <5>1, <5>2, <5>3 DEF VerifyRecordedBodyAbsence, rows
            <4> QED
                BY <4>1, <4>2
        <3>4. \A x \in Sources : object'[x] \in {"deleting", "deleted"} => Closed(source[x])
            BY <2>1, <2>3 DEF InventoryVerifies
        <3> QED
            BY <1>1, <1>2, <3>2, <3>3, <3>4 DEF InventoryVerifies, rows
    <2>10. DeletedMeansGone'
        BY <1>1, <2>6, GoneKept DEF rows
    <2> QED
        BY <1>3, <2>5, <2>7, <2>8, <2>9, <2>10
<1> QED
    BY <1>4, <1>5 DEF BeginDeletion

-----------------------------------------------------------------------------
(* A new request *)

(* The closure of a new request names only active rows, and every active    *)
(* row that depends on them.                                                *)
Lists(S, M, c) ==
    /\ c \in Closure /\ c.sources = S /\ c.memories = M /\ c.proposals \subseteq Proposals
    /\ \A s \in S : source[s] = "active"
    /\ \A m \in M : memory[m] = "active" /\ Origin[m] \in c.proposals
    /\ \A p \in c.proposals : /\ proposal[p] = "active"
                              /\ p \in {Origin[m] : m \in M} \/ plink[p] \cap S # {}
    /\ \A p \in Proposals : proposal[p] = "active" /\ plink[p] \cap S # {} => p \in c.proposals
    /\ \A m \in Memories : memory[m] = "active" /\ mlink[m] \cap S # {} => m \in M
    /\ \A m \in M : \A n \in Memories : <<n, m>> \in Supersedes /\ memory[n] = "active" => n \in M

LEMMA NewClosure ==
    ASSUME TypeOK, Paired, NEW S \in SUBSET Sources, NEW M \in SUBSET Memories,
           ValidateSemanticTargets(S, M), NEW c, c = BuildExecutionClosure(S, M)
    PROVE  Lists(S, M, c)
<1>1. PICK P : P = {Origin[m] : m \in M}
                   \cup {p \in Proposals : proposal[p] = "active" /\ plink[p] \cap S # {}}
    OBVIOUS
<1>2. c = [sources |-> S, memories |-> M, proposals |-> P]
    BY <1>1 DEF BuildExecutionClosure
<1>3. \A m \in Memories : Origin[m] \in Proposals
    BY LegacyAssumption
<1>4. P \subseteq Proposals
    BY <1>1, <1>3
<1>5. c \in Closure /\ c.sources = S /\ c.memories = M /\ c.proposals = P
    BY <1>2, <1>4 DEF Closure
<1>6. \A m \in M : memory[m] = "active" /\ proposal[Origin[m]] = "active"
    BY DEF ValidateSemanticTargets, Paired
<1>7. \A p \in P : /\ proposal[p] = "active"
                   /\ p \in {Origin[m] : m \in M} \/ plink[p] \cap S # {}
    BY <1>1, <1>6
<1> QED
    BY <1>1, <1>4, <1>5, <1>6, <1>7 DEF ValidateSemanticTargets, Lists

(* What storing the request does. *)
LEMMA RequestStored ==
    ASSUME TypeOK, NEW c \in Closure, InsertClosed(c), NEW n, n = Len(request) + 1
    PROVE  /\ n \in Requests /\ request' \in Seq(Closure) /\ Len(request') = n /\ n <= MaxRequests
           /\ Stored' = Stored \cup {n} /\ n \notin Stored /\ n \in Nat
           /\ Targets(n)' = c /\ \A q \in Stored : Targets(q)' = Targets(q)
           /\ \A q \in Stored : q < n /\ q \in Nat
<1>1. request \in Seq(Closure) /\ Len(request) \in Nat /\ Len(request) < MaxRequests /\ MaxRequests \in Nat
      /\ request' = Append(request, c)
    BY LegacyAssumption DEF TypeOK, InsertClosed
<1>2. /\ request' \in Seq(Closure) /\ Len(request') = n /\ request'[n] = c
      /\ \A q \in 1..Len(request) : request'[q] = request[q]
    BY <1>1
<1>3. Stored' = Stored \cup {n} /\ n \notin Stored /\ \A q \in Stored : q < n /\ q \in Nat
    BY <1>1, <1>2 DEF Stored
<1>4. Targets(n)' = c
    BY <1>2 DEF Targets
<1>5. \A q \in Stored : Targets(q)' = Targets(q)
    BY <1>2 DEF Stored, Targets
<1>6. n \in Requests /\ n \in Nat /\ n <= MaxRequests
    BY <1>1 DEF Requests
<1> QED
    BY <1>2, <1>3, <1>4, <1>5, <1>6

LEMMA ClosuresGrow ==
    ASSUME TypeOK, Closures, NEW S \in SUBSET Sources, NEW M \in SUBSET Memories,
           ValidateSemanticTargets(S, M), InsertClosed(BuildExecutionClosure(S, M)),
           UNCHANGED <<plink, mlink>>
    PROVE  Closures'
<1>1. PICK c : c = BuildExecutionClosure(S, M)
    OBVIOUS
<1>2. PICK n : n = Len(request) + 1
    OBVIOUS
<1>3. /\ c \in Closure /\ c.sources = S /\ c.memories = M /\ c.proposals \subseteq Proposals
      /\ \A s \in S : source[s] = "active"
      /\ \A m \in M : memory[m] = "active" /\ Origin[m] \in c.proposals
      /\ \A p \in c.proposals : /\ proposal[p] = "active"
                                /\ p \in {Origin[m] : m \in M} \/ plink[p] \cap S # {}
      /\ \A p \in Proposals : proposal[p] = "active" /\ plink[p] \cap S # {} => p \in c.proposals
      /\ \A m \in Memories : memory[m] = "active" /\ mlink[m] \cap S # {} => m \in M
      /\ \A m \in M : \A x \in Memories :
            <<x, m>> \in Supersedes /\ memory[x] = "active" => x \in M
    <2>1. Lists(S, M, c)
        BY <1>1, NewClosure DEF Closures
    <2> QED
        BY <2>1 DEF Lists
<1>4. InsertClosed(c)
    BY <1>1
<1>5. /\ Stored' = Stored \cup {n} /\ n \notin Stored /\ n \in Nat
      /\ Targets(n)' = c /\ \A q \in Stored : Targets(q)' = Targets(q)
      /\ \A q \in Stored : q < n /\ q \in Nat
    BY <1>2, <1>3, <1>4, RequestStored
<1>6. /\ \A s \in Sources : source'[s] = IF s \in S THEN "pending" ELSE source[s]
      /\ \A m \in Memories : memory'[m] = IF m \in M THEN "pending" ELSE memory[m]
      /\ \A p \in Proposals : proposal'[p] = IF p \in c.proposals THEN "pending" ELSE proposal[p]
    BY <1>3, <1>4 DEF InsertClosed
<1>7. \A q \in Stored : /\ Targets(q).sources \subseteq Sources /\ Targets(q).proposals \subseteq Proposals
                        /\ Targets(q).memories \subseteq Memories
    BY RequestTyped
<1>8. \A q \in Stored : /\ \A s \in Targets(q).sources : source[s] # "active"
                        /\ \A m \in Targets(q).memories : memory[m] # "active"
                        /\ \A p \in Targets(q).proposals : proposal[p] # "active"
    BY DEF Closures, TargetsClosed
<1>9. TargetsClosed'
    <2>1. ASSUME NEW q \in Stored
          PROVE  /\ \A s \in Targets(q).sources : source'[s] # "active"
                 /\ \A m \in Targets(q).memories : memory'[m] # "active"
                 /\ \A p \in Targets(q).proposals : proposal'[p] # "active"
        BY <1>6, <1>7, <1>8
    <2>2. /\ \A s \in c.sources : source'[s] # "active"
          /\ \A m \in c.memories : memory'[m] # "active"
          /\ \A p \in c.proposals : proposal'[p] # "active"
        BY <1>3, <1>6
    <2>3. ASSUME NEW q \in Stored'
          PROVE  /\ \A s \in Targets(q)'.sources : source'[s] # "active"
                 /\ \A m \in Targets(q)'.memories : memory'[m] # "active"
                 /\ \A p \in Targets(q)'.proposals : proposal'[p] # "active"
        BY <1>5, <2>1, <2>2
    <2> QED
        BY <2>3 DEF TargetsClosed
<1>10. ClosedTargeted'
    <2>1. ASSUME NEW m \in Memories, memory'[m] # "active" PROVE \E q \in Stored' : m \in Targets(q)'.memories
        <3>1. CASE m \in M
            BY <1>3, <1>5, <3>1
        <3>2. CASE m \notin M
            <4>1. PICK q \in Stored : m \in Targets(q).memories
                BY <1>6, <2>1, <3>2 DEF Closures, ClosedTargeted
            <4> QED
                BY <1>5, <4>1
        <3> QED
            BY <3>1, <3>2
    <2>2. ASSUME NEW p \in Proposals, proposal'[p] # "active" PROVE \E q \in Stored' : p \in Targets(q)'.proposals
        <3>1. CASE p \in c.proposals
            BY <1>5, <3>1
        <3>2. CASE p \notin c.proposals
            <4>1. PICK q \in Stored : p \in Targets(q).proposals
                BY <1>6, <2>2, <3>2 DEF Closures, ClosedTargeted
            <4> QED
                BY <1>5, <4>1
        <3> QED
            BY <3>1, <3>2
    <2> QED
        BY <2>1, <2>2 DEF ClosedTargeted
<1>11. Apart'
    <2>1. ASSUME NEW q \in Stored
          PROVE  Targets(q).sources \cap c.sources = {} /\ Targets(q).proposals \cap c.proposals = {}
        BY <1>3, <1>8
    <2>2. ASSUME NEW q \in Stored', NEW r \in Stored', q # r
          PROVE  /\ Targets(q)'.sources \cap Targets(r)'.sources = {}
                 /\ Targets(q)'.proposals \cap Targets(r)'.proposals = {}
        <3>1. CASE q \in Stored /\ r \in Stored
            BY <1>5, <2>2, <3>1 DEF Closures, Apart
        <3>2. CASE q \in Stored /\ r = n
            BY <1>5, <2>1, <3>2
        <3>3. CASE q = n /\ r \in Stored
            BY <1>5, <2>1, <3>3
        <3> QED
            BY <1>5, <2>2, <3>1, <3>2, <3>3
    <2> QED
        BY <2>2 DEF Apart
<1>12. Paired'
    <2> SUFFICES ASSUME NEW m \in Memories, memory'[m] = "active"
                 PROVE  proposal'[Origin[m]] = "active" /\ mlink'[m] = plink'[Origin[m]]
        BY DEF Paired
    <2>1. m \notin M /\ memory[m] = "active" /\ Origin[m] \in Proposals
        BY <1>6, LegacyAssumption
    <2>2. proposal[Origin[m]] = "active" /\ mlink[m] = plink[Origin[m]]
        BY <2>1 DEF Closures, Paired
    <2>3. plink[Origin[m]] \cap S = {}
        BY <1>3, <2>1, <2>2
    <2>4. Origin[m] \notin {Origin[x] : x \in M}
        BY <2>1, LegacyAssumption
    <2>5. Origin[m] \notin c.proposals
        BY <1>3, <2>3, <2>4
    <2> QED
        BY <1>6, <2>1, <2>2, <2>5
<1>13. ASSUME NEW r \in Stored' PROVE Reached(r)'
    <2>1. CASE r \in Stored
        <3>1. Reached(r) /\ Targets(r)' = Targets(r)
            BY <1>5, <2>1 DEF Closures
        <3>2. \A q \in 1..r : Targets(q)' = Targets(q)
            <4>1. 1..r \subseteq Stored
                BY <2>1, RequestTyped DEF Stored
            <4> QED
                BY <1>5, <4>1
        <3> QED
            BY <3>1, <3>2 DEF Reached
    <2>2. CASE r = n
        <3>1. Stored \subseteq 1..n /\ n \in 1..n
            BY <1>5 DEF Stored
        <3>2. ASSUME NEW m \in Memories, memory[m] # "active" \/ m \in M
              PROVE  \E q \in 1..n : m \in Targets(q)'.memories
            <4>1. CASE m \in M
                BY <1>3, <1>5, <3>1, <4>1
            <4>2. CASE memory[m] # "active"
                <5>1. PICK q \in Stored : m \in Targets(q).memories
                    BY <4>2 DEF Closures, ClosedTargeted
                <5> QED
                    BY <1>5, <3>1, <5>1
            <4> QED
                BY <3>2, <4>1, <4>2
        <3>3. ASSUME NEW p \in Proposals, proposal[p] # "active" \/ p \in c.proposals
              PROVE  \E q \in 1..n : p \in Targets(q)'.proposals
            <4>1. CASE p \in c.proposals
                BY <1>5, <3>1, <4>1
            <4>2. CASE proposal[p] # "active"
                <5>1. PICK q \in Stored : p \in Targets(q).proposals
                    BY <4>2 DEF Closures, ClosedTargeted
                <5> QED
                    BY <1>5, <3>1, <5>1
            <4> QED
                BY <3>3, <4>1, <4>2
        <3>4. \A s \in c.sources : /\ \A m \in Memories : s \in mlink[m] => memory[m] # "active" \/ m \in M
                                   /\ \A p \in Proposals : s \in plink[p] => proposal[p] # "active" \/ p \in c.proposals
            BY <1>3
        <3>5. \A m \in c.memories : /\ Origin[m] \in c.proposals
                                    /\ \A x \in Memories : <<x, m>> \in Supersedes => memory[x] # "active" \/ x \in M
            BY <1>3
        <3>6. Reached(n)'
            BY <1>5, <3>2, <3>3, <3>4, <3>5 DEF Reached
        <3> QED
            BY <2>2, <3>6
    <2> QED
        BY <1>5, <2>1, <2>2
<1> QED
    BY <1>9, <1>10, <1>11, <1>12, <1>13 DEF Closures

(* The new request leaves everything else of the library and the vault as   *)
(* it was; in the vault its objects go to the checkpoint of a deletion.     *)
LEMMA InsertionIsKept ==
    ASSUME Inv, NEW S \in SUBSET Sources, NEW M \in SUBSET Memories,
           ValidateSemanticTargets(S, M), InsertClosed(BuildExecutionClosure(S, M)),
           NEW n, n = Len(request) + 1,
           UNCHANGED <<inline, fragment, plink, mlink, redacted, attempts, evidence, receipt, vault, faults>>,
           \/ UNCHANGED <<object, plan>>
           \/ /\ vault /\ \A s \in S : object[s] = "referenced"
              /\ plan' = plan \cup {n}
              /\ object' = [s \in Sources |-> IF s \in S THEN "deleting" ELSE object[s]],
           run' \in [Requests -> [pc : {"idle", "retire", "run", "store"},
                                  next : 1..(Len(Order) + 1), failed : BOOLEAN]],
           \A q \in Requests : Underway(q)'
    PROVE  Inv'
<1> USE DEF Inv
<1>1. PICK c : c = BuildExecutionClosure(S, M)
    OBVIOUS
<1>2. /\ c \in Closure /\ c.sources = S /\ c.memories = M /\ c.proposals \subseteq Proposals
      /\ \A s \in S : source[s] = "active"
      /\ \A m \in M : memory[m] = "active"
      /\ \A p \in c.proposals : /\ proposal[p] = "active"
                                /\ p \in {Origin[m] : m \in M} \/ plink[p] \cap S # {}
    <2>1. Lists(S, M, c)
        BY <1>1, NewClosure DEF Closures
    <2> QED
        BY <2>1 DEF Lists
<1>3. InsertClosed(c)
    BY <1>1
<1>4. /\ n \in Requests /\ request' \in Seq(Closure) /\ Len(request') = n /\ n <= MaxRequests
      /\ Stored' = Stored \cup {n} /\ n \notin Stored
      /\ Targets(n)' = c /\ \A q \in Stored : Targets(q)' = Targets(q)
    BY <1>2, <1>3, RequestStored
<1>5. /\ source' = [s \in Sources |-> IF s \in S THEN "pending" ELSE source[s]]
      /\ memory' = [m \in Memories |-> IF m \in M THEN "pending" ELSE memory[m]]
      /\ proposal' = [p \in Proposals |-> IF p \in c.proposals /\ proposal[p] = "active"
                                          THEN "pending" ELSE proposal[p]]
    BY <1>2, <1>3 DEF InsertClosed
<1>6. \A s \in Sources : \/ object'[s] = object[s]
                         \/ s \in S /\ vault /\ object[s] = "referenced" /\ object'[s] = "deleting" /\ n \in plan'
    OBVIOUS
<1>7. plan' = plan \/ (plan' = plan \cup {n} /\ \A s \in S : object'[s] = "deleting")
    OBVIOUS
<1>8. TypeOK'
    <2>1. /\ source' \in [Sources -> RowStates] /\ proposal' \in [Proposals -> RowStates]
          /\ memory' \in [Memories -> RowStates]
        BY <1>5 DEF TypeOK, RowStates
    <2>2. plan' \in SUBSET Requests
        BY <1>4, <1>7 DEF TypeOK
    <2>3. object' \in [Sources -> {"none", "referenced", "deleting", "deleted"}]
        BY DEF TypeOK
    <2> QED
        BY <1>4, <2>1, <2>2, <2>3 DEF TypeOK
<1>9. Closures'
    BY ClosuresGrow
<1>10. \A q : \A d : LegacyComponentProof(q, d)' = LegacyComponentProof(q, d)
    BY DEF LegacyComponentProof
<1>11. Remains'
    <2>1. ASSUME NEW r \in Stored' PROVE Explained(r)'
        <3>1. \A s \in Sources : BodyMissing(s)' => BodyMissing(s)
            BY <1>6 DEF BodyMissing
        <3>2. CASE r \in Stored
            <4>1. Explained(r) /\ Targets(r)' = Targets(r) /\ Targets(r).sources \subseteq Sources
                BY <1>4, <3>2, RequestTyped DEF Remains
            <4> QED
                BY <1>10, <3>1, <4>1 DEF Explained
        <3>3. CASE r = n
            <4>1. \A s \in S : s \in fragment' /\ ~BodyMissing(s)'
                BY <1>2, <3>1 DEF Remains, Untouched, BodyMissing
            <4>2. Explained(n)'
                BY <1>2, <1>4, <4>1 DEF Explained
            <4> QED
                BY <3>3, <4>2
        <3> QED
            BY <1>4, <3>2, <3>3
    <2>2. Untouched'
        <3>1. \A s \in Sources : source'[s] = "active" => source[s] = "active" /\ object'[s] = object[s]
            BY <1>5, <1>6
        <3> QED
            BY <3>1 DEF Remains, Untouched
    <2>3. Phases'
        BY DEF Remains, Phases
    <2>4. Retiring'
        <3>0. plan \subseteq Stored /\ plan \subseteq plan'
            BY <1>7 DEF Remains, Retiring
        <3>1. plan' \subseteq Stored'
            BY <1>4, <1>7, <3>0
        <3>2. ASSUME NEW s \in Sources, object'[s] \in {"deleting", "deleted"}
              PROVE  \E q \in plan' : s \in Targets(q)'.sources
            <4>1. CASE object'[s] = object[s]
                <5>1. PICK q \in plan : s \in Targets(q).sources
                    BY <3>2, <4>1 DEF Remains, Retiring
                <5> QED
                    BY <1>4, <3>0, <5>1
            <4>2. CASE s \in S /\ n \in plan'
                BY <1>2, <1>4, <4>2
            <4> QED
                BY <1>6, <4>1, <4>2
        <3>3. \A s \in Sources : receipt[s] # NoReceipt => receipt[s][1] \in plan'
            BY <3>0 DEF Remains, Retiring
        <3> QED
            BY <3>1, <3>2, <3>3 DEF Retiring
    <2> QED
        BY <2>1, <2>2, <2>3, <2>4 DEF Remains
<1>12. InventoryVerifies'
    <2>1. plan \subseteq Stored /\ \A s \in Sources : receipt[s] # NoReceipt => receipt[s][1] \in plan
        BY DEF Remains, Retiring
    <2>2. ASSUME NEW q \in plan', NEW s \in Targets(q)'.sources
          PROVE  object'[s] \in {"deleting", "deleted"} \/ receipt'[s] # NoReceipt
        <3>1. CASE q \in plan
            <4>1. Targets(q)' = Targets(q) /\ Targets(q).sources \subseteq Sources
                BY <1>4, <2>1, <3>1, RequestTyped
            <4>2. s \in Sources /\ (object[s] \in {"deleting", "deleted"} \/ receipt[s] # NoReceipt)
                BY <2>2, <3>1, <4>1 DEF InventoryVerifies
            <4> QED
                BY <1>6, <4>2
        <3>2. CASE q \notin plan
            BY <1>2, <1>4, <1>7, <2>2, <3>2
        <3> QED
            BY <3>1, <3>2
    <2>3. ASSUME NEW s \in Sources, receipt'[s] # NoReceipt
          PROVE  VerifyRecordedBodyAbsence(receipt[s][1], s)'
        <3>1. PICK r : r = receipt[s][1]
            OBVIOUS
        <3>2. r \in Stored /\ VerifyRecordedBodyAbsence(r, s) /\ Targets(r)' = Targets(r)
            BY <1>4, <2>1, <2>3, <3>1 DEF InventoryVerifies
        <3>3. Closed(source'[s]) /\ object'[s] = "none"
            BY <1>5, <1>6, <3>2 DEF VerifyRecordedBodyAbsence, Closed
        <3>4. VerifyRecordedBodyAbsence(r, s)'
            BY <1>10, <3>2, <3>3 DEF VerifyRecordedBodyAbsence
        <3> QED
            BY <3>1, <3>4
    <2>4. \A s \in Sources : object'[s] \in {"deleting", "deleted"} => Closed(source'[s])
        BY <1>5, <1>6 DEF InventoryVerifies, Closed
    <2> QED
        BY <2>2, <2>3, <2>4 DEF InventoryVerifies
<1>13. DeletedMeansGone'
    <2>1. ASSUME NEW s \in Sources, source'[s] = "deleted"
          PROVE  s \notin inline' /\ s \notin fragment' /\ object'[s] \in {"none", "deleted"}
        <3>1. source[s] = "deleted" /\ s \notin S
            BY <1>5, <2>1
        <3> QED
            BY <1>6, <3>1 DEF DeletedMeansGone
    <2>2. \A m \in Memories : memory'[m] = "deleted" => mlink'[m] = {}
        BY <1>5 DEF DeletedMeansGone
    <2>3. \A p \in Proposals : proposal'[p] = "deleted" => plink'[p] = {} /\ p \in redacted'
        BY <1>5 DEF DeletedMeansGone
    <2> QED
        BY <2>1, <2>2, <2>3 DEF DeletedMeansGone
<1> QED
    BY <1>8, <1>9, <1>11, <1>12, <1>13

LEMMA RequestIsKept ==
    ASSUME Inv, NEW S \in SUBSET Sources, NEW M \in SUBSET Memories,
           StoreDeleteRequest(S, M) \/ BeginNewDeletion(S, M)
    PROVE  Inv'
<1> USE DEF Inv
<1>1. PICK n : n = Len(request) + 1
    OBVIOUS
<1>2. ValidateSemanticTargets(S, M) /\ InsertClosed(BuildExecutionClosure(S, M))
    BY DEF StoreDeleteRequest, BeginNewDeletion
<1>3. /\ n \in Requests /\ Stored' = Stored \cup {n} /\ \A q \in Stored : Targets(q)' = Targets(q)
    <2>1. PICK c : c = BuildExecutionClosure(S, M)
        OBVIOUS
    <2>2. Lists(S, M, c) /\ InsertClosed(c)
        BY <1>2, <2>1, NewClosure DEF Closures
    <2>3. c \in Closure
        BY <2>2 DEF Lists
    <2> QED
        BY <1>1, <2>2, <2>3, RequestStored
<1>4. CASE StoreDeleteRequest(S, M)
    <2>1. UNCHANGED <<inline, fragment, plink, mlink, redacted, object, attempts, evidence, plan,
                      receipt, vault, run, faults>>
        BY <1>4 DEF StoreDeleteRequest
    <2>2. ASSUME NEW q \in Requests PROVE Underway(q)'
        <3>1. CASE run[q].pc # "run"
            BY <1>3, <2>1, <3>1 DEF Underway
        <3>2. CASE run[q].pc = "run"
            <4>1. Underway(q) /\ q \in Stored /\ Targets(q)' = Targets(q)
                BY <1>3, <3>2 DEF Underway
            <4>2. \A k : Done(q, k)' <=> Done(q, k)
                BY <2>1, <4>1 DEF Done
            <4>3. ~run[q].failed => Done(q, run[q].next)'
                BY <2>1, <3>2, <4>1, <4>2 DEF Underway
            <4> QED
                BY <1>3, <2>1, <3>2, <4>1, <4>3 DEF Underway
        <3> QED
            BY <3>1, <3>2
    <2>3. run' \in [Requests -> [pc : {"idle", "retire", "run", "store"},
                                 next : 1..(Len(Order) + 1), failed : BOOLEAN]]
        BY <2>1 DEF TypeOK
    <2> QED
        BY <1>1, <1>2, <2>1, <2>2, <2>3, InsertionIsKept
<1>5. CASE BeginNewDeletion(S, M)
    <2>1. /\ vault /\ Running = {} /\ \A s \in S : object[s] = "referenced"
          /\ plan' = plan \cup {n}
          /\ object' = [s \in Sources |-> IF s \in S THEN "deleting" ELSE object[s]]
          /\ run' = [run EXCEPT ![n] = [Idle EXCEPT !.pc = "retire"]]
          /\ UNCHANGED <<inline, fragment, plink, mlink, redacted, attempts, evidence, receipt,
                         vault, faults>>
        BY <1>1, <1>5 DEF BeginNewDeletion
    <2>2. /\ \A q \in Requests : Underway(q)'
          /\ run' \in [Requests -> [pc : {"idle", "retire", "run", "store"},
                                    next : 1..(Len(Order) + 1), failed : BOOLEAN]]
        BY <1>3, <2>1, OnlyRetiring
    <2> QED
        BY <1>1, <1>2, <2>1, <2>2, InsertionIsKept
<1> QED
    BY <1>4, <1>5

-----------------------------------------------------------------------------
(* The theorems *)

LEMMA InitIsSound == Init => Inv
<1> SUFFICES ASSUME Init PROVE Inv
    OBVIOUS
<1> USE DEF Init
<1>1. Len(request) = 0 /\ Stored = {}
    BY DEF Stored
<1>2. MaxRequests \in Nat /\ MaxFailed \in Nat /\ MaxCrashes \in Nat /\ Origin \in [Memories -> Proposals]
    BY LegacyAssumption
<1>3. TypeOK
    <2>1. /\ source \in [Sources -> RowStates] /\ proposal \in [Proposals -> RowStates]
          /\ memory \in [Memories -> RowStates]
        BY DEF RowStates
    <2>2. plink \in [Proposals -> SUBSET Sources] /\ mlink \in [Memories -> SUBSET Sources]
        BY <1>2
    <2>3. run \in [Requests -> [pc : {"idle", "retire", "run", "store"},
                                next : 1..(Len(Order) + 1), failed : BOOLEAN]]
        BY OrderFacts DEF Idle
    <2>4. faults \in [failed : 0..MaxFailed, crashes : 0..MaxCrashes]
        BY <1>2
    <2>5. request \in Seq(Closure) /\ Len(request) <= MaxRequests /\ attempts \in [Requests -> Seq(Attempt)]
        BY <1>1, <1>2
    <2> QED
        BY <2>1, <2>2, <2>3, <2>4, <2>5 DEF TypeOK
<1>4. Closures
    BY <1>1, <1>2 DEF Closures, TargetsClosed, ClosedTargeted, Apart, Paired
<1>5. Remains
    BY <1>1 DEF Remains, Untouched, Phases, Retiring
<1>6. \A r \in Requests : Underway(r)
    BY DEF Underway, Idle
<1>7. InventoryVerifies
    BY DEF InventoryVerifies
<1>8. DeletedMeansGone
    BY DEF DeletedMeansGone
<1> QED
    BY <1>3, <1>4, <1>5, <1>6, <1>7, <1>8 DEF Inv

LEMMA StepIsSound == ASSUME Inv, [Next]_vars PROVE Inv'
<1>1. CASE UNCHANGED vars
    <2>1. ~vault => \A q \in Requests : \A k \in 1..Len(attempts'[q]) : attempts'[q][k].legacy
        BY <1>1 DEF vars, Inv, Remains, Phases
    <2>2. Closures' /\ Remains' /\ InventoryVerifies' /\ DeletedMeansGone' /\ Shrinks
        BY <1>1, <2>1, ProofsSame, RowsAsTheyWere DEF vars
    <2>3. TypeOK'
        BY <1>1 DEF vars, rows, Inv, TypeOK
    <2>4. \A q \in Requests : Underway(q)'
        BY <1>1, <2>2, UnderwayKept DEF vars, Inv
    <2> QED
        BY <2>2, <2>3, <2>4 DEF Inv
<1>2. CASE \E S \in SUBSET Sources, M \in SUBSET Memories :
             StoreDeleteRequest(S, M) \/ BeginNewDeletion(S, M)
    BY <1>2, RequestIsKept
<1>3. CASE MigrateBodies
    BY <1>3, MigrationIsKept
<1>4. ASSUME NEW r \in Requests, ExecuteDeletion(r) \/ BeginDeletion(r) \/ Step(r) \/ Crash(r)
      PROVE  Inv'
    <2>1. CASE ExecuteDeletion(r) \/ ExecuteObjectDeletion(r) \/ EndAttempt(r) \/ StoreEvidence(r) \/ Crash(r)
        BY <2>1, ExecutorSteps
    <2>2. CASE BeginDeletion(r)
        BY <2>2, AdoptionIsKept
    <2>3. CASE ComponentSucceeds(r)
        BY <2>3, SuccessIsKept
    <2>4. CASE ComponentFails(r)
        BY <2>4, FailureIsKept
    <2>5. CASE MinimalAudit(r)
        BY <2>5, AuditIsKept
    <2>6. CASE \E s \in Sources : FinishRetirement(r, s)
        BY <2>6, RetirementIsKept
    <2> QED
        BY <1>4, <2>1, <2>2, <2>3, <2>4, <2>5, <2>6 DEF Step
<1> QED
    BY <1>1, <1>2, <1>3, <1>4 DEF Next

(* The inductive invariant: closures are apart and complete, what is        *)
(* missing is explained, and every executor keeps its place.                *)
THEOREM LegacyInvariance == Spec => []Inv
<1>1. Inv /\ [Next]_vars => Inv'
    BY StepIsSound
<1> QED
    BY <1>1, InitIsSound, PTL DEF Spec

(* validate_resume accepts the oldest request that is not deleted yet. *)
LEMMA GenuineHistories == Inv => OldestIsAdopted
<1> SUFFICES ASSUME Inv, vault, NEW r \in Stored \ plan,
                    \A q \in Earlier(r) : /\ \A s \in Targets(q).sources : source[s] = "deleted"
                                          /\ \A m \in Targets(q).memories : memory[m] = "deleted"
                                          /\ \A p \in Targets(q).proposals : proposal[p] = "deleted"
             PROVE  ValidateResume(r)
    BY DEF OldestIsAdopted
<1> USE DEF Inv
<1>1. /\ Targets(r).sources \subseteq Sources /\ Targets(r).proposals \subseteq Proposals
      /\ Targets(r).memories \subseteq Memories /\ r \in Nat
    BY RequestTyped DEF Requests
<1>2. \A q \in 1..r : q = r \/ q \in Earlier(r)
    BY <1>1 DEF Earlier
<1>3. Reached(r) /\ Explained(r) /\ Apart /\ TargetsClosed
    BY DEF Closures, Remains
<1>4. \A m \in Memories : (\E q \in 1..r : m \in Targets(q).memories) /\ memory[m] # "deleted"
                          => m \in Targets(r).memories
    BY <1>2
<1>5. \A p \in Proposals : (\E q \in 1..r : p \in Targets(q).proposals) /\ proposal[p] # "deleted"
                           => p \in Targets(r).proposals
    BY <1>2
<1>6. ResumeSources(r)
    <2> SUFFICES ASSUME NEW s \in Targets(r).sources
                 PROVE  /\ Closed(source[s]) /\ s \notin inline
                        /\ object[s] = "none" => LegacyComponentProof(r, "SourceBody") # {}
                        /\ object[s] # "none" => object[s] = "referenced"
        BY DEF ResumeSources
    <2>1. Closed(source[s])
        BY <1>1, <1>3 DEF TargetsClosed, TypeOK, RowStates, Closed
    <2>2. s \notin inline
        BY DEF Remains, Phases
    <2>3. object[s] = "none" => LegacyComponentProof(r, "SourceBody") # {}
        BY <1>3 DEF Explained, BodyMissing
    <2>4. object[s] \notin {"deleting", "deleted"}
        <3>1. s \in Sources
            BY <1>1
        <3>2. SUFFICES ASSUME NEW q \in plan, s \in Targets(q).sources PROVE FALSE
            BY <3>1 DEF Remains, Retiring
        <3>3. q \in Stored /\ r \in Stored /\ q # r
            BY DEF Remains, Retiring
        <3>4. QED
            BY <1>3, <3>2, <3>3 DEF Apart
    <2>5. object[s] \in {"none", "referenced", "deleting", "deleted"}
        BY <1>1 DEF TypeOK
    <2> QED
        BY <2>1, <2>2, <2>3, <2>4, <2>5
<1>7. ResumeFragments(r)
    <2>1. ASSUME NEW s \in Targets(r).sources, NEW m \in Memories, s \in mlink[m]
          PROVE  m \in Targets(r).memories
        <3>1. memory[m] # "deleted"
            BY <2>1 DEF DeletedMeansGone
        <3> QED
            BY <1>3, <1>4, <2>1, <3>1 DEF Reached
    <2> QED
        BY <1>3, <2>1 DEF ResumeFragments, Explained
<1>8. ResumeMemories(r)
    <2>1. \A m \in Targets(r).memories : Closed(memory[m])
        BY <1>1, <1>3 DEF TargetsClosed, TypeOK, RowStates, Closed
    <2> QED
        BY <1>3, <1>4, <2>1 DEF ResumeMemories, Reached
<1>9. ResumeProposals(r)
    <2>1. ASSUME NEW p \in Proposals, plink[p] \cap Targets(r).sources # {} PROVE p \in Targets(r).proposals
        <3>1. proposal[p] # "deleted"
            BY <2>1 DEF DeletedMeansGone
        <3> QED
            BY <1>3, <1>5, <2>1, <3>1 DEF Reached
    <2>2. DependentProposals(r) \subseteq Targets(r).proposals
        BY <1>3, <2>1 DEF DependentProposals, Reached
    <2>3. \A p \in Targets(r).proposals : Closed(proposal[p])
        BY <1>1, <1>3 DEF TargetsClosed, TypeOK, RowStates, Closed
    <2>4. \A p \in Targets(r).proposals : p \notin DependentProposals(r) =>
             LegacyComponentProof(r, "MemoryProposal") # {} /\ p \in redacted /\ plink[p] = {}
        BY <1>1, <1>3 DEF Explained, DependentProposals
    <2> QED
        BY <2>2, <2>3, <2>4 DEF ResumeProposals
<1> QED
    BY <1>6, <1>7, <1>8, <1>9 DEF ValidateResume

(* The vault accepts every history the plain library can leave: after every *)
(* step its inventory verifies, whatever crashed, failed or was retried,    *)
(* and validate_resume of legacy_deletion.rs never refuses the oldest       *)
(* request that is not deleted yet.                                         *)
THEOREM GenuineHistoriesAreAccepted == Spec => []HistoryAccepted
<1>1. Inv => HistoryAccepted
    BY GenuineHistories DEF Inv, HistoryAccepted
<1> QED
    BY <1>1, LegacyInvariance, PTL

(* A row that says deleted has nothing left, in the plain library and in    *)
(* the vault: retain_minimal_audit writes the word only after every         *)
(* component of the same attempt succeeded, and nothing comes back.         *)
THEOREM DeletedIsGone == Spec => []DeletedMeansGone
<1>1. Inv => DeletedMeansGone
    BY DEF Inv
<1> QED
    BY <1>1, LegacyInvariance, PTL
=============================================================================
