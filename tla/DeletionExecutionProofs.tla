----------------------- MODULE DeletionExecutionProofs -----------------------
(***************************************************************************)
(* What DeletionExecution promises, proved for any hosts, requests,        *)
(* objects, number of components and number of attempts.                   *)
(*                                                                         *)
(* The receipts are true because of what a host may assume in each of its  *)
(* sessions about what other hosts did since the last one: Inv says what   *)
(* the session lock guarantees, what the evidence a host read before the   *)
(* execution still means when it stores its own, and how the results of    *)
(* the running attempt relate to what is stored and to has_failed.         *)
(***************************************************************************)
EXTENDS DeletionExecution, SequenceTheorems, TLAPS

InSession == {"retire", "run", "stored"}

(* The lock is held by the one host that is in a session; a host that works *)
(* has a prepared request, and one that executes a registered one.          *)
Sessions ==
    /\ \A h \in Hosts : lock = h <=> host[h].pc \in InSession
    /\ \A h \in Hosts :
         /\ host[h].pc # "idle" => host[h].req # NoRequest
         /\ host[h].req # NoRequest => frozen[host[h].req] # {}
         /\ host[h].pc \in {"retire", "run"} => host[h].req \in registered
         /\ host[h].pc = "run" => log[host[h].req] # <<>>

(* The registered request, if there is one, covers all there is.            *)
Ownership ==
    /\ OneRequestOwnsLineage
    /\ \A r \in registered : frozen[r] # {}
    /\ registered = {} => \A o \in Objects : state[o] \in {"absent", "active"}
    /\ \A r \in registered, o \in Objects :
         /\ o \in frozen[r] <=> state[o] # "absent"
         /\ state[o] # "active"

(* A request that was attempted is registered and its objects are retired;  *)
(* what a component did is not undone.                                      *)
Attempts ==
    \A r \in Requests :
        /\ log[r] # <<>> => r \in registered /\ r \in retired
        /\ \A i \in 1..Len(log[r]) : \A c \in Components :
             log[r][i].result[c] \in {"done", "not_found"} => c \notin residue[r]

(* The attempt that runs has results up to the next component, and          *)
(* has_failed says whether one of them is a failure.                        *)
Running ==
    \A h \in Hosts : host[h].pc = "run" =>
        LET x == Current(host[h].req).result IN
        /\ \A c \in Components : x[c] # "none" <=> c < host[h].next
        /\ host[h].failed <=> \E c \in Components : x[c] = "failed"

(* What a host carries from one session to the next: the results of a whole *)
(* attempt, and evidence that was not completed.                            *)
Carried ==
    \A h \in Hosts : host[h].pc # "idle" =>
        /\ host[h].pc \in {"store", "stored"} => \A c \in Components : host[h].result[c] # "none"
        /\ host[h].prev # 0 => \E i \in 1..Len(receipts[host[h].req]) :
                                  receipts[host[h].req][i].ordinal = host[h].prev
        /\ \A i \in 1..Len(receipts[host[h].req]) :
             receipts[host[h].req][i].ordinal = host[h].prev
               => ~receipts[host[h].req][i].completed

(* deletion_state is what the last audited attempt found; that there is a   *)
(* last one is part of it.                                                  *)
AuditedState ==
    \A r \in registered :
        \/ Audited(r) = {} /\ \A o \in frozen[r] : state[o] = "pending"
        \/ \E last \in Audited(r) :
             /\ \A j \in Audited(r) : j <= last
             /\ \A o \in frozen[r] :
                  state[o] = IF Succeeded(log[r][last].result) THEN "deleted" ELSE "failed"

Inv == /\ TypeOK
       /\ Sessions
       /\ Ownership
       /\ Attempts
       /\ Running
       /\ Carried
       /\ ReceiptMatchesAttempt
       /\ ReceiptsFormChain
       /\ AuditedState
-----------------------------------------------------------------------------
(* What the two operations on the log do.                                   *)
LEMMA InsertEffect ==
    ASSUME TypeOK, NEW r \in Requests, log[r] # <<>>,
           NEW c \in Components, NEW v \in Outcomes, Insert(r, c, v)
    PROVE  /\ log' \in [Requests -> Seq(Attempt)]
           /\ \A q \in Requests : q # r => log'[q] = log[q]
           /\ Len(log'[r]) = Len(log[r])
           /\ \A i \in 1..Len(log[r]) : i # Len(log[r]) => log'[r][i] = log[r][i]
           /\ Current(r)'.at = Current(r).at
           /\ Current(r)'.result = [Current(r).result EXCEPT ![c] = v]
<1> DEFINE n == Len(log[r])
           old == log[r][n]
           new == [old EXCEPT !.result[c] = v]
<1>1. log[r] \in Seq(Attempt) /\ n \in 1..Len(log[r])
  BY DEF TypeOK
<1>2. old \in Attempt
  BY <1>1
<1>3. /\ new \in Attempt
      /\ new.at = old.at
      /\ new.result = [old.result EXCEPT ![c] = v]
  BY <1>2 DEF Attempt, Results
<1>4. log' = [log EXCEPT ![r] = [log[r] EXCEPT ![n] = new]]
  BY DEF Insert, TypeOK
<1> HIDE DEF new, old
<1>5. [log[r] EXCEPT ![n] = new] \in Seq(Attempt)
  BY <1>1, <1>3, ExceptSeq
<1>6. /\ Len([log[r] EXCEPT ![n] = new]) = n
      /\ \A i \in 1..n : [log[r] EXCEPT ![n] = new][i] = IF i = n THEN new ELSE log[r][i]
  BY <1>1, <1>3, ExceptSeq
<1>7. log'[r] = [log[r] EXCEPT ![n] = new] /\ log' \in [Requests -> Seq(Attempt)]
  BY <1>4, <1>5 DEF TypeOK
<1>8. \A q \in Requests : q # r => log'[q] = log[q]
  BY <1>4 DEF TypeOK
<1> QED
  BY <1>1, <1>3, <1>6, <1>7, <1>8 DEF Current, old

LEMMA AppendEffect ==
    ASSUME TypeOK, NEW r \in Requests, NEW a \in Attempt,
           log' = [log EXCEPT ![r] = Append(@, a)]
    PROVE  /\ log' \in [Requests -> Seq(Attempt)]
           /\ \A q \in Requests : q # r => log'[q] = log[q]
           /\ Len(log'[r]) = Len(log[r]) + 1
           /\ \A i \in 1..Len(log[r]) : log'[r][i] = log[r][i]
           /\ log'[r][Len(log[r]) + 1] = a
<1>1. log \in [Requests -> Seq(Attempt)] /\ log[r] \in Seq(Attempt)
  BY DEF TypeOK
<1>2. /\ Append(log[r], a) \in Seq(Attempt)
      /\ Len(Append(log[r], a)) = Len(log[r]) + 1
      /\ \A i \in 1..Len(log[r]) : Append(log[r], a)[i] = log[r][i]
      /\ Append(log[r], a)[Len(log[r]) + 1] = a
  BY <1>1, AppendProperties
<1>3. log'[r] = Append(log[r], a) /\ \A q \in Requests : q # r => log'[q] = log[q]
  BY <1>1
<1>4. log' \in [Requests -> Seq(Attempt)]
  BY <1>1, <1>2
<1> QED
  BY <1>2, <1>3, <1>4

LEMMA IdleFacts ==
    ASSUME NEW r \in Requests \cup {NoRequest}
    PROVE  /\ Idle(r) \in HostState
           /\ Idle(r).pc = "idle" /\ Idle(r).req = r
  BY ExecutionAssumption DEF Idle, HostState, NoResults, Results, Outcomes, Components

-----------------------------------------------------------------------------
(* The parts of the invariant that only speak of the database.              *)
LEMMA DatabaseStutter ==
    Inv /\ UNCHANGED <<dbVars, frozen>> =>
        (Ownership /\ Attempts /\ ReceiptMatchesAttempt /\ ReceiptsFormChain /\ AuditedState)'
  BY DEF Inv, dbVars, Ownership, OneRequestOwnsLineage, Attempts, ReceiptMatchesAttempt,
         ReceiptsFormChain, AuditedState, Audited

(* A host that ends its operation, whatever it was doing, gives up its      *)
(* session and keeps at most the request.                                   *)
LEMMA GoesIdleInv ==
    ASSUME Inv, NEW h \in Hosts, NEW r \in Requests \cup {NoRequest},
           r # NoRequest => frozen[r] # {},
           host' = [host EXCEPT ![h] = Idle(r)],
           lock' = IF lock = h THEN NoHost ELSE lock,
           UNCHANGED <<dbVars, frozen>>
    PROVE  Inv'
<1>1. /\ host' \in [Hosts -> HostState]
      /\ host'[h].pc = "idle" /\ host'[h].req = r
      /\ \A g \in Hosts : g # h => host'[g] = host[g]
  BY IdleFacts DEF Inv, TypeOK
<1>2. TypeOK'
  BY <1>1 DEF Inv, TypeOK, dbVars
<1>3. Sessions'
  BY <1>1, ExecutionAssumption DEF Inv, Sessions, InSession, dbVars
<1>4. Running' /\ Carried'
  BY <1>1 DEF Inv, Running, Carried, Current, dbVars
<1> QED
  BY <1>2, <1>3, <1>4, DatabaseStutter DEF Inv

LEMMA EndsInv ==
    ASSUME Inv, NEW h \in Hosts,
           \/ \E r \in Requests : Recover(h, r)
           \/ ReturnReceipt(h) \/ ReturnEvidence(h) \/ Refuse(h) \/ Crash(h)
    PROVE  Inv'
<1>1. NoRequest \in Requests \cup {NoRequest} /\ host[h].req \in Requests \cup {NoRequest}
      /\ (host[h].req # NoRequest => frozen[host[h].req] # {})
  BY DEF Inv, TypeOK, Sessions, HostState
<1>2. ASSUME NEW r \in Requests, Recover(h, r)
      PROVE  Inv'
  BY <1>2, GoesIdleInv, ExecutionAssumption DEF Recover, Inv, Ownership
<1>3. CASE ReturnReceipt(h)
  BY <1>1, <1>3, GoesIdleInv, ExecutionAssumption DEF ReturnReceipt
<1>4. CASE ReturnEvidence(h)
  <2>1. lock = h
    BY <1>4 DEF Inv, Sessions, InSession, ReturnEvidence
  <2>2. CASE Succeeded(host[h].result)
    BY <1>1, <1>4, <2>1, <2>2, GoesIdleInv DEF ReturnEvidence, Inv, TypeOK
  <2>3. CASE ~Succeeded(host[h].result)
    BY <1>1, <1>4, <2>1, <2>3, GoesIdleInv DEF ReturnEvidence, Inv, TypeOK
  <2> QED
    BY <2>2, <2>3
<1>5. CASE Refuse(h)
  BY <1>1, <1>5, GoesIdleInv DEF Refuse
<1>6. CASE Crash(h)
  BY <1>1, <1>6, GoesIdleInv DEF Crash
<1> QED
  BY <1>2, <1>3, <1>4, <1>5, <1>6

LEMMA LatestType ==
    ASSUME TypeOK, NEW r \in Requests
    PROVE  /\ Latest(r) \in Nat
           /\ Latest(r) # 0 => \E i \in 1..Len(receipts[r]) : receipts[r][i].ordinal = Latest(r)
<1>1. receipts[r] \in Seq(Receipt)
  BY DEF TypeOK
<1>2. CASE receipts[r] = <<>>
  BY <1>2 DEF Latest
<1>3. CASE receipts[r] # <<>>
  <2>1. Len(receipts[r]) \in 1..Len(receipts[r])
    BY <1>1, <1>3
  <2>2. receipts[r][Len(receipts[r])] \in Receipt
    BY <1>1, <2>1
  <2> QED
    BY <1>3, <2>1, <2>2 DEF Latest, Receipt
<1> QED
  BY <1>2, <1>3

LEMMA ReadPreviousInv ==
    ASSUME Inv, NEW h \in Hosts, NEW t \in Times, ReadPrevious(h, t)
    PROVE  Inv'
<1> DEFINE r == host[h].req
           new == [Idle(r) EXCEPT !.pc = "execute", !.prev = Latest(r), !.at = t]
<1>1. /\ r \in Requests /\ lock = NoHost /\ host[h].pc = "idle" /\ ~Completed(r)
      /\ lock' = lock /\ UNCHANGED <<dbVars, frozen>>
      /\ host' = [host EXCEPT ![h] = new]
  BY DEF Inv, TypeOK, HostState, ReadPrevious
<1>2. /\ new \in HostState
      /\ new.pc = "execute" /\ new.req = r /\ new.prev = Latest(r)
  <2>1. ASSUME NEW x \in HostState, NEW p \in Nat, x.req = r
        PROVE  LET y == [x EXCEPT !.pc = "execute", !.prev = p, !.at = t]
               IN  y \in HostState /\ y.pc = "execute" /\ y.req = r /\ y.prev = p
    BY <2>1 DEF HostState
  <2>2. Idle(r) \in HostState /\ Idle(r).req = r /\ Latest(r) \in Nat
    BY <1>1, IdleFacts, LatestType DEF Inv
  <2> QED
    BY <2>1, <2>2, Zenon
<1> HIDE DEF new
<1>3. /\ host' \in [Hosts -> HostState]
      /\ host'[h] = new
      /\ \A g \in Hosts : g # h => host'[g] = host[g]
  BY <1>1, <1>2 DEF Inv, TypeOK
<1>4. TypeOK'
  BY <1>1, <1>3 DEF Inv, TypeOK, dbVars
<1>5. Sessions'
  BY <1>1, <1>2, <1>3, ExecutionAssumption DEF Inv, Sessions, InSession, dbVars
<1>6. Running'
  BY <1>1, <1>2, <1>3 DEF Inv, Running, Current, dbVars
<1>7. Carried'
  <2>1. \A i \in 1..Len(receipts[r]) : ~receipts[r][i].completed
    BY <1>1 DEF Inv, ReceiptsFormChain, Completed, TypeOK
  <2>2. receipts' = receipts
    BY <1>1 DEF dbVars
  <2>3. /\ host'[h].pc = "execute" /\ host'[h].req = r /\ host'[h].prev = Latest(r)
        /\ Latest(r) # 0 => \E i \in 1..Len(receipts[r]) : receipts[r][i].ordinal = Latest(r)
    BY <1>1, <1>2, <1>3, LatestType DEF Inv
  <2>4. \A g \in Hosts : g # h => host'[g] = host[g]
    BY <1>3
  <2>5. ASSUME NEW g \in Hosts, g # h, host'[g].pc # "idle"
        PROVE  /\ host'[g].pc \in {"store", "stored"} =>
                    \A c \in Components : host'[g].result[c] # "none"
               /\ host'[g].prev # 0 => \E i \in 1..Len(receipts[host'[g].req]) :
                       receipts[host'[g].req][i].ordinal = host'[g].prev
               /\ \A i \in 1..Len(receipts[host'[g].req]) :
                    receipts[host'[g].req][i].ordinal = host'[g].prev
                      => ~receipts[host'[g].req][i].completed
    BY <2>4, <2>5 DEF Inv, Carried
  <2>6. /\ host'[h].pc \notin {"store", "stored"}
        /\ host'[h].prev # 0 => \E i \in 1..Len(receipts[host'[h].req]) :
                receipts[host'[h].req][i].ordinal = host'[h].prev
        /\ \A i \in 1..Len(receipts[host'[h].req]) : ~receipts[host'[h].req][i].completed
    BY <2>1, <2>3
  <2> QED
    BY <2>2, <2>5, <2>6, Zenon DEF Carried
<1> QED
  BY <1>1, <1>4, <1>5, <1>6, <1>7, DatabaseStutter DEF Inv

LEMMA EndExecutionInv ==
    ASSUME Inv, NEW h \in Hosts, EndExecution(h)
    PROVE  Inv'
<1> DEFINE r == host[h].req
<1>1. /\ r \in Requests /\ lock = h /\ log[r] # <<>> /\ host[h] \in HostState
      /\ host[h].pc = "run" /\ host[h].next = N + 1
      /\ lock' = NoHost /\ UNCHANGED <<dbVars, frozen>>
  BY DEF Inv, TypeOK, HostState, EndExecution, Sessions, InSession
<1>2. Current(r) \in Attempt
  BY <1>1 DEF Inv, TypeOK, Current
<1>3. /\ host' \in [Hosts -> HostState]
      /\ \A g \in Hosts : g # h => host'[g] = host[g]
  BY <1>1, <1>2 DEF Inv, TypeOK, EndExecution, HostState, Attempt
<1>4. /\ host'[h].pc = "store" /\ host'[h].req = r /\ host'[h].prev = host[h].prev
      /\ host'[h].result = Current(r).result
  BY <1>1, <1>2 DEF Inv, TypeOK, EndExecution, HostState, Attempt
<1>5. TypeOK'
  BY <1>1, <1>3 DEF Inv, TypeOK, dbVars
<1>6. Sessions'
  BY <1>1, <1>3, <1>4, ExecutionAssumption DEF Inv, Sessions, InSession, dbVars
<1>7. Running'
  <2>1. \A g \in Hosts : host'[g].pc # "run"
    <3>1. \A g \in Hosts : g # h => host[g].pc # "run"
      BY <1>1 DEF Inv, Sessions, InSession
    <3> QED
      BY <1>3, <1>4, <3>1
  <2> QED
    BY <2>1 DEF Running
<1>8. Carried'
  <2>1. \A c \in Components : Current(r).result[c] # "none"
    BY <1>1, ExecutionAssumption DEF Inv, Running, Components
  <2> QED
    BY <1>1, <1>3, <1>4, <2>1 DEF Inv, Carried, dbVars
<1> QED
  BY <1>1, <1>5, <1>6, <1>7, <1>8, DatabaseStutter DEF Inv

-----------------------------------------------------------------------------
(* Nothing is captured and no closure is resolved for a lineage that a      *)
(* registered request covers.                                               *)
LEMMA CaptureInv ==
    ASSUME Inv, NEW o \in Objects, Capture(o)
    PROVE  Inv'
<1>1. /\ \A p \in Objects : state[p] \in {"absent", "active"}
      /\ state' = [state EXCEPT ![o] = "active"]
      /\ UNCHANGED <<registered, retired, residue, log, receipts, lock, frozen, host>>
  BY DEF Capture
<1>2. registered = {}
  BY <1>1 DEF Inv, Ownership, TypeOK
<1>3. TypeOK' /\ Sessions'
  BY <1>1 DEF Inv, TypeOK, Sessions
<1>4. Ownership'
  BY <1>1, <1>2 DEF Inv, TypeOK, Ownership, OneRequestOwnsLineage
<1>5. Attempts' /\ Running' /\ Carried'
  BY <1>1 DEF Inv, Attempts, Running, Current, Carried
<1>6. ReceiptMatchesAttempt' /\ ReceiptsFormChain' /\ AuditedState'
  BY <1>1, <1>2 DEF Inv, ReceiptMatchesAttempt, ReceiptsFormChain, AuditedState
<1> QED
  BY <1>3, <1>4, <1>5, <1>6 DEF Inv

LEMMA PrepareInv ==
    ASSUME Inv, NEW h \in Hosts, NEW r \in Requests, Prepare(h, r)
    PROVE  Inv'
<1>1. /\ lock = NoHost /\ frozen[r] = {} /\ Active # {} /\ host[h].pc = "idle"
      /\ UNCHANGED <<state, registered, retired, residue, log, receipts, lock>>
  BY DEF Prepare, dbVars
<1>2. r \notin registered /\ \A g \in Hosts : host[g].req # r
  BY <1>1, ExecutionAssumption DEF Inv, Ownership, Sessions
<1>3. /\ frozen' \in [Requests -> SUBSET Objects]
      /\ frozen'[r] # {}
      /\ \A q \in Requests : q # r => frozen'[q] = frozen[q]
  BY <1>1 DEF Inv, TypeOK, Prepare, Active
<1>4. /\ host' \in [Hosts -> HostState]
      /\ host'[h].pc = "idle" /\ host'[h].req = r
      /\ \A g \in Hosts : g # h => host'[g] = host[g]
  BY IdleFacts DEF Inv, TypeOK, Prepare
<1>5. TypeOK'
  BY <1>1, <1>3, <1>4 DEF Inv, TypeOK
<1>6. Sessions'
  <2>1. \A g \in Hosts : host[g].req \in Requests \cup {NoRequest}
    BY DEF Inv, TypeOK, HostState
  <2> QED
    BY <1>1, <1>2, <1>3, <1>4, <2>1, ExecutionAssumption DEF Inv, Sessions, InSession
<1>7. Ownership' /\ AuditedState'
  <2>1. \A q \in registered : frozen'[q] = frozen[q]
    BY <1>2, <1>3 DEF Inv, TypeOK
  <2>2. Ownership'
    BY <1>1, <2>1 DEF Inv, Ownership, OneRequestOwnsLineage
  <2>3. \A q : Audited(q)' = Audited(q)
    BY <1>1 DEF Audited
  <2>4. AuditedState'
    BY <1>1, <2>1, <2>3 DEF Inv, AuditedState
  <2> QED
    BY <2>2, <2>4
<1>8. Attempts' /\ Running' /\ Carried'
  BY <1>1, <1>4 DEF Inv, Attempts, Running, Current, Carried
<1>9. ReceiptMatchesAttempt' /\ ReceiptsFormChain'
  BY <1>1 DEF Inv, ReceiptMatchesAttempt, ReceiptsFormChain
<1> QED
  BY <1>5, <1>6, <1>7, <1>8, <1>9 DEF Inv

-----------------------------------------------------------------------------
(* The execution session.                                                   *)
LEMMA BeginDeletionInv ==
    ASSUME Inv, NEW h \in Hosts, BeginDeletion(h)
    PROVE  Inv'
<1> DEFINE r == host[h].req
<1>1. /\ lock = NoHost /\ host[h].pc = "execute" /\ host[h] \in HostState
      /\ r \in Requests /\ frozen[r] # {}
      /\ lock' = h /\ UNCHANGED <<retired, residue, log, receipts, frozen>>
  BY DEF Inv, TypeOK, HostState, Sessions, BeginDeletion
<1>2. /\ host' \in [Hosts -> HostState]
      /\ host'[h].pc = "retire" /\ host'[h].req = r /\ host'[h].prev = host[h].prev
      /\ \A g \in Hosts : g # h => host'[g] = host[g]
  BY <1>1 DEF Inv, TypeOK, BeginDeletion, HostState
<1>3. Running' /\ Carried'
  <2>1. Running'
    BY <1>1, <1>2 DEF Inv, Running, Current
  <2>2. Carried'
    BY <1>1, <1>2 DEF Inv, Carried
  <2> QED
    BY <2>1, <2>2
<1>4. ReceiptMatchesAttempt' /\ ReceiptsFormChain'
  BY <1>1 DEF Inv, ReceiptMatchesAttempt, ReceiptsFormChain
<1>5. CASE r \in registered
  <2>1. UNCHANGED <<registered, state>>
    BY <1>5 DEF BeginDeletion
  <2>2. TypeOK'
    BY <1>1, <1>2, <2>1 DEF Inv, TypeOK
  <2>3. Sessions'
    BY <1>1, <1>2, <1>5, <2>1, ExecutionAssumption DEF Inv, Sessions, InSession
  <2>4. Ownership' /\ Attempts' /\ AuditedState'
    BY <1>1, <2>1, DatabaseStutter DEF dbVars
  <2> QED
    BY <1>3, <1>4, <2>2, <2>3, <2>4 DEF Inv
<1>6. CASE r \notin registered
  <2>1. /\ ~DeletionInProgress /\ frozen[r] = Active
        /\ registered' = registered \cup {r}
        /\ state' = [o \in Objects |-> IF o \in frozen[r] THEN "pending" ELSE state[o]]
    BY <1>6 DEF BeginDeletion, ValidateSemanticTargets
  <2>2. registered = {}
    <3> SUFFICES ASSUME NEW q \in registered PROVE FALSE
      OBVIOUS
    <3>1. \A o \in Objects : state[o] # "active"
      BY DEF Inv, Ownership
    <3> QED
      BY <1>1, <2>1, <3>1 DEF Active
  <2>3. TypeOK'
    BY <1>1, <1>2, <2>1 DEF Inv, TypeOK
  <2>4. Sessions'
    BY <1>1, <1>2, <2>1, ExecutionAssumption DEF Inv, Sessions, InSession
  <2>5. Ownership'
    BY <1>1, <2>1, <2>2 DEF Inv, TypeOK, Ownership, OneRequestOwnsLineage, Active
  <2>6. log[r] = <<>>
    BY <1>1, <1>6 DEF Inv, Attempts
  <2>7. Attempts'
    BY <1>1, <2>1 DEF Inv, Attempts
  <2>8. AuditedState'
    BY <1>1, <2>1, <2>2, <2>6 DEF Inv, TypeOK, AuditedState, Audited
  <2> QED
    BY <1>3, <1>4, <2>3, <2>4, <2>5, <2>7, <2>8 DEF Inv
<1> QED
  BY <1>5, <1>6

LEMMA RetireObjectsInv ==
    ASSUME Inv, NEW h \in Hosts, RetireObjects(h)
    PROVE  Inv'
<1>1. /\ retired' = retired \cup {host[h].req}
      /\ UNCHANGED <<state, registered, residue, log, receipts, lock, frozen, host>>
      /\ host[h].req \in Requests
  BY DEF RetireObjects, Inv, Sessions, TypeOK, HostState
<1>2. TypeOK' /\ Sessions' /\ Attempts'
  BY <1>1 DEF Inv, TypeOK, Sessions, Attempts
<1>3. Ownership' /\ Running' /\ Carried'
  BY <1>1 DEF Inv, Ownership, OneRequestOwnsLineage, Running, Current, Carried
<1>4. ReceiptMatchesAttempt' /\ ReceiptsFormChain' /\ AuditedState'
  BY <1>1 DEF Inv, ReceiptMatchesAttempt, ReceiptsFormChain, AuditedState, Audited
<1> QED
  BY <1>2, <1>3, <1>4 DEF Inv

(* The record of the host that takes a step inside the execution session.   *)
LEMMA StartedRecord ==
    ASSUME NEW x \in HostState
    PROVE  LET y == [x EXCEPT !.pc = "run", !.next = 1, !.failed = FALSE]
           IN  /\ y \in HostState /\ y.pc = "run" /\ y.req = x.req /\ y.prev = x.prev
               /\ y.next = 1 /\ y.failed = FALSE
<1>1. 1 \in 1..(N + 1)
  BY ExecutionAssumption
<1> QED
  BY <1>1, Zenon DEF HostState

LEMMA AdvancedRecord ==
    ASSUME NEW x \in HostState, NEW f \in BOOLEAN, x.next <= N
    PROVE  LET y == [x EXCEPT !.next = x.next + 1, !.failed = f]
           IN  /\ y \in HostState /\ y.pc = x.pc /\ y.req = x.req /\ y.prev = x.prev
               /\ y.next = x.next + 1 /\ y.failed = f
<1>1. x.next + 1 \in 1..(N + 1)
  BY ExecutionAssumption DEF HostState
<1> QED
  BY <1>1, Zenon DEF HostState

LEMMA HostStarts ==
    ASSUME host \in [Hosts -> HostState], NEW h \in Hosts,
           host' = [host EXCEPT ![h] = [@ EXCEPT !.pc = "run", !.next = 1, !.failed = FALSE]]
    PROVE  /\ host' \in [Hosts -> HostState]
           /\ host'[h].pc = "run" /\ host'[h].req = host[h].req
           /\ host'[h].prev = host[h].prev
           /\ host'[h].next = 1 /\ host'[h].failed = FALSE
           /\ \A g \in Hosts : g # h => host'[g] = host[g]
<1> DEFINE new == [host[h] EXCEPT !.pc = "run", !.next = 1, !.failed = FALSE]
<1>1. host' = [host EXCEPT ![h] = new]
  BY Zenon
<1>2. host[h] \in HostState
  BY Zenon
<1>3. /\ new \in HostState /\ new.pc = "run" /\ new.req = host[h].req
      /\ new.prev = host[h].prev /\ new.next = 1 /\ new.failed = FALSE
  BY <1>2, StartedRecord, Zenon
<1> HIDE DEF new
<1>4. host'[h] = new /\ host' \in [Hosts -> HostState]
      /\ \A g \in Hosts : g # h => host'[g] = host[g]
  BY <1>1, <1>3, Zenon
<1> QED
  BY <1>3, <1>4, Zenon

LEMMA HostAdvances ==
    ASSUME host \in [Hosts -> HostState], NEW h \in Hosts, NEW f \in BOOLEAN,
           host[h].next <= N, Advance(h, f)
    PROVE  /\ host' \in [Hosts -> HostState]
           /\ host'[h].pc = host[h].pc /\ host'[h].req = host[h].req
           /\ host'[h].prev = host[h].prev
           /\ host'[h].next = host[h].next + 1 /\ host'[h].failed = f
           /\ \A g \in Hosts : g # h => host'[g] = host[g]
<1> DEFINE new == [host[h] EXCEPT !.next = host[h].next + 1, !.failed = f]
<1>1. host' = [host EXCEPT ![h] = new]
  BY Zenon DEF Advance
<1>2. host[h] \in HostState
  BY Zenon
<1>3. /\ new \in HostState /\ new.pc = host[h].pc /\ new.req = host[h].req
      /\ new.prev = host[h].prev /\ new.next = host[h].next + 1 /\ new.failed = f
  BY <1>2, AdvancedRecord, ZenonT(60)
<1> HIDE DEF new
<1>4. host'[h] = new /\ host' \in [Hosts -> HostState]
      /\ \A g \in Hosts : g # h => host'[g] = host[g]
  BY <1>1, <1>3, Zenon
<1> QED
  BY <1>3, <1>4, Zenon

(* A host that only moves on inside its session carries what it carried,    *)
(* and deletion_state still follows an audit whose results did not change.  *)
LEMMA CarriedStep ==
    ASSUME Inv, NEW h \in Hosts, host[h].pc # "idle", receipts' = receipts,
           host'[h].req = host[h].req, host'[h].prev = host[h].prev,
           host'[h].pc \notin {"store", "stored"},
           \A g \in Hosts : g # h => host'[g] = host[g]
    PROVE  Carried'
<1> SUFFICES ASSUME NEW g \in Hosts, host'[g].pc # "idle"
             PROVE  /\ host'[g].pc \in {"store", "stored"} =>
                         \A c \in Components : host'[g].result[c] # "none"
                    /\ host'[g].prev # 0 => \E i \in 1..Len(receipts[host'[g].req]) :
                            receipts[host'[g].req][i].ordinal = host'[g].prev
                    /\ \A i \in 1..Len(receipts[host'[g].req]) :
                         receipts[host'[g].req][i].ordinal = host'[g].prev
                           => ~receipts[host'[g].req][i].completed
  BY DEF Carried
<1>1. CASE g = h
  BY <1>1 DEF Inv, Carried
<1>2. CASE g # h
  BY <1>2 DEF Inv, Carried
<1> QED
  BY <1>1, <1>2

LEMMA AuditedStep ==
    ASSUME Inv, registered' = registered, frozen' = frozen, state' = state,
           \A q \in Requests : /\ Audited(q)' = Audited(q)
                               /\ \A i \in Audited(q) : log'[q][i] = log[q][i]
    PROVE  AuditedState'
<1> SUFFICES ASSUME NEW r \in registered
             PROVE  \/ Audited(r)' = {} /\ \A o \in frozen[r] : state[o] = "pending"
                    \/ \E last \in Audited(r)' :
                         /\ \A j \in Audited(r)' : j <= last
                         /\ \A o \in frozen[r] : state[o] =
                              IF Succeeded(log'[r][last].result) THEN "deleted" ELSE "failed"
  BY DEF AuditedState
<1>1. Audited(r)' = Audited(r) /\ \A i \in Audited(r) : log'[r][i] = log[r][i]
  BY DEF Inv, TypeOK
<1>2. CASE Audited(r) = {} /\ \A o \in frozen[r] : state[o] = "pending"
  BY <1>1, <1>2
<1>3. CASE \E last \in Audited(r) :
             /\ \A j \in Audited(r) : j <= last
             /\ \A o \in frozen[r] :
                  state[o] = IF Succeeded(log[r][last].result) THEN "deleted" ELSE "failed"
  BY <1>1, <1>3
<1> QED
  BY <1>2, <1>3 DEF Inv, AuditedState

LEMMA ReceiptsStep ==
    ASSUME Inv, receipts' = receipts,
           \A q \in Requests : \A i \in DOMAIN receipts[q] :
             LET k == receipts[q][i].ordinal
             IN  k \in DOMAIN log[q] => k \in DOMAIN log'[q] /\ log'[q][k] = log[q][k]
    PROVE  ReceiptMatchesAttempt'
<1> SUFFICES ASSUME NEW q \in Requests, NEW i \in DOMAIN receipts[q]
             PROVE  LET e == receipts[q][i] IN
                    /\ e.ordinal \in DOMAIN log'[q]
                    /\ \A c \in Components : log'[q][e.ordinal].result[c] # "none"
                    /\ e.completed <=> Succeeded(log'[q][e.ordinal].result)
  BY DEF ReceiptMatchesAttempt
<1> DEFINE e == receipts[q][i]
<1>1. /\ e.ordinal \in DOMAIN log[q]
      /\ \A c \in Components : log[q][e.ordinal].result[c] # "none"
      /\ e.completed <=> Succeeded(log[q][e.ordinal].result)
  BY DEF Inv, ReceiptMatchesAttempt
<1>2. e.ordinal \in DOMAIN log'[q] /\ log'[q][e.ordinal] = log[q][e.ordinal]
  BY <1>1
<1> QED
  BY <1>1, <1>2, Zenon

LEMMA BeginAttemptInv ==
    ASSUME Inv, NEW h \in Hosts, BeginAttempt(h)
    PROVE  Inv'
<1>0. PICK r \in Requests : r = host[h].req
  BY DEF Inv, TypeOK, HostState, Sessions, BeginAttempt
<1> DEFINE n == Len(log[r])
           fresh == [at |-> host[h].at, result |-> NoResults]
<1>1. /\ host[h].pc = "retire" /\ lock = h /\ r \in retired /\ r \in registered
      /\ UNCHANGED <<state, registered, retired, residue, receipts, lock, frozen>>
  BY <1>0 DEF Inv, Sessions, InSession, BeginAttempt
<1>2. fresh \in Attempt /\ fresh.result = NoResults
  BY DEF Inv, TypeOK, HostState, Attempt, NoResults, Results, Outcomes
<1>3. log' = [log EXCEPT ![r] = Append(@, fresh)]
  BY <1>0 DEF BeginAttempt
<1> HIDE DEF fresh
<1>4. /\ log' \in [Requests -> Seq(Attempt)]
      /\ \A q \in Requests : q # r => log'[q] = log[q]
      /\ Len(log'[r]) = n + 1
      /\ \A i \in 1..n : log'[r][i] = log[r][i]
      /\ log'[r][n + 1] = fresh
  BY <1>2, <1>3, AppendEffect DEF Inv
<1>5. n \in Nat /\ log'[r] # <<>>
  BY <1>4 DEF Inv, TypeOK
<1>6. /\ host' \in [Hosts -> HostState]
      /\ host'[h].pc = "run" /\ host'[h].req = r /\ host'[h].prev = host[h].prev
      /\ host'[h].next = 1 /\ host'[h].failed = FALSE
      /\ \A g \in Hosts : g # h => host'[g] = host[g]
  BY <1>0, HostStarts DEF Inv, TypeOK, BeginAttempt
<1>7. \A g \in Hosts : g # h => host[g].pc # "run"
  BY <1>1 DEF Inv, Sessions, InSession
<1>8. TypeOK'
  BY <1>1, <1>4, <1>6 DEF Inv, TypeOK
<1>9. Sessions'
  BY <1>0, <1>1, <1>5, <1>6, <1>7 DEF Inv, Sessions, InSession
<1>10. Ownership' /\ ReceiptsFormChain'
  BY <1>1 DEF Inv, Ownership, OneRequestOwnsLineage, ReceiptsFormChain
<1>11. \A c \in Components : fresh.result[c] = "none"
  BY <1>2 DEF NoResults
<1>12. Attempts'
  BY <1>1, <1>4, <1>5, <1>11 DEF Inv, Attempts
<1>13. Running'
  <2>1. Current(r)' = fresh
    BY <1>4 DEF Current
  <2> QED
    BY <1>6, <1>7, <1>11, <2>1, ExecutionAssumption DEF Running, Components
<1>14. Carried'
  BY <1>0, <1>1, <1>6, CarriedStep
<1>15. ReceiptMatchesAttempt'
  <2>1. DOMAIN log[r] = 1..n /\ DOMAIN log'[r] = 1..(n + 1)
    BY <1>4 DEF Inv, TypeOK
  <2> QED
    BY <1>1, <1>4, <1>5, <2>1, ReceiptsStep
<1>16. AuditedState'
  <2>1. fresh.result[N] # "done"
    BY <1>11, ExecutionAssumption DEF Components
  <2>2. ASSUME NEW q \in Requests
        PROVE  Audited(q)' = Audited(q) /\ \A i \in Audited(q) : log'[q][i] = log[q][i]
    <3>1. CASE q # r
      BY <1>4, <3>1 DEF Audited
    <3>2. CASE q = r
      <4>1. DOMAIN log[q] = 1..n /\ DOMAIN log'[q] = 1..(n + 1)
        BY <1>4, <3>2 DEF Inv, TypeOK
      <4> QED
        BY <1>4, <1>5, <2>1, <3>2, <4>1 DEF Audited
    <3> QED
      BY <3>1, <3>2
  <2> QED
    BY <1>1, <2>2, AuditedStep DEF Inv, TypeOK
<1> QED
  BY <1>8, <1>9, <1>10, <1>12, <1>13, <1>14, <1>15, <1>16 DEF Inv

(* A result is recorded for the next component of the running attempt; what *)
(* it does to deletion_state is left open.                                  *)
LEMMA RecordResult ==
    ASSUME Inv, NEW h \in Hosts, NEW r \in Requests, r = host[h].req, host[h].pc = "run",
           NEW c \in Components, c = host[h].next,
           NEW v \in {"done", "not_found", "failed"}, Insert(r, c, v),
           NEW f \in BOOLEAN, f <=> host[h].failed \/ v = "failed", Advance(h, f),
           residue' \in [Requests -> SUBSET Components],
           \A q \in Requests : residue'[q] \subseteq residue[q],
           v # "failed" => c \notin residue'[r],
           UNCHANGED <<registered, retired, receipts, lock, frozen>>
    PROVE  /\ host' \in [Hosts -> HostState]
           /\ log' \in [Requests -> Seq(Attempt)]
           /\ Sessions' /\ Attempts' /\ Running' /\ Carried'
           /\ ReceiptMatchesAttempt' /\ ReceiptsFormChain'
           /\ c # N \/ v = "failed" =>
                \A q \in Requests : /\ Audited(q)' = Audited(q)
                                    /\ \A i \in Audited(q) : log'[q][i] = log[q][i]
           /\ \A q \in Requests : q # r => log'[q] = log[q]
           /\ Len(log'[r]) = Len(log[r]) /\ log[r] # <<>>
           /\ \A d \in Components : log'[r][Len(log[r])].result[d] =
                                       IF d = c THEN v ELSE Current(r).result[d]
<1> DEFINE n == Len(log[r])
           x == Current(r).result
<1>1. log[r] # <<>> /\ lock = h /\ r \in registered
  BY DEF Inv, Sessions, InSession
<1>2. /\ log[r] \in Seq(Attempt) /\ n \in 1..n /\ n \in Nat /\ DOMAIN log[r] = 1..n
  BY <1>1 DEF Inv, TypeOK
<1>3. log[r][n] \in Attempt
  BY <1>2
<1>4. x = log[r][n].result /\ x \in Results
  BY <1>3 DEF Current, Attempt
<1>5. /\ \A d \in Components : x[d] # "none" <=> d < c
      /\ host[h].failed <=> \E d \in Components : x[d] = "failed"
  BY DEF Inv, Running
<1>6. TypeOK /\ v \in Outcomes
  BY DEF Inv, Outcomes
<1>7. /\ log' \in [Requests -> Seq(Attempt)]
      /\ \A q \in Requests : q # r => log'[q] = log[q]
      /\ Len(log'[r]) = n
      /\ \A i \in 1..n : i # n => log'[r][i] = log[r][i]
      /\ Current(r)'.result = [x EXCEPT ![c] = v]
  BY <1>1, <1>6, InsertEffect, SMTT(30)
<1> HIDE DEF x
<1>8. /\ \A d \in Components : log'[r][n].result[d] = IF d = c THEN v ELSE x[d]
      /\ log'[r] # <<>> /\ DOMAIN log'[r] = 1..n
  <2>1. Current(r)' = log'[r][n]
    BY <1>7 DEF Current
  <2>2. \A d \in Components : [x EXCEPT ![c] = v][d] = IF d = c THEN v ELSE x[d]
    BY <1>4, Zenon DEF Results
  <2>3. log'[r] \in Seq(Attempt) /\ Len(log'[r]) = n
    BY <1>7, Zenon
  <2>4. log'[r] # <<>> /\ DOMAIN log'[r] = 1..n
    BY <1>2, <2>3
  <2>5. log'[r][n].result = [x EXCEPT ![c] = v]
    BY <1>7, <2>1, Zenon
  <2>6. \A d \in Components : log'[r][n].result[d] = IF d = c THEN v ELSE x[d]
    BY <2>2, <2>5
  <2> QED
    BY <2>4, <2>6, Zenon
<1>9. /\ host' \in [Hosts -> HostState]
      /\ host'[h].pc = "run" /\ host'[h].req = r /\ host'[h].prev = host[h].prev
      /\ host'[h].next = c + 1 /\ host'[h].failed = f
      /\ \A g \in Hosts : g # h => host'[g] = host[g]
  <2>1. host \in [Hosts -> HostState] /\ host[h].next <= N
    BY ExecutionAssumption DEF Inv, TypeOK, Components
  <2> QED
    BY <2>1, HostAdvances, Zenon
<1>10. \A g \in Hosts : g # h => host[g].pc # "run"
  BY <1>1 DEF Inv, Sessions, InSession
<1>11. Sessions'
  BY <1>1, <1>8, <1>9, <1>10 DEF Inv, Sessions, InSession
<1>12. Attempts'
  <2>1. ASSUME NEW i \in 1..n, NEW d \in Components,
               log'[r][i].result[d] \in {"done", "not_found"}
        PROVE  d \notin residue'[r]
    <3>1. CASE i = n /\ d = c
      BY <1>8, <2>1, <3>1
    <3>2. CASE ~(i = n /\ d = c)
      <4>1. log[r][i].result[d] \in {"done", "not_found"}
        <5>1. CASE i = n
          BY <1>4, <1>8, <2>1, <3>2, <5>1, Zenon
        <5>2. CASE i # n
          BY <1>7, <2>1, <5>2, Zenon
        <5> QED
          BY <5>1, <5>2
      <4> QED
        BY <4>1 DEF Inv, Attempts
    <3> QED
      BY <3>1, <3>2
  <2>2. ASSUME NEW q \in Requests, q # r
        PROVE  \A i \in 1..Len(log[q]) : \A d \in Components :
                 log[q][i].result[d] \in {"done", "not_found"} => d \notin residue'[q]
    BY DEF Inv, Attempts
  <2> QED
    BY <1>1, <1>7, <2>1, <2>2 DEF Inv, Attempts
<1>13. Running'
  <2>1. Current(r)'.result = log'[r][n].result
    BY <1>7 DEF Current
  <2>2. \A d \in Components : log'[r][n].result[d] # "none" <=> d < c + 1
    BY <1>5, <1>8, ExecutionAssumption DEF Components
  <2>3. x[c] = "none"
    BY <1>5, ExecutionAssumption DEF Components
  <2>4. f <=> \E d \in Components : log'[r][n].result[d] = "failed"
    <3>1. CASE v = "failed"
      BY <1>8, <3>1
    <3>2. CASE v # "failed"
      BY <1>5, <1>8, <2>3, <3>2
    <3> QED
      BY <3>1, <3>2
  <2>5. \A g \in Hosts : host'[g].pc = "run" => g = h
    BY <1>9, <1>10, Zenon
  <2>6. host'[h].req = r /\ host'[h].next = c + 1 /\ host'[h].failed = f
    BY <1>9, Zenon
  <2>7. /\ \A d \in Components : Current(r)'.result[d] # "none" <=> d < host'[h].next
        /\ host'[h].failed <=> \E d \in Components : Current(r)'.result[d] = "failed"
    BY <2>1, <2>2, <2>4, <2>6
  <2>8. Current(host[h].req)' = Current(r)'
    BY <2>6 DEF Current
  <2> QED
    BY <2>5, <2>7, <2>8, Zenon DEF Running
<1>14. Carried'
  BY <1>9, CarriedStep
<1>15. ReceiptMatchesAttempt'
  <2>1. \A i \in DOMAIN receipts[r] : receipts[r][i].ordinal # n
    <3>1. x[c] = "none"
      BY <1>5, ExecutionAssumption DEF Components
    <3> QED
      BY <1>4, <3>1 DEF Inv, ReceiptMatchesAttempt
  <2>2. ASSUME NEW q \in Requests, NEW i \in DOMAIN receipts[q],
               receipts[q][i].ordinal \in DOMAIN log[q]
        PROVE  /\ receipts[q][i].ordinal \in DOMAIN log'[q]
               /\ log'[q][receipts[q][i].ordinal] = log[q][receipts[q][i].ordinal]
    <3>1. CASE q # r
      BY <1>7, <2>2, <3>1, Zenon
    <3>2. CASE q = r
      BY <1>2, <1>7, <1>8, <2>1, <2>2, <3>2, Zenon
    <3> QED
      BY <3>1, <3>2
  <2> QED
    BY <2>2, ReceiptsStep
<1>16. ReceiptsFormChain'
  BY DEF Inv, ReceiptsFormChain
<1>17. ASSUME c # N \/ v = "failed", NEW q \in Requests
       PROVE  Audited(q)' = Audited(q) /\ \A i \in Audited(q) : log'[q][i] = log[q][i]
  <2>1. N \in Components /\ x[N] # "done" /\ log'[r][n].result[N] # "done"
    BY <1>5, <1>8, <1>17, ExecutionAssumption DEF Components
  <2>2. CASE q # r
    BY <1>7, <2>2 DEF Audited
  <2>3. CASE q = r
    <3>1. \A i \in 1..n : log'[r][i].result[N] = "done" <=> log[r][i].result[N] = "done"
      BY <1>4, <1>7, <2>1
    <3>2. n \notin Audited(r)
      BY <1>4, <2>1 DEF Audited
    <3>3. Audited(r)' = Audited(r)
      BY <1>2, <1>8, <3>1, Zenon DEF Audited
    <3>4. \A i \in Audited(r) : i \in 1..n /\ i # n
      BY <1>2, <3>2, Zenon DEF Audited
    <3> QED
      BY <1>7, <2>3, <3>3, <3>4, Zenon
  <2> QED
    BY <2>2, <2>3
<1> QED
  BY <1>1, <1>7, <1>8, <1>9, <1>11, <1>12, <1>13, <1>14, <1>15, <1>16, <1>17 DEF x

(* A component that does not write deletion_state, or whose transaction was *)
(* rolled back.                                                             *)
LEMMA ComponentInv ==
    ASSUME Inv, NEW h \in Hosts, ComponentSucceeds(h) \/ ComponentFails(h)
    PROVE  Inv'
<1>0. PICK r \in Requests : r = host[h].req
  BY DEF Inv, TypeOK, HostState, Sessions, ComponentSucceeds, ComponentFails
<1>1. PICK c \in Components : c = host[h].next
  <2>1. host[h].next \in 1..(N + 1)
    BY DEF Inv, TypeOK, HostState
  <2>2. host[h].next <= N \/ host[h].next < N
    BY Zenon DEF ComponentSucceeds, ComponentFails
  <2> QED
    BY <2>1, <2>2, ExecutionAssumption DEF Components
<1>2. /\ host[h].pc = "run" /\ host[h].failed \in BOOLEAN
      /\ UNCHANGED <<state, registered, retired, receipts, lock, frozen>>
  BY DEF Inv, TypeOK, HostState, ComponentSucceeds, ComponentFails
<1>3. PICK v \in {"done", "not_found", "failed"}, f \in BOOLEAN :
        /\ Insert(r, c, v)
        /\ Advance(h, f)
        /\ f <=> host[h].failed \/ v = "failed"
        /\ c # N \/ v = "failed"
        /\ residue' \in [Requests -> SUBSET Components]
        /\ \A q \in Requests : residue'[q] \subseteq residue[q]
        /\ v # "failed" => c \notin residue'[r]
  <2>1. CASE ComponentFails(h)
    <3>1. Insert(r, c, "failed") /\ Advance(h, TRUE) /\ residue' = residue
      BY <1>0, <1>1, <2>1 DEF ComponentFails
    <3> QED
      BY <3>1 DEF Inv, TypeOK
  <2>2. CASE ComponentSucceeds(h)
    <3> DEFINE w == IF c \in Erasing /\ c \notin residue[r] THEN "not_found" ELSE "done"
    <3>1. /\ Insert(r, c, w) /\ Advance(h, host[h].failed) /\ c # N
          /\ residue' = [residue EXCEPT ![r] = @ \ {c}]
      BY <1>0, <1>1, <2>2, ExecutionAssumption DEF ComponentSucceeds, Components
    <3>2. w \in {"done", "not_found", "failed"} /\ w # "failed"
      OBVIOUS
    <3> HIDE DEF w
    <3>3. /\ residue' \in [Requests -> SUBSET Components]
          /\ \A q \in Requests : residue'[q] \subseteq residue[q]
          /\ c \notin residue'[r]
      BY <3>1 DEF Inv, TypeOK
    <3> QED
      BY <1>2, <3>1, <3>2, <3>3
  <2> QED
    BY <2>1, <2>2
<1>5. /\ host' \in [Hosts -> HostState]
      /\ log' \in [Requests -> Seq(Attempt)]
      /\ Sessions' /\ Attempts' /\ Running' /\ Carried'
      /\ ReceiptMatchesAttempt' /\ ReceiptsFormChain'
      /\ \A q \in Requests : /\ Audited(q)' = Audited(q)
                             /\ \A i \in Audited(q) : log'[q][i] = log[q][i]
  <2>1. UNCHANGED <<registered, retired, receipts, lock, frozen>>
    BY <1>2
  <2> QED
    BY <1>0, <1>1, <1>2, <1>3, <2>1, RecordResult
<1>6. TypeOK'
  BY <1>2, <1>3, <1>5 DEF Inv, TypeOK
<1>7. Ownership'
  BY <1>2 DEF Inv, Ownership, OneRequestOwnsLineage
<1>8. AuditedState'
  BY <1>2, <1>5, AuditedStep
<1> QED
  BY <1>5, <1>6, <1>7, <1>8 DEF Inv

LEMMA MinimalAuditInv ==
    ASSUME Inv, NEW h \in Hosts, MinimalAudit(h)
    PROVE  Inv'
<1>0. PICK r \in Requests : r = host[h].req
  BY DEF Inv, TypeOK, HostState, Sessions, MinimalAudit
<1>1. PICK f \in BOOLEAN : f = host[h].failed
  BY DEF Inv, TypeOK, HostState
<1> DEFINE n == Len(log[r])
           x == Current(r).result
           final == IF f THEN "failed" ELSE "deleted"
<1>2. /\ host[h].pc = "run" /\ host[h].next = N /\ N \in Components
      /\ r \in registered /\ frozen \in [Requests -> SUBSET Objects]
      /\ UNCHANGED <<registered, retired, receipts, lock, frozen>>
  BY <1>0, ExecutionAssumption DEF Inv, TypeOK, Sessions, MinimalAudit, Components
<1>3. /\ Insert(r, N, "done") /\ Advance(h, f)
      /\ residue' = [residue EXCEPT ![r] = @ \ {N}]
      /\ state' = [o \in Objects |-> IF o \notin frozen[r] THEN state[o] ELSE final]
  BY <1>0, <1>1 DEF MinimalAudit
<1>4. /\ residue' \in [Requests -> SUBSET Components]
      /\ \A q \in Requests : residue'[q] \subseteq residue[q]
      /\ N \notin residue'[r]
  BY <1>3 DEF Inv, TypeOK
<1>5. /\ host' \in [Hosts -> HostState]
      /\ log' \in [Requests -> Seq(Attempt)]
      /\ Sessions' /\ Attempts' /\ Running' /\ Carried'
      /\ ReceiptMatchesAttempt' /\ ReceiptsFormChain'
      /\ Len(log'[r]) = Len(log[r]) /\ log[r] # <<>>
      /\ \A d \in Components : log'[r][n].result[d] = IF d = N THEN "done" ELSE x[d]
  <2>1. /\ "done" \in {"done", "not_found", "failed"} /\ "done" # "failed"
        /\ f <=> host[h].failed \/ "done" = "failed"
    BY <1>1
  <2> QED
    BY <1>0, <1>2, <1>3, <1>4, <2>1, RecordResult
<1>6. /\ state' \in [Objects -> {"absent", "active", "pending", "failed", "deleted"}]
      /\ \A o \in frozen[r] : state'[o] = final
      /\ \A o \in Objects : o \notin frozen[r] => state'[o] = state[o]
  BY <1>2, <1>3 DEF Inv, TypeOK
<1>7. TypeOK'
  BY <1>2, <1>4, <1>5, <1>6 DEF Inv, TypeOK
<1>8. registered = {r}
  BY <1>2 DEF Inv, Ownership, OneRequestOwnsLineage
<1>9. Ownership'
  BY <1>2, <1>6, <1>8 DEF Inv, Ownership, OneRequestOwnsLineage
<1>10. AuditedState'
  <2>1. n \in 1..n /\ DOMAIN log'[r] = 1..n /\ log[r] \in Seq(Attempt)
    BY <1>5 DEF Inv, TypeOK
  <2>2. log[r][n] \in Attempt
    BY <2>1
  <2>3. x \in Results
    BY <2>2 DEF Current, Attempt
  <2>4. /\ \A d \in Components : x[d] # "none" <=> d < N
        /\ f <=> \E d \in Components : x[d] = "failed"
    BY <1>0, <1>1, <1>2 DEF Inv, Running
  <2> HIDE DEF x
  <2>5. Succeeded(log'[r][n].result) <=> ~f
    <3> DEFINE y == log'[r][n].result
    <3>1. \A d \in Components : y[d] = IF d = N THEN "done" ELSE x[d]
      BY <1>5
    <3> HIDE DEF y
    <3>2. x[N] = "none"
      BY <1>2, <2>4, ExecutionAssumption
    <3>3. \A d \in Components : d # N => x[d] \in {"done", "not_found", "failed"}
      BY <2>3, <2>4, ExecutionAssumption DEF Components, Results, Outcomes
    <3>4. Succeeded(y) <=> ~f
      BY <1>2, <2>4, <3>1, <3>2, <3>3 DEF Succeeded
    <3> QED
      BY <3>4 DEF y
  <2>6. n \in Audited(r)' /\ \A j \in Audited(r)' : j <= n
    BY <1>2, <1>5, <2>1 DEF Audited
  <2>7. \A o \in frozen[r] :
          state'[o] = IF Succeeded(log'[r][n].result) THEN "deleted" ELSE "failed"
    BY <1>6, <2>5
  <2> HIDE DEF n
  <2> QED
    BY <1>2, <1>8, <2>6, <2>7 DEF AuditedState
<1> QED
  BY <1>5, <1>7, <1>9, <1>10 DEF Inv

-----------------------------------------------------------------------------
(* The evidence session.                                                    *)
LEMMA ReceiptEffect ==
    ASSUME TypeOK, NEW r \in Requests, NEW e \in Receipt,
           receipts' = [receipts EXCEPT ![r] = Append(@, e)]
    PROVE  /\ receipts' \in [Requests -> Seq(Receipt)]
           /\ \A q \in Requests : q # r => receipts'[q] = receipts[q]
           /\ Len(receipts'[r]) = Len(receipts[r]) + 1
           /\ \A i \in 1..Len(receipts[r]) : receipts'[r][i] = receipts[r][i]
           /\ receipts'[r][Len(receipts[r]) + 1] = e
<1>1. receipts \in [Requests -> Seq(Receipt)] /\ receipts[r] \in Seq(Receipt)
  BY DEF TypeOK
<1>2. /\ Append(receipts[r], e) \in Seq(Receipt)
      /\ Len(Append(receipts[r], e)) = Len(receipts[r]) + 1
      /\ \A i \in 1..Len(receipts[r]) : Append(receipts[r], e)[i] = receipts[r][i]
      /\ Append(receipts[r], e)[Len(receipts[r]) + 1] = e
  BY <1>1, AppendProperties
<1>3. receipts'[r] = Append(receipts[r], e)
      /\ \A q \in Requests : q # r => receipts'[q] = receipts[q]
  BY <1>1
<1>4. receipts' \in [Requests -> Seq(Receipt)]
  BY <1>1, <1>2
<1> QED
  BY <1>2, <1>3, <1>4

LEMMA StoredRecord ==
    ASSUME NEW x \in HostState
    PROVE  LET y == [x EXCEPT !.pc = "stored"]
           IN  /\ y \in HostState /\ y.pc = "stored" /\ y.req = x.req /\ y.prev = x.prev
               /\ y.result = x.result
  BY Zenon DEF HostState

LEMMA StoreEvidenceInv ==
    ASSUME Inv, NEW h \in Hosts, StoreEvidence(h)
    PROVE  Inv'
<1>0. PICK r \in Requests : r = host[h].req
  BY DEF Inv, TypeOK, HostState, Sessions, StoreEvidence
<1> DEFINE n == Len(log[r])
           k == Len(receipts[r])
           p == host[h].prev
           res == host[h].result
           e == [ordinal |-> n, previous |-> p, completed |-> Succeeded(res)]
<1>1. /\ lock = NoHost /\ lock' = h /\ host[h].pc = "store" /\ log[r] # <<>>
      /\ p = Latest(r)
      /\ \A i \in DOMAIN receipts[r] : receipts[r][i].ordinal # n
      /\ UNCHANGED <<state, registered, retired, residue, log, frozen>>
  BY <1>0 DEF StoreEvidence
<1>2. /\ log[r] \in Seq(Attempt) /\ n \in Nat \ {0} /\ DOMAIN log[r] = 1..n
      /\ receipts[r] \in Seq(Receipt) /\ k \in Nat /\ DOMAIN receipts[r] = 1..k
      /\ p \in Nat
  BY <1>1, LatestType DEF Inv, TypeOK
<1>3. log[r][n].result = res /\ \A c \in Components : res[c] # "none"
  <2>1. log[r][n] = [at |-> host[h].at, result |-> res]
    BY <1>0 DEF StoreEvidence, Current
  <2> QED
    BY <1>1, <2>1 DEF Inv, Carried
<1>4. e \in Receipt /\ e.ordinal = n /\ e.previous = p /\ (e.completed <=> Succeeded(res))
  BY <1>2, Zenon DEF Receipt, Succeeded
<1>5. receipts' = [receipts EXCEPT ![r] = Append(@, e)]
  BY <1>0 DEF StoreEvidence, AppendReceipt
<1> HIDE DEF e
<1>6. /\ receipts' \in [Requests -> Seq(Receipt)]
      /\ \A q \in Requests : q # r => receipts'[q] = receipts[q]
      /\ Len(receipts'[r]) = k + 1
      /\ \A i \in 1..k : receipts'[r][i] = receipts[r][i]
      /\ receipts'[r][k + 1] = e
  BY <1>4, <1>5, ReceiptEffect DEF Inv
<1>7. DOMAIN receipts'[r] = 1..(k + 1)
  BY <1>6
<1>8. /\ host' \in [Hosts -> HostState]
      /\ host'[h].pc = "stored" /\ host'[h].req = r /\ host'[h].prev = p
      /\ host'[h].result = res
      /\ \A g \in Hosts : g # h => host'[g] = host[g]
  <2> DEFINE new == [host[h] EXCEPT !.pc = "stored"]
  <2>1. host' = [host EXCEPT ![h] = new]
    BY Zenon DEF StoreEvidence
  <2>2. host \in [Hosts -> HostState] /\ host[h] \in HostState
    BY DEF Inv, TypeOK
  <2>3. /\ new \in HostState /\ new.pc = "stored" /\ new.req = r /\ new.prev = p
        /\ new.result = res
    BY <1>0, <2>2, StoredRecord, Zenon
  <2> HIDE DEF new
  <2>4. /\ host'[h] = new /\ host' \in [Hosts -> HostState]
        /\ \A g \in Hosts : g # h => host'[g] = host[g]
    BY <2>1, <2>2, <2>3, Zenon
  <2> QED
    BY <2>3, <2>4, Zenon
<1>9. TypeOK'
  BY <1>1, <1>6, <1>8 DEF Inv, TypeOK
<1>10. Sessions'
  BY <1>0, <1>1, <1>8, ExecutionAssumption DEF Inv, Sessions, InSession
<1>11. Ownership' /\ Attempts'
  BY <1>1 DEF Inv, Ownership, OneRequestOwnsLineage, Attempts
<1>12. Running'
  BY <1>1, <1>8 DEF Inv, Running, Current
<1>13. AuditedState'
  BY <1>1, AuditedStep DEF Audited
<1>14. ReceiptMatchesAttempt'
  <2> SUFFICES ASSUME NEW q \in Requests, NEW i \in DOMAIN receipts'[q]
               PROVE  LET y == receipts'[q][i] IN
                      /\ y.ordinal \in DOMAIN log[q]
                      /\ \A c \in Components : log[q][y.ordinal].result[c] # "none"
                      /\ y.completed <=> Succeeded(log[q][y.ordinal].result)
    BY <1>1 DEF ReceiptMatchesAttempt
  <2>1. CASE q = r /\ i = k + 1
    <3>1. receipts'[q][i] = e /\ n \in DOMAIN log[q]
      BY <1>2, <1>6, <2>1
    <3> QED
      BY <1>3, <1>4, <2>1, <3>1, Zenon
  <2>2. CASE ~(q = r /\ i = k + 1)
    <3>1. i \in DOMAIN receipts[q] /\ receipts'[q][i] = receipts[q][i]
      BY <1>2, <1>6, <1>7, <2>2
    <3> QED
      BY <3>1 DEF Inv, ReceiptMatchesAttempt
  <2> QED
    BY <2>1, <2>2
<1>15. \A i \in 1..k : receipts[r][i].ordinal \in 1..n /\ receipts[r][i].ordinal # n
  BY <1>1, <1>2 DEF Inv, ReceiptMatchesAttempt
<1>16. Carried'
  <2> SUFFICES ASSUME NEW g \in Hosts, host'[g].pc # "idle"
               PROVE  /\ host'[g].pc \in {"store", "stored"} =>
                           \A c \in Components : host'[g].result[c] # "none"
                      /\ host'[g].prev # 0 => \E i \in 1..Len(receipts'[host'[g].req]) :
                              receipts'[host'[g].req][i].ordinal = host'[g].prev
                      /\ \A i \in 1..Len(receipts'[host'[g].req]) :
                           receipts'[host'[g].req][i].ordinal = host'[g].prev
                             => ~receipts'[host'[g].req][i].completed
    BY DEF Carried
  <2>1. /\ host[g].pc # "idle" /\ host'[g].req = host[g].req /\ host'[g].prev = host[g].prev
        /\ host[g].req \in Requests
        /\ host'[g].pc \in {"store", "stored"} => \A c \in Components : host'[g].result[c] # "none"
    <3>1. CASE g = h
      BY <1>0, <1>1, <1>3, <1>8, <3>1
    <3>2. CASE g # h
      <4>1. host'[g] = host[g] /\ host[g].pc # "idle"
        BY <1>8, <3>2
      <4>2. host[g].req \in Requests
        BY <4>1 DEF Inv, TypeOK, HostState, Sessions
      <4> QED
        BY <4>1, <4>2 DEF Inv, Carried
    <3> QED
      BY <3>1, <3>2
  <2>2. /\ host[g].prev # 0 => \E i \in 1..Len(receipts[host[g].req]) :
                                 receipts[host[g].req][i].ordinal = host[g].prev
        /\ \A i \in 1..Len(receipts[host[g].req]) :
             receipts[host[g].req][i].ordinal = host[g].prev
               => ~receipts[host[g].req][i].completed
    BY <2>1 DEF Inv, Carried
  <2>3. CASE host[g].req # r
    BY <1>6, <2>1, <2>2, <2>3
  <2>4. CASE host[g].req = r
    <3>1. host[g].prev # n
      BY <1>2, <1>15, <2>2, <2>4
    <3>4. 1..k \subseteq 1..(k + 1) /\ \A i \in 1..(k + 1) : i \in 1..k \/ i = k + 1
      BY <1>2
    <3>2. host[g].prev # 0 => \E i \in 1..(k + 1) : receipts'[r][i].ordinal = host[g].prev
      BY <1>6, <2>2, <2>4, <3>4, Zenon
    <3>3. \A i \in 1..(k + 1) :
            receipts'[r][i].ordinal = host[g].prev => ~receipts'[r][i].completed
      <4> TAKE i \in 1..(k + 1)
      <4>1. CASE i = k + 1
        BY <1>4, <1>6, <3>1, <4>1
      <4>2. CASE i \in 1..k
        BY <1>6, <2>2, <2>4, <4>2
      <4> QED
        BY <3>4, <4>1, <4>2
    <3> QED
      BY <1>6, <2>1, <2>4, <3>2, <3>3
  <2> QED
    BY <2>3, <2>4
<1>17. ReceiptsFormChain'
  <2>1. /\ p = IF k = 0 THEN 0 ELSE receipts[r][k].ordinal
        /\ p < n
    BY <1>1, <1>2, <1>15 DEF Latest
  <2>2. \A i \in 1..k : ~receipts[r][i].completed
    <3>1. \A i \in 1..k : receipts[r][i].completed => i = k
      BY <1>2 DEF Inv, ReceiptsFormChain
    <3>2. k # 0 => ~receipts[r][k].completed
      BY <1>0, <1>1, <1>2, <2>1 DEF Inv, Carried
    <3> QED
      BY <1>2, <3>1, <3>2
  <2>3. \A i \in 1..k :
          /\ receipts[r][i].previous = IF i = 1 THEN 0 ELSE receipts[r][i - 1].ordinal
          /\ receipts[r][i].previous < receipts[r][i].ordinal
    BY <1>2 DEF Inv, ReceiptsFormChain
  <2>4. \A i \in 1..(k + 1) :
          /\ receipts'[r][i].previous = IF i = 1 THEN 0 ELSE receipts'[r][i - 1].ordinal
          /\ receipts'[r][i].previous < receipts'[r][i].ordinal
          /\ receipts'[r][i].completed => i = k + 1
    <3> TAKE i \in 1..(k + 1)
    <3>1. CASE i = k + 1
      BY <1>2, <1>4, <1>6, <2>1, <3>1
    <3>2. CASE i # k + 1
      <4>1. i \in 1..k /\ (i # 1 => i - 1 \in 1..k)
        BY <1>2, <3>2
      <4>2. receipts'[r][i] = receipts[r][i] /\ (i # 1 => receipts'[r][i - 1] = receipts[r][i - 1])
        BY <1>6, <4>1
      <4> QED
        BY <2>2, <2>3, <4>1, <4>2
    <3> QED
      BY <3>1, <3>2
  <2>5. ASSUME NEW q \in Requests, q # r
        PROVE  \A i \in DOMAIN receipts'[q] :
                 /\ receipts'[q][i].previous = IF i = 1 THEN 0 ELSE receipts'[q][i - 1].ordinal
                 /\ receipts'[q][i].previous < receipts'[q][i].ordinal
                 /\ receipts'[q][i].completed => i = Len(receipts'[q])
    BY <1>6, <2>5 DEF Inv, ReceiptsFormChain
  <2> QED
    BY <1>6, <1>7, <2>4, <2>5 DEF ReceiptsFormChain
<1> QED
  BY <1>9, <1>10, <1>11, <1>12, <1>13, <1>14, <1>16, <1>17 DEF Inv

-----------------------------------------------------------------------------
(* The theorems.                                                            *)

LEMMA InvInit == Init => Inv
<1> SUFFICES ASSUME Init
             PROVE  Inv
  OBVIOUS
<1>1. \A h \in Hosts : host[h].pc = "idle" /\ host[h].req = NoRequest
  BY IdleFacts DEF Init
<1>2. TypeOK
  <2>1. host \in [Hosts -> HostState]
    BY IdleFacts DEF Init
  <2>2. log \in [Requests -> Seq(Attempt)] /\ receipts \in [Requests -> Seq(Receipt)]
    BY DEF Init
  <2> QED
    BY <2>1, <2>2 DEF Init, TypeOK
<1>3. Sessions
  BY <1>1, ExecutionAssumption DEF Init, Sessions, InSession
<1>4. Ownership /\ AuditedState
  BY DEF Init, Ownership, OneRequestOwnsLineage, AuditedState
<1>5. Attempts
  BY DEF Init, Attempts
<1>6. Running /\ Carried
  BY <1>1 DEF Running, Carried
<1>7. \A r \in Requests : DOMAIN receipts[r] = {}
  BY DEF Init
<1>8. ReceiptMatchesAttempt /\ ReceiptsFormChain
  BY <1>7 DEF ReceiptMatchesAttempt, ReceiptsFormChain
<1> QED
  BY <1>2, <1>3, <1>4, <1>5, <1>6, <1>8 DEF Inv

LEMMA InvNext == Inv /\ [Next]_vars => Inv'
<1> SUFFICES ASSUME Inv, [Next]_vars
             PROVE  Inv'
  OBVIOUS
<1>1. ASSUME NEW o \in Objects, Capture(o)
      PROVE  Inv'
  BY <1>1, CaptureInv
<1>2. ASSUME NEW h \in Hosts, NEW r \in Requests, Prepare(h, r) \/ Recover(h, r)
      PROVE  Inv'
  BY <1>2, PrepareInv, EndsInv
<1>3. ASSUME NEW h \in Hosts, Step(h)
      PROVE  Inv'
  BY <1>3, ReadPreviousInv, EndsInv, BeginDeletionInv, RetireObjectsInv, BeginAttemptInv,
     ComponentInv, MinimalAuditInv, EndExecutionInv, StoreEvidenceInv DEF Step
<1>4. ASSUME NEW h \in Hosts, ComponentFails(h) \/ Refuse(h) \/ Crash(h)
      PROVE  Inv'
  BY <1>4, ComponentInv, EndsInv
<1>5. CASE UNCHANGED vars
  <2>1. UNCHANGED <<dbVars, frozen, lock, host>>
    BY <1>5 DEF vars
  <2>2. TypeOK' /\ Sessions' /\ Running' /\ Carried'
    BY <2>1 DEF Inv, TypeOK, Sessions, Running, Current, Carried, dbVars
  <2> QED
    BY <2>1, <2>2, DatabaseStutter DEF Inv
<1> QED
  BY <1>1, <1>2, <1>3, <1>4, <1>5 DEF Next

(* The inductive invariant of the execution of deletions.                   *)
THEOREM ExecutionInvariance == Spec => []Inv
  BY InvInit, InvNext, PTL DEF Spec

(* Every variable keeps to its domain, whatever hosts race and crash.       *)
THEOREM ExecutionTypeCorrect == Spec => []TypeOK
<1>1. Inv => TypeOK
  BY DEF Inv
<1> QED
  BY <1>1, ExecutionInvariance, PTL

(* Of all requests prepared for a lineage, one at most is ever registered   *)
(* (deletion_in_progress and validate_semantic_targets in begin_with_check). *)
THEOREM OneRequestWins == Spec => []OneRequestOwnsLineage
<1>1. Inv => OneRequestOwnsLineage
  BY DEF Inv, Ownership
<1> QED
  BY <1>1, ExecutionInvariance, PTL

(* The closure of a registered request holds every object of the lineage,   *)
(* also those captured after it was resolved (validate_semantic_targets).   *)
THEOREM ClosureIsComplete == Spec => []NothingLeftBehind
<1>1. Inv => NothingLeftBehind
  BY DEF Inv, Ownership, NothingLeftBehind
<1> QED
  BY <1>1, ExecutionInvariance, PTL

(* A receipt reports exactly what the attempt it names recorded             *)
(* (store_evidence).                                                        *)
THEOREM ReceiptsAreTrue == Spec => []ReceiptMatchesAttempt
<1>1. Inv => ReceiptMatchesAttempt
  BY DEF Inv
<1> QED
  BY <1>1, ExecutionInvariance, PTL

(* The receipts of a request are linear and end with the first completed    *)
(* one, whatever hosts raced to store them (store_evidence).                *)
THEOREM ChainIsLinear == Spec => []ReceiptsFormChain
<1>1. Inv => ReceiptsFormChain
  BY DEF Inv
<1> QED
  BY <1>1, ExecutionInvariance, PTL

(* After a completed receipt no component has content left and the objects  *)
(* are retired (execute_request_inner, execute_object_deletion).            *)
THEOREM CompletionIsTrue == Spec => []CompletedMeansGone
<1>1. ASSUME Inv, NEW r \in Requests, Completed(r)
      PROVE  residue[r] = {} /\ r \in retired
  <2> DEFINE e == receipts[r][Len(receipts[r])]
  <2>1. Len(receipts[r]) \in DOMAIN receipts[r] /\ e.completed
    BY <1>1 DEF Inv, TypeOK, Completed
  <2>2. e.ordinal \in DOMAIN log[r] /\ Succeeded(log[r][e.ordinal].result)
    BY <1>1, <2>1 DEF Inv, ReceiptMatchesAttempt
  <2>3. e.ordinal \in 1..Len(log[r]) /\ log[r] # <<>>
    BY <1>1, <2>2 DEF Inv, TypeOK
  <2>4. \A c \in Components : c \notin residue[r]
    BY <1>1, <2>2, <2>3 DEF Inv, Attempts, Succeeded
  <2>5. residue[r] \subseteq Components
    BY <1>1 DEF Inv, TypeOK
  <2> QED
    BY <1>1, <2>3, <2>4, <2>5 DEF Inv, Attempts
<1>2. Inv => CompletedMeansGone
  BY <1>1 DEF CompletedMeansGone
<1> QED
  BY <1>2, ExecutionInvariance, PTL

(* deletion_state is what the last audited attempt found                    *)
(* (finalize_governance_state).                                             *)
THEOREM StateIsAudited == Spec => []StateFollowsAudit
<1>1. ASSUME Inv, NEW r \in registered, NEW o \in frozen[r], Audited(r) # {}
      PROVE  LET last == CHOOSE i \in Audited(r) : \A j \in Audited(r) : j <= i
             IN  state[o] = IF Succeeded(log[r][last].result) THEN "deleted" ELSE "failed"
  <2> DEFINE m == CHOOSE i \in Audited(r) : \A j \in Audited(r) : j <= i
  <2>1. PICK last \in Audited(r) :
          /\ \A j \in Audited(r) : j <= last
          /\ state[o] = IF Succeeded(log[r][last].result) THEN "deleted" ELSE "failed"
    BY <1>1 DEF Inv, AuditedState
  <2>2. m \in Audited(r) /\ \A j \in Audited(r) : j <= m
    BY <2>1
  <2>3. \A i \in Audited(r) : i \in Nat
    BY <1>1 DEF Inv, TypeOK, Audited
  <2> HIDE DEF m
  <2>4. m = last
    BY <2>1, <2>2, <2>3
  <2> QED
    BY <2>1, <2>4 DEF m
<1>2. ASSUME Inv, NEW r \in registered, NEW o \in frozen[r], Audited(r) = {}
      PROVE  state[o] = "pending"
  BY <1>2 DEF Inv, AuditedState
<1>3. Inv => StateFollowsAudit
  BY <1>1, <1>2 DEF StateFollowsAudit
<1> QED
  BY <1>3, ExecutionInvariance, PTL

-----------------------------------------------------------------------------
(* What a step does to the objects, the log and the receipts.               *)
LEMMA InsertKeeps ==
    ASSUME Inv, NEW h \in Hosts, NEW r \in Requests, r = host[h].req, host[h].pc = "run",
           NEW c \in Components, c = host[h].next, NEW v \in Outcomes, Insert(r, c, v),
           receipts' = receipts, NEW q \in Requests
    PROVE  KeepsHistory(q)
<1> DEFINE n == Len(log[r])
<1>1. log[r] # <<>> /\ TypeOK /\ log[r] \in Seq(Attempt) /\ DOMAIN log[r] = 1..n /\ n \in 1..n
  BY DEF Inv, Sessions, TypeOK
<1>2. /\ \A p \in Requests : p # r => log'[p] = log[p]
      /\ log' \in [Requests -> Seq(Attempt)]
      /\ Len(log'[r]) = n
      /\ \A i \in 1..n : i # n => log'[r][i] = log[r][i]
      /\ log'[r][n].result = [log[r][n].result EXCEPT ![c] = v]
  <2>1. /\ \A p \in Requests : p # r => log'[p] = log[p]
        /\ log' \in [Requests -> Seq(Attempt)]
        /\ Len(log'[r]) = n
        /\ \A i \in 1..n : i # n => log'[r][i] = log[r][i]
        /\ Current(r)'.result = [Current(r).result EXCEPT ![c] = v]
    BY <1>1, InsertEffect
  <2>2. Current(r) = log[r][n] /\ Current(r)' = log'[r][n]
    BY <2>1 DEF Current
  <2> QED
    BY <2>1, <2>2
<1>3. DOMAIN log'[r] = 1..n
  BY <1>2
<1>4. log[r][n].result[c] = "none"
  <2>1. c \in Nat
    BY ExecutionAssumption DEF Components
  <2> QED
    BY <2>1 DEF Inv, Running, Current
<1>5. log[r][n].result \in Results
  <2>1. log[r][n] \in Attempt
    BY <1>1
  <2> QED
    BY <2>1 DEF Attempt
<1>6. \A d \in Components : d # c => log'[r][n].result[d] = log[r][n].result[d]
  BY <1>2, <1>5 DEF Results
<1>7. \A d \in Components : log[r][n].result[d] # "none"
                             => log'[r][n].result[d] = log[r][n].result[d]
  BY <1>4, <1>6
<1>8. CASE q = r
  <2> SUFFICES ASSUME NEW i \in 1..n, NEW d \in Components, log[r][i].result[d] # "none"
               PROVE  log'[r][i].result[d] = log[r][i].result[d]
    BY <1>1, <1>3, <1>8 DEF KeepsHistory
  <2>1. CASE i = n
    BY <1>7, <2>1
  <2>2. CASE i # n
    BY <1>2, <2>2, Zenon
  <2> QED
    BY <2>1, <2>2
<1>9. CASE q # r
  BY <1>2, <1>9 DEF KeepsHistory
<1> QED
  BY <1>8, <1>9

LEMMA StepKeepsHistory ==
    ASSUME Inv, [Next]_vars, NEW q \in Requests
    PROVE  KeepsHistory(q)
<1>1. CASE UNCHANGED <<log, receipts>>
  BY <1>1 DEF KeepsHistory
<1>2. ASSUME NEW h \in Hosts, BeginAttempt(h)
      PROVE  KeepsHistory(q)
  <2>0. PICK r \in Requests : r = host[h].req
    BY <1>2 DEF Inv, TypeOK, HostState, Sessions, BeginAttempt
  <2> DEFINE fresh == [at |-> host[h].at, result |-> NoResults]
  <2>1. fresh \in Attempt
    BY DEF Inv, TypeOK, HostState, Attempt, NoResults, Results, Outcomes
  <2>2. log' = [log EXCEPT ![r] = Append(@, fresh)] /\ receipts' = receipts
    BY <1>2, <2>0 DEF BeginAttempt
  <2> HIDE DEF fresh
  <2>3. /\ log' \in [Requests -> Seq(Attempt)]
        /\ \A p \in Requests : p # r => log'[p] = log[p]
        /\ Len(log'[r]) = Len(log[r]) + 1
        /\ \A i \in 1..Len(log[r]) : log'[r][i] = log[r][i]
    BY <2>1, <2>2, AppendEffect DEF Inv
  <2>4. /\ DOMAIN log[r] = 1..Len(log[r]) /\ Len(log[r]) \in Nat
        /\ DOMAIN log'[r] = 1..(Len(log[r]) + 1)
    BY <2>3 DEF Inv, TypeOK
  <2>5. CASE q = r
    BY <2>2, <2>3, <2>4, <2>5 DEF KeepsHistory
  <2>6. CASE q # r
    BY <2>2, <2>3, <2>6 DEF KeepsHistory
  <2> QED
    BY <2>5, <2>6
<1>3. ASSUME NEW h \in Hosts, ComponentSucceeds(h) \/ ComponentFails(h) \/ MinimalAudit(h)
      PROVE  KeepsHistory(q)
  <2>0. PICK r \in Requests : r = host[h].req
    BY <1>3
       DEF Inv, TypeOK, HostState, Sessions, ComponentSucceeds, ComponentFails, MinimalAudit
  <2>1. PICK c \in Components : c = host[h].next
    <3>1. host[h].next \in 1..(N + 1)
      BY DEF Inv, TypeOK, HostState
    <3>2. host[h].next <= N \/ host[h].next < N \/ host[h].next = N
      BY <1>3, Zenon DEF ComponentSucceeds, ComponentFails, MinimalAudit
    <3> QED
      BY <3>1, <3>2, ExecutionAssumption DEF Components
  <2>2. host[h].pc = "run" /\ receipts' = receipts
    BY <1>3 DEF ComponentSucceeds, ComponentFails, MinimalAudit
  <2>3. \E v \in Outcomes : Insert(r, c, v)
    <3>1. CASE ComponentSucceeds(h)
      <4>1. Insert(r, c, IF c \in Erasing /\ c \notin residue[r] THEN "not_found" ELSE "done")
        BY <2>0, <2>1, <3>1 DEF ComponentSucceeds
      <4> QED
        BY <4>1 DEF Outcomes
    <3>2. CASE ComponentFails(h)
      BY <2>0, <2>1, <3>2 DEF ComponentFails, Outcomes
    <3>3. CASE MinimalAudit(h)
      BY <2>0, <2>1, <3>3 DEF MinimalAudit, Outcomes
    <3> QED
      BY <1>3, <3>1, <3>2, <3>3
  <2> QED
    BY <2>0, <2>1, <2>2, <2>3, InsertKeeps
<1>4. ASSUME NEW h \in Hosts, StoreEvidence(h)
      PROVE  KeepsHistory(q)
  <2>0. PICK r \in Requests : r = host[h].req
    BY <1>4 DEF Inv, TypeOK, HostState, Sessions, StoreEvidence
  <2> DEFINE e == [ordinal |-> Len(log[r]), previous |-> host[h].prev,
                   completed |-> Succeeded(host[h].result)]
  <2>1. Len(log[r]) \in Nat /\ host[h].prev \in Nat
    BY DEF Inv, TypeOK, HostState
  <2>2. e \in Receipt
    BY <2>1, Zenon DEF Receipt, Succeeded
  <2>3. receipts' = [receipts EXCEPT ![r] = Append(@, e)] /\ log' = log
    BY <1>4, <2>0 DEF StoreEvidence, AppendReceipt
  <2> HIDE DEF e
  <2>4. /\ receipts' \in [Requests -> Seq(Receipt)]
        /\ \A p \in Requests : p # r => receipts'[p] = receipts[p]
        /\ Len(receipts'[r]) = Len(receipts[r]) + 1
        /\ \A i \in 1..Len(receipts[r]) : receipts'[r][i] = receipts[r][i]
    BY <2>2, <2>3, ReceiptEffect DEF Inv
  <2>5. /\ DOMAIN receipts[r] = 1..Len(receipts[r]) /\ Len(receipts[r]) \in Nat
        /\ DOMAIN receipts'[r] = 1..(Len(receipts[r]) + 1)
    BY <2>4 DEF Inv, TypeOK
  <2>6. CASE q = r
    BY <2>3, <2>4, <2>5, <2>6 DEF KeepsHistory
  <2>7. CASE q # r
    BY <2>3, <2>4, <2>7 DEF KeepsHistory
  <2> QED
    BY <2>6, <2>7
<1> QED
  BY <1>1, <1>2, <1>3, <1>4
     DEF Next, Step, vars, dbVars, Capture, Prepare, Recover, ReadPrevious, ReturnReceipt,
         BeginDeletion, RetireObjects, EndExecution, ReturnEvidence, Refuse, Crash

LEMMA StepKeepsClosed ==
    ASSUME Inv, [Next]_vars, NEW o \in Objects
    PROVE  StaysClosed(o)
<1>1. CASE state' = state
  BY <1>1 DEF StaysClosed
<1>2. ASSUME NEW p \in Objects, Capture(p)
      PROVE  StaysClosed(o)
  BY <1>2 DEF Capture, StaysClosed
<1>3. ASSUME NEW h \in Hosts, BeginDeletion(h)
      PROVE  StaysClosed(o)
  BY <1>1, <1>3 DEF BeginDeletion, StaysClosed
<1>4. ASSUME NEW h \in Hosts, MinimalAudit(h)
      PROVE  StaysClosed(o)
  BY <1>4 DEF MinimalAudit, StaysClosed
<1> QED
  BY <1>1, <1>2, <1>3, <1>4
     DEF Next, Step, vars, dbVars, Prepare, Recover, ReadPrevious, ReturnReceipt,
         RetireObjects, BeginAttempt, ComponentSucceeds, ComponentFails, EndExecution,
         StoreEvidence, ReturnEvidence, Refuse, Crash

(* No step opens a covered object to recall again, and no step changes a    *)
(* receipt or a recorded result (insert_execution_result, store_evidence,   *)
(* finalize_governance_state).                                              *)
THEOREM HistoryNeverChanges == Spec => HistoryIsFinal
<1>1. Inv /\ [Next]_vars => [/\ \A o \in Objects : StaysClosed(o)
                            /\ \A r \in Requests : KeepsHistory(r)]_vars
  BY StepKeepsClosed, StepKeepsHistory
<1> QED
  BY <1>1, ExecutionInvariance, PTL DEF Spec, HistoryIsFinal
=============================================================================
