------------------------- MODULE ArtifactPut_proofs -------------------------
(***************************************************************************)
(* Proofs about ArtifactPut for every number of puts, digests and ids, and *)
(* every way the puts repeat one another.                                  *)
(***************************************************************************)
EXTENDS ArtifactPut, TLAPS

USE PutAssumption

-----------------------------------------------------------------------------
(* Type correctness *)

\* No put has started: the state is well typed.
LEMMA InitTypeOK == Init => TypeOK
  BY DEF Init, TypeOK, Blobs!ContractInit, Ledger!ContractInit

\* Every step of a put, of either store and of the host keeps it well typed.
LEMMA NextTypeOK == TypeOK /\ [Next]_vars => TypeOK'
<1> SUFFICES ASSUME TypeOK, [Next]_vars PROVE TypeOK'
  OBVIOUS
<1> USE DEF TypeOK, blobVars, ledgerVars, putVars, Results, Reports, PutErrors
<1>1. ASSUME NEW p \in Puts, Reject(p) PROVE TypeOK'
  BY <1>1 DEF Reject, Return
<1>2. ASSUME NEW p \in Puts, Begin(p) PROVE TypeOK'
  BY <1>2 DEF Begin
<1>3. ASSUME NEW p \in Puts, Link(p) PROVE TypeOK'
  BY <1>3 DEF Link, Blobs!Publish
<1>4. ASSUME NEW p \in Puts, WriteFails(p) PROVE TypeOK'
  BY <1>4 DEF WriteFails, Return
<1>5. ASSUME NEW p \in Puts, Written(p) PROVE TypeOK'
  BY <1>5 DEF Written, Blobs!Promise
<1>6. ASSUME NEW p \in Puts, Observe(p) PROVE TypeOK'
  BY <1>6 DEF Observe, Ledger!Commit
<1>7. ASSUME NEW p \in Puts, Appended(p) PROVE TypeOK'
  <2>1. PICK id \in events[p] : receipt' = [receipt EXCEPT ![p] = id]
    BY <1>7 DEF Appended, Ledger!Succeed
  <2>2. id \in Ids
    BY <2>1
  <2> QED
    BY <1>7, <2>1, <2>2 DEF Appended, Return, Ledger!Succeed
<1>8. ASSUME NEW p \in Puts, AppendFails(p) PROVE TypeOK'
  BY <1>8 DEF AppendFails, Return, PutError, Ledger!Deny, Ledger!Shrug, Ledger!Denials
<1>9. ASSUME NEW p \in Puts, Kill(p) PROVE TypeOK'
  BY <1>9 DEF Kill, Dying
<1>10. ASSUME NEW d \in Digests, Damage(d) PROVE TypeOK'
  BY <1>10 DEF Damage, Blobs!Damage
<1>11. ASSUME HostCrash PROVE TypeOK'
  BY <1>11 DEF HostCrash, Blobs!PowerLoss, Dying
<1>12. ASSUME UNCHANGED vars PROVE TypeOK'
  BY <1>12 DEF vars
<1> QED
  BY <1>1, <1>2, <1>3, <1>4, <1>5, <1>6, <1>7, <1>8, <1>9, <1>10, <1>11, <1>12 DEF Next

\* Every reachable state of the puts and the two stores is well typed: a put has
\* a result exactly when it returned, and an append reported only to a put that
\* got past WriteFile.
THEOREM TypeCorrect == Spec => []TypeOK
<1>1. Init => TypeOK
  BY InitTypeOK
<1>2. TypeOK /\ [Next]_vars => TypeOK'
  BY NextTypeOK
<1> QED
  BY <1>1, <1>2, PTL DEF Spec

-----------------------------------------------------------------------------
(* The bytes come before the event *)

\* What was reported stored is there.
PromisesKept == \A d \in promised : blob[d] # "absent"

\* A put that called Append, alive or not, has its bytes stored.
StoredBeforeAppend ==
    \A p \in Puts : pc[p] \in {"appending", "deadAppending"} \/ report[p] # None =>
        digest[p] \in promised

\* What each put can have in the ledger, by where it is and what it was told.
LedgerInStep ==
    \A p \in Puts :
        /\ events[p] # {} => pc[p] \in {"appending", "deadAppending"} \/ report[p] # None
        /\ \A i, j \in events[p] : i = j
        /\ report[p] \in {"invalid", "not_committed"} => events[p] = {}
        /\ report[p] = "ok" => events[p] = {receipt[p]}

\* What a put returned is what the ledger reported to it.
ResultsInStep ==
    \A p \in Puts :
        /\ result[p] \in {None, "error"} => report[p] = None
        /\ result[p] = "ok" => report[p] = "ok"
        /\ result[p] = "stored_not_committed" => report[p] = "not_committed"
        /\ result[p] = "stored_unknown" => report[p] \in {"invalid", "unknown"}

\* A put that was reported to have left no event.
Settled(p) == result[p] \in {"error", "stored_not_committed"}

\* Of two attempts to record one thing, the later began on evidence.
RepeatedOnEvidence ==
    \A p \in Puts : \A q \in Retries(p) :
        pc[p] = "idle" \/ pc[q] = "idle" \/ Settled(p) \/ Settled(q)

PutInv == TypeOK /\ PromisesKept /\ StoredBeforeAppend /\ LedgerInStep /\ ResultsInStep
            /\ RepeatedOnEvidence

\* No put has started: nothing is stored, recorded or returned.
LEMMA InitPutInv == Init => PutInv
  BY InitTypeOK DEF Init, PutInv, PromisesKept, StoredBeforeAppend, LedgerInStep, ResultsInStep,
     RepeatedOnEvidence, Results, PutErrors, Blobs!ContractInit, Ledger!ContractInit

\* No step takes away bytes that were reported stored.
LEMMA PromisesStayKept ==
  ASSUME PutInv, [Next]_vars
  PROVE  PromisesKept' /\ promised \subseteq promised'
<1> USE DEF PutInv, TypeOK, PromisesKept, blobVars
<1>1. CASE UNCHANGED blobVars
  BY <1>1
<1>2. ASSUME NEW p \in Puts, Link(p) PROVE PromisesKept' /\ promised \subseteq promised'
  BY <1>2 DEF Link, Blobs!Publish
<1>3. ASSUME NEW p \in Puts, Written(p) PROVE PromisesKept' /\ promised \subseteq promised'
  BY <1>3 DEF Written, Blobs!Promise
<1>4. ASSUME NEW d \in Digests, Damage(d) PROVE PromisesKept' /\ promised \subseteq promised'
  BY <1>4 DEF Damage, Blobs!Damage
<1>5. ASSUME HostCrash PROVE PromisesKept' /\ promised \subseteq promised'
  BY <1>5 DEF HostCrash, Blobs!PowerLoss
<1> QED
  BY <1>1, <1>2, <1>3, <1>4, <1>5 DEF Next, vars, Reject, Begin, WriteFails, Observe, Appended,
     AppendFails, Kill

\* No step lets an append start, or be reported, before the bytes are stored,
\* and a put that called Append keeps its digest.
LEMMA AppendsStayBehind ==
  ASSUME PutInv, TypeOK', [Next]_vars
  PROVE  StoredBeforeAppend'
<1> USE DEF PutInv, TypeOK, StoredBeforeAppend, blobVars, ledgerVars, putVars
<1>0. promised \subseteq promised'
  BY PromisesStayKept
<1>1. ASSUME NEW p \in Puts, Reject(p) PROVE StoredBeforeAppend'
  BY <1>0, <1>1 DEF Reject, Return
<1>2. ASSUME NEW p \in Puts, Begin(p) PROVE StoredBeforeAppend'
  BY <1>0, <1>2 DEF Begin
<1>3. ASSUME NEW p \in Puts, Link(p) PROVE StoredBeforeAppend'
  BY <1>0, <1>3 DEF Link
<1>4. ASSUME NEW p \in Puts, WriteFails(p) PROVE StoredBeforeAppend'
  BY <1>0, <1>4 DEF WriteFails, Return
<1>5. ASSUME NEW p \in Puts, Written(p) PROVE StoredBeforeAppend'
  BY <1>0, <1>5 DEF Written, Blobs!Promise
<1>6. ASSUME NEW p \in Puts, Observe(p) PROVE StoredBeforeAppend'
  BY <1>0, <1>6 DEF Observe, Ledger!Commit
<1>7. ASSUME NEW p \in Puts, Appended(p) PROVE StoredBeforeAppend'
  BY <1>0, <1>7 DEF Appended, Return, Ledger!Succeed
<1>8. ASSUME NEW p \in Puts, AppendFails(p) PROVE StoredBeforeAppend'
  BY <1>0, <1>8 DEF AppendFails, Return, Ledger!Deny, Ledger!Shrug
<1>9. ASSUME NEW p \in Puts, Kill(p) PROVE StoredBeforeAppend'
  BY <1>0, <1>9 DEF Kill, Dying
<1>10. ASSUME NEW d \in Digests, Damage(d) PROVE StoredBeforeAppend'
  BY <1>0, <1>10 DEF Damage
<1>11. ASSUME HostCrash PROVE StoredBeforeAppend'
  BY <1>0, <1>11 DEF HostCrash, Dying
<1>12. ASSUME UNCHANGED vars PROVE StoredBeforeAppend'
  BY <1>12 DEF vars
<1> QED
  BY <1>1, <1>2, <1>3, <1>4, <1>5, <1>6, <1>7, <1>8, <1>9, <1>10, <1>11, <1>12 DEF Next

\* No event appears for a put that has not called Append, or that was denied.
LEMMA LedgerStaysInStep ==
  ASSUME PutInv, TypeOK', [Next]_vars
  PROVE  LedgerInStep'
<1> USE DEF PutInv, TypeOK, LedgerInStep, ResultsInStep, Results, Reports, PutErrors, blobVars, ledgerVars, putVars
<1>1. ASSUME NEW p \in Puts, Reject(p) PROVE LedgerInStep'
  BY <1>1 DEF Reject, Return
<1>2. ASSUME NEW p \in Puts, Begin(p) PROVE LedgerInStep'
  BY <1>2 DEF Begin
<1>3. ASSUME NEW p \in Puts, Link(p) PROVE LedgerInStep'
  BY <1>3 DEF Link
<1>4. ASSUME NEW p \in Puts, WriteFails(p) PROVE LedgerInStep'
  BY <1>4 DEF WriteFails, Return
<1>5. ASSUME NEW p \in Puts, Written(p) PROVE LedgerInStep'
  BY <1>5 DEF Written
<1>6. ASSUME NEW p \in Puts, Observe(p) PROVE LedgerInStep'
  BY <1>6 DEF Observe, Ledger!Commit
<1>7. ASSUME NEW p \in Puts, Appended(p) PROVE LedgerInStep'
  BY <1>7 DEF Appended, Return, Ledger!Succeed
<1>8. ASSUME NEW p \in Puts, AppendFails(p) PROVE LedgerInStep'
  BY <1>8 DEF AppendFails, Return, PutError, Ledger!Deny, Ledger!Shrug, Ledger!Denials
<1>9. ASSUME NEW p \in Puts, Kill(p) PROVE LedgerInStep'
  BY <1>9 DEF Kill, Dying
<1>10. ASSUME NEW d \in Digests, Damage(d) PROVE LedgerInStep'
  BY <1>10 DEF Damage
<1>11. ASSUME HostCrash PROVE LedgerInStep'
  BY <1>11 DEF HostCrash, Dying
<1>12. ASSUME UNCHANGED vars PROVE LedgerInStep'
  BY <1>12 DEF vars
<1> QED
  BY <1>1, <1>2, <1>3, <1>4, <1>5, <1>6, <1>7, <1>8, <1>9, <1>10, <1>11, <1>12 DEF Next

\* No step makes what a put returned differ from what the ledger reported to it.
LEMMA ResultsStayInStep ==
  ASSUME PutInv, TypeOK', [Next]_vars
  PROVE  ResultsInStep'
<1> USE DEF PutInv, TypeOK, ResultsInStep, LedgerInStep, Results, Reports, PutErrors, blobVars, ledgerVars, putVars
<1>1. ASSUME NEW p \in Puts, Reject(p) PROVE ResultsInStep'
  BY <1>1 DEF Reject, Return
<1>2. ASSUME NEW p \in Puts, Begin(p) PROVE ResultsInStep'
  BY <1>2 DEF Begin
<1>3. ASSUME NEW p \in Puts, Link(p) PROVE ResultsInStep'
  BY <1>3 DEF Link
<1>4. ASSUME NEW p \in Puts, WriteFails(p) PROVE ResultsInStep'
  BY <1>4 DEF WriteFails, Return
<1>5. ASSUME NEW p \in Puts, Written(p) PROVE ResultsInStep'
  BY <1>5 DEF Written
<1>6. ASSUME NEW p \in Puts, Observe(p) PROVE ResultsInStep'
  BY <1>6 DEF Observe, Ledger!Commit
<1>7. ASSUME NEW p \in Puts, Appended(p) PROVE ResultsInStep'
  BY <1>7 DEF Appended, Return, Ledger!Succeed
<1>8. ASSUME NEW p \in Puts, AppendFails(p) PROVE ResultsInStep'
  BY <1>8 DEF AppendFails, Return, PutError, Ledger!Deny, Ledger!Shrug, Ledger!Denials
<1>9. ASSUME NEW p \in Puts, Kill(p) PROVE ResultsInStep'
  BY <1>9 DEF Kill, Dying
<1>10. ASSUME NEW d \in Digests, Damage(d) PROVE ResultsInStep'
  BY <1>10 DEF Damage
<1>11. ASSUME HostCrash PROVE ResultsInStep'
  BY <1>11 DEF HostCrash, Dying
<1>12. ASSUME UNCHANGED vars PROVE ResultsInStep'
  BY <1>12 DEF vars
<1> QED
  BY <1>1, <1>2, <1>3, <1>4, <1>5, <1>6, <1>7, <1>8, <1>9, <1>10, <1>11, <1>12 DEF Next

\* The results that repetitions rely on never change, and only the caller starts
\* a put.
LEMMA EvidenceStays ==
  ASSUME PutInv, [Next]_vars, NEW q \in Puts
  PROVE  /\ Settled(q) => Settled(q)'
         /\ pc[q] = "idle" /\ pc'[q] # "idle" => MayBegin(q)
<1> DEFINE Kept == /\ Settled(q) => Settled(q)'
                   /\ pc[q] = "idle" /\ pc'[q] # "idle" => MayBegin(q)
<1> USE DEF PutInv, TypeOK, Settled, Results, PutErrors, ledgerVars, putVars
<1>1. ASSUME NEW p \in Puts, Reject(p) PROVE Kept
  BY <1>1 DEF Reject, Return
<1>2. ASSUME NEW p \in Puts, Begin(p) PROVE Kept
  BY <1>2 DEF Begin
<1>3. ASSUME NEW p \in Puts, WriteFails(p) PROVE Kept
  BY <1>3 DEF WriteFails, Return
<1>4. ASSUME NEW p \in Puts, Written(p) PROVE Kept
  BY <1>4 DEF Written
<1>5. ASSUME NEW p \in Puts, Appended(p) PROVE Kept
  BY <1>5 DEF Appended, Return
<1>6. ASSUME NEW p \in Puts, AppendFails(p) PROVE Kept
  BY <1>6 DEF AppendFails, Return
<1>7. ASSUME NEW p \in Puts, Kill(p) PROVE Kept
  BY <1>7 DEF Kill, Dying
<1>8. ASSUME HostCrash PROVE Kept
  BY <1>8 DEF HostCrash, Dying
<1>9. ASSUME UNCHANGED <<pc, result>> PROVE Kept
  BY <1>9
<1> QED
  BY <1>1, <1>2, <1>3, <1>4, <1>5, <1>6, <1>7, <1>8, <1>9 DEF Next, vars, Link, Observe, Damage

\* Retries are retries of each other.
LEMMA RetriesSymmetric ==
  ASSUME NEW p \in Puts, NEW q \in Retries(p)
  PROVE  q \in Puts /\ p \in Retries(q)
BY DEF Retries

\* So no two attempts at one thing are ever both begun and both undecided.
LEMMA RepetitionsStayOnEvidence ==
  ASSUME PutInv, [Next]_vars
  PROVE  RepeatedOnEvidence'
<1> SUFFICES ASSUME NEW p \in Puts, NEW q \in Retries(p)
             PROVE  pc'[p] = "idle" \/ pc'[q] = "idle" \/ Settled(p)' \/ Settled(q)'
  BY DEF RepeatedOnEvidence, Retries
<1>1. q \in Puts /\ p \in Retries(q)
  BY RetriesSymmetric
<1>2. pc[p] = "idle" \/ pc[q] = "idle" \/ Settled(p) \/ Settled(q)
  BY DEF PutInv, RepeatedOnEvidence
<1>3. CASE Settled(p) \/ Settled(q)
  BY <1>1, <1>3, EvidenceStays
<1>4. CASE pc[p] = "idle" /\ pc'[p] # "idle"
  <2>1. pc[q] = "idle" \/ Settled(q)
    BY <1>1, <1>4, EvidenceStays DEF MayBegin, Settled
  <2>2. CASE pc[q] = "idle" /\ pc'[q] # "idle"
    <3>1. \E r \in Puts : pc'[p] # pc[p] /\ pc'[q] # pc[q] /\ (Reject(r) \/ Begin(r))
      BY <1>1, <1>4, <2>2 DEF Next, vars, putVars, PutInv, TypeOK, Link, WriteFails, Return, Written,
         Observe, Appended, AppendFails, Kill, Dying, Damage, HostCrash
    <3> QED
      BY <1>1, <3>1 DEF Reject, Begin, Return, PutInv, TypeOK, Retries
  <2> QED
    BY <1>1, <2>1, <2>2, EvidenceStays
<1>5. CASE pc[q] = "idle" /\ pc'[q] # "idle"
  <2>1. pc[p] = "idle" \/ Settled(p)
    BY <1>1, <1>5, EvidenceStays DEF MayBegin, Settled
  <2> QED
    BY <1>1, <1>4, <2>1, EvidenceStays
<1> QED
  BY <1>2, <1>3, <1>4, <1>5

\* The inductive invariant behind the three properties of the composition.
LEMMA PutInvariant == Spec => []PutInv
<1>1. Init => PutInv
  BY InitPutInv
<1>2. PutInv /\ [Next]_vars => PutInv'
  <2>1. PutInv /\ [Next]_vars => TypeOK'
    BY NextTypeOK DEF PutInv
  <2> QED
    BY <2>1, PromisesStayKept, AppendsStayBehind, LedgerStaysInStep, ResultsStayInStep,
       RepetitionsStayOnEvidence DEF PutInv
<1> QED
  BY <1>1, <1>2, PTL DEF Spec

-----------------------------------------------------------------------------
(* What Put promises *)

\* Every observation in the ledger names bytes that are stored for good.
THEOREM EventsAfterBytes == Spec => []EventsNameStoredBlobs
<1>1. PutInv => EventsNameStoredBlobs
  BY DEF PutInv, PromisesKept, StoredBeforeAppend, LedgerInStep, EventsNameStoredBlobs
<1> QED
  BY <1>1, PutInvariant, PTL

\* What a put returned stays true of both stores, whatever was killed, lost or
\* still on its way.
THEOREM ResultsTrue == Spec => []ResultTruth
<1>1. PutInv => ResultTruth
  <2> SUFFICES ASSUME PutInv, NEW p \in Puts
               PROVE  /\ result[p] = "ok" => events[p] = {receipt[p]}
                      /\ result[p] = "error" => events[p] = {}
                      /\ result[p] \in PutErrors =>
                            /\ digest[p] \in promised /\ blob[digest[p]] # "absent"
                            /\ result[p] = "stored_not_committed" => events[p] = {}
    BY DEF ResultTruth
  <2> USE DEF PutInv, TypeOK, LedgerInStep, ResultsInStep
  <2>1. result[p] = "ok" => events[p] = {receipt[p]}
    OBVIOUS
  <2>2. result[p] = "error" => events[p] = {}
    BY DEF Results
  <2>3. result[p] = "stored_not_committed" => events[p] = {}
    OBVIOUS
  <2>4. result[p] \in PutErrors => digest[p] \in promised /\ blob[digest[p]] # "absent"
    BY DEF PutErrors, Reports, StoredBeforeAppend, PromisesKept
  <2> QED
    BY <2>1, <2>2, <2>3, <2>4
<1> QED
  BY <1>1, PutInvariant, PTL

\* However often a put is repeated on evidence that it left no event, what it
\* records is observed once at most: no two of the attempts, the first, the last
\* or any between, both have an event.
THEOREM RecordedOnce == Spec => []ObservedOnce
<1>1. PutInv => ObservedOnce
  <2> SUFFICES ASSUME PutInv, NEW p \in Puts, NEW q \in Retries(p)
               PROVE  events[p] = {} \/ events[q] = {}
    BY DEF ObservedOnce
  <2>1. q \in Puts
    BY RetriesSymmetric
  <2>2. pc[p] = "idle" \/ pc[q] = "idle" \/ Settled(p) \/ Settled(q)
    BY DEF PutInv, RepeatedOnEvidence
  <2>3. \A r \in Puts : pc[r] = "idle" \/ Settled(r) => events[r] = {}
    BY DEF PutInv, TypeOK, LedgerInStep, ResultsInStep, Settled, Results, PutErrors
  <2> QED
    BY <2>1, <2>2, <2>3
<1> QED
  BY <1>1, PutInvariant, PTL
=============================================================================
