------------------------- MODULE CommandLine_proofs -------------------------
(***************************************************************************)
(* Proofs about CommandLine for every number of invocations, and any       *)
(* digests and ids.                                                        *)
(***************************************************************************)
EXTENDS CommandLine, TLAPS

USE CommandAssumption DEF Artifact!Results, Artifact!Reports, Artifact!PutErrors

-----------------------------------------------------------------------------
(* The inductive invariant *)

\* The two stores and the puts are well typed.
StoresOK ==
    /\ blob \in [Digests -> {"absent", "good", "damaged"}]
    /\ promised \subseteq Digests
    /\ events \in [Runs -> SUBSET Ids]
    /\ report \in [Runs -> Artifact!Reports \cup {None}]
    /\ receipt \in [Runs -> Ids \cup {None}]
    /\ putPc \in [Runs -> {"idle", "writing", "appending", "done", "dead", "deadAppending"}]
    /\ putDigest \in [Runs -> Digests \cup {None}]
    /\ putResult \in [Runs -> Artifact!Results \cup {None}]

\* Arguments are looked at before anything is opened.
ArgumentsFirst ==
    \A r \in Runs :
        /\ command[r] = "artifact_put" => given[r] # "malformed" /\ stage[r] # "validate"
        /\ stage[r] \in {"root", "ledger", "call", "print"} \/ touched[r] # {} \/ putPc[r] # "idle"
             => given[r] = "fine"

\* What was reported stored is there.
PromisesKept == \A d \in promised : blob[d] # "absent"

\* A put has a digest from its start, stored once it appends or has an answer.
PutsInStep ==
    \A r \in Runs :
        /\ putPc[r] \in {"writing", "appending", "deadAppending"} => putDigest[r] # None
        /\ putPc[r] \in {"idle", "writing", "appending"} => putResult[r] = None
        /\ putPc[r] = "idle" => putDigest[r] = None
        /\ putPc[r] \in {"appending", "deadAppending"} => putDigest[r] \in promised
        /\ command[r] = "artifact_put" /\ report[r] # None => putDigest[r] \in promised
        /\ putPc[r] \in {"idle", "writing"} => events[r] = {} \/ command[r] = "event_put"

\* What the ledger holds and reported, by command.
LedgerInStep ==
    \A r \in Runs :
        /\ events[r] # {} \/ report[r] # None => command[r] \in {"event_put", "artifact_put"}
        /\ events[r] # {} /\ command[r] = "artifact_put"
             => putPc[r] \in {"appending", "deadAppending"} \/ report[r] # None
        /\ \A i, j \in events[r] : i = j
        /\ report[r] \in {"invalid", "not_committed"} => events[r] = {}
        /\ report[r] = "ok" => events[r] = {receipt[r]}

\* What artifact.Put returned is what the ledger reported to it.
ResultsInStep ==
    \A r \in Runs :
        /\ putPc[r] \in {"writing", "appending"} => report[r] = None
        /\ command[r] = "artifact_put" /\ putResult[r] \in {None, "error"} => report[r] = None
        /\ putResult[r] = "ok" => report[r] = "ok"
        /\ putResult[r] = "stored_not_committed" => report[r] = "not_committed"
        /\ putResult[r] = "stored_unknown" => report[r] \in {"invalid", "unknown"}

\* What the shell is told is what the library returned.
ToldTrue(r) ==
    /\ exit[r] = 0 /\ given[r] # "help" => stdout[r] = "whole"
    /\ stage[r] = "print" \/ (exit[r] = 0 /\ given[r] # "help") =>
          /\ command[r] = "event_put" => report[r] = "ok"
          /\ command[r] = "artifact_put" => putResult[r] = "ok"
    /\ stderr[r] = "not_committed" => report[r] = "not_committed"
    /\ stderr[r] \in PutErrors => putResult[r] = stderr[r]

ShellInStep == \A r \in Runs : ToldTrue(r)

\* What a get is owed is there for good.
OwedThere ==
    \A r \in owed :
        /\ stage[r] \notin {"args", "validate"} /\ stderr[r] # "notfound"
        /\ \/ command[r] = "event_get" /\ wanted[r] \in Committed
           \/ command[r] = "artifact_get" /\ wanted[r] \in promised

CommandInv ==
    /\ TypeOK
    /\ StoresOK
    /\ ArgumentsFirst
    /\ PromisesKept
    /\ PutsInStep
    /\ LedgerInStep
    /\ ResultsInStep
    /\ ShellInStep
    /\ OwedThere

\* Before the first step nothing is stored, opened or printed.
LEMMA InitCommandInv == Init => CommandInv
<1> SUFFICES ASSUME Init PROVE CommandInv
  OBVIOUS
<1> USE DEF Init, Artifact!Init, Artifact!Blobs!ContractInit, Artifact!Ledger!ContractInit
<1>1. TypeOK
  BY DEF TypeOK, Messages, PutErrors
<1>2. StoresOK
  BY DEF StoresOK
<1>3. ArgumentsFirst /\ PromisesKept /\ PutsInStep /\ LedgerInStep /\ ResultsInStep
  BY DEF ArgumentsFirst, PromisesKept, PutsInStep, LedgerInStep, ResultsInStep
<1>4. ShellInStep /\ OwedThere
  BY DEF ShellInStep, ToldTrue, OwedThere, PutErrors
<1> QED
  BY <1>1, <1>2, <1>3, <1>4 DEF CommandInv

-----------------------------------------------------------------------------
(* The order of the steps *)

\* Where a command goes next: it validates first, opens what it needs, calls, prints.
LEMMA Proceeds ==
  ASSUME NEW r \in Runs, command[r] \in Commands, Proceed(r)
  PROVE  /\ UNCHANGED <<stderr, exit>>
         /\ \E s \in {"validate", "root", "ledger", "call", "print"} :
              /\ stage' = [stage EXCEPT ![r] = s]
              /\ s = "validate" <=> stage[r] = "args" /\ command[r] # "artifact_put"
              /\ s = "print" <=> stage[r] = "call"
              /\ stage[r] \in {"args", "validate"} \cup Opens \cup {"call"}
<1> DEFINE s == Stages(command[r])
<1>1. /\ Len(s) = 5
      /\ s[1] = "args"
      /\ IF command[r] = "artifact_put" THEN s[2] = "root" ELSE s[2] = "validate"
      /\ IF command[r] = "artifact_get" THEN s[3] = "root" ELSE s[3] = "ledger"
      /\ s[4] = "call"
      /\ s[5] = "print"
  <2>1. CASE command[r] = "event_put"
    BY <2>1 DEF Stages, EventPutSteps
  <2>2. CASE command[r] = "event_get"
    BY <2>2 DEF Stages, EventGetSteps
  <2>3. CASE command[r] = "artifact_put"
    BY <2>3 DEF Stages, ArtifactPutSteps
  <2>4. CASE command[r] = "artifact_get"
    BY <2>4 DEF Stages, ArtifactGetSteps
  <2> QED
    BY <2>1, <2>2, <2>3, <2>4 DEF Commands
<1>2. PICK i \in 1..4 : s[i] = stage[r] /\ Goto(r, s[i + 1])
  BY <1>1 DEF Proceed
<1> HIDE DEF s
<1>3. i \in {1, 2, 3, 4}
  OBVIOUS
<1>4. UNCHANGED <<stderr, exit>> /\ stage' = [stage EXCEPT ![r] = s[i + 1]]
  BY <1>2 DEF Goto
<1>5. /\ s[i + 1] \in {"validate", "root", "ledger", "call", "print"}
      /\ s[i + 1] = "validate" <=> stage[r] = "args" /\ command[r] # "artifact_put"
      /\ s[i + 1] = "print" <=> stage[r] = "call"
      /\ stage[r] \in {"args", "validate"} \cup Opens \cup {"call"}
  BY <1>1, <1>2, <1>3 DEF Opens
<1> QED
  BY <1>4, <1>5

-----------------------------------------------------------------------------
(* What a step does to the stores *)

\* The ledger's side of an event put, and of an append nobody waits for any more.
EventStep(r) ==
    /\ command[r] = "event_put"
    /\ Ledger!Succeed(r) \/ Ledger!Deny(r) \/ Ledger!Shrug(r) \/ Ledger!Commit(r)
    /\ UNCHANGED <<blobVars, putVars>>

\* A step of artifact.Put.
PutStep(r) ==
    /\ command[r] = "artifact_put"
    /\ \/ Artifact!Reject(r) \/ Artifact!Begin(r) \/ Artifact!Link(r) \/ Artifact!WriteFails(r)
       \/ Artifact!Written(r) \/ Artifact!Appended(r) \/ Artifact!AppendFails(r)
       \/ Artifact!Observe(r)
    /\ putPc[r] = "idle" => stage[r] = "call"

\* artifact.Put goes down with its process.
Dies(r) ==
    /\ putPc' = [putPc EXCEPT ![r] = Artifact!Dying(r)]
    /\ UNCHANGED <<blobVars, ledgerVars, putDigest, putResult>>

\* Every step of the command is at most one step of the stores, and none changes
\* what an invocation is.
LEMMA StoreSteps ==
  ASSUME TypeOK, [Next]_vars
  PROVE  /\ UNCHANGED <<command, given>>
         /\ \/ UNCHANGED storeVars
            \/ \E r \in Runs : EventStep(r) \/ PutStep(r) \/ Dies(r)
            \/ Artifact!HostCrash
            \/ \E d \in Digests : Artifact!Damage(d)
<1> DEFINE Done == /\ UNCHANGED <<command, given>>
                   /\ \/ UNCHANGED storeVars
                      \/ \E r \in Runs : EventStep(r) \/ PutStep(r) \/ Dies(r)
                      \/ Artifact!HostCrash
                      \/ \E d \in Digests : Artifact!Damage(d)
<1>1. ASSUME NEW r \in Runs,
             ParseArgs(r) \/ Open(r) \/ EventGet(r) \/ ArtifactGet(r) \/ PrintResult(r)
      PROVE  Done
  BY <1>1 DEF ParseArgs, Open, EventGet, ArtifactGet, PrintResult, fixed
<1>2. ASSUME NEW r \in Runs, Validate(r) PROVE Done
  BY <1>2 DEF Validate, fixed
<1>3. ASSUME NEW r \in Runs, EventPut(r) PROVE Done
  <2>1. EventStep(r)
    BY <1>3 DEF EventPut, EventStep, Calling
  <2> QED
    BY <1>3, <2>1 DEF EventPut, fixed
<1>4. ASSUME NEW r \in Runs, ArtifactPut(r) PROVE Done
  <2>1. PutStep(r)
    BY <1>4 DEF ArtifactPut, PutStep, Calling
  <2> QED
    BY <1>4, <2>1 DEF ArtifactPut, fixed
<1>5. ASSUME NEW r \in Runs, Commit(r) PROVE Done
  <2>1. UNCHANGED <<command, given>>
    BY <1>5 DEF Commit, fixed
  <2>2. CASE Artifact!Observe(r)
    <3>1. command[r] = "artifact_put" /\ putPc[r] # "idle"
      BY <2>2 DEF Artifact!Observe, TypeOK
    <3> QED
      BY <2>1, <2>2, <3>1 DEF PutStep
  <2>3. CASE ~Artifact!Observe(r)
    BY <1>5, <2>1, <2>3 DEF Commit, EventStep
  <2> QED
    BY <2>2, <2>3
<1>6. ASSUME NEW r \in Runs, Kill(r) PROVE Done
  <2>1. Dies(r) /\ UNCHANGED <<command, given>>
    BY <1>6 DEF Kill, Dies, fixed
  <2> QED
    BY <2>1
<1>7. ASSUME NEW d \in Digests, Damage(d) PROVE Done
  BY <1>7 DEF Damage, fixed
<1>8. ASSUME PowerLoss PROVE Done
  BY <1>8 DEF PowerLoss, fixed
<1>9. ASSUME UNCHANGED vars PROVE Done
  BY <1>9 DEF vars, fixed
<1> QED
  BY <1>1, <1>2, <1>3, <1>4, <1>5, <1>6, <1>7, <1>8, <1>9 DEF Next

\* The bytes that were reported stored stay, and so do the events.
LEMMA StoresGrow ==
  ASSUME TypeOK, StoresOK, PromisesKept, [Next]_vars
  PROVE  /\ PromisesKept'
         /\ promised \subseteq promised'
         /\ \A r \in Runs : events[r] \subseteq events'[r]
<1> DEFINE Grown == /\ PromisesKept'
                    /\ promised \subseteq promised'
                    /\ \A r \in Runs : events[r] \subseteq events'[r]
<1> USE DEF StoresOK, PromisesKept
<1>1. CASE UNCHANGED storeVars
  BY <1>1 DEF storeVars, blobVars, ledgerVars
<1>2. ASSUME NEW r \in Runs, EventStep(r) PROVE Grown
  BY <1>2 DEF EventStep, blobVars, Ledger!Succeed, Ledger!Deny, Ledger!Shrug, Ledger!Commit
<1>3. ASSUME NEW r \in Runs, PutStep(r) PROVE Grown
  <2>1. CASE UNCHANGED blobVars
    BY <1>3, <2>1 DEF PutStep, blobVars, Artifact!blobVars, Artifact!ledgerVars, Artifact!Reject,
       Artifact!Begin, Artifact!Link, Artifact!WriteFails, Artifact!Written, Artifact!Appended,
       Artifact!AppendFails, Artifact!Observe, Artifact!Ledger!Succeed, Artifact!Ledger!Deny,
       Artifact!Ledger!Shrug, Artifact!Ledger!Commit
  <2>2. CASE Artifact!Link(r)
    BY <2>2 DEF Artifact!Link, Artifact!ledgerVars, Artifact!Blobs!Publish
  <2>3. CASE Artifact!Written(r)
    BY <2>3 DEF Artifact!Written, Artifact!ledgerVars, Artifact!Blobs!Promise
  <2> QED
    BY <1>3, <2>1, <2>2, <2>3 DEF PutStep, blobVars, Artifact!blobVars, Artifact!Reject,
       Artifact!Begin, Artifact!WriteFails, Artifact!Appended, Artifact!AppendFails,
       Artifact!Observe
<1>4. ASSUME NEW r \in Runs, Dies(r) PROVE Grown
  BY <1>4 DEF Dies, blobVars, ledgerVars
<1>5. ASSUME Artifact!HostCrash PROVE Grown
  BY <1>5 DEF Artifact!HostCrash, Artifact!Blobs!PowerLoss, Artifact!ledgerVars
<1>6. ASSUME NEW d \in Digests, Artifact!Damage(d) PROVE Grown
  BY <1>6 DEF Artifact!Damage, Artifact!Blobs!Damage, Artifact!ledgerVars
<1> QED
  BY StoreSteps, <1>1, <1>2, <1>3, <1>4, <1>5, <1>6

\* The stores and the puts stay well typed.
LEMMA NextStoresOK ==
  ASSUME TypeOK, StoresOK, PutsInStep, [Next]_vars
  PROVE  StoresOK'
<1> USE DEF StoresOK
<1>1. CASE UNCHANGED storeVars
  BY <1>1 DEF storeVars, blobVars, ledgerVars, putVars
<1>2. ASSUME NEW r \in Runs, EventStep(r) PROVE StoresOK'
  <2> USE DEF EventStep, blobVars, putVars
  <2>1. CASE Ledger!Succeed(r)
    BY <1>2, <2>1 DEF Ledger!Succeed
  <2>2. CASE Ledger!Deny(r) \/ Ledger!Shrug(r)
    BY <1>2, <2>2 DEF Ledger!Deny, Ledger!Shrug, Ledger!Denials
  <2>3. CASE Ledger!Commit(r)
    BY <1>2, <2>3 DEF Ledger!Commit
  <2> QED
    BY <1>2, <2>1, <2>2, <2>3
<1>3. ASSUME NEW r \in Runs, PutStep(r) PROVE StoresOK'
  <2> USE DEF Artifact!blobVars, Artifact!ledgerVars, Artifact!putVars, Artifact!Return
  <2>1. CASE Artifact!Reject(r) \/ Artifact!WriteFails(r)
    BY <2>1 DEF Artifact!Reject, Artifact!WriteFails
  <2>2. CASE Artifact!Begin(r)
    BY <2>2 DEF Artifact!Begin
  <2>3. CASE Artifact!Link(r)
    BY <2>3 DEF Artifact!Link, Artifact!Blobs!Publish
  <2>4. CASE Artifact!Written(r)
    BY <2>4 DEF Artifact!Written, Artifact!Blobs!Promise, PutsInStep
  <2>5. CASE Artifact!Appended(r)
    BY <2>5 DEF Artifact!Appended, Artifact!Ledger!Succeed
  <2>6. CASE Artifact!AppendFails(r)
    BY <2>6 DEF Artifact!AppendFails, Artifact!PutError, Artifact!Ledger!Deny,
       Artifact!Ledger!Shrug, Artifact!Ledger!Denials
  <2>7. CASE Artifact!Observe(r)
    BY <2>7 DEF Artifact!Observe, Artifact!Ledger!Commit
  <2> QED
    BY <1>3, <2>1, <2>2, <2>3, <2>4, <2>5, <2>6, <2>7 DEF PutStep
<1>4. ASSUME NEW r \in Runs, Dies(r) PROVE StoresOK'
  BY <1>4 DEF Dies, blobVars, ledgerVars, Artifact!Dying
<1>5. ASSUME Artifact!HostCrash PROVE StoresOK'
  BY <1>5 DEF Artifact!HostCrash, Artifact!Blobs!PowerLoss, Artifact!ledgerVars, Artifact!Dying
<1>6. ASSUME NEW d \in Digests, Artifact!Damage(d) PROVE StoresOK'
  BY <1>6 DEF Artifact!Damage, Artifact!Blobs!Damage, Artifact!ledgerVars, Artifact!putVars
<1> QED
  BY StoreSteps, <1>1, <1>2, <1>3, <1>4, <1>5, <1>6

\* No put appends before its bytes are stored or returns what the ledger did not
\* report, and no event appears for a get, a denied append or a put still writing.
LEMMA NextInStep ==
  ASSUME TypeOK, StoresOK, PromisesKept, PutsInStep, LedgerInStep, ResultsInStep, StoresOK', [Next]_vars
  PROVE  PutsInStep' /\ LedgerInStep' /\ ResultsInStep'
<1> DEFINE InStep == PutsInStep /\ LedgerInStep /\ ResultsInStep
<1> USE DEF TypeOK, StoresOK, PutsInStep, LedgerInStep, ResultsInStep
<1>0. promised \subseteq promised'
  BY StoresGrow
<1>1. CASE UNCHANGED storeVars
  BY StoreSteps, <1>1 DEF storeVars, blobVars, ledgerVars, putVars
<1>2. ASSUME NEW r \in Runs, EventStep(r) PROVE InStep'
  <2>1. UNCHANGED <<command, putPc, putDigest, putResult>>
    BY StoreSteps, <1>2 DEF EventStep, putVars
  <2>2. CASE Ledger!Succeed(r)
    BY <1>0, <1>2, <2>1, <2>2 DEF EventStep, Ledger!Succeed
  <2>3. CASE Ledger!Deny(r)
    BY <1>0, <1>2, <2>1, <2>3 DEF EventStep, Ledger!Deny, Ledger!Denials
  <2>4. CASE Ledger!Shrug(r)
    BY <1>0, <1>2, <2>1, <2>4 DEF EventStep, Ledger!Shrug
  <2>5. CASE Ledger!Commit(r)
    <3>1. PICK id \in Ids : events' = [events EXCEPT ![r] = {id}]
      BY <2>5 DEF Ledger!Commit
    <3>2. /\ events[r] = {} /\ report[r] \notin {"invalid", "not_committed"}
          /\ UNCHANGED <<report, receipt, promised>> /\ command[r] = "event_put"
      BY <1>2, <2>5 DEF EventStep, Ledger!Commit, Ledger!Denials, blobVars
    <3>3. events'[r] = {id} /\ \A k \in Runs \ {r} : events'[k] = events[k]
      BY <3>1
    <3>4. PutsInStep'
      BY <2>1, <3>2, <3>3
    <3>5. LedgerInStep'
      <4>1. \A i, j \in events'[r] : i = j
        BY <3>3
      <4>2. \A k \in Runs : \A i, j \in events'[k] : i = j
        BY <3>3, <4>1
      <4>3. report[r] = "ok" => receipt[r] \in events[r]
        OBVIOUS
      <4> QED
        BY <2>1, <3>2, <3>3, <4>2, <4>3
    <3>6. ResultsInStep'
      BY <2>1, <3>2, <3>3
    <3> QED
      BY <3>4, <3>5, <3>6
  <2> QED
    BY <1>2, <2>2, <2>3, <2>4, <2>5 DEF EventStep
<1>3. ASSUME NEW r \in Runs, PutStep(r) PROVE InStep'
  <2> USE DEF Artifact!blobVars, Artifact!ledgerVars, Artifact!putVars, Artifact!Return
  <2>0. UNCHANGED command /\ command[r] = "artifact_put"
    BY StoreSteps, <1>3 DEF PutStep
  <2>1. CASE Artifact!Reject(r)
    BY <1>0, <2>0, <2>1 DEF Artifact!Reject
  <2>2. CASE Artifact!Begin(r)
    BY <1>0, <2>0, <2>2 DEF Artifact!Begin
  <2>3. CASE Artifact!Link(r)
    BY <1>0, <2>0, <2>3 DEF Artifact!Link
  <2>4. CASE Artifact!WriteFails(r)
    BY <1>0, <2>0, <2>4 DEF Artifact!WriteFails
  <2>5. CASE Artifact!Written(r)
    BY <1>0, <2>0, <2>5 DEF Artifact!Written, Artifact!Blobs!Promise
  <2>6. CASE Artifact!Appended(r)
    BY <1>0, <2>0, <2>6 DEF Artifact!Appended, Artifact!Ledger!Succeed
  <2>7. CASE Artifact!AppendFails(r)
    BY <1>0, <2>0, <2>7 DEF Artifact!AppendFails, Artifact!PutError, Artifact!Ledger!Deny,
       Artifact!Ledger!Shrug, Artifact!Ledger!Denials
  <2>8. CASE Artifact!Observe(r)
    <3>1. PICK id \in Ids : events' = [events EXCEPT ![r] = {id}]
      BY <2>8 DEF Artifact!Observe, Artifact!Ledger!Commit
    <3>2. /\ events[r] = {} /\ report[r] \notin {"invalid", "not_committed"}
          /\ putPc[r] \in {"appending", "deadAppending"} \/ report[r] = "unknown"
          /\ UNCHANGED <<report, receipt, promised, putPc, putDigest, putResult>>
      BY <2>8 DEF Artifact!Observe, Artifact!Ledger!Commit, Artifact!Ledger!Denials
    <3>3. events'[r] = {id} /\ \A k \in Runs \ {r} : events'[k] = events[k]
      BY <3>1
    <3>4. PutsInStep'
      BY <2>0, <3>2, <3>3
    <3>5. LedgerInStep'
      <4>1. \A i, j \in events'[r] : i = j
        BY <3>3
      <4>2. \A k \in Runs : \A i, j \in events'[k] : i = j
        BY <3>3, <4>1
      <4>3. report[r] = "ok" => receipt[r] \in events[r]
        OBVIOUS
      <4> QED
        BY <2>0, <3>2, <3>3, <4>2, <4>3
    <3>6. ResultsInStep'
      BY <2>0, <3>2, <3>3
    <3> QED
      BY <3>4, <3>5, <3>6
  <2> QED
    BY <1>3, <2>1, <2>2, <2>3, <2>4, <2>5, <2>6, <2>7, <2>8 DEF PutStep
<1>4. ASSUME NEW r \in Runs, Dies(r) PROVE InStep'
  BY StoreSteps, <1>0, <1>4 DEF Dies, blobVars, ledgerVars, Artifact!Dying
<1>5. ASSUME Artifact!HostCrash PROVE InStep'
  BY StoreSteps, <1>0, <1>5 DEF Artifact!HostCrash, Artifact!ledgerVars, Artifact!Dying
<1>6. ASSUME NEW d \in Digests, Artifact!Damage(d) PROVE InStep'
  BY StoreSteps, <1>0, <1>6 DEF Artifact!Damage, Artifact!ledgerVars, Artifact!putVars
<1> QED
  BY StoreSteps, <1>1, <1>2, <1>3, <1>4, <1>5, <1>6

\* What the ledger reported and what artifact.Put returned are said once.
LEMMA AnswersStay ==
  ASSUME TypeOK, StoresOK, PutsInStep, [Next]_vars
  PROVE  \A r \in Runs : /\ report[r] # None => report'[r] = report[r]
                         /\ putResult[r] # None => putResult'[r] = putResult[r]
<1> DEFINE Stay == \A r \in Runs : /\ report[r] # None => report'[r] = report[r]
                                   /\ putResult[r] # None => putResult'[r] = putResult[r]
<1> USE DEF StoresOK
<1>1. ASSUME NEW r \in Runs, EventStep(r) PROVE Stay
  BY <1>1 DEF EventStep, putVars, Ledger!Succeed, Ledger!Deny, Ledger!Shrug, Ledger!Commit
<1>2. ASSUME NEW r \in Runs, PutStep(r) PROVE Stay
  <2> USE DEF Artifact!ledgerVars, Artifact!putVars, Artifact!Return
  <2>1. CASE Artifact!Reject(r) \/ Artifact!WriteFails(r)
    BY <2>1 DEF Artifact!Reject, Artifact!WriteFails, PutsInStep
  <2>2. CASE Artifact!Begin(r) \/ Artifact!Link(r) \/ Artifact!Written(r)
    BY <2>2 DEF Artifact!Begin, Artifact!Link, Artifact!Written
  <2>3. CASE Artifact!Appended(r) \/ Artifact!AppendFails(r)
    BY <2>3 DEF Artifact!Appended, Artifact!AppendFails, Artifact!Ledger!Succeed,
       Artifact!Ledger!Deny, Artifact!Ledger!Shrug, PutsInStep
  <2>4. CASE Artifact!Observe(r)
    BY <2>4 DEF Artifact!Observe, Artifact!Ledger!Commit
  <2> QED
    BY <1>2, <2>1, <2>2, <2>3, <2>4 DEF PutStep
<1> QED
  BY StoreSteps, <1>1, <1>2 DEF storeVars, ledgerVars, putVars, Dies, Artifact!HostCrash,
     Artifact!Damage, Artifact!ledgerVars, Artifact!putVars

\* Only an artifact put whose arguments are fine starts one.
LEMMA PutsOfPuts ==
  ASSUME TypeOK, StoresOK, ArgumentsFirst, [Next]_vars
  PROVE  \A r \in Runs : putPc'[r] # "idle" => command'[r] = "artifact_put" /\ given'[r] = "fine"
<1> DEFINE Apart ==
      \A r \in Runs : putPc'[r] # "idle" => command'[r] = "artifact_put" /\ given'[r] = "fine"
<1> USE DEF TypeOK, StoresOK, ArgumentsFirst
<1>1. CASE UNCHANGED putPc
  BY StoreSteps, <1>1
<1>2. ASSUME NEW r \in Runs, PutStep(r) PROVE Apart
  <2>1. \A k \in Runs \ {r} : putPc'[k] = putPc[k]
    BY <1>2 DEF PutStep, Artifact!Return, Artifact!putVars, Artifact!Reject, Artifact!Begin,
       Artifact!Link, Artifact!WriteFails, Artifact!Written, Artifact!Appended,
       Artifact!AppendFails, Artifact!Observe
  <2> QED
    BY StoreSteps, <1>2, <2>1 DEF PutStep
<1>3. ASSUME NEW r \in Runs, Dies(r) PROVE Apart
  BY StoreSteps, <1>3 DEF Dies, Artifact!Dying
<1>4. ASSUME Artifact!HostCrash PROVE Apart
  BY StoreSteps, <1>4 DEF Artifact!HostCrash, Artifact!Dying
<1> QED
  BY StoreSteps, <1>1, <1>2, <1>3, <1>4 DEF storeVars, putVars, EventStep, Artifact!Damage,
     Artifact!putVars

-----------------------------------------------------------------------------
(* What the shell sees *)

\* An invocation reports an error when it exits with 1 and only then, and has an
\* exit code once it has exited.
ShellOK ==
    /\ stage \in [Runs -> {"args", "validate", "root", "ledger", "call", "print", "exit", "dead"}]
    /\ stderr \in [Runs -> Messages]
    /\ exit \in [Runs -> {0, 1, None}]
    /\ \A r \in Runs : exit[r] # None <=> stage[r] = "exit"
    /\ \A r \in Runs : exit[r] = 1 <=> stderr[r] # "empty"

\* Going on, exiting and failing keep it so.
LEMMA Goes ==
  ASSUME TypeOK, NEW r \in Runs, stage[r] # "exit", Proceed(r)
  PROVE  ShellOK'
<1>1. PICK s \in {"validate", "root", "ledger", "call", "print"} : stage' = [stage EXCEPT ![r] = s]
  BY Proceeds DEF TypeOK
<1>2. UNCHANGED <<stderr, exit>> /\ exit[r] = None
  BY Proceeds DEF TypeOK
<1> QED
  BY <1>1, <1>2 DEF TypeOK, ShellOK

LEMMA Exits ==
  ASSUME TypeOK, NEW r \in Runs, Exit(r, 0, "empty")
  PROVE  ShellOK'
  BY DEF TypeOK, ShellOK, Exit, Messages

LEMMA Fails ==
  ASSUME TypeOK, NEW r \in Runs, NEW m \in Messages \ {"empty"}, Fail(r, m)
  PROVE  ShellOK'
  BY DEF TypeOK, ShellOK, Exit, Fail

\* Every step keeps the command well typed.
LEMMA NextTypeOK ==
  ASSUME TypeOK, StoresOK, ArgumentsFirst, StoresOK', [Next]_vars
  PROVE  TypeOK'
<1> DEFINE Rest ==
      /\ wanted \in [Runs -> Ids \cup Digests \cup {None}] /\ toFile \subseteq Runs
      /\ touched \in [Runs -> SUBSET Opens] /\ owed \subseteq Runs
      /\ stdout \in [Runs -> {"empty", "part", "whole"}]
<1>0. Rest /\ ShellOK
  BY DEF TypeOK, ShellOK
<1>1. ASSUME NEW r \in Runs, ParseArgs(r) PROVE Rest' /\ ShellOK'
  BY Goes, Exits, Fails, <1>0, <1>1 DEF ParseArgs, fixed, Messages
<1>2. ASSUME NEW r \in Runs, Validate(r) PROVE Rest' /\ ShellOK'
  <2>1. ShellOK'
    BY Goes, Fails, <1>2 DEF Validate, Messages
  <2>2. CASE UNCHANGED fixed
    BY <1>0, <1>2, <2>1, <2>2 DEF Validate, fixed
  <2>3. CASE ~UNCHANGED fixed
    <3>1. PICK x \in Ids \cup Digests \cup {None} : wanted' = [wanted EXCEPT ![r] = x]
      BY <1>2, <2>3 DEF Validate
    <3>2. owed' \subseteq Runs /\ toFile' \subseteq Runs /\ UNCHANGED <<touched, stdout>>
      BY <1>0, <1>2, <2>3 DEF Validate
    <3> QED
      BY <1>0, <2>1, <3>1, <3>2
  <2> QED
    BY <2>2, <2>3
<1>3. ASSUME NEW r \in Runs, Open(r) PROVE Rest' /\ ShellOK'
  <2>1. ShellOK'
    BY Goes, Fails, <1>3 DEF Open, Opens, Messages
  <2> QED
    BY <1>0, <1>3, <2>1 DEF Open, fixed
<1>4. ASSUME NEW r \in Runs, EventPut(r) PROVE Rest' /\ ShellOK'
  <2>1. CASE Proceed(r)
    BY Goes, <1>0, <1>4, <2>1 DEF EventPut, Calling, fixed
  <2>2. CASE ~Proceed(r)
    <3>1. report'[r] \in {"invalid", "not_committed", "unknown"}
      BY <1>4, <2>2 DEF EventPut, Ledger!Deny, Ledger!Shrug, Ledger!Denials, StoresOK
    <3>2. PICK m \in Messages \ {"empty"} : Fail(r, m)
      BY <1>4, <2>2, <3>1 DEF EventPut, Messages
    <3> QED
      BY Fails, <1>0, <1>4, <3>2 DEF EventPut, fixed
  <2> QED
    BY <2>1, <2>2
<1>5. ASSUME NEW r \in Runs, ArtifactPut(r) PROVE Rest' /\ ShellOK'
  <2>1. CASE putResult'[r] = None
    BY <1>0, <1>5, <2>1 DEF ArtifactPut, fixed, ShellOK
  <2>2. CASE putResult'[r] = "ok"
    BY Goes, <1>0, <1>5, <2>2 DEF ArtifactPut, Calling, fixed
  <2>3. CASE putResult'[r] \notin {None, "ok"}
    <3>1. PICK m \in Messages \ {"empty"} : Fail(r, m)
      BY <1>5, <2>3 DEF ArtifactPut, PutMessage, PutErrors, Messages
    <3> QED
      BY Fails, <1>0, <1>5, <3>1 DEF ArtifactPut, fixed
  <2> QED
    BY <2>1, <2>2, <2>3
<1>6. ASSUME NEW r \in Runs, EventGet(r) PROVE Rest' /\ ShellOK'
  BY Goes, Fails, <1>0, <1>6 DEF EventGet, Calling, GetFailure, fixed, Messages
<1>7. ASSUME NEW r \in Runs, ArtifactGet(r) PROVE Rest' /\ ShellOK'
  <2>1. ShellOK'
    BY Goes, Exits, Fails, <1>7 DEF ArtifactGet, Calling, Messages
  <2> QED
    BY <1>0, <1>7, <2>1 DEF ArtifactGet, fixed
<1>8. ASSUME NEW r \in Runs, PrintResult(r) PROVE Rest' /\ ShellOK'
  <2>1. ShellOK'
    BY Exits, Fails, <1>8 DEF PrintResult, Messages
  <2> QED
    BY <1>0, <1>8, <2>1 DEF PrintResult, fixed
<1>9. ASSUME NEW r \in Runs, Kill(r) PROVE Rest' /\ ShellOK'
  BY <1>0, <1>9 DEF Kill, fixed, ShellOK
<1>10. ASSUME PowerLoss PROVE Rest' /\ ShellOK'
  BY <1>0, <1>10 DEF PowerLoss, fixed, ShellOK
<1>11. ASSUME UNCHANGED <<fixed, stage, touched, stdout, stderr, exit>> PROVE Rest' /\ ShellOK'
  <2>1. UNCHANGED <<wanted, toFile, owed, touched, stdout, stage, stderr, exit>>
    BY <1>11 DEF fixed
  <2> QED
    BY <1>0, <2>1 DEF ShellOK
<1>12. (\E r \in Runs : Commit(r)) \/ (\E d \in Digests : Damage(d)) \/ UNCHANGED vars
         => UNCHANGED <<fixed, stage, touched, stdout, stderr, exit>>
  BY DEF Commit, Damage, vars
<1>13. Rest' /\ ShellOK'
  BY <1>1, <1>2, <1>3, <1>4, <1>5, <1>6, <1>7, <1>8, <1>9, <1>10, <1>11, <1>12 DEF Next
<1> QED
  BY StoreSteps, PutsOfPuts, <1>13 DEF TypeOK, ShellOK

\* Nothing is opened, called or printed before the arguments are found fine.
LEMMA NextArgumentsFirst ==
  ASSUME TypeOK, StoresOK, ArgumentsFirst, TypeOK', StoresOK', [Next]_vars
  PROVE  ArgumentsFirst'
<1> DEFINE Early(r) == stage'[r] \in {"root", "ledger", "call", "print"} \/ touched'[r] # {}
           First == \A r \in Runs :
                      /\ Early(r) => given[r] = "fine"
                      /\ command[r] = "artifact_put" => stage'[r] # "validate"
<1> USE DEF TypeOK, ArgumentsFirst
<1>1. ASSUME NEW r \in Runs, Proceed(r), given[r] = "fine" \/ stage[r] = "args",
             stage[r] = "args" => given[r] \in {"malformed", "fine"},
             \A k \in Runs \ {r} : touched'[k] = touched[k],
             touched'[r] # {} => given[r] = "fine"
      PROVE  First
  <2>1. PICK s \in {"validate", "root", "ledger", "call", "print"} :
           /\ stage' = [stage EXCEPT ![r] = s]
           /\ s = "validate" <=> stage[r] = "args" /\ command[r] # "artifact_put"
    BY <1>1, Proceeds
  <2>2. s # "validate" => given[r] = "fine"
    BY <1>1, <2>1
  <2> QED
    BY <1>1, <2>1, <2>2
<1>2. ASSUME NEW r \in Runs, NEW c, NEW m, Exit(r, c, m),
             \A k \in Runs \ {r} : touched'[k] = touched[k],
             touched'[r] # {} => given[r] = "fine"
      PROVE  First
  BY <1>2 DEF Exit
<1>3. ASSUME NEW r \in Runs, ParseArgs(r) PROVE First
  BY <1>1, <1>2, <1>3 DEF ParseArgs, Fail
<1>4. ASSUME NEW r \in Runs, Validate(r) PROVE First
  BY <1>1, <1>2, <1>4 DEF Validate, Fail
<1>5. ASSUME NEW r \in Runs, Open(r) PROVE First
  BY <1>1, <1>2, <1>5 DEF Open, Opens, Fail
<1>6. ASSUME NEW r \in Runs,
             EventPut(r) \/ EventGet(r) \/ ArtifactGet(r) \/ ArtifactPut(r) \/ PrintResult(r)
      PROVE  First
  <2>1. given[r] = "fine" /\ UNCHANGED touched /\ stage[r] # "args"
    BY <1>6 DEF EventPut, EventGet, ArtifactGet, ArtifactPut, PrintResult, Calling
  <2>2. \/ Proceed(r) \/ UNCHANGED stage
        \/ \E m : Exit(r, 0, m) \/ Exit(r, 1, m)
    BY <1>6 DEF EventPut, EventGet, ArtifactGet, ArtifactPut, PrintResult, Fail
  <2> QED
    BY <1>1, <1>2, <2>1, <2>2
<1>7. ASSUME NEW r \in Runs, Kill(r) PROVE First
  BY <1>7 DEF Kill
<1>8. ASSUME PowerLoss PROVE First
  BY <1>8 DEF PowerLoss
<1>9. ASSUME UNCHANGED <<stage, touched>> PROVE First
  BY <1>9
<1>10. First
  BY <1>3, <1>4, <1>5, <1>6, <1>7, <1>8, <1>9 DEF Next, Commit, Damage, vars
<1> QED
  BY StoreSteps, PutsOfPuts, <1>10


\* What the shell is told of a put is what the put was told, and stays so.
LEMMA NextShellInStep ==
  ASSUME TypeOK, StoresOK, ArgumentsFirst, PutsInStep, ResultsInStep, ShellInStep,
         TypeOK', StoresOK', [Next]_vars
  PROVE  ShellInStep'
<1>0. /\ UNCHANGED <<command, given>>
      /\ \A r \in Runs : /\ report[r] # None => report'[r] = report[r]
                         /\ putResult[r] # None => putResult'[r] = putResult[r]
  BY StoreSteps, AnswersStay
<1>00. ASSUME NEW k \in Runs, ToldTrue(k)
      PROVE  /\ stderr[k] \in PutErrors => putResult'[k] = stderr[k]
             /\ stderr[k] = "not_committed" => report'[k] = "not_committed"
             /\ stage[k] = "print" \/ (exit[k] = 0 /\ given[k] # "help") =>
                   /\ command[k] = "event_put" => report'[k] = "ok"
                   /\ command[k] = "artifact_put" => putResult'[k] = "ok"
  BY <1>0, <1>00 DEF ToldTrue, PutErrors
<1> USE DEF TypeOK, ShellInStep
<1>5. ASSUME NEW k \in Runs, stdout'[k] = stdout[k], stderr'[k] = stderr[k], exit'[k] = exit[k],
             stage'[k] = "print" => stage[k] = "print"
      PROVE  ToldTrue(k)'
  BY <1>0, <1>00, <1>5 DEF ToldTrue
<1>1. ASSUME NEW r \in Runs, Proceed(r), stage[r] # "exit", UNCHANGED stdout,
             stage[r] = "call" =>
                /\ command[r] = "event_put" => report'[r] = "ok"
                /\ command[r] = "artifact_put" => putResult'[r] = "ok"
      PROVE  ShellInStep'
  <2>1. PICK s \in {"validate", "root", "ledger", "call", "print"} :
           stage' = [stage EXCEPT ![r] = s] /\ (s = "print" <=> stage[r] = "call")
    BY <1>1, Proceeds
  <2>2. UNCHANGED <<stderr, exit>> /\ exit[r] = None /\ stderr[r] = "empty"
    BY <1>1, Proceeds
  <2>3. ToldTrue(r)'
    BY <1>0, <1>1, <2>1, <2>2 DEF ToldTrue, PutErrors
  <2>4. \A k \in Runs \ {r} : ToldTrue(k)'
    BY <1>1, <1>5, <2>1, <2>2
  <2> QED
    BY <2>3, <2>4
<1>2. ASSUME NEW r \in Runs, NEW c \in {0, 1}, NEW m, Exit(r, c, m),
             \A k \in Runs \ {r} : stdout'[k] = stdout[k],
             m = "not_committed" => report'[r] = "not_committed",
             m \in PutErrors => putResult'[r] = m,
             c = 0 => \/ given[r] = "help"
                      \/ stdout'[r] = "whole" /\ (stage[r] = "print" \/ command[r] = "artifact_get")
      PROVE  ShellInStep'
  <2>1. stage'[r] = "exit" /\ exit'[r] = c /\ stderr'[r] = m
    BY <1>2 DEF Exit
  <2>2. stage[r] = "print" => /\ command[r] = "event_put" => report'[r] = "ok"
                              /\ command[r] = "artifact_put" => putResult'[r] = "ok"
    BY <1>00
  <2>3. ToldTrue(r)'
    BY <1>0, <1>2, <2>1, <2>2 DEF ToldTrue
  <2>4. \A k \in Runs \ {r} : ToldTrue(k)'
    BY <1>2, <1>5 DEF Exit
  <2> QED
    BY <2>3, <2>4
<1>3. ASSUME UNCHANGED <<stdout, stderr, exit>>,
             \A r \in Runs : stage'[r] = "print" => stage[r] = "print"
      PROVE  ShellInStep'
  BY <1>3, <1>5
<1>6. ASSUME NEW r \in Runs, ParseArgs(r) PROVE ShellInStep'
  BY <1>1, <1>2, <1>6 DEF Fail, ParseArgs, PutErrors
<1>7. ASSUME NEW r \in Runs, Validate(r) \/ Open(r) PROVE ShellInStep'
  BY <1>1, <1>2, <1>7 DEF Fail, Validate, Open, Opens, PutErrors
<1>8. ASSUME NEW r \in Runs, EventPut(r) PROVE ShellInStep'
  <2>1. CASE Ledger!Succeed(r) /\ Proceed(r)
    BY <1>1, <1>8, <2>1 DEF Fail, EventPut, Calling, Ledger!Succeed, StoresOK
  <2>2. CASE ~(Ledger!Succeed(r) /\ Proceed(r))
    <3>1. report'[r] \in {"invalid", "not_committed", "unknown"}
      BY <1>8, <2>2 DEF EventPut, Ledger!Deny, Ledger!Shrug, Ledger!Denials, StoresOK
    <3> QED
      BY <1>2, <1>8, <2>2, <3>1 DEF Fail, EventPut, PutErrors
  <2> QED
    BY <2>1, <2>2
<1>9. ASSUME NEW r \in Runs, ArtifactPut(r) PROVE ShellInStep'
  <2>1. CASE putResult'[r] = None
    BY <1>3, <1>9, <2>1 DEF ArtifactPut
  <2>2. CASE putResult'[r] = "ok"
    BY <1>1, <1>9, <2>2 DEF Fail, ArtifactPut, Calling
  <2>3. CASE putResult'[r] \notin {None, "ok"}
    BY <1>2, <1>9, <2>3 DEF Fail, ArtifactPut, PutMessage, PutErrors
  <2> QED
    BY <2>1, <2>2, <2>3
<1>10. ASSUME NEW r \in Runs, EventGet(r) PROVE ShellInStep'
  BY <1>1, <1>2, <1>10 DEF Fail, EventGet, Calling, GetFailure, PutErrors
<1>11. ASSUME NEW r \in Runs, ArtifactGet(r) PROVE ShellInStep'
  BY <1>1, <1>2, <1>11 DEF Fail, ArtifactGet, Calling, PutErrors
<1>12. ASSUME NEW r \in Runs, PrintResult(r) PROVE ShellInStep'
  BY <1>2, <1>12 DEF Fail, PrintResult, PutErrors
<1>13. ASSUME NEW r \in Runs, Kill(r) PROVE ShellInStep'
  BY <1>3, <1>13 DEF Kill
<1>14. ASSUME PowerLoss PROVE ShellInStep'
  BY <1>3, <1>14 DEF PowerLoss
<1> QED
  BY <1>3, <1>6, <1>7, <1>8, <1>9, <1>10, <1>11, <1>12, <1>13, <1>14 DEF Next, Commit, Damage, vars

\* What an invocation that exited 0 had printed is in the ledger or reported stored.
LEMMA PrintedIsThere ==
  ASSUME CommandInv, NEW k \in Runs, NEW x \in Printed(k)
  PROVE  x \in Committed \cap Ids \/ x \in promised \cap Digests
<1> USE DEF CommandInv, TypeOK, StoresOK
<1>1. /\ exit[k] = 0 /\ command[k] # "event_get" /\ x # None
      /\ x \in events[k] \/ x = putDigest[k]
  BY DEF Printed
<1>2. CASE x \in events[k]
  BY <1>2 DEF Committed
<1>3. CASE x = putDigest[k]
  <2>1. putPc[k] # "idle"
    BY <1>1, <1>3 DEF PutsInStep
  <2>2. command[k] = "artifact_put" /\ given[k] = "fine"
    BY <2>1 DEF ArgumentsFirst
  <2>3. putResult[k] = "ok"
    BY <1>1, <2>2 DEF ShellInStep, ToldTrue
  <2>4. report[k] = "ok"
    BY <2>3 DEF ResultsInStep
  <2>5. putDigest[k] \in promised
    BY <2>2, <2>4 DEF PutsInStep
  <2> QED
    BY <1>3, <2>5
<1> QED
  BY <1>1, <1>2, <1>3

\* A get that is owed what it asks for finds it.
LEMMA NextOwedThere ==
  ASSUME CommandInv, TypeOK', StoresOK', [Next]_vars
  PROVE  OwedThere'
<1> USE DEF CommandInv, TypeOK, OwedThere
<1>0. UNCHANGED command /\ promised \subseteq promised' /\ Committed \subseteq Committed'
  BY StoreSteps, StoresGrow DEF Committed
<1>1. ASSUME UNCHANGED <<wanted, owed>>,
             \A r \in owed : stage'[r] \notin {"args", "validate"} /\ stderr'[r] # "notfound"
      PROVE  OwedThere'
  BY <1>0, <1>1
<1>2. ASSUME NEW r \in Runs, Proceed(r), stage[r] # "args", UNCHANGED <<wanted, owed>>
      PROVE  OwedThere'
  <2>1. PICK s \in {"root", "ledger", "call", "print"} : stage' = [stage EXCEPT ![r] = s]
    BY <1>2, Proceeds
  <2>2. UNCHANGED stderr
    BY <1>2, Proceeds
  <2> QED
    BY <1>1, <1>2, <2>1, <2>2
<1>3. ASSUME NEW r \in Runs, NEW c, NEW m, Exit(r, c, m), r \in owed => m # "notfound",
             UNCHANGED <<wanted, owed>>
      PROVE  OwedThere'
  BY <1>1, <1>3 DEF Exit
<1>4. ASSUME NEW r \in Runs, ParseArgs(r) PROVE OwedThere'
  <2>1. CASE Proceed(r)
    <3>1. r \notin owed
      BY <1>4 DEF ParseArgs
    <3>2. UNCHANGED stderr /\ \A q \in Runs \ {r} : stage'[q] = stage[q]
      BY <2>1, Proceeds
    <3> QED
      BY <1>1, <1>4, <3>1, <3>2 DEF ParseArgs, fixed
  <2>2. CASE ~Proceed(r)
    BY <1>3, <1>4, <2>2 DEF ParseArgs, Fail, fixed
  <2> QED
    BY <2>1, <2>2
<1>5. ASSUME NEW r \in Runs, Validate(r) PROVE OwedThere'
  <2>0. r \notin owed
    BY <1>5 DEF Validate
  <2>1. CASE UNCHANGED fixed
    BY <1>2, <1>3, <1>5, <2>1 DEF Validate, Fail, fixed
  <2>2. CASE ~UNCHANGED fixed
    <3>1. PICK x \in CASE command[r] = "event_get" -> Ids
                        [] command[r] = "artifact_get" -> Digests
                        [] OTHER -> {None} :
             /\ wanted' = [wanted EXCEPT ![r] = x]
             /\ owed' = owed \cup {q \in {r} : \E k \in Runs : x \in Printed(k)}
      BY <1>5, <2>2 DEF Validate
    <3>2. PICK s \in {"root", "ledger", "call", "print"} : stage' = [stage EXCEPT ![r] = s]
      BY <1>5, <2>2, Proceeds DEF Validate
    <3>3. stderr' = stderr /\ stderr[r] = "empty"
      BY <1>5, <2>2, Proceeds DEF Validate
    <3>4. ASSUME NEW k \in Runs, x \in Printed(k)
          PROVE  \/ command[r] = "event_get" /\ x \in Committed
                 \/ command[r] = "artifact_get" /\ x \in promised
      <4>1. x \in Committed \cap Ids \/ x \in promised \cap Digests
        BY <3>4, PrintedIsThere
      <4> QED
        BY <3>1, <4>1
    <3> QED
      BY <1>0, <2>0, <3>1, <3>2, <3>3, <3>4
  <2> QED
    BY <2>1, <2>2
<1>6. ASSUME NEW r \in Runs, Open(r) \/ PrintResult(r) PROVE OwedThere'
  BY <1>2, <1>3, <1>6 DEF Open, Opens, PrintResult, Fail, fixed
<1>7. ASSUME NEW r \in Runs, EventPut(r) \/ ArtifactPut(r) PROVE OwedThere'
  <2>1. r \notin owed
    BY <1>7 DEF EventPut, ArtifactPut, Calling
  <2>2. \/ Proceed(r) \/ UNCHANGED <<stage, stderr>>
        \/ \E m : Exit(r, 1, m)
    BY <1>7 DEF EventPut, ArtifactPut, Fail
  <2> QED
    BY <1>1, <1>2, <1>3, <1>7, <2>1, <2>2 DEF EventPut, ArtifactPut, Calling, fixed
<1>8. ASSUME NEW r \in Runs, EventGet(r) PROVE OwedThere'
  BY <1>2, <1>3, <1>8 DEF EventGet, Calling, GetFailure, Fail, fixed
<1>9. ASSUME NEW r \in Runs, ArtifactGet(r) PROVE OwedThere'
  BY <1>2, <1>3, <1>9 DEF ArtifactGet, Calling, Fail, PromisesKept, fixed
<1>10. ASSUME NEW r \in Runs, Kill(r) PROVE OwedThere'
  BY <1>1, <1>10 DEF Kill, fixed
<1>11. ASSUME PowerLoss PROVE OwedThere'
  BY <1>1, <1>11 DEF PowerLoss, fixed
<1> QED
  BY <1>1, <1>4, <1>5, <1>6, <1>7, <1>8, <1>9, <1>10, <1>11 DEF Next, Commit, Damage, vars, fixed

-----------------------------------------------------------------------------
(* The theorems *)

LEMMA NextCommandInv == CommandInv /\ [Next]_vars => CommandInv'
<1> SUFFICES ASSUME CommandInv, [Next]_vars PROVE CommandInv'
  OBVIOUS
<1>1. StoresOK' /\ PromisesKept'
  BY NextStoresOK, StoresGrow DEF CommandInv
<1>2. TypeOK' /\ ArgumentsFirst'
  BY <1>1, NextTypeOK, NextArgumentsFirst DEF CommandInv
<1>3. PutsInStep' /\ LedgerInStep' /\ ResultsInStep'
  BY <1>1, NextInStep DEF CommandInv
<1>4. ShellInStep' /\ OwedThere'
  BY <1>1, <1>2, NextShellInStep, NextOwedThere DEF CommandInv
<1> QED
  BY <1>1, <1>2, <1>3, <1>4 DEF CommandInv

LEMMA InvHolds == Spec => []CommandInv
  BY InitCommandInv, NextCommandInv, PTL DEF Spec

\* Every reachable state of the command is well typed: an invocation has an exit
\* code once it exited, and 1 goes with an error on stderr and only then.
THEOREM TypeCorrect == Spec => []TypeOK
<1>1. CommandInv => TypeOK
  BY DEF CommandInv
<1> QED
  BY <1>1, InvHolds, PTL

\* Whatever the command and however many run at once, arguments that are turned
\* away lead to no connection and no directory under --root.
THEOREM NothingTouched == Spec => []RefusedTouchesNothing
<1>1. CommandInv => RefusedTouchesNothing
  BY DEF CommandInv, ArgumentsFirst, RefusedTouchesNothing, TypeOK
<1> QED
  BY <1>1, InvHolds, PTL

\* Exit 0 is the truth about both stores, for good: whatever is killed, committed
\* late, damaged or lost with the power later, the event and the bytes are there.
THEOREM ExitZero == Spec => []ExitZeroTrue
<1>1. ASSUME CommandInv PROVE ExitZeroTrue
  <2> SUFFICES ASSUME NEW r \in Runs, exit[r] = 0, given[r] # "help"
               PROVE  /\ stdout[r] = "whole"
                      /\ command[r] \in {"event_put", "artifact_put"} => events[r] = {receipt[r]}
                      /\ command[r] = "artifact_put" =>
                            putDigest[r] \in promised /\ blob[putDigest[r]] # "absent"
    BY DEF ExitZeroTrue
  <2>1. stdout[r] = "whole"
    BY <1>1 DEF CommandInv, ShellInStep, ToldTrue
  <2>2. command[r] \in {"event_put", "artifact_put"} => report[r] = "ok"
    BY <1>1 DEF CommandInv, ShellInStep, ToldTrue, ResultsInStep
  <2>3. command[r] \in {"event_put", "artifact_put"} => events[r] = {receipt[r]}
    BY <1>1, <2>2 DEF CommandInv, LedgerInStep
  <2>4. command[r] = "artifact_put" => putDigest[r] \in promised
    BY <1>1, <2>2 DEF CommandInv, PutsInStep
  <2> QED
    BY <1>1, <2>1, <2>3, <2>4 DEF CommandInv, PromisesKept
<1> QED
  BY <1>1, InvHolds, PTL

\* What stderr said of the stores is true and stays true.
THEOREM StderrStaysTrue == Spec => []StderrTrue
<1>1. ASSUME CommandInv PROVE StderrTrue
  <2> SUFFICES ASSUME NEW r \in Runs
               PROVE  /\ stderr[r] \in {"not_committed", "stored_not_committed"} => events[r] = {}
                      /\ stderr[r] \in PutErrors =>
                            putDigest[r] \in promised /\ blob[putDigest[r]] # "absent"
    BY DEF StderrTrue
  <2>1. stderr[r] \in {"not_committed", "stored_not_committed"} => report[r] = "not_committed"
    BY <1>1 DEF CommandInv, ShellInStep, ToldTrue, ResultsInStep, PutErrors
  <2>2. stderr[r] \in PutErrors => putPc[r] # "idle" /\ report[r] # None
    BY <1>1 DEF CommandInv, ShellInStep, ToldTrue, ResultsInStep, PutsInStep, PutErrors
  <2>3. stderr[r] \in PutErrors => putDigest[r] \in promised
    BY <1>1, <2>2 DEF CommandInv, TypeOK, StoresOK, PutsInStep
  <2> QED
    BY <1>1, <2>1, <2>3 DEF CommandInv, LedgerInStep, PromisesKept
<1> QED
  BY <1>1, InvHolds, PTL

\* What an invocation printed with exit 0 is never "not found" by a later one.
THEOREM PrintedReadsBack == Spec => []ReadsBack
<1>1. CommandInv => ReadsBack
  BY DEF CommandInv, OwedThere, ReadsBack
<1> QED
  BY <1>1, InvHolds, PTL
=============================================================================
