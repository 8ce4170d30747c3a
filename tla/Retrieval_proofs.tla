-------------------------- MODULE Retrieval_proofs --------------------------
(***************************************************************************)
(* Proofs about the two gets, for any number of them, with any blobs and   *)
(* destinations.                                                           *)
(***************************************************************************)
EXTENDS Retrieval, TLAPS

USE GetAssumption

\* A staging file exists from Lookup to the deferred os.Remove, for gets to a
\* file only; one that outlives its get was left behind by an error or a kill.
StagingInv ==
    \A g \in Gets :
        /\ pc[g] \in {"idle", "lookup"} => g \notin temps
        /\ pc[g] \in {"copy", "check"} => (g \in temps <=> ToFile(g))
        /\ pc[g] \in {"sync", "link", "syncDir"} => g \in temps /\ ToFile(g)
        /\ pc[g] = "unwind" => g \in temps
        /\ pc[g] \in {"done", "dead"} /\ g \in temps => g \in left

\* A copy is synced by its own get, after the last byte and before the check.
SyncedInv ==
    \A g \in Gets :
        /\ g \in synced => pc[g] \notin {"idle", "lookup", "copy", "sync"}
        /\ pc[g] \in {"check", "link", "syncDir"} /\ ToFile(g) => g \in synced
        /\ pc[g] \in {"link", "syncDir"} => bytes[g] = "good"

\* A destination holds the synced and verified copy of a get that aimed at it.
PublishedInv ==
    /\ \A x \in Paths : dest[x] \in Gets =>
          /\ Dest[dest[x]] = x
          /\ dest[x] \in synced /\ bytes[dest[x]] = "good"
    /\ \A g \in Gets : pc[g] = "syncDir" => dest[Dest[g]] = g

\* Success is for good already while the staging file is being removed.
SuccessInv ==
    \A g \in Gets : outcome[g] = "ok" =>
        /\ bytes[g] = "good"
        /\ ToFile(g) => dest[Dest[g]] = g /\ Dest[g] \in durable /\ g \in synced

GetInv == TypeOK /\ StagingInv /\ SyncedInv /\ PublishedInv /\ SuccessInv

-----------------------------------------------------------------------------

\* Paths are destinations of gets, and digests are blobs of gets.
LEMMA Targets ==
  /\ \A g \in Gets : Blob[g] \in Digests
  /\ \A g \in Gets : ToFile(g) => Dest[g] \in Paths
BY DEF Digests, Paths, ToFile

\* Every step keeps the state well typed.
LEMMA NextTypeOK ==
  ASSUME TypeOK, [Next]_vars
  PROVE  TypeOK'
<1> USE DEF TypeOK, Goto, Finish, Active, Failures, fileVars
<1>1. ASSUME NEW g \in Gets, Begin(g) PROVE TypeOK'
  BY <1>1 DEF Begin
<1>2. ASSUME NEW g \in Gets, Lookup(g) PROVE TypeOK'
  BY <1>2 DEF Lookup
<1>3. ASSUME NEW g \in Gets, Copy(g) PROVE TypeOK'
  BY <1>3 DEF Copy
<1>4. ASSUME NEW g \in Gets, Sync(g) PROVE TypeOK'
  BY <1>4 DEF Sync
<1>5. ASSUME NEW g \in Gets, CheckSum(g) PROVE TypeOK'
  BY <1>5 DEF CheckSum
<1>6. ASSUME NEW g \in Gets, Link(g) PROVE TypeOK'
  BY <1>6 DEF Link
<1>7. ASSUME NEW g \in Gets, SyncDir(g) PROVE TypeOK'
  BY <1>7, Targets DEF SyncDir
<1>8. ASSUME NEW g \in Gets, Unwind(g) PROVE TypeOK'
  BY <1>8 DEF Unwind
<1>9. ASSUME NEW g \in Gets, StepFails(g) PROVE TypeOK'
  BY <1>9 DEF StepFails
<1>10. ASSUME NEW g \in Gets, Kill(g) PROVE TypeOK'
  BY <1>10 DEF Kill
<1>11. ASSUME NEW d \in Digests, NEW s \in {"good", "damaged", "foreign"}, Store(d, s)
       PROVE  TypeOK'
  BY <1>11 DEF Store
<1>12. ASSUME NEW x \in Paths, Occupy(x) PROVE TypeOK'
  BY <1>12 DEF Occupy
<1>13. ASSUME PowerLoss PROVE TypeOK'
  BY <1>13 DEF PowerLoss
<1>14. CASE UNCHANGED vars
  BY <1>14 DEF vars
<1> QED
  BY <1>1, <1>2, <1>3, <1>4, <1>5, <1>6, <1>7, <1>8, <1>9, <1>10,
     <1>11, <1>12, <1>13, <1>14
     DEF Next, Step

\* Every step keeps the staging files in step with their gets: os.Remove is deferred
\* as soon as CreateTemp has returned.
LEMMA NextStagingInv ==
  ASSUME TypeOK, StagingInv, [Next]_vars
  PROVE  StagingInv'
<1> USE DEF TypeOK, StagingInv, Goto, Finish, Active, Failures, fileVars
<1>1. ASSUME NEW g \in Gets, Begin(g) PROVE StagingInv'
  BY <1>1 DEF Begin
<1>2. ASSUME NEW g \in Gets, Lookup(g) PROVE StagingInv'
  BY <1>2 DEF Lookup
<1>3. ASSUME NEW g \in Gets, Copy(g) PROVE StagingInv'
  BY <1>3 DEF Copy
<1>4. ASSUME NEW g \in Gets, Sync(g) PROVE StagingInv'
  BY <1>4 DEF Sync
<1>5. ASSUME NEW g \in Gets, CheckSum(g) PROVE StagingInv'
  BY <1>5 DEF CheckSum
<1>6. ASSUME NEW g \in Gets, Link(g) PROVE StagingInv'
  BY <1>6 DEF Link
<1>7. ASSUME NEW g \in Gets, SyncDir(g) PROVE StagingInv'
  BY <1>7 DEF SyncDir
<1>8. ASSUME NEW g \in Gets, Unwind(g) PROVE StagingInv'
  BY <1>8 DEF Unwind
<1>9. ASSUME NEW g \in Gets, StepFails(g) PROVE StagingInv'
  BY <1>9 DEF StepFails
<1>10. ASSUME NEW g \in Gets, Kill(g) PROVE StagingInv'
  BY <1>10 DEF Kill
<1>11. ASSUME NEW d \in Digests, NEW s \in {"good", "damaged", "foreign"}, Store(d, s)
       PROVE  StagingInv'
  BY <1>11 DEF Store
<1>12. ASSUME NEW x \in Paths, Occupy(x) PROVE StagingInv'
  BY <1>12 DEF Occupy
<1>13. ASSUME PowerLoss PROVE StagingInv'
  BY <1>13 DEF PowerLoss
<1>14. CASE UNCHANGED vars
  BY <1>14 DEF vars
<1> QED
  BY <1>1, <1>2, <1>3, <1>4, <1>5, <1>6, <1>7, <1>8, <1>9, <1>10,
     <1>11, <1>12, <1>13, <1>14
     DEF Next, Step

\* Every step keeps the order copy, sync, check, link.
LEMMA NextSyncedInv ==
  ASSUME TypeOK, StagingInv, SyncedInv, [Next]_vars
  PROVE  SyncedInv'
<1> USE DEF TypeOK, StagingInv, SyncedInv, Goto, Finish, Active, Failures, fileVars
<1>1. ASSUME NEW g \in Gets, Begin(g) PROVE SyncedInv'
  BY <1>1 DEF Begin
<1>2. ASSUME NEW g \in Gets, Lookup(g) PROVE SyncedInv'
  BY <1>2 DEF Lookup
<1>3. ASSUME NEW g \in Gets, Copy(g) PROVE SyncedInv'
  BY <1>3 DEF Copy
<1>4. ASSUME NEW g \in Gets, Sync(g) PROVE SyncedInv'
  BY <1>4 DEF Sync
<1>5. ASSUME NEW g \in Gets, CheckSum(g) PROVE SyncedInv'
  BY <1>5 DEF CheckSum
<1>6. ASSUME NEW g \in Gets, Link(g) PROVE SyncedInv'
  BY <1>6 DEF Link
<1>7. ASSUME NEW g \in Gets, SyncDir(g) PROVE SyncedInv'
  BY <1>7 DEF SyncDir
<1>8. ASSUME NEW g \in Gets, Unwind(g) PROVE SyncedInv'
  BY <1>8 DEF Unwind
<1>9. ASSUME NEW g \in Gets, StepFails(g) PROVE SyncedInv'
  BY <1>9 DEF StepFails
<1>10. ASSUME NEW g \in Gets, Kill(g) PROVE SyncedInv'
  BY <1>10 DEF Kill
<1>11. ASSUME NEW d \in Digests, NEW s \in {"good", "damaged", "foreign"}, Store(d, s)
       PROVE  SyncedInv'
  BY <1>11 DEF Store
<1>12. ASSUME NEW x \in Paths, Occupy(x) PROVE SyncedInv'
  BY <1>12 DEF Occupy
<1>13. ASSUME PowerLoss PROVE SyncedInv'
  BY <1>13 DEF PowerLoss
<1>14. CASE UNCHANGED vars
  BY <1>14 DEF vars
<1> QED
  BY <1>1, <1>2, <1>3, <1>4, <1>5, <1>6, <1>7, <1>8, <1>9, <1>10,
     <1>11, <1>12, <1>13, <1>14
     DEF Next, Step

\* Every step keeps what is published: only Link fills a destination, and no get
\* writes to its copy any more by then; a power loss tears only copies not synced.
LEMMA NextPublishedInv ==
  ASSUME TypeOK, StagingInv, SyncedInv, PublishedInv, [Next]_vars
  PROVE  PublishedInv'
<1> USE DEF TypeOK, StagingInv, SyncedInv, PublishedInv,
            Goto, Finish, Active, Failures, fileVars
<1>1. ASSUME NEW g \in Gets, Begin(g) PROVE PublishedInv'
  BY <1>1 DEF Begin
<1>2. ASSUME NEW g \in Gets, Lookup(g) PROVE PublishedInv'
  BY <1>2 DEF Lookup
<1>3. ASSUME NEW g \in Gets, Copy(g) PROVE PublishedInv'
  BY <1>3 DEF Copy
<1>4. ASSUME NEW g \in Gets, Sync(g) PROVE PublishedInv'
  BY <1>4 DEF Sync
<1>5. ASSUME NEW g \in Gets, CheckSum(g) PROVE PublishedInv'
  BY <1>5 DEF CheckSum
<1>6. ASSUME NEW g \in Gets, Link(g) PROVE PublishedInv'
  BY <1>6, Targets DEF Link
<1>7. ASSUME NEW g \in Gets, SyncDir(g) PROVE PublishedInv'
  BY <1>7 DEF SyncDir
<1>8. ASSUME NEW g \in Gets, Unwind(g) PROVE PublishedInv'
  BY <1>8 DEF Unwind
<1>9. ASSUME NEW g \in Gets, StepFails(g) PROVE PublishedInv'
  BY <1>9 DEF StepFails
<1>10. ASSUME NEW g \in Gets, Kill(g) PROVE PublishedInv'
  BY <1>10 DEF Kill
<1>11. ASSUME NEW d \in Digests, NEW s \in {"good", "damaged", "foreign"}, Store(d, s)
       PROVE  PublishedInv'
  BY <1>11 DEF Store
<1>12. ASSUME NEW x \in Paths, Occupy(x) PROVE PublishedInv'
  BY <1>12 DEF Occupy
<1>13. ASSUME PowerLoss PROVE PublishedInv'
  BY <1>13 DEF PowerLoss
<1>14. CASE UNCHANGED vars
  BY <1>14 DEF vars
<1> QED
  BY <1>1, <1>2, <1>3, <1>4, <1>5, <1>6, <1>7, <1>8, <1>9, <1>10,
     <1>11, <1>12, <1>13, <1>14
     DEF Next, Step

\* Every step keeps what was reported: SyncDir comes before the return, and what is
\* durable outlives a power loss.
LEMMA NextSuccessInv ==
  ASSUME TypeOK, StagingInv, SyncedInv, PublishedInv, SuccessInv, [Next]_vars
  PROVE  SuccessInv'
<1> USE DEF TypeOK, StagingInv, SyncedInv, PublishedInv, SuccessInv,
            Goto, Finish, Active, Failures, fileVars
<1>1. ASSUME NEW g \in Gets, Begin(g) PROVE SuccessInv'
  BY <1>1 DEF Begin
<1>2. ASSUME NEW g \in Gets, Lookup(g) PROVE SuccessInv'
  BY <1>2 DEF Lookup
<1>3. ASSUME NEW g \in Gets, Copy(g) PROVE SuccessInv'
  BY <1>3 DEF Copy
<1>4. ASSUME NEW g \in Gets, Sync(g) PROVE SuccessInv'
  BY <1>4 DEF Sync
<1>5. ASSUME NEW g \in Gets, CheckSum(g) PROVE SuccessInv'
  BY <1>5 DEF CheckSum
<1>6. ASSUME NEW g \in Gets, Link(g) PROVE SuccessInv'
  BY <1>6 DEF Link
<1>7. ASSUME NEW g \in Gets, SyncDir(g) PROVE SuccessInv'
  BY <1>7, Targets DEF SyncDir
<1>8. ASSUME NEW g \in Gets, Unwind(g) PROVE SuccessInv'
  BY <1>8 DEF Unwind
<1>9. ASSUME NEW g \in Gets, StepFails(g) PROVE SuccessInv'
  BY <1>9 DEF StepFails
<1>10. ASSUME NEW g \in Gets, Kill(g) PROVE SuccessInv'
  BY <1>10 DEF Kill
<1>11. ASSUME NEW d \in Digests, NEW s \in {"good", "damaged", "foreign"}, Store(d, s)
       PROVE  SuccessInv'
  BY <1>11 DEF Store
<1>12. ASSUME NEW x \in Paths, Occupy(x) PROVE SuccessInv'
  BY <1>12 DEF Occupy
<1>13. ASSUME PowerLoss PROVE SuccessInv'
  BY <1>13 DEF PowerLoss
<1>14. CASE UNCHANGED vars
  BY <1>14 DEF vars
<1> QED
  BY <1>1, <1>2, <1>3, <1>4, <1>5, <1>6, <1>7, <1>8, <1>9, <1>10,
     <1>11, <1>12, <1>13, <1>14
     DEF Next, Step

-----------------------------------------------------------------------------
(* The results *)

\* The invariant holds in every reachable state.
LEMMA GetInvHolds == Spec => []GetInv
<1>1. Init => GetInv
  BY DEF Init, GetInv, TypeOK, StagingInv, SyncedInv, PublishedInv, SuccessInv
<1>2. GetInv /\ [Next]_vars => GetInv'
  BY NextTypeOK, NextStagingInv, NextSyncedInv, NextPublishedInv, NextSuccessInv DEF GetInv
<1> QED
  BY <1>1, <1>2, PTL DEF Spec

\* The state is well typed: a get has an outcome exactly while and after it
\* returns one.
THEOREM TypeCorrect == Spec => []TypeOK
<1>1. GetInv => TypeOK
  BY DEF GetInv
<1> QED
  BY <1>1, GetInvHolds, PTL

\* Whatever happens to the blob while GetToFile reads it, and whenever power is
\* lost, a destination holds verified bytes.
THEOREM VerifiedOnly == Spec => []PublishedVerified
<1>1. GetInv => PublishedVerified
  BY DEF GetInv, PublishedInv, PublishedVerified
<1> QED
  BY <1>1, GetInvHolds, PTL

\* A success that GetToFile or GetToWriter returned stays true.
THEOREM SuccessIsKept == Spec => []SuccessKept
<1>1. GetInv => SuccessKept
  BY DEF GetInv, SuccessInv, SuccessKept
<1> QED
  BY <1>1, GetInvHolds, PTL

\* GetToFile leaves no staging file that it could remove.
THEOREM StagingCleaned == Spec => []StagingRemoved
<1>1. GetInv => StagingRemoved
  BY DEF GetInv, TypeOK, StagingInv, StagingRemoved, Active
<1> QED
  BY <1>1, GetInvHolds, PTL

\* A destination that is there is not touched by any get; a power loss spares the
\* ones that a get was told of.
LEMMA StepClobbersNothing ==
  ASSUME GetInv, [Next]_vars, NEW x \in Paths, dest[x] # None
  PROVE  \/ dest'[x] = dest[x]
         \/ dest'[x] = None /\ ~\E g \in Gets : dest[x] = g /\ outcome[g] = "ok"
<1> USE DEF GetInv, TypeOK, fileVars
<1>1. ASSUME NEW g \in Gets, Link(g) PROVE dest'[x] = dest[x]
  BY <1>1 DEF Link
<1>2. ASSUME NEW y \in Paths, Occupy(y) PROVE dest'[x] = dest[x]
  BY <1>2 DEF Occupy
<1>3. ASSUME PowerLoss, dest'[x] # dest[x]
      PROVE  dest'[x] = None /\ ~\E g \in Gets : dest[x] = g /\ outcome[g] = "ok"
  <2>1. x \notin durable /\ dest'[x] = None
    BY <1>3 DEF PowerLoss
  <2>2. ASSUME NEW g \in Gets, dest[x] = g, outcome[g] = "ok" PROVE FALSE
    <3>1. Dest[g] = x /\ ToFile(g)
      BY <2>2 DEF PublishedInv, ToFile, Paths
    <3> QED
      BY <2>1, <2>2, <3>1 DEF SuccessInv
  <2> QED
    BY <2>1, <2>2
<1>4. ASSUME NEW g \in Gets,
             \/ Begin(g) \/ Lookup(g) \/ Copy(g) \/ Sync(g) \/ CheckSum(g) \/ SyncDir(g)
             \/ Unwind(g) \/ StepFails(g) \/ Kill(g)
      PROVE  dest' = dest
  BY <1>4 DEF Begin, Lookup, Copy, Sync, CheckSum, SyncDir, Unwind, StepFails, Kill
<1>5. ASSUME NEW d \in Digests, NEW s \in {"good", "damaged", "foreign"}, Store(d, s)
      PROVE  dest' = dest
  BY <1>5 DEF Store
<1>6. CASE UNCHANGED vars
  BY <1>6 DEF vars
<1> QED
  BY <1>1, <1>2, <1>3, <1>4, <1>5, <1>6 DEF Next, Step

\* No get overwrites a destination, and no power loss takes back one that was
\* reported: os.Link, and the sync of the directory before the return.
THEOREM NothingClobbered == Spec => NeverClobbered
<1>1. GetInv /\ [Next]_vars =>
        [\A x \in Paths : dest[x] # None =>
            \/ dest'[x] = dest[x]
            \/ dest'[x] = None /\ ~\E g \in Gets : dest[x] = g /\ outcome[g] = "ok"]_vars
  BY StepClobbersNothing
<1> QED
  BY <1>1, GetInvHolds, PTL DEF Spec, NeverClobbered
=============================================================================
