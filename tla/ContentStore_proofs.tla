------------------------ MODULE ContentStore_proofs ------------------------
(***************************************************************************)
(* Proofs about ContentStore for every number of callers, every set of     *)
(* contents and digests, and any bounds on orphans and damage.             *)
(***************************************************************************)
EXTENDS ContentStore, TLAPS

USE ContentAssumption, LayoutAssumption, FileAssumption

-----------------------------------------------------------------------------
(* The shape of the name space *)

\* filepath.Dir of each kind of name, read off the definition of Parent.
LEMMA Parents ==
    /\ Parent \in [Names -> Dirs]
    /\ \A d \in Digests : Parent[d] = Leaf[d]
    /\ \A l \in LeafDirs : Parent[l] = ShardOf[l]
    /\ \A m \in MidDirs : Parent[m] = "sha256"
    /\ Parent["sha256"] = "root" /\ Parent[".tmp"] = "root"
    /\ Parent["root"] = "/" /\ Parent["/"] = "/"
  BY DEF Parent, Names, Dirs, FixedDirs

\* Every name above a name on the path of a digest is "/" or on that path too.
LEMMA PathClosed ==
  ASSUME NEW d \in Digests, NEW x \in Path(d)
  PROVE  Lineage(x) \subseteq Path(d) \cup {"/"}
<1>1. Leaf[d] \in LeafDirs /\ ShardOf[Leaf[d]] \in MidDirs
  OBVIOUS
<1> QED
  BY <1>1, Parents DEF Lineage, Path

\* No power loss takes the file system's own root away.
LEMMA CrashKeepsRoot ==
  ASSUME TypeOK, NEW lost \in SUBSET (Visible \ (durable \cup {"/"}))
  PROVE  "/" \in Survivors(lost)
  BY Parents DEF Survivors, Lineage, TypeOK, Visible

-----------------------------------------------------------------------------
(* Type correctness *)

\* Init is well typed.
LEMMA InitTypeOK == Init => TypeOK
  BY DEF Init, TypeOK, Visible, Stored, Dirs, FixedDirs, Opening, Copying, Unwinding, Returned

\* Every step keeps the state well typed.
LEMMA NextTypeOK == TypeOK /\ [Next]_vars => TypeOK'
<1> SUFFICES ASSUME TypeOK, [Next]_vars PROVE TypeOK'
  OBVIOUS
<1> USE DEF TypeOK, Opening, Copying, Unwinding, Returned, Goto, histVars, opVars, fsVars
<1>1. ASSUME NEW p \in Procs, OpenMkdir(p) PROVE TypeOK'
  BY <1>1 DEF OpenMkdir, Visible, Stored, Dirs, FixedDirs
<1>2. ASSUME NEW p \in Procs, OpenMkTmp(p) PROVE TypeOK'
  BY <1>2 DEF OpenMkTmp, Visible, Stored, Dirs, FixedDirs
<1>3. ASSUME NEW p \in Procs, OpenSync(p) PROVE TypeOK'
  <2>1. cursor[p] \in Dirs /\ Parent[cursor[p]] \in Dirs
    BY <1>3, Parents DEF OpenSync, Names
  <2>2. Visible' = Visible
    BY <1>3 DEF OpenSync, Visible, Stored
  <2>3. durable' \subseteq Visible'
    BY <1>3, <2>2 DEF OpenSync, SyncDir
  <2>4. cursor' \in [Procs -> Dirs \cup {None}]
    BY <1>3, <2>1 DEF OpenSync, Dirs, FixedDirs
  <2>5. \A q \in Procs : pc'[q] \in {"syncSha", "syncTmp", "syncChain"} <=> cursor'[q] # None
    BY <1>3, <2>1 DEF OpenSync, Dirs, FixedDirs
  <2> QED
    BY <1>3, <2>3, <2>4, <2>5 DEF OpenSync
<1>4. ASSUME NEW p \in Procs, Begin(p) PROVE TypeOK'
  BY <1>4 DEF Begin, Visible, Stored
<1>5. ASSUME NEW p \in Procs, BeginFails(p) PROVE TypeOK'
  BY <1>5 DEF BeginFails, Visible, Stored
<1>6. ASSUME NEW p \in Procs, Copy(p) PROVE TypeOK'
  BY <1>6 DEF Copy, Visible, Stored
<1>7. ASSUME NEW p \in Procs, FsyncTemp(p) PROVE TypeOK'
  BY <1>7 DEF FsyncTemp, Visible, Stored
<1>8. ASSUME NEW p \in Procs, SizeMismatch(p) PROVE TypeOK'
  BY <1>8 DEF SizeMismatch, Visible, Stored
<1>9. ASSUME NEW p \in Procs, MkShards(p) PROVE TypeOK'
  BY <1>9 DEF MkShards, Visible, Stored
<1>10. ASSUME NEW p \in Procs, LinkFresh(p) PROVE TypeOK'
  BY <1>10 DEF LinkFresh, Visible, Stored, Dig
<1>11. ASSUME NEW p \in Procs, LinkExists(p) PROVE TypeOK'
  BY <1>11 DEF LinkExists, Visible, Stored
<1>12. ASSUME NEW p \in Procs, VerifyOk(p) PROVE TypeOK'
  BY <1>12 DEF VerifyOk, Visible, Stored
<1>13. ASSUME NEW p \in Procs, VerifyCorrupt(p) PROVE TypeOK'
  BY <1>13 DEF VerifyCorrupt, Visible, Stored
<1>14. ASSUME NEW p \in Procs, SyncBlob(p) PROVE TypeOK'
  BY <1>14 DEF SyncBlob, Visible, Stored, Dig, Dirs
<1>15. ASSUME NEW p \in Procs, SyncChain(p) PROVE TypeOK'
  <2>1. cursor[p] \in Dirs /\ Parent[cursor[p]] \in Dirs
    BY <1>15, Parents DEF SyncChain, Names
  <2>2. Visible' = Visible
    BY <1>15 DEF SyncChain, Visible, Stored
  <2>3. durable' \subseteq Visible'
    BY <1>15, <2>2 DEF SyncChain, SyncDir
  <2>4. cursor' \in [Procs -> Dirs \cup {None}]
    BY <1>15, <2>1 DEF SyncChain
  <2>5. \A q \in Procs : pc'[q] \in {"syncSha", "syncTmp", "syncChain"} <=> cursor'[q] # None
    BY <1>15, <2>1 DEF SyncChain
  <2> QED
    BY <1>15, <2>3, <2>4, <2>5 DEF SyncChain
<1>16. ASSUME NEW p \in Procs, Unwind(p) PROVE TypeOK'
  BY <1>16 DEF Unwind, RemoveTemp, Visible, Stored, Dig
<1>17. ASSUME NEW p \in Procs, StepFails(p) PROVE TypeOK'
  BY <1>17 DEF StepFails, Visible, Stored
<1>18. ASSUME NEW p \in Procs, Kill(p) PROVE TypeOK'
  BY <1>18 DEF Kill, Visible, Stored
<1>19. ASSUME MachineCrash PROVE TypeOK'
  <2> PICK lost \in SUBSET (Visible \ (durable \cup {"/"})) : CrashLosing(lost)
    BY <1>19 DEF MachineCrash
  <2>1. dirs' \subseteq Dirs /\ "/" \in dirs'
    BY CrashKeepsRoot DEF CrashLosing, Visible
  <2>2. file' \in [Digests -> Inodes \cup {None, Foreign}]
    BY DEF CrashLosing
  <2>3. durable' \subseteq Visible'
    BY DEF CrashLosing, Survivors, Visible, Stored
  <2>4. temps' \subseteq Inodes /\ orphans' \subseteq Inodes /\ synced' \subseteq Inodes
    BY DEF CrashLosing
  <2>5. bytes' \in [Inodes -> Contents \cup {None}]
    BY DEF CrashLosing
  <2> QED
    BY <2>1, <2>2, <2>3, <2>4, <2>5 DEF CrashLosing
<1>20. ASSUME NEW d \in Digests, Tamper(d) PROVE TypeOK'
  BY <1>20 DEF Tamper, Visible, Stored
<1>21. ASSUME NEW d \in Digests, Occupy(d) PROVE TypeOK'
  BY <1>21 DEF Occupy, Visible, Stored
<1>22. ASSUME Sweep PROVE TypeOK'
  BY <1>22 DEF Sweep, Visible, Stored
<1>23. ASSUME UNCHANGED vars PROVE TypeOK'
  BY <1>23 DEF vars, Visible, Stored
<1> QED
  BY <1>1, <1>2, <1>3, <1>4, <1>5, <1>6, <1>7, <1>8, <1>9, <1>10, <1>11, <1>12, <1>13,
     <1>14, <1>15, <1>16, <1>17, <1>18, <1>19, <1>20, <1>21, <1>22, <1>23
     DEF Next, Call, Advance, Fault

\* The state of the store is well typed in every behaviour of the code.
THEOREM TypeCorrect == Spec => []TypeOK
  BY InitTypeOK, NextTypeOK, PTL DEF Spec

-----------------------------------------------------------------------------
(* Durability *)

\* The states in which the operation of p has a digest it will link or has linked.
Publishing == {"link", "verify", "syncBlob", "syncChain", "unwindOk"}

\* What has been made durable when syncChain is about to visit directory x.
DurableBelow(d, x) ==
    \/ x = Leaf[d]
    \/ x = ShardOf[Leaf[d]] /\ {d} \subseteq durable
    \/ x = "sha256" /\ {d, Leaf[d]} \subseteq durable
    \/ x = "root" /\ {d, Leaf[d], ShardOf[Leaf[d]]} \subseteq durable

\* What Open has created, and made durable, by the time p reaches each state.
OpenProgress(p) ==
    /\ pc[p] # "closed" => {"root", "sha256"} \subseteq dirs
    /\ pc[p] \notin {"closed", "mktmp", "syncSha"} => "root" \in durable

\* What publish has created, and made durable, by the time p reaches each state.
PublishProgress(p) ==
    /\ pc[p] \in Publishing => {Leaf[Dig(p)], ShardOf[Leaf[Dig(p)]]} \subseteq dirs
    /\ pc[p] \in Publishing \ {"link"} => Stored(Dig(p))
    /\ pc[p] = "syncChain" => DurableBelow(Dig(p), cursor[p])
    /\ pc[p] = "unwindOk" => Path(Dig(p)) \subseteq durable

AckedDurable == \A d \in acked : Path(d) \subseteq durable

\* The inductive invariant behind AckedSurvive.
DurabilityInv ==
    /\ TypeOK
    /\ \A p \in Procs : OpenProgress(p) /\ PublishProgress(p)
    /\ AckedDurable

\* Initially no process holds a store and nothing is promised.
LEMMA InitDurability == Init => DurabilityInv
  BY InitTypeOK DEF Init, DurabilityInv, OpenProgress, PublishProgress, AckedDurable, Publishing

\* Between two power losses names only appear and only become durable.
Grows ==
    /\ dirs \subseteq dirs'
    /\ durable \subseteq durable'
    /\ \A d \in Digests : Stored(d) => Stored(d)'

\* A step that is not of p leaves the local state of p alone.
Still(p) == pc'[p] = pc[p] /\ got'[p] = got[p] /\ cursor'[p] = cursor[p]

ProcStep(p) == Call(p) \/ Advance(p) \/ BeginFails(p) \/ StepFails(p) \/ Kill(p)

\* What a step of one process may do to names and to the other processes.
LEMMA ProcStepGrows ==
  ASSUME TypeOK, NEW p \in Procs, ProcStep(p)
  PROVE  Grows /\ \A q \in Procs \ {p} : Still(q)
<1> USE DEF TypeOK, Grows, Still, Stored, Goto, fsVars, histVars
<1>1. CASE OpenMkdir(p) \/ OpenMkTmp(p) \/ MkShards(p)
  BY <1>1 DEF OpenMkdir, OpenMkTmp, MkShards
<1>2. CASE OpenSync(p) \/ SyncChain(p)
  BY <1>2 DEF OpenSync, SyncChain, SyncDir
<1>3. CASE Begin(p) \/ BeginFails(p) \/ Copy(p) \/ FsyncTemp(p) \/ SizeMismatch(p)
  BY <1>3 DEF Begin, BeginFails, Copy, FsyncTemp, SizeMismatch
<1>4. CASE LinkFresh(p)
  BY <1>4 DEF LinkFresh
<1>5. CASE LinkExists(p) \/ VerifyOk(p) \/ VerifyCorrupt(p) \/ SyncBlob(p)
  BY <1>5 DEF LinkExists, VerifyOk, VerifyCorrupt, SyncBlob
<1>6. CASE Unwind(p)
  BY <1>6 DEF Unwind
<1>7. CASE StepFails(p) \/ Kill(p)
  BY <1>7 DEF StepFails, Kill
<1> QED
  BY <1>1, <1>2, <1>3, <1>4, <1>5, <1>6, <1>7 DEF ProcStep, Call, Advance

\* A process that does not move loses no progress while names only appear.
LEMMA ProgressKept ==
  ASSUME TypeOK, NEW p \in Procs, Grows, Still(p), OpenProgress(p), PublishProgress(p)
  PROVE  (OpenProgress(p) /\ PublishProgress(p))'
<1>1. Dig(p)' = Dig(p)
  BY DEF Still, Dig
<1>2. pc[p] \in Publishing => Dig(p) \in Digests
  BY DEF Dig, TypeOK, Publishing, Copying
<1>3. OpenProgress(p)'
  BY DEF OpenProgress, Still, Grows
<1>4. DurableBelow(Dig(p), cursor[p]) => DurableBelow(Dig(p), cursor[p])'
  BY <1>1 DEF DurableBelow, Still, Grows
<1>5. PublishProgress(p)'
  BY <1>1, <1>2, <1>4 DEF PublishProgress, Publishing, Still, Grows
<1> QED
  BY <1>3, <1>5

\* Fsyncing a directory makes durable every visible name it holds.
LEMMA SyncDirMakesDurable ==
  ASSUME NEW x, SyncDir(x), NEW y \in Visible, y # "/", Parent[y] = x
  PROVE  y \in durable'
  BY DEF SyncDir

\* Open reaches "ready" only with the root's own name durable.
LEMMA OpenSyncProgress ==
  ASSUME TypeOK, NEW p \in Procs, OpenSync(p), OpenProgress(p)
  PROVE  OpenProgress(p)'
<1>1. {"root", "sha256"} \subseteq dirs /\ dirs' = dirs /\ "root" \in Visible
  BY DEF OpenSync, OpenProgress, Visible
<1>2. ASSUME cursor[p] = "/" PROVE "root" \in durable'
  BY <1>1, <1>2, Parents, SyncDirMakesDurable DEF OpenSync
<1>3. ASSUME pc[p] = "syncTmp" PROVE "root" \in durable'
  BY <1>3 DEF OpenSync, OpenProgress, SyncDir
<1>4. pc'[p] \notin {"closed", "mktmp", "syncSha"} => cursor[p] = "/" \/ pc[p] = "syncTmp"
  BY DEF OpenSync, Goto, TypeOK
<1> QED
  BY <1>1, <1>2, <1>3, <1>4 DEF OpenProgress

\* One turn of syncChain makes the names in the directory it visits durable.
LEMMA SyncChainProgress ==
  ASSUME TypeOK, NEW p \in Procs, SyncChain(p), OpenProgress(p), PublishProgress(p)
  PROVE  PublishProgress(p)'
<1> DEFINE d == Dig(p)
<1>1. d \in Digests /\ Dig(p)' = d
  BY DEF Dig, TypeOK, SyncChain, Copying
<1>2. Leaf[d] \in LeafDirs /\ ShardOf[Leaf[d]] \in MidDirs
  BY <1>1
<1>3. {d, Leaf[d], ShardOf[Leaf[d]], "sha256"} \subseteq Visible
  BY <1>1 DEF SyncChain, PublishProgress, OpenProgress, Publishing, Visible
<1>4. "/" \notin {d, Leaf[d], ShardOf[Leaf[d]], "sha256"}
  BY <1>1, <1>2 DEF Dirs, FixedDirs
<1>5. durable \subseteq durable' /\ dirs' = dirs /\ file' = file
  BY DEF SyncChain, SyncDir
<1>6. DurableBelow(d, cursor[p])
  BY DEF SyncChain, PublishProgress
<1>7. CASE cursor[p] = "root"
  <2>1. {d, Leaf[d], ShardOf[Leaf[d]]} \subseteq durable
    BY <1>2, <1>6, <1>7 DEF DurableBelow, FixedDirs
  <2>2. "sha256" \in durable'
    BY <1>3, <1>4, <1>7, Parents, SyncDirMakesDurable DEF SyncChain
  <2>3. "root" \in durable
    BY DEF OpenProgress, SyncChain
  <2>4. Path(d) \subseteq durable'
    BY <1>5, <2>1, <2>2, <2>3 DEF Path
  <2>5. pc'[p] = "unwindOk"
    BY <1>7 DEF SyncChain, Goto, TypeOK
  <2> QED
    BY <1>1, <1>5, <2>4, <2>5
       DEF PublishProgress, Publishing, SyncChain, Stored, Path
<1>8. CASE cursor[p] # "root"
  <2>1. pc'[p] = "syncChain" /\ cursor'[p] = Parent[cursor[p]]
    BY <1>8 DEF SyncChain, TypeOK
  <2>2. DurableBelow(d, cursor[p])'
    <3>1. CASE cursor[p] = Leaf[d]
      BY <3>1, <1>1, <1>2, <1>3, <1>4, <2>1, Parents, SyncDirMakesDurable
         DEF SyncChain, DurableBelow
    <3>2. CASE cursor[p] = ShardOf[Leaf[d]] /\ d \in durable
      BY <3>2, <1>1, <1>2, <1>3, <1>4, <1>5, <2>1, Parents, SyncDirMakesDurable
         DEF SyncChain, DurableBelow
    <3>3. CASE cursor[p] = "sha256" /\ {d, Leaf[d]} \subseteq durable
      BY <3>3, <1>1, <1>2, <1>3, <1>4, <1>5, <2>1, Parents, SyncDirMakesDurable
         DEF SyncChain, DurableBelow
    <3> QED
      BY <1>6, <1>8, <3>1, <3>2, <3>3 DEF DurableBelow
  <2> QED
    BY <1>1, <1>5, <2>1, <2>2 DEF PublishProgress, Publishing, SyncChain, Stored
<1> QED
  BY <1>7, <1>8

\* Every step of a process keeps its own progress.
LEMMA ProcStepProgress ==
  ASSUME TypeOK, TypeOK', NEW p \in Procs, ProcStep(p), OpenProgress(p), PublishProgress(p)
  PROVE  (OpenProgress(p) /\ PublishProgress(p))'
<1> USE DEF TypeOK, Goto, fsVars, histVars, Publishing, Opening, Copying, Unwinding, Returned
<1>1. CASE OpenMkdir(p) \/ OpenMkTmp(p)
  BY <1>1 DEF OpenMkdir, OpenMkTmp, OpenProgress, PublishProgress
<1>2. CASE OpenSync(p)
  <2>1. OpenProgress(p)'
    BY <1>2, OpenSyncProgress
  <2>2. pc'[p] \in {"syncSha", "syncTmp", "ready"}
    BY <1>2 DEF OpenSync
  <2> QED
    BY <2>1, <2>2 DEF PublishProgress
<1>3. CASE Begin(p) \/ BeginFails(p) \/ Copy(p) \/ FsyncTemp(p) \/ SizeMismatch(p)
  BY <1>3 DEF Begin, BeginFails, Copy, FsyncTemp, SizeMismatch, OpenProgress, PublishProgress
<1>4. CASE MkShards(p)
  <2>1. Dig(p)' = Dig(p) /\ Dig(p) \in Digests
    BY <1>4 DEF MkShards, Dig
  <2>2. {Leaf[Dig(p)], ShardOf[Leaf[Dig(p)]]} \subseteq dirs'
    BY <1>4, <2>1 DEF MkShards, Path, Dirs
  <2> QED
    BY <1>4, <2>1, <2>2 DEF MkShards, OpenProgress, PublishProgress
<1>5. CASE LinkFresh(p)
  <2>1. Dig(p)' = Dig(p) /\ Dig(p) \in Digests
    BY <1>5 DEF LinkFresh, Dig
  <2>2. Stored(Dig(p))'
    BY <1>5, <2>1 DEF LinkFresh, Stored
  <2> QED
    BY <1>5, <2>1, <2>2 DEF LinkFresh, OpenProgress, PublishProgress
<1>6. CASE LinkExists(p) \/ VerifyOk(p) \/ VerifyCorrupt(p)
  <2>1. Dig(p)' = Dig(p)
    BY <1>6 DEF LinkExists, VerifyOk, VerifyCorrupt, Dig
  <2> QED
    BY <1>6, <2>1 DEF LinkExists, VerifyOk, VerifyCorrupt, OpenProgress, PublishProgress, Stored
<1>7. CASE SyncBlob(p)
  <2>1. Dig(p)' = Dig(p) /\ Dig(p) \in Digests
    BY <1>7 DEF SyncBlob, Dig
  <2> QED
    BY <1>7, <2>1 DEF SyncBlob, OpenProgress, PublishProgress, Stored, DurableBelow
<1>8. CASE SyncChain(p)
  <2>1. PublishProgress(p)'
    BY <1>8, SyncChainProgress
  <2> QED
    BY <1>8, <2>1 DEF SyncChain, SyncDir, OpenProgress
<1>9. CASE Unwind(p)
  BY <1>9 DEF Unwind, OpenProgress, PublishProgress
<1>10. CASE StepFails(p) \/ Kill(p)
  BY <1>10 DEF StepFails, Kill, OpenProgress, PublishProgress
<1> QED
  BY <1>1, <1>2, <1>3, <1>4, <1>5, <1>6, <1>7, <1>8, <1>9, <1>10 DEF ProcStep, Call, Advance

\* publish returns success only with the whole path durable, and no step of a
\* process undoes that.
LEMMA ProcStepAcked ==
  ASSUME TypeOK, NEW p \in Procs, ProcStep(p), PublishProgress(p), AckedDurable
  PROVE  AckedDurable'
<1>1. durable \subseteq durable'
  BY ProcStepGrows DEF Grows
<1>2. CASE Unwind(p) /\ pc[p] = "unwindOk"
  <2>1. Path(Dig(p)) \subseteq durable /\ acked' = acked \cup {Dig(p)}
    BY <1>2 DEF Unwind, PublishProgress
  <2> QED
    BY <1>1, <2>1 DEF AckedDurable
<1>3. CASE Unwind(p) /\ pc[p] # "unwindOk"
  BY <1>1, <1>3 DEF Unwind, AckedDurable
<1>4. CASE ~Unwind(p)
  <2>1. acked' = acked
    BY <1>4 DEF ProcStep, Call, Advance, histVars, OpenMkdir, OpenMkTmp, OpenSync, Begin,
                BeginFails, Copy, FsyncTemp, SizeMismatch, MkShards, LinkFresh, LinkExists,
                VerifyOk, VerifyCorrupt, SyncBlob, SyncChain, StepFails, Kill
  <2> QED
    BY <1>1, <2>1 DEF AckedDurable
<1> QED
  BY <1>2, <1>3, <1>4

\* A power loss takes no name of a path that is durable as a whole.
LEMMA CrashSparesDurablePaths ==
  ASSUME TypeOK, NEW lost \in SUBSET (Visible \ (durable \cup {"/"})), CrashLosing(lost),
         NEW d \in Digests, Path(d) \subseteq durable
  PROVE  Path(d) \subseteq durable'
<1>1. \A x \in Path(d) : Lineage(x) \subseteq durable \cup {"/"}
  BY PathClosed
<1>2. Path(d) \subseteq Survivors(lost)
  BY <1>1 DEF Survivors, TypeOK
<1>3. "/" \notin Path(d)
  BY DEF Path, Dirs, FixedDirs
<1> QED
  BY <1>2, <1>3 DEF CrashLosing

\* The environment's other steps touch no directory and remove no blob.
EnvStep == Sweep \/ \E d \in Digests : Tamper(d) \/ Occupy(d)

LEMMA EnvStepGrows ==
  ASSUME TypeOK, EnvStep
  PROVE  Grows /\ acked' = acked /\ \A q \in Procs : Still(q)
<1>1. CASE Sweep
  BY <1>1 DEF Sweep, Grows, Still, Stored, opVars
<1>2. ASSUME NEW d \in Digests, Tamper(d) \/ Occupy(d)
      PROVE  Grows /\ acked' = acked /\ \A q \in Procs : Still(q)
  BY <1>2 DEF Tamper, Occupy, Grows, Still, Stored, opVars, TypeOK
<1> QED
  BY <1>1, <1>2 DEF EnvStep

LEMMA NextDurability == DurabilityInv /\ [Next]_vars => DurabilityInv'
<1> SUFFICES ASSUME DurabilityInv, [Next]_vars PROVE DurabilityInv'
  OBVIOUS
<1> USE DEF DurabilityInv
<1>t. TypeOK'
  BY NextTypeOK
<1>1. ASSUME NEW p \in Procs, ProcStep(p) PROVE DurabilityInv'
  <2>1. AckedDurable'
    BY <1>1, ProcStepAcked
  <2>2. (OpenProgress(p) /\ PublishProgress(p))'
    BY <1>1, <1>t, ProcStepProgress
  <2>3. \A q \in Procs \ {p} : (OpenProgress(q) /\ PublishProgress(q))'
    BY <1>1, ProcStepGrows, ProgressKept
  <2> QED
    BY <1>t, <2>1, <2>2, <2>3
<1>2. ASSUME MachineCrash PROVE DurabilityInv'
  <2> PICK lost \in SUBSET (Visible \ (durable \cup {"/"})) : CrashLosing(lost)
    BY <1>2 DEF MachineCrash
  <2>1. AckedDurable'
    <3>1. acked' = acked /\ acked \subseteq Digests
      BY DEF CrashLosing, TypeOK
    <3> QED
      BY <3>1, CrashSparesDurablePaths DEF AckedDurable
  <2>2. \A p \in Procs : pc'[p] = "closed"
    BY DEF CrashLosing
  <2> QED
    BY <1>t, <2>1, <2>2 DEF OpenProgress, PublishProgress, Publishing
<1>3. ASSUME EnvStep PROVE DurabilityInv'
  <2>1. AckedDurable'
    BY <1>3, EnvStepGrows DEF AckedDurable, Grows
  <2> QED
    BY <1>3, <1>t, <2>1, EnvStepGrows, ProgressKept
<1>4. CASE UNCHANGED vars
  <2>1. Grows /\ acked' = acked /\ \A q \in Procs : Still(q)
    BY <1>4 DEF vars, fsVars, opVars, histVars, Grows, Still, Stored
  <2>2. AckedDurable'
    BY <2>1 DEF AckedDurable, Grows
  <2> QED
    BY <1>t, <2>1, <2>2, ProgressKept
<1> QED
  BY <1>1, <1>2, <1>3, <1>4 DEF Next, Fault, ProcStep, EnvStep

\* The invariant is stronger than the property.
LEMMA DurabilitySuffices == DurabilityInv => AckedSurvive
<1> SUFFICES ASSUME DurabilityInv, NEW d \in acked PROVE Stored(d) /\ Path(d) \subseteq durable
  BY DEF AckedSurvive
<1>1. d \in Digests /\ d \in durable /\ Path(d) \subseteq durable
  BY DEF DurabilityInv, AckedDurable, TypeOK, Path
<1> QED
  BY <1>1 DEF DurabilityInv, TypeOK, Visible

\* What WriteFile reported stored is never lost to an error, a kill or a power
\* loss, for any number of callers and digests.
THEOREM Durability == Spec => []AckedSurvive
<1>1. Spec => []DurabilityInv
  BY InitDurability, NextDurability, PTL DEF Spec
<1> QED
  BY <1>1, DurabilitySuffices, PTL

-----------------------------------------------------------------------------
(* No replacement *)

\* A filled digest path changes in one way only: a power loss removes it.
LEMMA StepKeepsBlobs ==
  ASSUME DurabilityInv, [Next]_vars, NEW d \in Digests, Stored(d)
  PROVE  file'[d] = file[d] \/ (file'[d] = None /\ d \notin acked)
<1> USE DEF fsVars, opVars, histVars, Goto
<1>1. ASSUME NEW p \in Procs, LinkFresh(p) PROVE file'[d] = file[d]
  <2>1. Dig(p) # d
    BY <1>1 DEF LinkFresh
  <2> QED
    BY <1>1, <2>1 DEF LinkFresh, DurabilityInv, TypeOK
<1>2. ASSUME NEW p \in Procs, ProcStep(p), ~LinkFresh(p) PROVE file'[d] = file[d]
  BY <1>2 DEF ProcStep, Call, Advance, OpenMkdir, OpenMkTmp, OpenSync, Begin,
              BeginFails, Copy, FsyncTemp, SizeMismatch, MkShards, LinkExists, VerifyOk,
              VerifyCorrupt, SyncBlob, SyncChain, Unwind, StepFails, Kill
<1>3. ASSUME NEW lost \in SUBSET (Visible \ (durable \cup {"/"})), CrashLosing(lost)
      PROVE  file'[d] = file[d] \/ (file'[d] = None /\ d \notin acked)
  <2>1. ASSUME d \in acked PROVE d \in Survivors(lost)
    <3>1. Path(d) \subseteq durable /\ d \in Path(d)
      BY <2>1 DEF DurabilityInv, AckedDurable, Path
    <3>2. d \in durable'
      BY <1>3, <3>1, CrashSparesDurablePaths DEF DurabilityInv
    <3> QED
      BY <1>3, <3>2 DEF CrashLosing
  <2> QED
    BY <1>3, <2>1 DEF CrashLosing
<1>4. ASSUME EnvStep PROVE file'[d] = file[d]
  BY <1>4 DEF EnvStep, Sweep, Tamper, Occupy, Stored, DurabilityInv, TypeOK
<1>5. CASE UNCHANGED vars
  BY <1>5 DEF vars
<1> QED
  BY <1>1, <1>2, <1>3, <1>4, <1>5 DEF Next, Fault, ProcStep, EnvStep, MachineCrash

\* os.Link never overwrites: whichever caller fills a digest path first, every
\* later one leaves it alone.
THEOREM NoReplacement == Spec => NeverReplaced
<1>1. Spec => []DurabilityInv
  BY InitDurability, NextDurability, PTL DEF Spec
<1>2. DurabilityInv /\ [Next]_vars =>
        [\A d \in Digests :
           Stored(d) => file'[d] = file[d] \/ (file'[d] = None /\ d \notin acked)]_vars
  BY StepKeepsBlobs
<1> QED
  BY <1>1, <1>2, PTL DEF Spec, NeverReplaced

-----------------------------------------------------------------------------
(* Integrity *)

\* Staging files are private: not abandoned, not shared, not linked too early.
StagingPrivate ==
    /\ orphans \subseteq temps
    /\ \A p \in Procs : tmp[p] # None => tmp[p] \in temps \ orphans
    /\ \A p, q \in Procs : p # q /\ tmp[p] # None => tmp[p] # tmp[q]
    /\ \A p \in Procs :
          pc[p] \in {"copy", "fsync", "check", "link", "verify"} => ~Linked(tmp[p])

\* What a staging file holds when it is about to be linked.
StagedBytes ==
    \A p \in Procs :
        /\ pc[p] \in {"fsync", "check", "link"} => bytes[tmp[p]] = got[p]
        /\ pc[p] \in {"check", "link"} => tmp[p] \in synced

\* Each blob has an inode of its own whose bytes survive a power loss.
BlobsSynced ==
    /\ \A d, e \in Digests : file[d] \in Inodes /\ file[d] = file[e] => d = e
    /\ \A d \in Digests : file[d] \in Inodes => file[d] \in synced

\* The inductive invariant behind PublishedIntact.
IntegrityInv ==
    /\ TypeOK
    /\ StagingPrivate
    /\ StagedBytes
    /\ BlobsSynced
    /\ PublishedIntact

\* Initially there are no blobs and no staging files.
LEMMA InitIntegrity == Init => IntegrityInv
  BY InitTypeOK DEF Init, IntegrityInv, StagingPrivate, StagedBytes, BlobsSynced,
                    PublishedIntact, Stored

\* The steps that touch no file content and no file name.
DirStep(p) ==
    \/ OpenMkdir(p) \/ OpenMkTmp(p) \/ OpenSync(p) \/ BeginFails(p)
    \/ SizeMismatch(p) \/ MkShards(p)
    \/ LinkExists(p) \/ VerifyOk(p) \/ VerifyCorrupt(p) \/ SyncChain(p)

LEMMA DirStepIntegrity ==
  ASSUME IntegrityInv, TypeOK', NEW p \in Procs, DirStep(p)
  PROVE  IntegrityInv'
<1> USE DEF IntegrityInv, Goto, fsVars, histVars
<1>1. UNCHANGED <<file, bytes, synced, temps, tmp, orphans, tampered>>
  BY DEF DirStep, OpenMkdir, OpenMkTmp, OpenSync, BeginFails, SizeMismatch, MkShards,
         LinkExists, VerifyOk, VerifyCorrupt, SyncChain
<1>2. \A q \in Procs \ {p} : pc'[q] = pc[q] /\ got'[q] = got[q]
  BY DEF DirStep, OpenMkdir, OpenMkTmp, OpenSync, BeginFails, SizeMismatch, MkShards,
         LinkExists, VerifyOk, VerifyCorrupt, SyncChain, TypeOK
<1>3. /\ pc'[p] \in {"fsync", "check", "link"} => pc[p] = "check" /\ got'[p] = got[p]
      /\ pc'[p] \in {"copy", "fsync", "check", "link", "verify"} => pc[p] \in {"check", "link"}
  BY DEF DirStep, OpenMkdir, OpenMkTmp, OpenSync, BeginFails, SizeMismatch, MkShards,
         LinkExists, VerifyOk, VerifyCorrupt, SyncChain, TypeOK
<1>4. StagingPrivate'
  BY <1>1, <1>2, <1>3 DEF StagingPrivate, Linked
<1>5. StagedBytes'
  BY <1>1, <1>2, <1>3 DEF StagedBytes
<1>6. BlobsSynced' /\ PublishedIntact'
  BY <1>1 DEF BlobsSynced, PublishedIntact, Stored, Intact
<1> QED
  BY <1>4, <1>5, <1>6

\* A new staging file is an inode nothing else uses.
LEMMA BeginIntegrity ==
  ASSUME IntegrityInv, TypeOK', NEW p \in Procs, Begin(p)
  PROVE  IntegrityInv'
<1> USE DEF IntegrityInv, Goto
<1>1. PICK i \in Inodes :
        /\ Free(i)
        /\ tmp' = [tmp EXCEPT ![p] = i]
        /\ temps' = temps \cup {i}
        /\ bytes' = [bytes EXCEPT ![i] = None]
  BY DEF Begin
<1>2. UNCHANGED <<file, synced, orphans, tampered>>
      /\ pc' = [pc EXCEPT ![p] = "copy"] /\ got' = [got EXCEPT ![p] = None]
  BY DEF Begin
<1>3. \A d \in Digests : file[d] # i
  BY <1>1 DEF Free, Linked
<1>4. \A q \in Procs : tmp[q] # i
  BY <1>1 DEF Free, StagingPrivate, FileAssumption, TypeOK
<1>5. i # None
  OBVIOUS
<1>6. StagingPrivate'
  BY <1>1, <1>2, <1>3, <1>4, <1>5 DEF StagingPrivate, Linked, TypeOK, Free
<1>7. StagedBytes'
  BY <1>1, <1>2, <1>4 DEF StagedBytes, TypeOK
<1>8. BlobsSynced' /\ PublishedIntact'
  BY <1>1, <1>2, <1>3 DEF BlobsSynced, PublishedIntact, Stored, Intact, TypeOK
<1> QED
  BY <1>6, <1>7, <1>8

\* Copying changes only the bytes of a file no digest path names.
LEMMA CopyIntegrity ==
  ASSUME IntegrityInv, TypeOK', NEW p \in Procs, Copy(p)
  PROVE  IntegrityInv'
<1> USE DEF IntegrityInv, Goto
<1>1. PICK c \in Contents :
        bytes' = [bytes EXCEPT ![tmp[p]] = c] /\ got' = [got EXCEPT ![p] = c]
  BY DEF Copy
<1>2. UNCHANGED <<file, synced, temps, tmp, orphans, tampered>>
      /\ pc[p] = "copy" /\ pc' = [pc EXCEPT ![p] = "fsync"]
  BY DEF Copy, histVars
<1>3. tmp[p] \in Inodes /\ tmp[p] # None /\ \A d \in Digests : file[d] # tmp[p]
  BY <1>2 DEF StagingPrivate, Linked, TypeOK, Copying
<1>4. StagingPrivate'
  BY <1>2 DEF StagingPrivate, Linked, TypeOK
<1>5. StagedBytes'
  BY <1>1, <1>2, <1>3 DEF StagedBytes, StagingPrivate, TypeOK, Copying
<1>6. BlobsSynced' /\ PublishedIntact'
  BY <1>1, <1>2, <1>3 DEF BlobsSynced, PublishedIntact, Stored, Intact, TypeOK
<1> QED
  BY <1>4, <1>5, <1>6

\* Syncing only adds to what survives.
LEMMA SyncIntegrity ==
  ASSUME IntegrityInv, TypeOK', NEW p \in Procs, FsyncTemp(p) \/ SyncBlob(p) \/ StepFails(p)
  PROVE  IntegrityInv'
<1> USE DEF IntegrityInv, Goto, histVars
<1>1. UNCHANGED <<file, bytes, temps, tmp, got, orphans, tampered>> /\ synced \subseteq synced'
  BY DEF FsyncTemp, SyncBlob, StepFails
<1>2. \A q \in Procs \ {p} : pc'[q] = pc[q]
  BY DEF FsyncTemp, SyncBlob, StepFails, TypeOK
<1>3. pc'[p] \in {"check", "syncChain", "unwindErr", "closed"}
      /\ (pc'[p] = "check" => pc[p] = "fsync" /\ tmp[p] \in synced')
  BY DEF FsyncTemp, SyncBlob, StepFails, TypeOK
<1>4. StagingPrivate'
  BY <1>1, <1>2, <1>3 DEF StagingPrivate, Linked
<1>5. StagedBytes'
  BY <1>1, <1>2, <1>3 DEF StagedBytes
<1>6. BlobsSynced' /\ PublishedIntact'
  BY <1>1 DEF BlobsSynced, PublishedIntact, Stored, Intact
<1> QED
  BY <1>4, <1>5, <1>6

\* What is linked is the synced staging file that hashes to the digest.
LEMMA LinkIntegrity ==
  ASSUME IntegrityInv, TypeOK', NEW p \in Procs, LinkFresh(p)
  PROVE  IntegrityInv'
<1> USE DEF IntegrityInv, Goto, histVars
<1>1. /\ UNCHANGED <<bytes, synced, temps, tmp, got, orphans, tampered>>
      /\ pc[p] = "link" /\ pc' = [pc EXCEPT ![p] = "syncBlob"]
      /\ file' = [file EXCEPT ![Dig(p)] = tmp[p]]
  BY DEF LinkFresh
<1>2. got[p] \in Contents /\ Dig(p) \in Digests /\ DigestOf[got[p]] = Dig(p)
  BY <1>1 DEF TypeOK, Copying, Dig
<1>3. tmp[p] \in Inodes /\ tmp[p] \in synced /\ bytes[tmp[p]] = got[p] /\ ~Linked(tmp[p])
  BY <1>1 DEF TypeOK, Copying, StagedBytes, StagingPrivate
<1>4. \A q \in Procs \ {p} : Linked(tmp[q])' => Linked(tmp[q]) \/ tmp[q] = None
  BY <1>1, <1>2, <1>3 DEF Linked, StagingPrivate, TypeOK
<1>5. StagingPrivate'
  BY <1>1, <1>4 DEF StagingPrivate, TypeOK, Copying
<1>6. StagedBytes'
  BY <1>1 DEF StagedBytes, TypeOK
<1>7. BlobsSynced'
  BY <1>1, <1>2, <1>3 DEF BlobsSynced, Linked, TypeOK
<1>8. PublishedIntact'
  BY <1>1, <1>2, <1>3 DEF PublishedIntact, Stored, Intact, TypeOK
<1> QED
  BY <1>5, <1>6, <1>7, <1>8

\* Removing the temp name frees no inode a digest path names.
LEMMA UnwindIntegrity ==
  ASSUME IntegrityInv, TypeOK', NEW p \in Procs, Unwind(p)
  PROVE  IntegrityInv'
<1> USE DEF IntegrityInv, Goto
<1>1. /\ UNCHANGED <<file, tampered>>
      /\ pc[p] \in Unwinding /\ pc'[p] \in {"stored", "failed"}
      /\ \A q \in Procs \ {p} : pc'[q] = pc[q] /\ got'[q] = got[q] /\ tmp'[q] = tmp[q]
      /\ tmp'[p] = None
  BY DEF Unwind, RemoveTemp, TypeOK, Unwinding
<1>2. tmp[p] \in temps \ orphans /\ tmp[p] # None
  BY <1>1 DEF StagingPrivate, TypeOK
<1>3. \A q \in Procs \ {p} : tmp[q] # tmp[p]
  BY <1>2 DEF StagingPrivate
<1>4. \A i \in Inodes : i # tmp[p] \/ Linked(i) =>
          bytes'[i] = bytes[i] /\ (i \in synced => i \in synced')
  BY DEF Unwind, RemoveTemp, TypeOK
<1>5. StagingPrivate'
  <2>1. orphans' \subseteq temps'
    BY <1>2 DEF Unwind, RemoveTemp, StagingPrivate
  <2>2. \A q \in Procs \ {p} : tmp[q] # None => tmp[q] \in temps' \ orphans'
    BY <1>3 DEF Unwind, RemoveTemp, StagingPrivate
  <2> QED
    BY <1>1, <2>1, <2>2 DEF StagingPrivate, Linked
<1>6. StagedBytes'
  <2>1. \A q \in Procs : pc[q] \in {"fsync", "check", "link"} => tmp[q] \in Inodes
    BY DEF TypeOK, Copying
  <2> QED
    BY <1>1, <1>3, <1>4, <2>1 DEF StagedBytes
<1>7. BlobsSynced' /\ PublishedIntact'
  BY <1>1, <1>4 DEF BlobsSynced, PublishedIntact, Stored, Intact, Linked
<1> QED
  BY <1>5, <1>6, <1>7

\* A killed process leaves its staging file behind, and nothing else.
LEMMA KillIntegrity ==
  ASSUME IntegrityInv, TypeOK', NEW p \in Procs, Kill(p)
  PROVE  IntegrityInv'
<1> USE DEF IntegrityInv, Goto, fsVars
<1>1. /\ UNCHANGED <<file, bytes, synced, temps, tampered>>
      /\ pc'[p] = "closed" /\ tmp'[p] = None
      /\ \A q \in Procs \ {p} : pc'[q] = pc[q] /\ got'[q] = got[q] /\ tmp'[q] = tmp[q]
      /\ orphans' = orphans \cup ({tmp[p]} \cap Inodes)
  BY DEF Kill, TypeOK
<1>2. \A q \in Procs \ {p} : tmp[q] # None => tmp[q] # tmp[p]
  BY DEF StagingPrivate
<1>3. StagingPrivate'
  <2>1. orphans' \subseteq temps'
    BY <1>1 DEF StagingPrivate, TypeOK
  <2>2. \A q \in Procs : tmp'[q] # None => q # p /\ tmp'[q] = tmp[q]
    BY <1>1
  <2>3. \A q \in Procs : tmp'[q] # None => tmp'[q] \in temps' \ orphans'
    BY <1>1, <1>2, <2>2 DEF StagingPrivate
  <2>4. \A q, r \in Procs : q # r /\ tmp'[q] # None => tmp'[q] # tmp'[r]
    BY <1>1, <2>2 DEF StagingPrivate
  <2>5. \A q \in Procs :
           pc'[q] \in {"copy", "fsync", "check", "link", "verify"} => ~Linked(tmp[q])' /\ q # p
    BY <1>1 DEF StagingPrivate, Linked
  <2> QED
    BY <1>1, <2>1, <2>3, <2>4, <2>5 DEF StagingPrivate
<1>4. StagedBytes'
  BY <1>1 DEF StagedBytes
<1>5. BlobsSynced' /\ PublishedIntact'
  BY <1>1 DEF BlobsSynced, PublishedIntact, Stored, Intact
<1> QED
  BY <1>3, <1>4, <1>5

\* A power loss tears unsynced files only, and every blob is synced.
LEMMA CrashIntegrity ==
  ASSUME IntegrityInv, TypeOK', MachineCrash
  PROVE  IntegrityInv'
<1> USE DEF IntegrityInv
<1> PICK lost \in SUBSET (Visible \ (durable \cup {"/"})) : CrashLosing(lost)
  BY DEF MachineCrash
<1>1. \A p \in Procs : pc'[p] = "closed" /\ tmp'[p] = None
  BY DEF CrashLosing
<1>2. \A d \in Digests : file'[d] # None =>
          file'[d] = file[d] /\ d \in Survivors(lost)
  BY DEF CrashLosing
<1>3. orphans' = temps'
  BY DEF CrashLosing
<1>4. \A d \in Digests : file'[d] \in Inodes =>
          file'[d] \in synced' /\ bytes'[file'[d]] = bytes[file[d]]
  <2> SUFFICES ASSUME NEW d \in Digests, file'[d] \in Inodes
               PROVE  file'[d] \in synced' /\ bytes'[file'[d]] = bytes[file[d]]
    OBVIOUS
  <2>1. file'[d] = file[d] /\ file[d] \in synced
    BY <1>2 DEF BlobsSynced
  <2>2. file'[d] \in synced'
    BY DEF CrashLosing
  <2> QED
    BY <2>1, <2>2 DEF CrashLosing
<1>5. StagingPrivate' /\ StagedBytes'
  BY <1>1, <1>3 DEF StagingPrivate, StagedBytes
<1>6. BlobsSynced'
  BY <1>2, <1>4, FileAssumption DEF BlobsSynced
<1>7. PublishedIntact'
  <2> SUFFICES ASSUME NEW d \in Digests, file'[d] # None, d \notin tampered'
               PROVE  Intact(d)'
    BY DEF PublishedIntact, Stored
  <2>1. d \notin tampered /\ file'[d] = file[d]
    BY <1>2 DEF CrashLosing
  <2>2. Intact(d)
    BY <2>1 DEF PublishedIntact, Stored
  <2> QED
    BY <1>4, <2>1, <2>2 DEF Intact
<1> QED
  BY <1>5, <1>6, <1>7

\* Damage stays with the digest path that was damaged.
LEMMA DamageIntegrity ==
  ASSUME IntegrityInv, TypeOK', NEW d \in Digests, Tamper(d) \/ Occupy(d)
  PROVE  IntegrityInv'
<1> USE DEF IntegrityInv, opVars
<1>1. CASE Tamper(d)
  <2>1. /\ UNCHANGED <<file, synced, temps, pc, got, tmp, orphans>>
        /\ tampered' = tampered \cup {d} /\ file[d] \in Inodes
        /\ \A i \in Inodes \ {file[d]} : bytes'[i] = bytes[i]
    BY <1>1 DEF Tamper, TypeOK
  <2>2. \A p \in Procs : pc[p] \in {"fsync", "check", "link"} =>
            tmp[p] \in Inodes \ {file[d]}
    BY DEF StagingPrivate, Linked, TypeOK, Copying
  <2>3. StagingPrivate' /\ StagedBytes'
    BY <2>1, <2>2 DEF StagingPrivate, StagedBytes, Linked
  <2>4. BlobsSynced' /\ PublishedIntact'
    BY <2>1 DEF BlobsSynced, PublishedIntact, Stored, Intact
  <2> QED
    BY <2>3, <2>4
<1>2. CASE Occupy(d)
  <2>1. /\ UNCHANGED <<bytes, synced, temps, pc, got, tmp, orphans>>
        /\ tampered' = tampered \cup {d} /\ file' = [file EXCEPT ![d] = Foreign]
    BY <1>2 DEF Occupy
  <2>2. \A i \in Inodes : Linked(i)' => Linked(i)
    BY <2>1 DEF Linked, TypeOK
  <2>3. \A p \in Procs : pc[p] \in {"copy", "fsync", "check", "link", "verify"} => tmp[p] \in Inodes
    BY DEF TypeOK, Copying
  <2>4. StagingPrivate' /\ StagedBytes'
    BY <2>1, <2>2, <2>3 DEF StagingPrivate, StagedBytes
  <2>5. BlobsSynced' /\ PublishedIntact'
    BY <2>1 DEF BlobsSynced, PublishedIntact, Stored, Intact, TypeOK
  <2> QED
    BY <2>4, <2>5
<1> QED
  BY <1>1, <1>2

\* Emptying .tmp leaves the blobs whose temp name is among what is removed.
LEMMA SweepIntegrity ==
  ASSUME IntegrityInv, TypeOK', Sweep
  PROVE  IntegrityInv'
<1> USE DEF IntegrityInv, opVars
<1>1. /\ UNCHANGED <<file, pc, got, tmp, tampered>> /\ orphans' = {}
      /\ temps' = temps \ orphans
      /\ \A p \in Procs : tmp[p] = None
      /\ \A d \in Digests : file[d] \in Inodes =>
            bytes'[file[d]] = bytes[file[d]] /\ (file[d] \in synced => file[d] \in synced')
  BY DEF Sweep, Linked
<1>2. StagingPrivate' /\ StagedBytes'
  BY <1>1 DEF StagingPrivate, StagedBytes, Linked, TypeOK, Copying
<1>3. BlobsSynced' /\ PublishedIntact'
  BY <1>1 DEF BlobsSynced, PublishedIntact, Stored, Intact
<1> QED
  BY <1>2, <1>3

LEMMA NextIntegrity == IntegrityInv /\ [Next]_vars => IntegrityInv'
<1> SUFFICES ASSUME IntegrityInv, [Next]_vars PROVE IntegrityInv'
  OBVIOUS
<1>t. TypeOK'
  BY NextTypeOK DEF IntegrityInv
<1>1. ASSUME NEW p \in Procs, ProcStep(p) PROVE IntegrityInv'
  BY <1>1, <1>t, DirStepIntegrity, BeginIntegrity, CopyIntegrity, SyncIntegrity, LinkIntegrity,
     UnwindIntegrity, KillIntegrity DEF ProcStep, Call, Advance, DirStep
<1>2. ASSUME MachineCrash PROVE IntegrityInv'
  BY <1>2, <1>t, CrashIntegrity
<1>3. ASSUME EnvStep PROVE IntegrityInv'
  BY <1>3, <1>t, DamageIntegrity, SweepIntegrity DEF EnvStep
<1>4. CASE UNCHANGED vars
  BY <1>4, <1>t DEF vars, fsVars, opVars, histVars, IntegrityInv, StagingPrivate, StagedBytes,
                    BlobsSynced, PublishedIntact, Stored, Intact, Linked
<1> QED
  BY <1>1, <1>2, <1>3, <1>4 DEF Next, Fault, ProcStep, EnvStep

\* A digest path no one damaged from outside holds exactly the bytes that hash
\* to it, through every race and every power loss.
THEOREM Integrity == Spec => []PublishedIntact
<1>1. Spec => []IntegrityInv
  BY InitIntegrity, NextIntegrity, PTL DEF Spec
<1>2. IntegrityInv => PublishedIntact
  BY DEF IntegrityInv
<1> QED
  BY <1>1, <1>2, PTL
-----------------------------------------------------------------------------
(* Staging files *)

\* TempsAccounted is inductive with TypeOK: a name appears under .tmp only with
\* a put that owns it, and a put that stops owning it removed it or left an orphan.
LEMMA NextTempsAccounted ==
  ASSUME TypeOK, TempsAccounted, [Next]_vars
  PROVE  TempsAccounted'
<1> USE DEF TypeOK, TempsAccounted, Goto, fsVars, opVars, histVars
<1>1. ASSUME UNCHANGED <<temps, tmp, orphans>> PROVE TempsAccounted'
  BY <1>1
<1>2. ASSUME NEW p \in Procs, Begin(p) PROVE TempsAccounted'
  <2>1. tmp[p] = None
    BY <1>2 DEF Begin, Copying, Unwinding, Returned
  <2>2. PICK i \in Inodes : tmp' = [tmp EXCEPT ![p] = i] /\ temps' = temps \cup {i}
    BY <1>2 DEF Begin
  <2>3. \A j \in temps : j # tmp[p]
    BY <2>1
  <2> QED
    BY <1>2, <2>2, <2>3 DEF Begin
<1>3. ASSUME NEW p \in Procs, Unwind(p) PROVE TempsAccounted'
  BY <1>3 DEF Unwind, RemoveTemp
<1>4. ASSUME NEW p \in Procs, Kill(p) PROVE TempsAccounted'
  BY <1>4 DEF Kill
<1>5. ASSUME NEW p \in Procs, ProcStep(p), ~Begin(p), ~Unwind(p), ~Kill(p)
      PROVE  UNCHANGED <<temps, tmp, orphans>>
  BY <1>5 DEF ProcStep, Call, Advance, OpenMkdir, OpenMkTmp, OpenSync, BeginFails, Copy,
              FsyncTemp, SizeMismatch, MkShards, LinkFresh, LinkExists, VerifyOk,
              VerifyCorrupt, SyncBlob, SyncChain, StepFails
<1>6. ASSUME MachineCrash PROVE TempsAccounted'
  BY <1>6 DEF MachineCrash, CrashLosing
<1>7. ASSUME Sweep PROVE TempsAccounted'
  BY <1>7 DEF Sweep
<1>8. ASSUME NEW d \in Digests, Tamper(d) \/ Occupy(d) PROVE TempsAccounted'
  BY <1>1, <1>8 DEF Tamper, Occupy
<1>9. CASE UNCHANGED vars
  BY <1>1, <1>9 DEF vars
<1> QED
  BY <1>1, <1>2, <1>3, <1>4, <1>5, <1>6, <1>7, <1>8, <1>9 DEF Next, Fault, ProcStep

\* Whatever fails, is killed or loses power, every name under .tmp is that of a
\* running put or one the store is known to have left behind.
THEOREM StagingAccounted == Spec => []TempsAccounted
<1>1. Init => TempsAccounted
  BY DEF Init, TempsAccounted
<1>2. TypeOK /\ TempsAccounted /\ [Next]_vars => TempsAccounted'
  BY NextTempsAccounted
<1> QED
  BY <1>1, <1>2, TypeCorrect, PTL DEF Spec

-----------------------------------------------------------------------------
(* Blobs keep their bytes *)

\* No step of a process, and no sweep, changes an object at a digest path.
LEMMA StepKeepsBytes ==
  ASSUME IntegrityInv, (\E p \in Procs : ProcStep(p)) \/ Sweep \/ UNCHANGED vars,
         NEW d \in Digests, Stored(d)
  PROVE  file'[d] = file[d] /\ Stored(d)' /\ Intact(d)' = Intact(d)
<1> USE DEF IntegrityInv, Goto, fsVars, opVars, histVars
<1>1. CASE file' = file /\ (file[d] \in Inodes => bytes'[file[d]] = bytes[file[d]])
  BY <1>1 DEF Stored, Intact
<1>2. ASSUME NEW p \in Procs, LinkFresh(p) PROVE file'[d] = file[d] /\ bytes' = bytes
  BY <1>2 DEF LinkFresh, TypeOK
<1>3. ASSUME NEW p \in Procs, Begin(p), file[d] \in Inodes PROVE bytes'[file[d]] = bytes[file[d]]
  BY <1>3 DEF Begin, Free, Linked, TypeOK
<1>4. ASSUME NEW p \in Procs, Copy(p), file[d] \in Inodes PROVE bytes'[file[d]] = bytes[file[d]]
  BY <1>4 DEF Copy, StagingPrivate, Linked, TypeOK
<1>5. ASSUME NEW p \in Procs, Unwind(p), file[d] \in Inodes PROVE bytes'[file[d]] = bytes[file[d]]
  BY <1>5 DEF Unwind, RemoveTemp, Linked, TypeOK
<1>6. ASSUME Sweep, file[d] \in Inodes PROVE bytes'[file[d]] = bytes[file[d]]
  BY <1>6 DEF Sweep, Linked
<1>7. ASSUME NEW p \in Procs, ProcStep(p), ~LinkFresh(p), ~Begin(p), ~Copy(p), ~Unwind(p)
      PROVE  file' = file /\ bytes' = bytes
  BY <1>7 DEF ProcStep, Call, Advance, OpenMkdir, OpenMkTmp, OpenSync, BeginFails, FsyncTemp,
              SizeMismatch, MkShards, LinkExists, VerifyOk, VerifyCorrupt, SyncBlob, SyncChain,
              StepFails, Kill
<1>8. ASSUME NEW p \in Procs, Begin(p) \/ Copy(p) \/ Unwind(p) PROVE file' = file
  BY <1>8 DEF Begin, Copy, Unwind
<1>9. Sweep => file' = file
  BY DEF Sweep
<1>10. UNCHANGED vars => file' = file /\ bytes' = bytes
  BY DEF vars
<1> QED
  BY <1>1, <1>2, <1>3, <1>4, <1>5, <1>6, <1>7, <1>8, <1>9, <1>10 DEF Stored, Intact

\* A power loss leaves a blob it does not take away as it was.
LEMMA CrashKeepsBytes ==
  ASSUME IntegrityInv, NEW lost \in SUBSET (Visible \ (durable \cup {"/"})), CrashLosing(lost),
         NEW d \in Digests, Stored(d)'
  PROVE  d \in Survivors(lost) /\ file'[d] = file[d] /\ Intact(d)' = Intact(d)
<1> USE DEF IntegrityInv
<1>1. d \in Survivors(lost) /\ file'[d] = file[d]
  BY DEF CrashLosing, Stored
<1>2. ASSUME file[d] \in Inodes PROVE bytes'[file[d]] = bytes[file[d]]
  BY <1>1, <1>2 DEF CrashLosing, BlobsSynced
<1> QED
  BY <1>1, <1>2 DEF Intact

\* Damage reaches one digest path only, and shows there.
LEMMA DamageShows ==
  ASSUME IntegrityInv, NEW d \in Digests, Tamper(d) \/ Occupy(d)
  PROVE  /\ Stored(d)' /\ ~Intact(d)'
         /\ \A e \in Digests \ {d} : file'[e] = file[e] /\ Intact(e)' = Intact(e)
<1> USE DEF IntegrityInv, Stored, Intact, TypeOK
<1>1. CASE Tamper(d)
  BY <1>1 DEF Tamper, BlobsSynced
<1>2. CASE Occupy(d)
  BY <1>2 DEF Occupy
<1> QED
  BY <1>1, <1>2

-----------------------------------------------------------------------------
(* Verified before reuse *)

\* Damage lasts, is known from the start of a put on, and stops it from passing
\* the point where it links or verifies.
DamageLasts == \A d \in tampered : Stored(d) /\ ~Intact(d)
Past == {"syncBlob", "syncChain", "unwindOk", "stored"}
Unharmed(p) ==
    /\ badAtStart[p] \subseteq tampered
    /\ pc[p] \in Past => Dig(p) \notin badAtStart[p]

\* The inductive invariant behind VerifiedBeforeReuse.
ReuseInv ==
    /\ IntegrityInv
    /\ DamageLasts
    /\ \A p \in Procs : Unharmed(p)

LEMMA NextDamageLasts ==
  ASSUME ReuseInv, [Next]_vars
  PROVE  DamageLasts'
<1> USE DEF ReuseInv, DamageLasts, Goto, fsVars, opVars, histVars
<1>0. tampered \subseteq Digests
  BY DEF IntegrityInv, TypeOK
<1>1. ASSUME (\E p \in Procs : ProcStep(p)) \/ Sweep \/ UNCHANGED vars PROVE DamageLasts'
  <2>1. tampered' = tampered
    BY <1>1 DEF ProcStep, Call, Advance, OpenMkdir, OpenMkTmp, OpenSync, Begin, BeginFails,
                Copy, FsyncTemp, SizeMismatch, MkShards, LinkFresh, LinkExists, VerifyOk,
                VerifyCorrupt, SyncBlob, SyncChain, Unwind, StepFails, Kill, Sweep, vars
  <2> QED
    BY <1>0, <1>1, <2>1, StepKeepsBytes
<1>2. ASSUME MachineCrash PROVE DamageLasts'
  <2> PICK lost \in SUBSET (Visible \ (durable \cup {"/"})) : CrashLosing(lost)
    BY <1>2 DEF MachineCrash
  <2>1. \A d \in tampered' : d \in tampered /\ Stored(d)'
    BY <1>0 DEF CrashLosing, Stored
  <2> QED
    BY <1>0, <2>1, CrashKeepsBytes
<1>3. ASSUME NEW d \in Digests, Tamper(d) \/ Occupy(d) PROVE DamageLasts'
  <2>1. tampered' = tampered \cup {d}
    BY <1>3 DEF Tamper, Occupy
  <2>2. Stored(d)' /\ ~Intact(d)'
    BY <1>3, DamageShows
  <2>3. \A e \in tampered \ {d} : file'[e] = file[e] /\ Intact(e)' = Intact(e)
    BY <1>0, <1>3, DamageShows
  <2>4. \A e \in tampered \ {d} : Stored(e)' /\ ~Intact(e)'
    BY <2>3 DEF Stored
  <2> QED
    BY <2>1, <2>2, <2>4
<1> QED
  BY <1>1, <1>2, <1>3 DEF Next, Fault, ProcStep

LEMMA NextUnharmed ==
  ASSUME ReuseInv, [Next]_vars, NEW p \in Procs
  PROVE  Unharmed(p)'
<1> USE DEF ReuseInv, IntegrityInv, TypeOK, Unharmed, Past, Goto, fsVars, opVars, histVars
<1>1. ASSUME NEW q \in Procs \ {p}, ProcStep(q) PROVE Unharmed(p)'
  <2>1. UNCHANGED <<tampered, badAtStart[p], pc[p], got[p]>>
    BY <1>1 DEF ProcStep, Call, Advance, OpenMkdir, OpenMkTmp, OpenSync, Begin, BeginFails,
                Copy, FsyncTemp, SizeMismatch, MkShards, LinkFresh, LinkExists, VerifyOk,
                VerifyCorrupt, SyncBlob, SyncChain, Unwind, StepFails, Kill
  <2> QED
    BY <2>1 DEF Dig
<1>2. ASSUME Begin(p) \/ Kill(p) PROVE Unharmed(p)'
  BY <1>2 DEF Begin, Kill
<1>3. ASSUME \/ OpenMkdir(p) \/ OpenMkTmp(p) \/ OpenSync(p) \/ BeginFails(p) \/ Copy(p)
             \/ FsyncTemp(p) \/ SizeMismatch(p) \/ MkShards(p) \/ LinkExists(p)
             \/ VerifyCorrupt(p) \/ StepFails(p)
      PROVE  Unharmed(p)'
  BY <1>3 DEF OpenMkdir, OpenMkTmp, OpenSync, BeginFails, Copy, FsyncTemp, SizeMismatch,
              MkShards, LinkExists, VerifyCorrupt, StepFails
<1>4. ASSUME LinkFresh(p) \/ VerifyOk(p) PROVE Unharmed(p)'
  <2>1. Dig(p) \notin tampered
    BY <1>4 DEF LinkFresh, VerifyOk, DamageLasts
  <2> QED
    BY <1>4, <2>1 DEF LinkFresh, VerifyOk, Dig
<1>5. ASSUME SyncBlob(p) \/ SyncChain(p) \/ Unwind(p) PROVE Unharmed(p)'
  BY <1>5 DEF SyncBlob, SyncChain, Unwind, Dig
<1>6. ASSUME MachineCrash PROVE Unharmed(p)'
  BY <1>6 DEF MachineCrash, CrashLosing
<1>7. ASSUME NEW d \in Digests, Tamper(d) \/ Occupy(d) PROVE Unharmed(p)'
  BY <1>7 DEF Tamper, Occupy, Dig
<1>8. CASE Sweep \/ UNCHANGED vars
  BY <1>8 DEF Sweep, vars, Dig
<1> QED
  BY <1>1, <1>2, <1>3, <1>4, <1>5, <1>6, <1>7, <1>8 DEF Next, Call, Advance, Fault, ProcStep

\* A put that reports stored never took over a digest path that was damaged when
\* it began: what it did not link itself it verified, and damage does not heal.
THEOREM Reuse == Spec => []VerifiedBeforeReuse
<1>1. Init => ReuseInv
  BY InitIntegrity DEF Init, ReuseInv, DamageLasts, Unharmed, Past
<1>2. ReuseInv /\ [Next]_vars => ReuseInv'
  BY NextIntegrity, NextDamageLasts, NextUnharmed DEF ReuseInv
<1>3. ReuseInv => VerifiedBeforeReuse
  BY DEF ReuseInv, Unharmed, Past, VerifiedBeforeReuse
<1> QED
  BY <1>1, <1>2, <1>3, PTL DEF Spec

-----------------------------------------------------------------------------
(* The store implements its contract *)

StoreInv == DurabilityInv /\ IntegrityInv

\* What a caller sees at a digest path: the refinement mapping of Contract.
Status(d) == IF ~Stored(d) THEN "absent" ELSE IF Intact(d) THEN "good" ELSE "damaged"
BlobNow == [d \in Digests |-> Status(d)]

\* The call that wins the race for a digest path publishes a good blob.
LEMMA LinkRefines ==
  ASSUME StoreInv, NEW p \in Procs, LinkFresh(p)
  PROVE  Contract!ContractNext
<1> USE DEF StoreInv, IntegrityInv, histVars
<1>1. /\ UNCHANGED <<bytes, acked>> /\ pc[p] = "link"
      /\ file' = [file EXCEPT ![Dig(p)] = tmp[p]] /\ ~Stored(Dig(p))
  BY DEF LinkFresh
<1> PICK d \in Digests : d = Dig(p) /\ got[p] \in Contents /\ DigestOf[got[p]] = d
  BY <1>1 DEF TypeOK, Copying, Dig
<1>2. tmp[p] \in Inodes /\ bytes[tmp[p]] = got[p]
  BY <1>1 DEF TypeOK, Copying, StagedBytes
<1>3. file'[d] = tmp[p] /\ \A e \in Digests \ {d} : file'[e] = file[e]
  BY <1>1 DEF TypeOK
<1>4. Status(d) = "absent"
  BY <1>1 DEF Status
<1>5. Stored(d)' /\ Intact(d)'
  BY <1>1, <1>2, <1>3 DEF Stored, Intact
<1>6. Status(d)' = "good"
  BY <1>5 DEF Status
<1>7. \A e \in Digests \ {d} : Status(e)' = Status(e)
  BY <1>1, <1>3 DEF Status, Stored, Intact
<1>8. BlobNow' = [BlobNow EXCEPT ![d] = "good"] /\ BlobNow[d] = "absent"
  BY <1>4, <1>6, <1>7 DEF BlobNow
<1>9. Contract!Publish(d)
  BY <1>1, <1>8 DEF Contract!Publish, BlobNow, Status
<1> QED
  BY <1>9 DEF Contract!ContractNext

\* A step of a process that links nothing leaves what callers see as it was, and
\* promises at most the digest of its own call, which is there.
LEMMA ProcStepRefines ==
  ASSUME StoreInv, NEW p \in Procs, ProcStep(p), ~LinkFresh(p)
  PROVE  [Contract!ContractNext]_(Contract!contractVars)
<1> USE DEF StoreInv, IntegrityInv, histVars
<1>1. \A d \in Digests : file'[d] = file[d]
  BY DEF ProcStep, Call, Advance, OpenMkdir, OpenMkTmp, OpenSync, Begin, BeginFails, Copy,
         FsyncTemp, SizeMismatch, MkShards, LinkExists, VerifyOk, VerifyCorrupt, SyncBlob,
         SyncChain, Unwind, StepFails, Kill, fsVars
<1>2. \A d \in Digests : Status(d)' = Status(d)
  BY <1>1, StepKeepsBytes DEF Status, Stored
<1>3. BlobNow' = BlobNow
  BY <1>2 DEF BlobNow
<1>4. CASE Unwind(p) /\ pc[p] = "unwindOk"
  <2>1. acked' = acked \cup {Dig(p)} /\ Dig(p) \in Digests /\ Stored(Dig(p))
    BY <1>4 DEF Unwind, DurabilityInv, PublishProgress, Publishing, Dig, TypeOK
  <2>2. BlobNow[Dig(p)] # "absent"
    BY <2>1 DEF BlobNow, Status
  <2>3. Contract!Promise(Dig(p))
    BY <1>3, <2>1, <2>2 DEF Contract!Promise, BlobNow, Status
  <2> QED
    BY <2>1, <2>3 DEF Contract!ContractNext
<1>5. CASE ~(Unwind(p) /\ pc[p] = "unwindOk")
  <2>1. acked' = acked
    BY <1>5 DEF ProcStep, Call, Advance, OpenMkdir, OpenMkTmp, OpenSync, Begin, BeginFails,
                Copy, FsyncTemp, SizeMismatch, MkShards, LinkFresh, LinkExists, VerifyOk,
                VerifyCorrupt, SyncBlob, SyncChain, Unwind, StepFails, Kill
  <2> QED
    BY <1>3, <2>1 DEF Contract!contractVars, BlobNow, Status
<1> QED
  BY <1>4, <1>5

\* A power loss takes away some blobs not yet promised and damages none.
LEMMA CrashRefines ==
  ASSUME StoreInv, MachineCrash
  PROVE  Contract!ContractNext
<1> USE DEF StoreInv
<1> PICK lost \in SUBSET (Visible \ (durable \cup {"/"})) : CrashLosing(lost)
  BY DEF MachineCrash
<1> DEFINE gone == {d \in Digests : Stored(d) /\ ~Stored(d)'}
<1>1. acked' = acked
  BY DEF CrashLosing
<1>2. \A d \in gone : d \notin acked
  BY StepKeepsBlobs DEF Next, Fault, Stored
<1>3. gone \in SUBSET (Digests \ acked)
  BY <1>2
<1>4. \A d \in Digests : Status(d)' = IF d \in gone THEN "absent" ELSE Status(d)
  BY CrashKeepsBytes DEF Status, Stored
<1> HIDE DEF gone
<1>5. BlobNow' = [d \in Digests |-> IF d \in gone THEN "absent" ELSE BlobNow[d]]
  BY <1>4 DEF BlobNow
<1>6. Contract!PowerLoss
  BY <1>1, <1>3, <1>5 DEF Contract!PowerLoss, BlobNow, Status
<1> QED
  BY <1>6 DEF Contract!ContractNext

\* Damage from outside is damage to one digest path.
LEMMA DamageRefines ==
  ASSUME StoreInv, NEW d \in Digests, Tamper(d) \/ Occupy(d)
  PROVE  Contract!ContractNext
<1> USE DEF StoreInv
<1>1. acked' = acked
  BY DEF Tamper, Occupy
<1>2. Status(d)' = "damaged" /\ \A e \in Digests \ {d} : Status(e)' = Status(e)
  BY DamageShows DEF Status, Stored
<1>3. BlobNow' = [BlobNow EXCEPT ![d] = "damaged"]
  BY <1>2 DEF BlobNow
<1>4. Contract!Damage(d)
  BY <1>1, <1>3 DEF Contract!Damage, BlobNow, Status
<1> QED
  BY <1>4 DEF Contract!ContractNext

\* Emptying .tmp changes nothing a caller sees.
LEMMA SweepRefines ==
  ASSUME StoreInv, Sweep \/ UNCHANGED vars
  PROVE  UNCHANGED Contract!contractVars
<1>1. acked' = acked /\ file' = file
  BY DEF Sweep, vars, fsVars, histVars
<1>2. \A d \in Digests : Status(d)' = Status(d)
  BY <1>1, StepKeepsBytes DEF StoreInv, Status, Stored
<1>3. BlobNow' = BlobNow
  BY <1>2 DEF BlobNow
<1> QED
  BY <1>1, <1>3 DEF Contract!contractVars, BlobNow, Status

\* Every step maps to a step of the contract or to a stutter.
LEMMA StepRefines ==
  ASSUME StoreInv, [Next]_vars
  PROVE  [Contract!ContractNext]_(Contract!contractVars)
  BY LinkRefines, ProcStepRefines, CrashRefines, DamageRefines, SweepRefines
     DEF Next, Fault, ProcStep

\* The store keeps its contract through every race, failure, kill and power
\* loss: blobs appear good, only unreported ones are lost, and nothing but damage
\* from outside makes a blob disagree with its name.
THEOREM Refinement == Spec => KeepsContract
<1>1. Init => Contract!ContractInit
  BY DEF Init, Contract!ContractInit, Stored
<1>2. Init => StoreInv
  BY InitDurability, InitIntegrity DEF StoreInv
<1>3. StoreInv /\ [Next]_vars => StoreInv'
  BY NextDurability, NextIntegrity DEF StoreInv
<1>4. StoreInv /\ [Next]_vars => [Contract!ContractNext]_(Contract!contractVars)
  BY StepRefines
<1> QED
  BY <1>1, <1>2, <1>3, <1>4, PTL DEF Spec, KeepsContract, Contract!ContractSpec
=============================================================================
