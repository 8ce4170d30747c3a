---------------------------- MODULE ContentStore ----------------------------
(***************************************************************************)
(* The content-addressed store of pkg/cas: Open, WriteFile, Write and      *)
(* Verify, run by concurrent callers over one file system that can fail    *)
(* any call, lose a process, or lose power.                                *)
(*                                                                         *)
(* The file system is modelled at the level at which durability is         *)
(* decided.  A name (directory or blob) is VISIBLE once created and        *)
(* DURABLE once the directory holding it has been fsynced; the bytes of an *)
(* inode are durable once the inode has been fsynced.  A power loss keeps  *)
(* what is durable, may or may not keep the rest, and drops everything     *)
(* below a directory it drops.                                             *)
(***************************************************************************)
EXTENDS Naturals, FiniteSets

CONSTANTS
    Procs,          \* concurrent users of the store
    Contents,       \* byte strings a source or a blob can hold
    Digests,        \* SHA-256 digests
    DigestOf,       \* the digest of each content
    SizeOf,         \* the length of each content
    Inodes,         \* files the file system can hold at once
    LeafDirs,       \* ROOT/sha256/aa/bb directories
    MidDirs,        \* ROOT/sha256/aa directories
    Leaf,           \* the leaf directory of each digest
    ShardOf,        \* the aa directory of each aa/bb directory
    MaxOrphans,     \* bound: staging files left behind by killed processes
    MaxTampered,    \* bound: digest paths damaged from outside
    None            \* no file, no inode, no content, no directory

\* Directories every store has: "/" stands for all ancestors of the root.
FixedDirs == {"sha256", ".tmp", "root", "/"}
Dirs == LeafDirs \cup MidDirs \cup FixedDirs
Names == Digests \cup Dirs

\* An object other than a regular file found at a digest path.
Foreign == "foreign"

ASSUME ContentAssumption ==
    /\ DigestOf \in [Contents -> Digests]
    /\ \A c1, c2 \in Contents : DigestOf[c1] = DigestOf[c2] => c1 = c2
    /\ SizeOf \in [Contents -> Nat]

ASSUME LayoutAssumption ==
    /\ Leaf \in [Digests -> LeafDirs]
    /\ ShardOf \in [LeafDirs -> MidDirs]
    /\ Digests \cap Dirs = {}
    /\ LeafDirs \cap MidDirs = {}
    /\ (LeafDirs \cup MidDirs) \cap FixedDirs = {}

ASSUME FileAssumption ==
    /\ IsFiniteSet(Inodes)
    /\ None \notin Inodes \cup Contents \cup Dirs
    /\ Foreign \notin Inodes \cup {None}
    /\ MaxOrphans \in Nat /\ MaxTampered \in Nat

VARIABLES
    dirs,           \* visible directories
    file,           \* what each digest path holds: an inode, Foreign or None
    durable,        \* names that survive a power loss if their directory does
    bytes,          \* the content of each inode
    synced,         \* inodes whose bytes survive a power loss
    temps,          \* inodes with a name under ROOT/.tmp
    pc,             \* where each process is
    want,           \* the length the source had when opened; None for a reader
    got,            \* the content read from the source
    tmp,            \* the staging file of the operation in progress
    cursor,         \* the directory syncChain visits next
    acked,          \* history: digests some call reported stored
    orphans,        \* history: staging files whose process was lost
    tampered,       \* history: digest paths damaged from outside
    badAtStart      \* history: tampered when the operation began

fsVars == <<dirs, file, durable, bytes, synced, temps>>
opVars == <<pc, want, got, tmp, cursor>>
histVars == <<acked, orphans, tampered, badAtStart>>
vars == <<fsVars, opVars, histVars>>

-----------------------------------------------------------------------------
(* Paths *)

\* filepath.Dir on the names of the store: "/" is its own parent.
Parent == [x \in Names |->
             CASE x \in Digests               -> Leaf[x]
               [] x \in LeafDirs              -> ShardOf[x]
               [] x \in MidDirs               -> "sha256"
               [] x \in {"sha256", ".tmp"}    -> "root"
               [] x \in {"root", "/"}         -> "/"]

\* x and every directory above it (a digest path is the deepest name).
Lineage(x) ==
    LET x1 == Parent[x]  x2 == Parent[x1]  x3 == Parent[x2]  x4 == Parent[x3]
    IN  {x, x1, x2, x3, x4, "/"}

\* The names that must all survive for digest d to be found after a crash.
Path(d) == {d, Leaf[d], ShardOf[Leaf[d]], "sha256", "root"}

Stored(d) == file[d] # None
Visible == dirs \cup {d \in Digests : Stored(d)}
Linked(i) == \E d \in Digests : file[d] = i
Free(i) == i \notin temps /\ ~Linked(i)

\* The digest the operation of p computed while copying.
Dig(p) == DigestOf[got[p]]

\* What fsyncing directory x makes durable: the names it now holds.
SyncDir(x) == durable' = durable \cup {y \in Visible : y # "/" /\ Parent[y] = x}

-----------------------------------------------------------------------------
(* States of a process *)

Opening == {"mktmp", "syncSha", "syncTmp"}
Copying == {"copy", "fsync", "check", "link", "verify", "syncBlob", "syncChain"}
\* On the way out: stored, refused by the store (ErrSizeMismatch, ErrCorrupt),
\* or stopped by an error of the file system.
Unwinding == {"unwindOk", "unwindFail", "unwindErr"}
Returned == {"ready", "stored", "failed"}

Goto(p, l) == pc' = [pc EXCEPT ![p] = l]

TypeOK ==
    /\ dirs \subseteq Dirs /\ "/" \in dirs
    /\ file \in [Digests -> Inodes \cup {None, Foreign}]
    /\ durable \subseteq Visible
    /\ bytes \in [Inodes -> Contents \cup {None}]
    /\ synced \subseteq Inodes
    /\ temps \subseteq Inodes
    /\ pc \in [Procs -> {"closed"} \cup Opening \cup Copying \cup Unwinding \cup Returned]
    /\ want \in [Procs -> Nat \cup {None}]
    /\ got \in [Procs -> Contents \cup {None}]
    /\ tmp \in [Procs -> Inodes \cup {None}]
    /\ cursor \in [Procs -> Dirs \cup {None}]
    /\ acked \subseteq Digests
    /\ orphans \subseteq Inodes
    /\ tampered \subseteq Digests
    /\ badAtStart \in [Procs -> SUBSET Digests]
    /\ \A p \in Procs : pc[p] \in Copying \cup Unwinding <=> tmp[p] # None
    /\ \A p \in Procs : pc[p] \in (Copying \ {"copy"}) \cup {"unwindOk", "stored"} => got[p] # None
    /\ \A p \in Procs : pc[p] \in {"syncSha", "syncTmp", "syncChain"} <=> cursor[p] # None

Init ==
    /\ dirs = {"/"} /\ file = [d \in Digests |-> None] /\ durable = {}
    /\ bytes = [i \in Inodes |-> None] /\ synced = {} /\ temps = {}
    /\ pc = [p \in Procs |-> "closed"]
    /\ want = [p \in Procs |-> None]
    /\ got = [p \in Procs |-> None]
    /\ tmp = [p \in Procs |-> None]
    /\ cursor = [p \in Procs |-> None]
    /\ acked = {} /\ orphans = {} /\ tampered = {}
    /\ badAtStart = [p \in Procs |-> {}]

-----------------------------------------------------------------------------
(* Open: create ROOT/sha256 and ROOT/.tmp, then sync both chains up to "/". *)

OpenMkdir(p) ==
    /\ pc[p] = "closed"
    /\ dirs' = dirs \cup {"root", "sha256"}
    /\ Goto(p, "mktmp")
    /\ UNCHANGED <<file, durable, bytes, synced, temps, want, got, tmp, cursor, histVars>>

OpenMkTmp(p) ==
    /\ pc[p] = "mktmp"
    /\ dirs' = dirs \cup {"root", ".tmp"}
    /\ cursor' = [cursor EXCEPT ![p] = "sha256"]
    /\ Goto(p, "syncSha")
    /\ UNCHANGED <<file, durable, bytes, synced, temps, want, got, tmp, histVars>>

\* One directory of syncChain(d, ""), for d the sha256 and then the .tmp directory.
OpenSync(p) ==
    /\ pc[p] \in {"syncSha", "syncTmp"}
    /\ SyncDir(cursor[p])
    /\ \/ /\ cursor[p] # "/"
          /\ cursor' = [cursor EXCEPT ![p] = Parent[@]]
          /\ UNCHANGED pc
       \/ /\ cursor[p] = "/" /\ pc[p] = "syncSha"
          /\ cursor' = [cursor EXCEPT ![p] = ".tmp"]
          /\ Goto(p, "syncTmp")
       \/ /\ cursor[p] = "/" /\ pc[p] = "syncTmp"
          /\ cursor' = [cursor EXCEPT ![p] = None]
          /\ Goto(p, "ready")
    /\ UNCHANGED <<dirs, file, bytes, synced, temps, want, got, tmp, histVars>>

-----------------------------------------------------------------------------
(* WriteFile and Write: stage, publish, and the deferred removal. *)

\* WriteFile opens and stats its source, Write has none; then CreateTemp.
Begin(p) ==
    /\ pc[p] \in Returned
    /\ \E size \in {SizeOf[c] : c \in Contents} \cup {None} :
          want' = [want EXCEPT ![p] = size]
    /\ \E i \in Inodes :
          /\ Free(i)
          /\ tmp' = [tmp EXCEPT ![p] = i]
          /\ temps' = temps \cup {i}
          /\ bytes' = [bytes EXCEPT ![i] = None]
    /\ badAtStart' = [badAtStart EXCEPT ![p] = tampered]
    /\ got' = [got EXCEPT ![p] = None]
    /\ Goto(p, "copy")
    /\ UNCHANGED <<dirs, file, durable, synced, cursor, acked, orphans, tampered>>

\* The source cannot be opened or is not regular, or CreateTemp fails.
BeginFails(p) ==
    /\ pc[p] \in Returned \ {"failed"}
    /\ got' = [got EXCEPT ![p] = None]
    /\ Goto(p, "failed")
    /\ UNCHANGED <<fsVars, want, tmp, cursor, histVars>>

\* hashingCopy reads the source to its end, whatever it holds by now.
Copy(p) ==
    /\ pc[p] = "copy"
    /\ \E c \in Contents :
          /\ bytes' = [bytes EXCEPT ![tmp[p]] = c]
          /\ got' = [got EXCEPT ![p] = c]
    /\ Goto(p, "fsync")
    /\ UNCHANGED <<dirs, file, durable, synced, temps, want, tmp, cursor, histVars>>

\* Mutant of FsyncTemp: the staging file is not synced.
SkipFsync(p) ==
    /\ pc[p] = "fsync"
    /\ Goto(p, "check")
    /\ UNCHANGED <<fsVars, want, got, tmp, cursor, histVars>>

FsyncTemp(p) ==
    /\ pc[p] = "fsync"
    /\ synced' = synced \cup {tmp[p]}
    /\ Goto(p, "check")
    /\ UNCHANGED <<dirs, file, durable, bytes, temps, want, got, tmp, cursor, histVars>>

\* ErrSizeMismatch: the source changed between the stat and the end of the read.
SizeMismatch(p) ==
    /\ pc[p] = "check"
    /\ want[p] \notin {None, SizeOf[got[p]]}
    /\ Goto(p, "unwindFail")
    /\ UNCHANGED <<fsVars, want, got, tmp, cursor, histVars>>

MkShards(p) ==
    /\ pc[p] = "check"
    /\ want[p] \in {None, SizeOf[got[p]]}
    /\ dirs' = dirs \cup (Path(Dig(p)) \cap Dirs)
    /\ want' = [want EXCEPT ![p] = None]
    /\ Goto(p, "link")
    /\ UNCHANGED <<file, durable, bytes, synced, temps, got, tmp, cursor, histVars>>

\* Mutant of LinkFresh: a rename instead of a link.
RenameOver(p) ==
    /\ pc[p] = "link"
    /\ file' = [file EXCEPT ![Dig(p)] = tmp[p]]
    /\ Goto(p, "syncBlob")
    /\ UNCHANGED <<dirs, durable, bytes, synced, temps, want, got, tmp, cursor, histVars>>

\* os.Link creates the digest path, or fails with EEXIST and changes nothing.
LinkFresh(p) ==
    /\ pc[p] = "link"
    /\ ~Stored(Dig(p))
    /\ file' = [file EXCEPT ![Dig(p)] = tmp[p]]
    /\ Goto(p, "syncBlob")
    /\ UNCHANGED <<dirs, durable, bytes, synced, temps, want, got, tmp, cursor, histVars>>

\* Mutant of LinkExists: EEXIST is an error like any other.
ExistsIsError(p) ==
    /\ pc[p] = "link"
    /\ Stored(Dig(p))
    /\ Goto(p, "unwindFail")
    /\ UNCHANGED <<fsVars, want, got, tmp, cursor, histVars>>

LinkExists(p) ==
    /\ pc[p] = "link"
    /\ Stored(Dig(p))
    /\ Goto(p, "verify")
    /\ UNCHANGED <<fsVars, want, got, tmp, cursor, histVars>>

\* Verify: a regular file of the expected length that hashes to the digest.
Intact(d) ==
    /\ file[d] \in Inodes
    /\ bytes[file[d]] \in Contents
    /\ DigestOf[bytes[file[d]]] = d

\* Mutant of VerifyOk: only the length of the existing blob is compared.
TrustLength(p) ==
    /\ pc[p] = "verify"
    /\ file[Dig(p)] \in Inodes
    /\ SizeOf[bytes[file[Dig(p)]]] = SizeOf[got[p]]
    /\ Goto(p, "syncBlob")
    /\ UNCHANGED <<fsVars, want, got, tmp, cursor, histVars>>

VerifyOk(p) ==
    /\ pc[p] = "verify"
    /\ Intact(Dig(p))
    /\ SizeOf[bytes[file[Dig(p)]]] = SizeOf[got[p]]
    /\ Goto(p, "syncBlob")
    /\ UNCHANGED <<fsVars, want, got, tmp, cursor, histVars>>

VerifyCorrupt(p) ==
    /\ pc[p] = "verify"
    /\ ~Intact(Dig(p))
    /\ Goto(p, "unwindFail")
    /\ UNCHANGED <<fsVars, want, got, tmp, cursor, histVars>>

\* syncPath(final): opened through the digest path, not through the temp name.
SyncBlob(p) ==
    /\ pc[p] = "syncBlob"
    /\ synced' = synced \cup ({file[Dig(p)]} \cap Inodes)
    /\ cursor' = [cursor EXCEPT ![p] = Leaf[Dig(p)]]
    /\ Goto(p, "syncChain")
    /\ UNCHANGED <<dirs, file, durable, bytes, temps, want, got, tmp, histVars>>

\* Mutant of SyncChain: only the leaf directory is synced.
SyncLeafOnly(p) ==
    /\ pc[p] = "syncChain"
    /\ SyncDir(cursor[p])
    /\ cursor' = [cursor EXCEPT ![p] = None]
    /\ Goto(p, "unwindOk")
    /\ UNCHANGED <<dirs, file, bytes, synced, temps, want, got, tmp, histVars>>

\* One directory of syncChain(leaf, root).
SyncChain(p) ==
    /\ pc[p] = "syncChain"
    /\ SyncDir(cursor[p])
    /\ \/ /\ cursor[p] = "root"
          /\ cursor' = [cursor EXCEPT ![p] = None]
          /\ Goto(p, "unwindOk")
       \/ /\ cursor[p] # "root"
          /\ cursor' = [cursor EXCEPT ![p] = Parent[@]]
          /\ UNCHANGED pc
    /\ UNCHANGED <<dirs, file, bytes, synced, temps, want, got, tmp, histVars>>

\* Mutant of RemoveTemp: a failed put leaves its temp name.
RemoveOnSuccess(p) ==
    /\ temps' = IF pc[p] = "unwindOk" THEN temps \ {tmp[p]} ELSE temps
    /\ tmp' = [tmp EXCEPT ![p] = None]
    /\ UNCHANGED <<bytes, synced, orphans>>

\* The deferred os.Remove of the temp name.  Its error is ignored, so the name
\* may stay; an inode with no other name is freed.
RemoveTemp(p) ==
    /\ \/ /\ temps' = temps \ {tmp[p]}
          /\ UNCHANGED orphans
          /\ IF Linked(tmp[p])
               THEN UNCHANGED <<bytes, synced>>
               ELSE /\ bytes' = [bytes EXCEPT ![tmp[p]] = None]
                    /\ synced' = synced \ {tmp[p]}
       \/ /\ Cardinality(orphans) < MaxOrphans
          /\ orphans' = orphans \cup {tmp[p]}
          /\ UNCHANGED <<bytes, synced, temps>>
    /\ tmp' = [tmp EXCEPT ![p] = None]

\* The deferred removal runs whatever the outcome, then the call returns.
Unwind(p) ==
    /\ pc[p] \in Unwinding
    /\ RemoveTemp(p)
    /\ \/ /\ pc[p] = "unwindOk"
          /\ acked' = acked \cup {Dig(p)}
          /\ Goto(p, "stored")
          /\ UNCHANGED got
       \/ /\ pc[p] \in {"unwindFail", "unwindErr"}
          /\ got' = [got EXCEPT ![p] = None]
          /\ Goto(p, "failed")
          /\ UNCHANGED acked
    /\ want' = [want EXCEPT ![p] = None]
    /\ UNCHANGED <<dirs, file, durable, cursor, tampered, badAtStart>>

\* A call of the file system returns an error: Open gives up, a put unwinds.
\* A failed close of the temp file comes after a sync that took effect.
StepFails(p) ==
    /\ \/ /\ pc[p] \in Opening
          /\ Goto(p, "closed")
          /\ UNCHANGED synced
       \/ /\ pc[p] \in Copying
          /\ Goto(p, "unwindErr")
          /\ \/ UNCHANGED synced
             \/ pc[p] = "fsync" /\ synced' = synced \cup {tmp[p]}
    /\ cursor' = [cursor EXCEPT ![p] = None]
    /\ UNCHANGED <<dirs, file, durable, bytes, temps, want, got, tmp, histVars>>

-----------------------------------------------------------------------------
(* The environment *)

\* A process ends between two calls; its staging file keeps its name.
Kill(p) ==
    /\ pc[p] # "closed"
    /\ tmp[p] # None => Cardinality(orphans \cup {tmp[p]}) <= MaxOrphans
    /\ orphans' = orphans \cup ({tmp[p]} \cap Inodes)
    /\ Goto(p, "closed")
    /\ want' = [want EXCEPT ![p] = None]
    /\ got' = [got EXCEPT ![p] = None]
    /\ tmp' = [tmp EXCEPT ![p] = None]
    /\ cursor' = [cursor EXCEPT ![p] = None]
    /\ badAtStart' = [badAtStart EXCEPT ![p] = {}]
    /\ UNCHANGED <<fsVars, acked, tampered>>

\* What is left of the names when the names in "lost" are not on disk.
Survivors(lost) == {x \in Visible : Lineage(x) \cap lost = {}}

\* Power loss: names not durable may be lost, with all that is below them, and
\* an inode not synced comes back with any bytes.  What is found on restart is
\* on disk.
CrashLosing(lost) ==
    LET kept == Survivors(lost) IN
    /\ dirs' = dirs \cap kept
    /\ file' = [d \in Digests |-> IF d \in kept THEN file[d] ELSE None]
    /\ durable' = kept \ {"/"}
    /\ \E left \in SUBSET temps :
          /\ Cardinality(left) <= MaxOrphans
          /\ left # {} => ".tmp" \in kept
          /\ temps' = left
          /\ orphans' = left
    /\ synced' = {i \in Inodes : i \in temps' \/ \E d \in Digests : file'[d] = i}
    /\ \E torn \in [synced' \ synced -> Contents \cup {None}] :
          bytes' = [i \in Inodes |->
                      IF i \notin synced' THEN None
                      ELSE IF i \in synced THEN bytes[i] ELSE torn[i]]
    /\ tampered' = tampered \cap kept
    /\ pc' = [p \in Procs |-> "closed"]
    /\ want' = [p \in Procs |-> None]
    /\ got' = [p \in Procs |-> None]
    /\ tmp' = [p \in Procs |-> None]
    /\ cursor' = [p \in Procs |-> None]
    /\ badAtStart' = [p \in Procs |-> {}]
    /\ UNCHANGED acked

MachineCrash == \E lost \in SUBSET (Visible \ (durable \cup {"/"})) : CrashLosing(lost)

\* Something outside the program changes the bytes of a published blob.
Tamper(d) ==
    /\ Cardinality(tampered \cup {d}) <= MaxTampered
    /\ file[d] \in Inodes
    /\ \E c \in Contents :
          /\ DigestOf[c] # d
          /\ bytes' = [bytes EXCEPT ![file[d]] = c]
    /\ tampered' = tampered \cup {d}
    /\ UNCHANGED <<dirs, file, durable, synced, temps, opVars, acked, orphans, badAtStart>>

\* Something outside the program puts a directory or a symlink at a digest path.
Occupy(d) ==
    /\ Cardinality(tampered \cup {d}) <= MaxTampered
    /\ ~Stored(d) /\ Leaf[d] \in dirs
    /\ file' = [file EXCEPT ![d] = Foreign]
    /\ tampered' = tampered \cup {d}
    /\ UNCHANGED <<dirs, durable, bytes, synced, temps, opVars, acked, orphans, badAtStart>>

\* The operator empties ROOT/.tmp while no put is running (README, Backups).
Sweep ==
    /\ orphans # {}
    /\ \A p \in Procs : tmp[p] = None
    /\ temps' = temps \ orphans
    /\ bytes' = [i \in Inodes |-> IF i \in orphans /\ ~Linked(i) THEN None ELSE bytes[i]]
    /\ synced' = {i \in synced : i \notin orphans \/ Linked(i)}
    /\ orphans' = {}
    /\ UNCHANGED <<dirs, file, durable, opVars, acked, tampered, badAtStart>>

-----------------------------------------------------------------------------

\* The steps the code takes by itself once a call is under way.
Advance(p) ==
    \/ OpenMkTmp(p) \/ OpenSync(p)
    \/ Copy(p) \/ FsyncTemp(p) \/ SizeMismatch(p) \/ MkShards(p)
    \/ LinkFresh(p) \/ LinkExists(p) \/ VerifyOk(p) \/ VerifyCorrupt(p)
    \/ SyncBlob(p) \/ SyncChain(p) \/ Unwind(p)

\* The steps a caller decides on.
Call(p) == OpenMkdir(p) \/ Begin(p)

Fault ==
    \/ \E p \in Procs : BeginFails(p) \/ StepFails(p) \/ Kill(p)
    \/ MachineCrash
    \/ \E d \in Digests : Tamper(d) \/ Occupy(d)

Next == (\E p \in Procs : Call(p) \/ Advance(p)) \/ Fault \/ Sweep

Spec == Init /\ [][Next]_vars

\* A process that keeps putting, and is scheduled.
FairSpec == Spec /\ \A p \in Procs : WF_vars(Advance(p)) /\ WF_vars(Call(p))

-----------------------------------------------------------------------------
(* Properties *)

\* A digest reported stored is on disk with every name leading to it, through
\* later errors, kills and power losses: syncPath and syncChain run before
\* publish returns, for a fresh blob and for one another caller created.
AckedSurvive == \A d \in acked : Stored(d) /\ Path(d) \subseteq durable

\* A blob no one outside damaged is a regular file whose bytes hash to its
\* name, whatever crashed since it was linked (stageTemp syncs before publish).
PublishedIntact == \A d \in Digests : Stored(d) /\ d \notin tampered => Intact(d)

\* A digest path once filled keeps the object it holds, whoever races for it;
\* only a power loss removes one, and never one reported stored.
NeverReplaced ==
    [][\A d \in Digests :
          Stored(d) => file'[d] = file[d] \/ (file'[d] = None /\ d \notin acked)]_vars

\* Nothing is left under .tmp but the staging file of a running put and those
\* of processes that were lost or could not remove theirs.
TempsAccounted == temps \subseteq orphans \cup {tmp[p] : p \in Procs}

\* A put never reports stored a digest path that was damaged before the put
\* began: an existing blob is verified, not trusted.
VerifiedBeforeReuse ==
    \A p \in Procs : pc[p] = "stored" => Dig(p) \notin badAtStart[p]

\* Seen from its callers, the store does nothing but publish good blobs, lose
\* blobs not yet reported stored, and keep its promises.
Contract == INSTANCE BlobContract WITH
    blob     <- [d \in Digests |-> IF ~Stored(d) THEN "absent"
                                  ELSE IF Intact(d) THEN "good" ELSE "damaged"],
    promised <- acked

KeepsContract == Contract!ContractSpec

\* Once the faults stop, a caller that keeps putting is again and again told
\* stored, unless its source changes under it or the blob it finds is damaged:
\* nothing a failed or killed put leaves behind blocks a later one.
RetrySucceeds ==
    <>[][~Fault]_vars =>
      \A p \in Procs : []<>( \/ pc[p] = "stored"
                             \/ pc[p] = "check" /\ want[p] \notin {None, SizeOf[got[p]]}
                             \/ pc[p] = "verify" /\ ~Intact(Dig(p)) )
=============================================================================
