----------------------------- MODULE Retrieval -----------------------------
(***************************************************************************)
(* Reading artifacts back: Store.GetToFile and Store.GetToWriter of        *)
(* pkg/cas, behind artifact.GetToFile and artifact.GetToWriter.  Each get  *)
(* reads its blob in two parts, so that the blob can be damaged in         *)
(* between, and several gets may aim at one destination.                   *)
(***************************************************************************)
EXTENDS FiniteSets

CONSTANTS
    Gets,           \* invocations of a get
    Blob,           \* the blob each get asks for
    Dest,           \* the destination path of each get; None streams to a writer
    None

Digests == {Blob[g] : g \in Gets}
Paths == {Dest[g] : g \in Gets} \ {None}

\* A file someone else put at a destination.
Other == "other"

Failures == {"exists", "notfound", "notregular", "corrupt", "error"}

ASSUME GetAssumption == Other \notin Gets /\ None \notin Gets \cup Failures \cup {"ok"}

VARIABLES
    store,          \* what each digest path of the store holds
    dest,           \* the get whose file is at each destination, Other or None
    durable,        \* destinations whose name survives a power loss
    bytes,          \* what each get has copied so far
    synced,         \* gets whose copy survives a power loss
    temps,          \* gets whose staging name exists beside the destination
    pc,             \* where each get is
    outcome,        \* what each get returned, or None
    left            \* history: staging names whose get could not remove them

vars == <<store, dest, durable, bytes, synced, temps, pc, outcome, left>>
fileVars == <<dest, durable, synced, temps>>

ToFile(g) == Dest[g] # None

Active == {"lookup", "copy", "sync", "check", "link", "syncDir"}

TypeOK ==
    /\ store \in [Digests -> {"absent", "good", "damaged", "foreign"}]
    /\ dest \in [Paths -> Gets \cup {Other, None}]
    /\ durable \subseteq Paths
    /\ bytes \in [Gets -> {"empty", "goodHalf", "badHalf", "good", "bad"}]
    /\ synced \subseteq Gets /\ temps \subseteq Gets /\ left \subseteq Gets
    /\ pc \in [Gets -> {"idle", "unwind", "done", "dead"} \cup Active]
    /\ outcome \in [Gets -> Failures \cup {"ok", None}]
    /\ \A g \in Gets : pc[g] \in {"unwind", "done"} <=> outcome[g] # None
    /\ \A g \in Gets : pc[g] \in {"sync", "link", "syncDir"} => ToFile(g)

Init ==
    /\ store = [d \in Digests |-> "absent"]
    /\ dest = [x \in Paths |-> None]
    /\ durable = {} /\ synced = {} /\ temps = {} /\ left = {}
    /\ bytes = [g \in Gets |-> "empty"]
    /\ pc = [g \in Gets |-> "idle"]
    /\ outcome = [g \in Gets |-> None]

-----------------------------------------------------------------------------

Goto(g, l) == pc' = [pc EXCEPT ![g] = l] /\ UNCHANGED outcome

\* Mutant of Finish: the staging file is never removed.
FinishAtOnce(g, o) ==
    /\ pc' = [pc EXCEPT ![g] = "done"]
    /\ outcome' = [outcome EXCEPT ![g] = o]

\* Returns to the caller, by way of the deferred os.Remove once a temp exists.
Finish(g, o) ==
    /\ pc' = [pc EXCEPT ![g] = IF g \in temps THEN "unwind" ELSE "done"]
    /\ outcome' = [outcome EXCEPT ![g] = o]

\* GetToFile looks at its destination first, or fails to; GetToWriter has none.
Begin(g) ==
    /\ pc[g] = "idle"
    /\ \/ ToFile(g) /\ dest[Dest[g]] # None /\ Finish(g, "exists")
       \/ ToFile(g) /\ Finish(g, "error")
       \/ ToFile(g) /\ dest[Dest[g]] = None /\ Goto(g, "lookup")
       \/ ~ToFile(g) /\ Goto(g, "lookup")
    /\ UNCHANGED <<store, bytes, left, fileVars>>

\* get: only a regular file is opened; then CreateTemp beside the destination.
Lookup(g) ==
    /\ pc[g] = "lookup"
    /\ \/ /\ store[Blob[g]] \in {"good", "damaged"}
          /\ temps' = IF ToFile(g) THEN temps \cup {g} ELSE temps
          /\ Goto(g, "copy")
       \/ /\ store[Blob[g]] = "absent" /\ Finish(g, "notfound") /\ UNCHANGED temps
       \/ /\ store[Blob[g]] = "foreign" /\ Finish(g, "notregular") /\ UNCHANGED temps
    /\ UNCHANGED <<store, dest, durable, bytes, synced, left>>

\* hashingCopy moves one part of the blob to the temp file or to the writer.
Copy(g) ==
    /\ pc[g] = "copy"
    /\ LET sound == store[Blob[g]] = "good" /\ bytes[g] \in {"empty", "goodHalf"} IN
       \/ /\ bytes[g] = "empty"
          /\ bytes' = [bytes EXCEPT ![g] = IF sound THEN "goodHalf" ELSE "badHalf"]
          /\ UNCHANGED <<pc, outcome>>
       \/ /\ bytes[g] # "empty"
          /\ bytes' = [bytes EXCEPT ![g] = IF sound THEN "good" ELSE "bad"]
          /\ Goto(g, IF ToFile(g) THEN "sync" ELSE "check")
    /\ UNCHANGED <<store, left, fileVars>>

\* Mutant of Sync: the copy is not synced before it is published.
SkipSync(g) ==
    /\ pc[g] = "sync"
    /\ Goto(g, "check")
    /\ UNCHANGED <<store, bytes, left, fileVars>>

Sync(g) ==
    /\ pc[g] = "sync"
    /\ synced' = synced \cup {g}
    /\ Goto(g, "check")
    /\ UNCHANGED <<store, dest, durable, bytes, temps, left>>

\* Mutant of CheckSum: a mismatch is not reported.
SilentMismatch(g) ==
    /\ pc[g] = "check"
    /\ Goto(g, IF bytes[g] = "good" /\ ToFile(g) THEN "link" ELSE "done")
    /\ UNCHANGED <<store, bytes, left, fileVars>>

\* The digest of what was copied is compared with the digest asked for.
CheckSum(g) ==
    /\ pc[g] = "check"
    /\ \/ bytes[g] # "good" /\ Finish(g, "corrupt")
       \/ bytes[g] = "good" /\ ToFile(g) /\ Goto(g, "link")
       \/ bytes[g] = "good" /\ ~ToFile(g) /\ Finish(g, "ok")
    /\ UNCHANGED <<store, bytes, left, fileVars>>

\* Mutant of Link: a rename instead of a link.
RenameOver(g) ==
    /\ pc[g] = "link"
    /\ dest' = [dest EXCEPT ![Dest[g]] = g]
    /\ Goto(g, "syncDir")
    /\ UNCHANGED <<store, durable, bytes, synced, temps, left>>

\* os.Link publishes the copy, or loses to whoever was there first.
Link(g) ==
    /\ pc[g] = "link"
    /\ \/ /\ dest[Dest[g]] = None
          /\ dest' = [dest EXCEPT ![Dest[g]] = g]
          /\ Goto(g, "syncDir")
       \/ /\ dest[Dest[g]] # None
          /\ Finish(g, "exists")
          /\ UNCHANGED dest
    /\ UNCHANGED <<store, durable, bytes, synced, temps, left>>

\* Mutant of SyncDir: the destination's directory is not synced.
SkipDirSync(g) ==
    /\ pc[g] = "syncDir"
    /\ Finish(g, "ok")
    /\ UNCHANGED <<store, bytes, left, fileVars>>

\* The directory of this destination; what else is in it is not counted on.
SyncDir(g) ==
    /\ pc[g] = "syncDir"
    /\ durable' = durable \cup {Dest[g]}
    /\ Finish(g, "ok")
    /\ UNCHANGED <<store, dest, bytes, synced, temps, left>>

\* The deferred os.Remove; its error is ignored.
Unwind(g) ==
    /\ pc[g] = "unwind"
    /\ pc' = [pc EXCEPT ![g] = "done"]
    /\ \/ temps' = temps \ {g} /\ UNCHANGED left
       \/ left' = left \cup {g} /\ UNCHANGED temps
    /\ UNCHANGED <<store, dest, durable, bytes, synced, outcome>>

\* A call of the file system, or of the writer, returns an error.
StepFails(g) ==
    /\ pc[g] \in Active
    /\ Finish(g, "error")
    /\ UNCHANGED <<store, bytes, left, fileVars>>

-----------------------------------------------------------------------------
(* The environment *)

\* A put publishes the blob; something outside damages or replaces one.
Store(d, s) ==
    /\ s = "good" => store[d] = "absent"
    /\ s = "damaged" => store[d] = "good"
    /\ s = "foreign" => store[d] = "absent"
    /\ store' = [store EXCEPT ![d] = s]
    /\ UNCHANGED <<bytes, pc, outcome, left, fileVars>>

\* Another program creates the destination.
Occupy(x) ==
    /\ dest[x] = None
    /\ dest' = [dest EXCEPT ![x] = Other]
    /\ UNCHANGED <<store, durable, bytes, synced, temps, pc, outcome, left>>

Kill(g) ==
    /\ pc[g] \in Active \cup {"unwind"}
    /\ pc' = [pc EXCEPT ![g] = "dead"]
    /\ outcome' = [outcome EXCEPT ![g] = None]
    /\ left' = left \cup ({g} \cap temps)
    /\ UNCHANGED <<store, bytes, fileVars>>

\* Power loss: a destination not synced may be gone, a copy not synced is torn.
PowerLoss ==
    /\ \E lost \in SUBSET ({x \in Paths : dest[x] # None} \ durable) :
          /\ dest' = [x \in Paths |-> IF x \in lost THEN None ELSE dest[x]]
          /\ durable' = {x \in Paths : dest[x] # None} \ lost
    /\ bytes' = [g \in Gets |-> IF ToFile(g) /\ g \notin synced /\ bytes[g] # "empty"
                                THEN "bad" ELSE bytes[g]]
    /\ pc' = [g \in Gets |-> IF pc[g] \in Active \cup {"unwind"} THEN "dead" ELSE pc[g]]
    /\ outcome' = [g \in Gets |-> IF pc[g] = "unwind" THEN None ELSE outcome[g]]
    /\ left' = left \cup temps
    /\ UNCHANGED <<store, synced, temps>>

Step(g) ==
    \/ Lookup(g) \/ Copy(g) \/ Sync(g) \/ CheckSum(g) \/ Link(g) \/ SyncDir(g) \/ Unwind(g)

Next ==
    \/ \E g \in Gets : Begin(g) \/ Step(g) \/ StepFails(g) \/ Kill(g)
    \/ \E d \in Digests, s \in {"good", "damaged", "foreign"} : Store(d, s)
    \/ \E x \in Paths : Occupy(x)
    \/ PowerLoss

Spec == Init /\ [][Next]_vars

-----------------------------------------------------------------------------
(* Properties *)

\* What a get published at a destination hashes to the digest it asked for,
\* even when the blob was damaged under the read or power went right after.
PublishedVerified == \A x \in Paths : dest[x] \in Gets => bytes[dest[x]] = "good"

\* A get that returned success has its own verified copy at the destination, for
\* good; on a stream, all of the bytes went out and were right.
SuccessKept ==
    \A g \in Gets : outcome[g] = "ok" /\ pc[g] = "done" =>
        /\ bytes[g] = "good"
        /\ ToFile(g) => dest[Dest[g]] = g /\ Dest[g] \in durable

\* A destination is never overwritten, by a get or by a racing one; only a
\* power loss removes one, and never one whose get returned success.
NeverClobbered ==
    [][\A x \in Paths : dest[x] # None =>
          \/ dest'[x] = dest[x]
          \/ dest'[x] = None /\ ~\E g \in Gets : dest[x] = g /\ outcome[g] = "ok"]_vars

\* No staging file outlives a get that could remove it.
StagingRemoved == \A g \in temps : pc[g] \in Active \cup {"unwind"} \/ g \in left
=============================================================================
