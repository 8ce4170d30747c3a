----------------------------- MODULE ArtifactPut -----------------------------
(***************************************************************************)
(* artifact.Put: bytes into the content store, then an observation event   *)
(* into the ledger, two commits that can disagree.  The two stores appear  *)
(* as the contracts that ContentStore and EventLedger are checked to keep; *)
(* the puts share one host that can lose power.                            *)
(***************************************************************************)
EXTENDS FiniteSets

CONSTANTS
    Puts,           \* invocations of Put
    Digests,        \* digests of what the sources may hold
    Ids,            \* event ids
    Purpose,        \* what each put is to record: a put and its retries share it
    None

\* PutError: ArtifactStored is true, EventOutcome is what the name says.
PutErrors == {"stored_not_committed", "stored_unknown"}
Results == {"ok", "error"} \cup PutErrors

\* What Append reports.
Reports == {"ok", "invalid", "not_committed", "unknown"}

ASSUME PutAssumption ==
    /\ DOMAIN Purpose = Puts
    /\ None \notin Puts \cup Digests \cup Ids
    /\ None \notin Results \cup Reports

VARIABLES
    blob, promised,             \* the content store
    events, report, receipt,    \* the ledger, one append per put
    pc,                         \* where each put is
    digest,                     \* the digest WriteFile computed
    result                      \* what each put returned

blobVars == <<blob, promised>>
ledgerVars == <<events, report, receipt>>
putVars == <<pc, digest, result>>
vars == <<blobVars, ledgerVars, putVars>>

Blobs == INSTANCE BlobContract
Ledger == INSTANCE LedgerContract WITH Calls <- Puts

TypeOK ==
    /\ blob \in [Digests -> {"absent", "good", "damaged"}]
    /\ promised \subseteq Digests
    /\ events \in [Puts -> SUBSET Ids]
    /\ report \in [Puts -> Reports \cup {None}]
    /\ receipt \in [Puts -> Ids \cup {None}]
    /\ pc \in [Puts -> {"idle", "writing", "appending", "done", "dead", "deadAppending"}]
    /\ digest \in [Puts -> Digests \cup {None}]
    /\ result \in [Puts -> Results \cup {None}]
    /\ \A p \in Puts : result[p] # None <=> pc[p] = "done"
    /\ \A p \in Puts : pc[p] \in {"writing", "appending", "deadAppending"} => digest[p] # None
    /\ \A p \in Puts : report[p] # None => pc[p] = "done" /\ result[p] # "error"

Init ==
    /\ Blobs!ContractInit
    /\ Ledger!ContractInit
    /\ pc = [p \in Puts |-> "idle"]
    /\ digest = [p \in Puts |-> None]
    /\ result = [p \in Puts |-> None]

-----------------------------------------------------------------------------
(* The caller *)

Retries(p) == {q \in Puts \ {p} : Purpose[q] = Purpose[p]}

\* A caller repeats a put only on evidence that no earlier one left an event.
MayBegin(p) ==
    \A q \in Retries(p) : pc[q] = "idle" \/ result[q] \in {"error", "stored_not_committed"}

-----------------------------------------------------------------------------
(* Put *)

Return(p, r) ==
    /\ pc' = [pc EXCEPT ![p] = "done"]
    /\ result' = [result EXCEPT ![p] = r]

\* No absolute path, no hostname, or one of them is not valid UTF-8.
Reject(p) ==
    /\ pc[p] = "idle" /\ MayBegin(p)
    /\ Return(p, "error")
    /\ UNCHANGED <<blobVars, ledgerVars, digest>>

\* WriteFile is called and reads its source.
Begin(p) ==
    /\ pc[p] = "idle" /\ MayBegin(p)
    /\ pc' = [pc EXCEPT ![p] = "writing"]
    /\ \E d \in Digests : digest' = [digest EXCEPT ![p] = d]
    /\ UNCHANGED <<blobVars, ledgerVars, result>>

\* publish links the blob; WriteFile may still fail.
Link(p) ==
    /\ pc[p] = "writing"
    /\ Blobs!Publish(digest[p])
    /\ UNCHANGED <<ledgerVars, putVars>>

WriteFails(p) ==
    /\ pc[p] = "writing"
    /\ Return(p, "error")
    /\ UNCHANGED <<blobVars, ledgerVars, digest>>

\* Mutant of Written: the observation is appended before the bytes are stored.
AppendFirst(p) ==
    /\ pc[p] = "writing"
    /\ pc' = [pc EXCEPT ![p] = "appending"]
    /\ UNCHANGED <<blobVars, ledgerVars, digest, result>>

\* WriteFile returns a digest; Append is called with the observation.
Written(p) ==
    /\ pc[p] = "writing"
    /\ Blobs!Promise(digest[p])
    /\ pc' = [pc EXCEPT ![p] = "appending"]
    /\ UNCHANGED <<ledgerVars, digest, result>>

\* The ledger commits the observation of a put that called Append, whether or
\* not the put is still there to hear of it.
Observe(p) ==
    /\ \/ pc[p] \in {"appending", "deadAppending"}
       \/ pc[p] = "done" /\ report[p] = "unknown"
    /\ Ledger!Commit(p)
    /\ UNCHANGED <<blobVars, putVars>>

Appended(p) ==
    /\ pc[p] = "appending"
    /\ Ledger!Succeed(p)
    /\ Return(p, "ok")
    /\ UNCHANGED <<blobVars, digest>>

\* Mutant of PutError: every failed append is taken for a non-commit.
AssumeNotCommitted(o) == "stored_not_committed"

\* The outcome of an *AppendError is passed on; any other error is no evidence.
PutError(o) == IF o = "not_committed" THEN "stored_not_committed" ELSE "stored_unknown"

AppendFails(p) ==
    /\ pc[p] = "appending"
    /\ Ledger!Deny(p) \/ Ledger!Shrug(p)
    /\ Return(p, PutError(report'[p]))
    /\ UNCHANGED <<blobVars, digest>>

-----------------------------------------------------------------------------
(* The environment *)

Dying(p) == IF pc[p] = "appending" THEN "deadAppending"
            ELSE IF pc[p] = "writing" THEN "dead" ELSE pc[p]

Kill(p) ==
    /\ pc[p] \in {"writing", "appending"}
    /\ pc' = [pc EXCEPT ![p] = Dying(p)]
    /\ UNCHANGED <<blobVars, ledgerVars, digest, result>>

\* The host loses power: blobs not promised may go, every put under way ends.
\* The ledger is a server of its own.
HostCrash ==
    /\ Blobs!PowerLoss
    /\ pc' = [p \in Puts |-> Dying(p)]
    /\ UNCHANGED <<ledgerVars, digest, result>>

Damage(d) ==
    /\ Blobs!Damage(d)
    /\ UNCHANGED <<ledgerVars, putVars>>

-----------------------------------------------------------------------------

Next ==
    \/ \E p \in Puts :
          \/ Reject(p) \/ Begin(p) \/ Link(p) \/ WriteFails(p) \/ Written(p)
          \/ Observe(p) \/ Appended(p) \/ AppendFails(p) \/ Kill(p)
    \/ \E d \in Digests : Damage(d)
    \/ HostCrash

Spec == Init /\ [][Next]_vars

-----------------------------------------------------------------------------
(* Properties *)

\* Every observation in the ledger names a digest whose bytes are stored for
\* good, whatever was lost or killed in between: Put appends only after
\* WriteFile returned.
EventsNameStoredBlobs ==
    \A p \in Puts : events[p] # {} =>
        digest[p] \in promised /\ blob[digest[p]] # "absent"

\* What a put returns stays true of both stores: success names its one event, a
\* plain error and "not_committed" mean there is none and never will be one,
\* and every PutError comes with its bytes stored.
ResultTruth ==
    \A p \in Puts :
        /\ result[p] = "ok" => events[p] = {receipt[p]}
        /\ result[p] = "error" => events[p] = {}
        /\ result[p] \in PutErrors =>
              /\ digest[p] \in promised /\ blob[digest[p]] # "absent"
              /\ result[p] = "stored_not_committed" => events[p] = {}

\* A caller who repeats a put, however often, only when told each time that it
\* left no event, records the observation once at most: no commit of an earlier
\* attempt, nor of a second retry, arrives beside that of another.
ObservedOnce ==
    \A p \in Puts : \A q \in Retries(p) : events[p] = {} \/ events[q] = {}
=============================================================================
