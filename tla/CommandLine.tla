---------------------------- MODULE CommandLine ----------------------------
(***************************************************************************)
(* The duro command: event put, event get, artifact put and artifact get,  *)
(* each an invocation of its own that parses, validates, opens what it     *)
(* needs, calls the library and prints.  artifact put is ArtifactPut, the  *)
(* stores are its two contracts; what is added is the order of the steps,  *)
(* and what the shell sees: stdout, stderr and the exit code.              *)
(***************************************************************************)
EXTENDS Naturals, Sequences

CONSTANTS
    Runs,           \* invocations
    Digests, Ids,
    None

VARIABLES
    blob, promised,             \* the content store
    events, report, receipt,    \* the ledger, one append per invocation
    putPc, putDigest, putResult,\* artifact.Put of each invocation
    command,        \* what each invocation is
    given,          \* what its arguments are worth
    stage,          \* where it is
    wanted,         \* the id or digest a get asks for
    toFile,         \* artifact gets with --out
    touched,        \* what each invocation opened
    stdout,         \* how much of the output was written
    stderr, exit,   \* the error reported (usage texts are left out), the exit code
    owed            \* history: gets of what had been printed when they started

blobVars == <<blob, promised>>
ledgerVars == <<events, report, receipt>>
putVars == <<putPc, putDigest, putResult>>
storeVars == <<blobVars, ledgerVars, putVars>>
fixed == <<command, given, wanted, toFile, owed>>
vars == <<storeVars, fixed, stage, touched, stdout, stderr, exit>>

Artifact == INSTANCE ArtifactPut WITH Puts <- Runs, Purpose <- [r \in Runs |-> r],
                 pc <- putPc, digest <- putDigest, result <- putResult
Ledger == INSTANCE LedgerContract WITH Calls <- Runs
Blobs == INSTANCE BlobContract

Commands == {"event_put", "event_get", "artifact_put", "artifact_get"}
Opens == {"root", "ledger"}
PutErrors == {"stored_not_committed", "stored_unknown"}
Messages == {"empty", "plain", "notfound", "not_committed", "unknown"} \cup PutErrors

\* The steps of each command, in their order.
EventPutSteps == <<"args", "validate", "ledger", "call", "print">>
EventGetSteps == <<"args", "validate", "ledger", "call", "print">>
ArtifactPutSteps == <<"args", "root", "ledger", "call", "print">>

\* Mutant of ArtifactGetSteps: the store is opened before the digest is looked at.
OpenFirst == <<"args", "root", "validate", "call", "print">>
ArtifactGetSteps == <<"args", "validate", "root", "call", "print">>

Stages(c) ==
    CASE c = "event_put" -> EventPutSteps
      [] c = "event_get" -> EventGetSteps
      [] c = "artifact_put" -> ArtifactPutSteps
      [] c = "artifact_get" -> ArtifactGetSteps

\* Ids are numbers and digests are not.
ASSUME CommandAssumption ==
    /\ Ids \cap Digests = {}
    /\ None \notin Runs \cup Digests \cup Ids \cup {0, 1}
    /\ None \notin Artifact!Results \cup Artifact!Reports

Committed == UNION {events[r] : r \in Runs}

TypeOK ==
    /\ command \in [Runs -> Commands]
    /\ given \in [Runs -> {"help", "usage", "malformed", "fine"}]
    /\ stage \in [Runs -> {"args", "validate", "root", "ledger", "call", "print", "exit", "dead"}]
    /\ wanted \in [Runs -> Ids \cup Digests \cup {None}] /\ toFile \subseteq Runs
    /\ touched \in [Runs -> SUBSET Opens] /\ owed \subseteq Runs
    /\ stdout \in [Runs -> {"empty", "part", "whole"}] /\ stderr \in [Runs -> Messages]
    /\ exit \in [Runs -> {0, 1, None}]
    /\ \A r \in Runs : exit[r] # None <=> stage[r] = "exit"
    /\ \A r \in Runs : exit[r] = 1 <=> stderr[r] # "empty"
    /\ \A r \in Runs : putPc[r] # "idle" => command[r] = "artifact_put"

Init ==
    /\ Artifact!Init
    /\ command \in [Runs -> Commands]
    /\ given \in [Runs -> {"help", "usage", "malformed", "fine"}]
    /\ \A r \in Runs : command[r] = "artifact_put" => given[r] # "malformed"
    /\ stage = [r \in Runs |-> "args"]
    /\ wanted = [r \in Runs |-> None] /\ toFile = {} /\ owed = {}
    /\ touched = [r \in Runs |-> {}]
    /\ stdout = [r \in Runs |-> "empty"] /\ stderr = [r \in Runs |-> "empty"]
    /\ exit = [r \in Runs |-> None]

-----------------------------------------------------------------------------
(* The steps of main and of the run functions *)

Goto(r, s) == stage' = [stage EXCEPT ![r] = s] /\ UNCHANGED <<stderr, exit>>

Proceed(r) ==
    LET s == Stages(command[r]) IN
    \E i \in 1..Len(s) - 1 : s[i] = stage[r] /\ Goto(r, s[i + 1])

Exit(r, code, message) ==
    /\ stage' = [stage EXCEPT ![r] = "exit"]
    /\ exit' = [exit EXCEPT ![r] = code]
    /\ stderr' = [stderr EXCEPT ![r] = message]

\* Mutant of Fail: the message is printed and main returns.
ExitsZero(r, message) == Exit(r, 0, message)

Fail(r, message) == Exit(r, 1, message)

\* --help exits 0; an unknown flag, an extra or a missing argument is an error.
ParseArgs(r) ==
    /\ stage[r] = "args"
    /\ \/ given[r] = "help" /\ Exit(r, 0, "empty")
       \/ given[r] = "usage" /\ Fail(r, "plain")
       \/ given[r] \in {"malformed", "fine"} /\ Proceed(r)
    /\ UNCHANGED <<storeVars, fixed, touched, stdout>>

\* What an invocation that exited 0 printed: the id of its event, or its digest.
Printed(r) ==
    IF exit[r] # 0 THEN {}
    ELSE (IF command[r] = "event_get" THEN {} ELSE events[r] \cup {putDigest[r]}) \ {None}

\* New.Validate, event.ValidID or cas.ParseIdentity.
Validate(r) ==
    /\ stage[r] = "validate"
    /\ \/ given[r] = "malformed" /\ Fail(r, "plain") /\ UNCHANGED fixed
       \/ /\ given[r] = "fine" /\ Proceed(r)
          /\ \E x \in CASE command[r] = "event_get" -> Ids
                        [] command[r] = "artifact_get" -> Digests
                        [] OTHER -> {None} :
                /\ wanted' = [wanted EXCEPT ![r] = x]
                /\ owed' = owed \cup {q \in {r} : \E k \in Runs : x \in Printed(k)}
          /\ toFile' \in {toFile, toFile \cup {q \in {r} : command[q] = "artifact_get"}}
          /\ UNCHANGED <<command, given>>
    /\ UNCHANGED <<storeVars, touched, stdout>>

\* cas.Open, which creates directories, or postgres.Open, which connects.
Open(r) ==
    /\ stage[r] \in Opens
    /\ touched' = [touched EXCEPT ![r] = @ \cup {stage[r]}]
    /\ Fail(r, "plain") \/ Proceed(r)
    /\ UNCHANGED <<storeVars, fixed, stdout>>

Calling(r, c) == stage[r] = "call" /\ command[r] = c

EventPut(r) ==
    /\ Calling(r, "event_put")
    /\ \/ Ledger!Succeed(r) /\ Proceed(r)
       \/ /\ Ledger!Deny(r) \/ Ledger!Shrug(r)
          /\ Fail(r, IF report'[r] = "invalid" THEN "plain" ELSE report'[r])
    /\ UNCHANGED <<blobVars, putVars, fixed, touched, stdout>>

\* Mutant of PutMessage: every error of Put is printed as one that stored bytes.
AlwaysStored(result) == IF result = "error" THEN "stored_not_committed" ELSE result

\* A PutError is printed as JSON, any other error as a plain message.
PutMessage(result) == IF result \in PutErrors THEN result ELSE "plain"

ArtifactPut(r) ==
    /\ Calling(r, "artifact_put")
    /\ \/ Artifact!Reject(r) \/ Artifact!Begin(r) \/ Artifact!Link(r) \/ Artifact!WriteFails(r)
       \/ Artifact!Written(r) \/ Artifact!Appended(r) \/ Artifact!AppendFails(r)
    /\ CASE putResult'[r] = None -> UNCHANGED <<stage, stderr, exit>>
         [] putResult'[r] = "ok" -> Proceed(r)
         [] OTHER -> Fail(r, PutMessage(putResult'[r]))
    /\ UNCHANGED <<fixed, touched, stdout>>

\* Mutant of GetFailure: an error of the query is reported as a missing event.
AnyErrorIsMissing == {"notfound"}

\* What an error of the query itself is reported as.
GetFailure == {"plain"}

\* Store.Get: one SELECT.
EventGet(r) ==
    /\ Calling(r, "event_get")
    /\ \/ wanted[r] \in Committed /\ Proceed(r)
       \/ wanted[r] \notin Committed /\ Fail(r, "notfound")
       \/ \E m \in GetFailure : Fail(r, m)
    /\ UNCHANGED <<storeVars, fixed, touched, stdout>>

\* GetToFile prints its digest and path; GetToWriter has written to stdout itself.
ArtifactGet(r) ==
    /\ Calling(r, "artifact_get")
    /\ \/ /\ blob[wanted[r]] = "good" /\ r \in toFile
          /\ Proceed(r) /\ UNCHANGED stdout
       \/ /\ blob[wanted[r]] = "good" /\ r \notin toFile
          /\ Exit(r, 0, "empty") /\ stdout' = [stdout EXCEPT ![r] = "whole"]
       \/ /\ blob[wanted[r]] = "absent"
          /\ Fail(r, "notfound") /\ UNCHANGED stdout
       \/ /\ Fail(r, "plain")
          /\ \E s \in IF r \in toFile \/ blob[wanted[r]] = "absent" THEN {"empty"}
                    ELSE {"empty", "part", "whole"} :
                stdout' = [stdout EXCEPT ![r] = s]
    /\ UNCHANGED <<storeVars, fixed, touched>>

\* Mutant of PrintResult: the error of Encode is dropped.
PrintUnchecked(r) ==
    /\ stage[r] = "print"
    /\ Exit(r, 0, "empty")
    /\ \E s \in {"empty", "part", "whole"} : stdout' = [stdout EXCEPT ![r] = s]
    /\ UNCHANGED <<storeVars, fixed, touched>>

\* Encode writes the result to stdout; its error is returned like any other.
PrintResult(r) ==
    /\ stage[r] = "print"
    /\ \/ Exit(r, 0, "empty") /\ stdout' = [stdout EXCEPT ![r] = "whole"]
       \/ Fail(r, "plain") /\ \E s \in {"empty", "part"} : stdout' = [stdout EXCEPT ![r] = s]
    /\ UNCHANGED <<storeVars, fixed, touched>>

-----------------------------------------------------------------------------
(* The environment *)

\* The server commits an append that was sent, also when nobody hears of it.
Commit(r) ==
    /\ \/ /\ command[r] = "event_put" /\ Ledger!Commit(r)
          /\ stage[r] \in {"call", "dead"} \/ report[r] = "unknown"
          /\ "ledger" \in touched[r]
          /\ UNCHANGED <<blobVars, putVars>>
       \/ Artifact!Observe(r)
    /\ UNCHANGED <<fixed, stage, touched, stdout, stderr, exit>>

\* artifact.Put is killed with its process.
Kill(r) ==
    /\ stage[r] \notin {"exit", "dead"}
    /\ stage' = [stage EXCEPT ![r] = "dead"]
    /\ putPc' = [putPc EXCEPT ![r] = Artifact!Dying(r)]
    /\ UNCHANGED <<blobVars, ledgerVars, putDigest, putResult>>
    /\ UNCHANGED <<fixed, touched, stdout, stderr, exit>>

\* The host loses power; the ledger is a server of its own.
PowerLoss ==
    /\ Artifact!HostCrash
    /\ stage' = [r \in Runs |-> IF stage[r] = "exit" THEN "exit" ELSE "dead"]
    /\ UNCHANGED <<fixed, touched, stdout, stderr, exit>>

Damage(d) ==
    /\ Artifact!Damage(d)
    /\ UNCHANGED <<fixed, stage, touched, stdout, stderr, exit>>

-----------------------------------------------------------------------------

Next ==
    \/ \E r \in Runs :
          \/ ParseArgs(r) \/ Validate(r) \/ Open(r) \/ EventPut(r) \/ ArtifactPut(r)
          \/ EventGet(r) \/ ArtifactGet(r) \/ PrintResult(r) \/ Commit(r)
          \/ Kill(r)
    \/ \E d \in Digests : Damage(d)
    \/ PowerLoss

Spec == Init /\ [][Next]_vars

-----------------------------------------------------------------------------
(* Properties *)

\* An invocation whose arguments are turned away opens nothing: no connection, and
\* no directory under --root, which cas.Open would create.
RefusedTouchesNothing == \A r \in Runs : given[r] # "fine" => touched[r] = {}

\* Exit 0 means the whole of what was asked for: the event is in the ledger, the
\* bytes are stored for good, and the output is complete.
ExitZeroTrue ==
    \A r \in Runs : exit[r] = 0 /\ given[r] # "help" =>
        /\ stdout[r] = "whole"
        /\ command[r] \in {"event_put", "artifact_put"} => events[r] = {receipt[r]}
        /\ command[r] = "artifact_put" =>
              putDigest[r] \in promised /\ blob[putDigest[r]] # "absent"

\* What stderr says of the stores is true and stays true: not_committed means no
\* event, however late, and a JSON error means that the bytes are stored.
StderrTrue ==
    \A r \in Runs :
        /\ stderr[r] \in {"not_committed", "stored_not_committed"} => events[r] = {}
        /\ stderr[r] \in PutErrors =>
              putDigest[r] \in promised /\ blob[putDigest[r]] # "absent"

\* What an invocation has printed with exit 0 is never "not found" by a later one:
\* not an event, and not an artifact through kills and power loss.
ReadsBack == \A r \in owed : stderr[r] # "notfound"
=============================================================================
