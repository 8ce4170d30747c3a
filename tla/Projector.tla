------------------------------ MODULE Projector ------------------------------
(***************************************************************************)
(* Reading the whole ledger beside its writers: a rebuild is one read-only *)
(* repeatable-read transaction that reads every event, as the store's      *)
(* tests do and readers of the ledger are told to.  Ids are drawn and      *)
(* committed in any order by the sessions of EventLedger.                  *)
(***************************************************************************)
EXTENDS EventLedger, Integers

ASSUME IdAssumption == Ids \subseteq Nat

VARIABLES
    reader,         \* "idle", "open", "read", or "cut" off by an error
    rows,           \* what its query returned
    view            \* the last finished rebuild

readerVars == <<reader, rows, view>>
ledgerAndReader == <<vars, readerVars>>

Committed == {id \in Ids : owner[id] # None}

ReadInit == Init /\ reader = "idle" /\ rows = {} /\ view = {}

-----------------------------------------------------------------------------

BeginRead ==
    /\ reader \in {"idle", "cut"} /\ reader' = "open"
    /\ UNCHANGED <<rows, view>>

\* Mutant of ReadIDs: a rebuild goes on after the last id it knows.
ReadNewer ==
    /\ reader = "open" /\ reader' = "read"
    /\ rows' = view \cup {i \in Committed : \A j \in view : i > j}
    /\ UNCHANGED view

\* One query, and so one snapshot; it reads from the first id every time.
ReadIDs ==
    /\ reader = "open" /\ reader' = "read"
    /\ rows' = Committed
    /\ UNCHANGED view

EndRead ==
    /\ reader = "read" /\ reader' = "idle"
    /\ view' = rows /\ rows' = {}

\* The connection or the server is lost: the rebuild is discarded.
AbortRead ==
    /\ reader \in {"open", "read"} /\ reader' = "cut"
    /\ rows' = {}
    /\ UNCHANGED view

Read == BeginRead \/ ReadIDs \/ EndRead

ReadNext ==
    \/ Next /\ UNCHANGED readerVars
    \/ (Read \/ AbortRead) /\ UNCHANGED vars

ReadSpec == ReadInit /\ [][ReadNext]_ledgerAndReader

\* The reader's query is served, as the writers' statements are.
FairReadSpec == ReadSpec /\ LedgerFairness /\ WF_ledgerAndReader(Read /\ UNCHANGED vars)

-----------------------------------------------------------------------------
(* Properties *)

\* Every committed event is in some later rebuild, whatever its id and whenever it
\* was committed, also when its writer never heard of it, once rebuilds stop
\* being cut off.
CaughtUp ==
    <>[](reader # "cut") => \A i \in Ids : i \in Committed ~> i \in view
=============================================================================
