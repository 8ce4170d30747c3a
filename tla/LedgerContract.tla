--------------------------- MODULE LedgerContract ---------------------------
(***************************************************************************)
(* What the append boundary of the ledger promises its callers, whatever   *)
(* language the writer is in: a call commits at most one event, an event   *)
(* once committed stays, a receipt names the event that was committed, and *)
(* a call reported not committed has committed nothing and never will.     *)
(***************************************************************************)
CONSTANTS Calls, Ids, None

VARIABLES
    events,     \* the events each call committed
    report,     \* what each call returned, or None
    receipt     \* the event id a successful call returned

contractVars == <<events, report, receipt>>

Denials == {"invalid", "not_committed"}

ContractInit ==
    /\ events = [c \in Calls |-> {}]
    /\ report = [c \in Calls |-> None]
    /\ receipt = [c \in Calls |-> None]

\* PostgreSQL commits the one event of a call that has not been denied.
Commit(c) ==
    /\ events[c] = {}
    /\ report[c] \notin Denials
    /\ \E id \in Ids :
          /\ \A k \in Calls : id \notin events[k]
          /\ events' = [events EXCEPT ![c] = {id}]
    /\ UNCHANGED <<report, receipt>>

\* The call returns the event that was committed.
Succeed(c) ==
    /\ report[c] = None
    /\ report' = [report EXCEPT ![c] = "ok"]
    /\ \E id \in events[c] : receipt' = [receipt EXCEPT ![c] = id]
    /\ UNCHANGED events

\* The call returns evidence that nothing was committed.
Deny(c) ==
    /\ report[c] = None /\ events[c] = {}
    /\ \E o \in Denials : report' = [report EXCEPT ![c] = o]
    /\ UNCHANGED <<events, receipt>>

\* The call returns without evidence either way.
Shrug(c) ==
    /\ report[c] = None
    /\ report' = [report EXCEPT ![c] = "unknown"]
    /\ UNCHANGED <<events, receipt>>

ContractNext == \E c \in Calls : Commit(c) \/ Succeed(c) \/ Deny(c) \/ Shrug(c)

ContractSpec == ContractInit /\ [][ContractNext]_contractVars
=============================================================================
