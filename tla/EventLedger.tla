---------------------------- MODULE EventLedger ----------------------------
(***************************************************************************)
(* Appending to the canonical ledger: Store.Append of pkg/postgres and     *)
(* append_event of the Python writer, each call a dialogue with a server   *)
(* session over a connection that can break between any two messages,      *)
(* against a server that can refuse, tear a session down, or crash.        *)
(*                                                                         *)
(* A call is one invocation; a retry is another call.  Sessions, messages  *)
(* and commits are PostgreSQL's and are external to the repository.        *)
(***************************************************************************)
EXTENDS CommitOutcome

CONSTANTS
    Calls,          \* invocations of Append or append_event
    Ids,            \* event ids PostgreSQL can draw
    Lang            \* the writer of each call: "go" or "python"

Statements == {"begin", "insert", "commit"}
Outcomes == {"ok", "invalid", "not_committed", "unknown"}

\* An ERROR rejects a statement; the others tear the session down.
Rejections == {ServerError("ERROR", "23514")}
IdleTimeout == ServerError("FATAL", "25P03")
Teardowns == {ServerError("FATAL", "57P01"), ServerError("PANIC", "XX000"), IdleTimeout}
Errors == Rejections \cup Teardowns

Done == [kind |-> "done", id |-> None]
Returning(id) == [kind |-> "done", id |-> id]

Replies == Errors \cup {Returning(id) : id \in Ids} \cup {Done}

ASSUME LedgerAssumption ==
    /\ Lang \in [Calls -> {"go", "python"}]
    /\ None \notin Ids \cup Calls
    /\ None \notin Statements \cup Outcomes
    /\ None \notin Replies

VARIABLES
    pc,             \* the statement each call is waiting for
    outcome,        \* what each call returned
    row,            \* the id the INSERT of each call returned to it
    link,           \* each call's connection: none, up, down or closed
    request,        \* the statement on its way to the server
    reply,          \* the answer on its way to the client
    session,        \* the server's side of each connection
    pending,        \* the uncommitted row of each session
    owner,          \* the call that committed each event, or None
    drawn           \* ids PostgreSQL has assigned, committed or not

clientVars == <<pc, outcome, row>>
wireVars == <<link, request, reply>>
serverVars == <<session, pending, owner, drawn>>
vars == <<clientVars, wireVars, serverVars>>

TypeOK ==
    /\ pc \in [Calls -> {"idle", "done", "dead"} \cup Statements]
    /\ outcome \in [Calls -> Outcomes \cup {None}]
    /\ row \in [Calls -> Ids \cup {None}]
    /\ link \in [Calls -> {"none", "up", "down", "closed"}]
    /\ request \in [Calls -> Statements \cup {None}]
    /\ reply \in [Calls -> Replies \cup {None}]
    /\ session \in [Calls -> {"none", "idle", "tx", "aborted", "recorded"}]
    /\ pending \in [Calls -> Ids \cup {None}]
    /\ owner \in [Ids -> Calls \cup {None}]
    /\ drawn \subseteq Ids
    /\ \A c \in Calls : outcome[c] # None <=> pc[c] = "done"
    /\ \A c \in Calls : pending[c] # None => session[c] \in {"tx", "recorded"}
    /\ \A c \in Calls :
          request[c] # None \/ reply[c] # None \/ session[c] # "none" => pc[c] # "idle"
    /\ \A c \in Calls : request[c] = "begin" => session[c] = "none"

Init ==
    /\ pc = [c \in Calls |-> "idle"]
    /\ outcome = [c \in Calls |-> None]
    /\ row = [c \in Calls |-> None]
    /\ link = [c \in Calls |-> "none"]
    /\ request = [c \in Calls |-> None]
    /\ reply = [c \in Calls |-> None]
    /\ session = [c \in Calls |-> "none"]
    /\ pending = [c \in Calls |-> None]
    /\ owner = [i \in Ids |-> None]
    /\ drawn = {}

-----------------------------------------------------------------------------
(* The client *)

Send(c, s) == request' = [request EXCEPT ![c] = s]

Return(c, o) ==
    /\ pc' = [pc EXCEPT ![c] = "done"]
    /\ outcome' = [outcome EXCEPT ![c] = o]

\* The pre-check fails, or no DSN is given: no database access.
Invalid(c) ==
    /\ pc[c] = "idle"
    /\ Return(c, "invalid")
    /\ UNCHANGED <<row, wireVars, serverVars>>

\* db.Begin on a pooled connection, or psycopg.connect.
Start(c) ==
    /\ pc[c] = "idle"
    /\ pc' = [pc EXCEPT ![c] = "begin"]
    /\ link' = [link EXCEPT ![c] = "up"]
    /\ Send(c, "begin")
    /\ UNCHANGED <<outcome, row, reply, serverVars>>

\* Reading the answer to a statement.
Receive(c) == reply[c] # None /\ reply' = [reply EXCEPT ![c] = None]

BeginDone(c) ==
    /\ pc[c] = "begin"
    /\ Receive(c) /\ reply[c].kind = "done"
    /\ pc' = [pc EXCEPT ![c] = "insert"]
    /\ Send(c, "insert")
    /\ UNCHANGED <<outcome, row, link, serverVars>>

\* The row is scanned and COMMIT is sent.
InsertDone(c) ==
    /\ pc[c] = "insert"
    /\ Receive(c) /\ reply[c].kind = "done"
    /\ row' = [row EXCEPT ![c] = reply[c].id]
    /\ pc' = [pc EXCEPT ![c] = "commit"]
    /\ Send(c, "commit")
    /\ UNCHANGED <<outcome, link, serverVars>>

\* Append and append_event return the event only now.
CommitDone(c) ==
    /\ pc[c] = "commit"
    /\ Receive(c) /\ reply[c].kind = "done"
    /\ Return(c, "ok")
    /\ link' = [link EXCEPT ![c] = "closed"]
    /\ UNCHANGED <<row, request, serverVars>>

\* Mutant of Fails: a lost answer is taken for a non-commit.
NeverUnknown(c, err) ==
    /\ Return(c, "not_committed")
    /\ UNCHANGED <<row, serverVars>>

\* An error before COMMIT was sent is a definite non-commit; one in answer to
\* COMMIT is classified.  The deferred Rollback, or close, ends the session.
Fails(c, err) ==
    /\ Return(c, IF pc[c] = "commit" THEN Classify(Lang[c], err) ELSE "not_committed")
    /\ UNCHANGED <<row, serverVars>>

ErrorAnswer(c) ==
    /\ pc[c] \in Statements
    /\ Receive(c) /\ reply[c].kind = "server"
    /\ Fails(c, reply[c])
    /\ link' = [link EXCEPT ![c] = "closed"]
    /\ UNCHANGED request

\* Mutant of ScanFails: the transaction is not rolled back.
ScanLeaks(c) ==
    /\ pc[c] = "insert"
    /\ Receive(c) /\ reply[c].kind = "done"
    /\ Fails(c, NoAnswer)
    /\ UNCHANGED <<link, request>>

\* The returned row cannot be decoded.
ScanFails(c) ==
    /\ pc[c] = "insert"
    /\ Receive(c) /\ reply[c].kind = "done"
    /\ Fails(c, NoAnswer)
    /\ link' = [link EXCEPT ![c] = "closed"]
    /\ UNCHANGED request

\* Mutant of LinkLost: a loss while COMMIT is outstanding goes unnoticed.
LossUnnoticed(c) ==
    /\ pc[c] \in {"begin", "insert"}
    /\ link[c] = "down" /\ reply[c] = None
    /\ Fails(c, NoAnswer)
    /\ UNCHANGED wireVars

\* The connection is reported lost; what was sent may still arrive.
LinkLost(c) ==
    /\ pc[c] \in Statements
    /\ link[c] = "down" /\ reply[c] = None
    /\ Fails(c, NoAnswer)
    /\ UNCHANGED wireVars

\* The client process ends; what it sent may still arrive.
Die(c) ==
    /\ pc[c] \in Statements
    /\ pc' = [pc EXCEPT ![c] = "dead"]
    /\ link' = [link EXCEPT ![c] = "down"]
    /\ reply' = [reply EXCEPT ![c] = None]
    /\ UNCHANGED <<outcome, row, request, serverVars>>

-----------------------------------------------------------------------------
(* The server and the network *)

\* The server consumes the statement; its answer needs a connection.
Answer(c, r) ==
    /\ request' = [request EXCEPT ![c] = None]
    /\ reply' = [reply EXCEPT ![c] = IF link[c] = "up" THEN r ELSE None]
    /\ UNCHANGED <<clientVars, link>>

ServeBegin(c) ==
    /\ request[c] = "begin"
    /\ \/ Answer(c, Done) /\ session' = [session EXCEPT ![c] = "idle"]
       \/ \E e \in Errors : Answer(c, e) /\ UNCHANGED session
    /\ UNCHANGED <<pending, owner, drawn>>

\* PostgreSQL draws a fresh id, or a constraint rejects the row.
ServeInsert(c) ==
    /\ request[c] = "insert" /\ session[c] = "idle"
    /\ \/ \E id \in Ids \ drawn :
             /\ drawn' = drawn \cup {id}
             /\ pending' = [pending EXCEPT ![c] = id]
             /\ session' = [session EXCEPT ![c] = "tx"]
             /\ Answer(c, Returning(id))
       \/ /\ session' = [session EXCEPT ![c] = "aborted"]
          /\ \E e \in Rejections : Answer(c, e)
          /\ UNCHANGED <<pending, drawn>>
    /\ UNCHANGED owner

\* The commit record becomes durable before the answer leaves the server.
ServeCommit(c) ==
    /\ request[c] = "commit" /\ session[c] = "tx"
    /\ \/ /\ owner' = [owner EXCEPT ![pending[c]] = c]
          /\ session' = [session EXCEPT ![c] = "recorded"]
          /\ UNCHANGED <<clientVars, wireVars, pending>>
       \/ /\ session' = [session EXCEPT ![c] = "idle"]
          /\ pending' = [pending EXCEPT ![c] = None]
          /\ \E e \in Rejections : Answer(c, e)
          /\ UNCHANGED owner
    /\ UNCHANGED drawn

AckCommit(c) ==
    /\ session[c] = "recorded"
    /\ session' = [session EXCEPT ![c] = "idle"]
    /\ pending' = [pending EXCEPT ![c] = None]
    /\ Answer(c, Done)
    /\ UNCHANGED <<owner, drawn>>

EndSession(c) ==
    /\ session' = [session EXCEPT ![c] = "none"]
    /\ pending' = [pending EXCEPT ![c] = None]
    /\ UNCHANGED <<owner, drawn>>

\* Administrator shutdown, a timeout of the server, a failed backend: before
\* or after the commit record, with a message or without reaching the client.
Teardown(c) ==
    /\ session[c] # "none" /\ reply[c] = None
    /\ EndSession(c)
    /\ \E e \in Teardowns :
          /\ e = IdleTimeout => session[c] # "recorded"
          /\ Answer(c, e)

\* The server notices that the client is gone and has nothing left to serve.
Abandon(c) ==
    /\ session[c] # "none"
    /\ link[c] \in {"down", "closed"} /\ request[c] = None
    /\ EndSession(c)
    /\ UNCHANGED <<clientVars, wireVars>>

\* The connection breaks; an answer on its way may be lost.
Break(c) ==
    /\ link[c] = "up"
    /\ link' = [link EXCEPT ![c] = "down"]
    /\ \/ UNCHANGED reply
       \/ reply' = [reply EXCEPT ![c] = None]
    /\ UNCHANGED <<clientVars, request, serverVars>>

\* A statement sent over a broken connection never arrives.
LoseRequest(c) ==
    /\ link[c] = "down" /\ request[c] # None
    /\ Send(c, None)
    /\ UNCHANGED <<clientVars, link, reply, serverVars>>

\* All sessions end at once; commit records survive (synchronous_commit).
ServerCrash ==
    /\ \E c \in Calls : session[c] # "none" \/ request[c] # None
    /\ session' = [c \in Calls |-> "none"]
    /\ pending' = [c \in Calls |-> None]
    /\ request' = [c \in Calls |-> None]
    /\ link' = [c \in Calls |-> IF link[c] = "up" THEN "down" ELSE link[c]]
    /\ UNCHANGED <<clientVars, reply, owner, drawn>>

-----------------------------------------------------------------------------

\* What the client does by itself once it has been called.
ClientStep(c) ==
    \/ BeginDone(c) \/ InsertDone(c) \/ CommitDone(c)
    \/ ErrorAnswer(c) \/ ScanFails(c) \/ LinkLost(c)

\* What the server does by itself.
ServerStep(c) == ServeBegin(c) \/ ServeInsert(c) \/ ServeCommit(c) \/ AckCommit(c) \/ Abandon(c)

Next ==
    \/ \E c \in Calls :
          \/ Invalid(c) \/ Start(c) \/ ClientStep(c) \/ Die(c)
          \/ ServerStep(c) \/ Teardown(c) \/ Break(c) \/ LoseRequest(c)
    \/ ServerCrash

Spec == Init /\ [][Next]_vars

\* The client handles what reaches it and the server serves what reaches it;
\* nobody has to call, and nothing has to break.
LedgerFairness == \A c \in Calls : WF_vars(ClientStep(c)) /\ WF_vars(ServerStep(c))

-----------------------------------------------------------------------------
(* Properties *)

EventsOf(c) == {id \in Ids : owner[id] = c}

\* A receipt names an event this call committed, and a call that was told
\* "not committed" has committed nothing and never will, even if its COMMIT is
\* still on its way: CommitOutcome's two promises.
OutcomeTruth ==
    \A c \in Calls :
        /\ outcome[c] = "ok" => owner[row[c]] = c
        /\ outcome[c] \in {"invalid", "not_committed"} => EventsOf(c) = {}

\* Append and append_event keep the contract of the ledger boundary, step by
\* step: one event per call at most, none after a denial, none taken back.
Contract == INSTANCE LedgerContract WITH
    events  <- [c \in Calls |-> EventsOf(c)],
    report  <- outcome,
    receipt <- [c \in Calls |-> IF outcome[c] = "ok" THEN row[c] ELSE None]

KeepsContract == Contract!ContractSpec

\* A call under way comes back to its caller, or its process is gone.
CallsReturn == \A c \in Calls : pc[c] \in Statements ~> pc[c] \in {"done", "dead"}

\* No returned call leaves its transaction, and the locks it holds, open on the
\* server: the deferred Rollback, or the close in "finally".
TransactionsEnd ==
    \A c \in Calls : pc[c] = "done" ~> session[c] \notin {"tx", "aborted", "recorded"}
=============================================================================
