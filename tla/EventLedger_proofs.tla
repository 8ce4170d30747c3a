------------------------- MODULE EventLedger_proofs -------------------------
(***************************************************************************)
(* Proofs about EventLedger for every number of calls and ids and any mix  *)
(* of the two writers, with a server that does not translate severities,   *)
(* and about Projector, the rebuilds beside them.                          *)
(***************************************************************************)
EXTENDS Projector, TLAPS

USE LedgerAssumption

-----------------------------------------------------------------------------
(* Messages *)

IsDone(r) == r # None /\ r.kind = "done"
IsError(r) == r # None /\ r.kind = "server"

\* Every answer is an error of the server, a receipt or a plain completion.
LEMMA Answers ==
    /\ \A e \in Errors : e.kind = "server"
    /\ \A id : Returning(id).kind = "done" /\ Returning(id).id = id
    /\ Done.kind = "done" /\ Done.id = None
    /\ Rejections \subseteq Errors /\ Teardowns \subseteq Errors
    /\ Errors \subseteq Replies /\ Done \in Replies
    /\ \A id \in Ids : Returning(id) \in Replies
    /\ \A r \in Replies : r.kind = "done" => r.id \in Ids \cup {None}
<1>1. \A e \in Errors : e.kind = "server"
  BY DEF Errors, Rejections, Teardowns, IdleTimeout, ServerError
<1>2. \A id : Returning(id).kind = "done" /\ Returning(id).id = id
  BY DEF Returning
<1>3. Done.kind = "done" /\ Done.id = None
  BY DEF Done
<1>4. \A r \in Replies : r.kind = "done" => r.id \in Ids \cup {None}
  BY <1>1, <1>2, <1>3 DEF Replies
<1> QED
  BY <1>1, <1>2, <1>3, <1>4 DEF Errors, Replies

\* No session that is torn down is taken for a refusal, by either writer.
LEMMA TeardownUnknown ==
  ASSUME ~Translated, NEW e \in Teardowns, NEW l \in {"go", "python"}
  PROVE  Classify(l, e) = "unknown"
  BY DEF Teardowns, IdleTimeout, ServerError, Shown, Classify, ClassifyCommitErr, CommitOutcomePy

\* Neither is a connection that is lost.
LEMMA NoAnswerUnknown ==
  ASSUME NEW l \in {"go", "python"}
  PROVE  Classify(l, NoAnswer) = "unknown"
  BY DEF NoAnswer, Classify, ClassifyCommitErr, CommitOutcomePy

\* The classification has two values.
LEMMA ClassifyValues ==
  ASSUME NEW l \in {"go", "python"}, NEW e
  PROVE  Classify(l, e) \in {"not_committed", "unknown"}
  BY DEF Classify, ClassifyCommitErr, CommitOutcomePy

-----------------------------------------------------------------------------
(* Type correctness *)

\* Before any call is made, the state is well typed.
LEMMA InitTypeOK == Init => TypeOK
  BY DEF Init, TypeOK, Statements

\* Every step of a writer, of the server and of the network keeps it well typed.
LEMMA NextTypeOK == TypeOK /\ [Next]_vars => TypeOK'
<1> SUFFICES ASSUME TypeOK, [Next]_vars PROVE TypeOK'
  OBVIOUS
<1> USE DEF TypeOK, Statements, Outcomes, clientVars, wireVars, serverVars
<1>0. ASSUME NEW c \in Calls PROVE Lang[c] \in {"go", "python"}
  OBVIOUS
<1>1. ASSUME NEW c \in Calls, Invalid(c) PROVE TypeOK'
  BY <1>1 DEF Invalid, Return
<1>2. ASSUME NEW c \in Calls, Start(c) PROVE TypeOK'
  BY <1>2 DEF Start, Send
<1>3. ASSUME NEW c \in Calls, BeginDone(c) PROVE TypeOK'
  BY <1>3 DEF BeginDone, Receive, Send
<1>4. ASSUME NEW c \in Calls, InsertDone(c) PROVE TypeOK'
  <2>1. reply[c].id \in Ids \cup {None}
    BY <1>4, Answers DEF InsertDone, Receive
  <2> QED
    BY <1>4, <2>1 DEF InsertDone, Receive, Send
<1>5. ASSUME NEW c \in Calls, CommitDone(c) PROVE TypeOK'
  BY <1>5 DEF CommitDone, Receive, Return
<1>6. ASSUME NEW c \in Calls, ErrorAnswer(c) PROVE TypeOK'
  BY <1>6, <1>0, ClassifyValues DEF ErrorAnswer, Receive, Fails, Return
<1>7. ASSUME NEW c \in Calls, ScanFails(c) PROVE TypeOK'
  BY <1>7, <1>0, ClassifyValues DEF ScanFails, Receive, Fails, Return
<1>8. ASSUME NEW c \in Calls, LinkLost(c) PROVE TypeOK'
  BY <1>8, <1>0, ClassifyValues DEF LinkLost, Fails, Return
<1>9. ASSUME NEW c \in Calls, Die(c) PROVE TypeOK'
  BY <1>9 DEF Die
<1>10. ASSUME NEW c \in Calls, ServeBegin(c) PROVE TypeOK'
  <2>1. CASE Answer(c, Done) /\ session' = [session EXCEPT ![c] = "idle"]
    BY <1>10, <2>1, Answers DEF ServeBegin, Answer
  <2>2. ASSUME NEW e \in Errors, Answer(c, e), UNCHANGED session PROVE TypeOK'
    BY <1>10, <2>2, Answers DEF ServeBegin, Answer
  <2> QED
    BY <1>10, <2>1, <2>2 DEF ServeBegin
<1>11. ASSUME NEW c \in Calls, ServeInsert(c) PROVE TypeOK'
  BY <1>11, Answers DEF ServeInsert, Answer
<1>12. ASSUME NEW c \in Calls, ServeCommit(c) PROVE TypeOK'
  BY <1>12, Answers DEF ServeCommit, Answer
<1>13. ASSUME NEW c \in Calls, AckCommit(c) PROVE TypeOK'
  BY <1>13, Answers DEF AckCommit, Answer
<1>14. ASSUME NEW c \in Calls, Teardown(c) PROVE TypeOK'
  BY <1>14, Answers DEF Teardown, EndSession, Answer
<1>15. ASSUME NEW c \in Calls, Abandon(c) PROVE TypeOK'
  BY <1>15 DEF Abandon, EndSession
<1>16. ASSUME NEW c \in Calls, Break(c) PROVE TypeOK'
  BY <1>16 DEF Break
<1>17. ASSUME NEW c \in Calls, LoseRequest(c) PROVE TypeOK'
  BY <1>17 DEF LoseRequest, Send
<1>18. ASSUME ServerCrash PROVE TypeOK'
  BY <1>18 DEF ServerCrash
<1>19. ASSUME UNCHANGED vars PROVE TypeOK'
  BY <1>19 DEF vars
<1> QED
  BY <1>1, <1>2, <1>3, <1>4, <1>5, <1>6, <1>7, <1>8, <1>9, <1>10, <1>11, <1>12,
     <1>13, <1>14, <1>15, <1>16, <1>17, <1>18, <1>19 DEF Next, ClientStep, ServerStep

\* Every reachable state of the ledger and its callers is well typed: a call has
\* an outcome exactly when it has returned, and a row is pending only inside a
\* transaction.
THEOREM TypeCorrect == Spec => []TypeOK
<1>1. Init => TypeOK
  BY InitTypeOK
<1>2. TypeOK /\ [Next]_vars => TypeOK'
  BY NextTypeOK
<1> QED
  BY <1>1, <1>2, PTL DEF Spec
-----------------------------------------------------------------------------
(* The reported outcome is true *)

\* No event of call c is committed, being committed, or about to be asked for.
Barred(c) == EventsOf(c) = {} /\ session[c] # "recorded" /\ request[c] # "commit"

\* Ids are never drawn twice: a pending row belongs to one session and is not
\* yet, or only by that session's own call, an event.
IdsApart ==
    /\ \A c \in Calls : session[c] \in {"tx", "recorded"} => pending[c] \in drawn
    /\ \A i \in Ids : owner[i] # None => i \in drawn
    /\ \A c, k \in Calls : pending[c] = pending[k] /\ pending[c] # None => c = k
    /\ \A c \in Calls : session[c] = "tx" => owner[pending[c]] = None
    /\ \A c \in Calls : session[c] = "recorded" => owner[pending[c]] = c

\* What the server can still be asked to do, by where the client is.
RequestsInStep ==
    /\ \A c \in Calls : pc[c] = "insert" => request[c] \in {"insert", None}
    /\ \A c \in Calls : pc[c] = "commit" => request[c] \in {"commit", None}
    /\ \A c \in Calls : request[c] \in {"begin", "insert"} \/ session[c] = "tx" => EventsOf(c) = {}

\* What a call knows is so: before COMMIT is sent, on an answer that will be
\* classified as a refusal, and after a denial, there is no event and will be
\* none; the id in a receipt is that of the pending row, then of the event.
Knows(c) ==
    /\ pc[c] \in {"idle", "begin", "insert"} => Barred(c)
    /\ outcome[c] \in {"invalid", "not_committed"} => Barred(c)
    /\ pc[c] = "commit" /\ IsError(reply[c]) /\ Classify(Lang[c], reply[c]) = "not_committed"
         => Barred(c)
    /\ pc[c] = "insert" /\ IsDone(reply[c])
         => reply[c].id \in Ids /\ pending[c] \in {reply[c].id, None}
    /\ pc[c] = "commit" => row[c] \in Ids /\ pending[c] \in {row[c], None}
    /\ pc[c] = "commit" /\ IsDone(reply[c]) => owner[row[c]] = c
    /\ outcome[c] = "ok" => row[c] \in Ids /\ owner[row[c]] = c

KnowledgeTrue == \A c \in Calls : Knows(c)

LedgerInv == TypeOK /\ IdsApart /\ RequestsInStep /\ KnowledgeTrue

\* Before any call is made there is no event and nothing is known.
LEMMA InitLedgerInv == Init => LedgerInv
<1> SUFFICES ASSUME Init PROVE LedgerInv
  OBVIOUS
<1>1. TypeOK
  BY InitTypeOK
<1>2. \A c \in Calls : EventsOf(c) = {}
  BY DEF Init, EventsOf
<1> QED
  BY <1>1, <1>2 DEF Init, LedgerInv, IdsApart, RequestsInStep, KnowledgeTrue, Knows, Barred, IsDone, IsError,
     Statements, Outcomes

\* Only a COMMIT that is served changes what is committed, and only by adding
\* the pending row of its own session.
LEMMA EventsGrow ==
  ASSUME TypeOK, IdsApart, [Next]_vars
  PROVE  \/ /\ \A c \in Calls : EventsOf(c)' = EventsOf(c)
            /\ UNCHANGED owner
         \/ \E k \in Calls :
              /\ ServeCommit(k) /\ session'[k] = "recorded"
              /\ EventsOf(k)' = EventsOf(k) \cup {pending[k]}
              /\ \A c \in Calls \ {k} : EventsOf(c)' = EventsOf(c)
<1>1. ASSUME UNCHANGED owner PROVE \A c \in Calls : EventsOf(c)' = EventsOf(c)
  BY <1>1 DEF EventsOf
<1>2. ASSUME NEW k \in Calls, ServeCommit(k), ~UNCHANGED owner
      PROVE  /\ session'[k] = "recorded"
             /\ EventsOf(k)' = EventsOf(k) \cup {pending[k]}
             /\ \A c \in Calls \ {k} : EventsOf(c)' = EventsOf(c)
  <2>1. /\ owner' = [owner EXCEPT ![pending[k]] = k]
        /\ session' = [session EXCEPT ![k] = "recorded"]
        /\ session[k] = "tx"
    BY <1>2 DEF ServeCommit
  <2>2. pending[k] \in Ids /\ owner[pending[k]] = None
    BY <2>1 DEF TypeOK, IdsApart
  <2> QED
    BY <2>1, <2>2 DEF EventsOf, TypeOK
<1> QED
  BY <1>1, <1>2 DEF Next, ClientStep, ServerStep, vars, clientVars, serverVars, wireVars,
     Invalid, Start, BeginDone, InsertDone, CommitDone, ErrorAnswer, ScanFails, LinkLost,
     Fails, Die, ServeBegin, ServeInsert, AckCommit, Teardown, EndSession, Abandon, Break,
     LoseRequest, ServerCrash

\* No step gives the id of one call to another: only ServeInsert draws ids, fresh
\* ones, and only ServeCommit turns a pending row into an event.
LEMMA IdsStayApart ==
  ASSUME LedgerInv, TypeOK', [Next]_vars
  PROVE  IdsApart'
<1> USE DEF LedgerInv, TypeOK, IdsApart, clientVars, wireVars, serverVars
<1>1. ASSUME UNCHANGED serverVars PROVE IdsApart'
  BY <1>1
<1>2. ASSUME NEW k \in Calls, ServeBegin(k) PROVE IdsApart'
  BY <1>2 DEF ServeBegin, Answer
<1>3. ASSUME NEW k \in Calls, ServeInsert(k) PROVE IdsApart'
  BY <1>3 DEF ServeInsert, Answer
<1>4. ASSUME NEW k \in Calls, ServeCommit(k) PROVE IdsApart'
  BY <1>4 DEF ServeCommit, Answer
<1>5. ASSUME NEW k \in Calls, AckCommit(k) PROVE IdsApart'
  BY <1>5 DEF AckCommit, Answer
<1>6. ASSUME NEW k \in Calls, Teardown(k) PROVE IdsApart'
  BY <1>6 DEF Teardown, EndSession, Answer
<1>7. ASSUME NEW k \in Calls, Abandon(k) PROVE IdsApart'
  BY <1>7 DEF Abandon, EndSession
<1>8. ASSUME ServerCrash PROVE IdsApart'
  BY <1>8 DEF ServerCrash
<1> QED
  BY <1>1, <1>2, <1>3, <1>4, <1>5, <1>6, <1>7, <1>8 DEF Next, ClientStep, ServerStep, vars,
     Invalid, Start, BeginDone, InsertDone, CommitDone, ErrorAnswer, ScanFails, LinkLost,
     Fails, Die, Break, LoseRequest

\* No step leaves the server a statement that its client has not come to yet, or
\* a second transaction of a call that has its event.
LEMMA RequestsStayInStep ==
  ASSUME LedgerInv, TypeOK', [Next]_vars
  PROVE  RequestsInStep'
<1> USE DEF LedgerInv, TypeOK, RequestsInStep, Statements, clientVars, wireVars, serverVars
<1>0. ASSUME UNCHANGED owner PROVE \A c \in Calls : EventsOf(c)' = EventsOf(c)
  BY <1>0 DEF EventsOf
<1>1. ASSUME NEW k \in Calls, Invalid(k) PROVE RequestsInStep'
  BY <1>1, <1>0 DEF Invalid, Return
<1>2. ASSUME NEW k \in Calls, Start(k) PROVE RequestsInStep'
  BY <1>2, <1>0 DEF Start, Send, KnowledgeTrue, Knows, Barred
<1>3. ASSUME NEW k \in Calls, BeginDone(k) PROVE RequestsInStep'
  BY <1>3, <1>0 DEF BeginDone, Receive, Send, KnowledgeTrue, Knows, Barred
<1>4. ASSUME NEW k \in Calls, InsertDone(k) PROVE RequestsInStep'
  BY <1>4, <1>0 DEF InsertDone, Receive, Send, KnowledgeTrue, Knows, Barred
<1>5. ASSUME NEW k \in Calls, CommitDone(k) PROVE RequestsInStep'
  BY <1>5, <1>0 DEF CommitDone, Receive, Return
<1>6. ASSUME NEW k \in Calls, ErrorAnswer(k) PROVE RequestsInStep'
  BY <1>6, <1>0 DEF ErrorAnswer, Receive, Fails, Return
<1>7. ASSUME NEW k \in Calls, ScanFails(k) PROVE RequestsInStep'
  BY <1>7, <1>0 DEF ScanFails, Receive, Fails, Return
<1>8. ASSUME NEW k \in Calls, LinkLost(k) PROVE RequestsInStep'
  BY <1>8, <1>0 DEF LinkLost, Fails, Return
<1>9. ASSUME NEW k \in Calls, Die(k) PROVE RequestsInStep'
  BY <1>9, <1>0 DEF Die
<1>10. ASSUME NEW k \in Calls, ServeBegin(k) PROVE RequestsInStep'
  BY <1>10, <1>0 DEF ServeBegin, Answer
<1>11. ASSUME NEW k \in Calls, ServeInsert(k) PROVE RequestsInStep'
  BY <1>11, <1>0 DEF ServeInsert, Answer
<1>12. ASSUME NEW k \in Calls, ServeCommit(k) PROVE RequestsInStep'
  <2>1. \A c \in Calls \ {k} : EventsOf(c)' = EventsOf(c)
    BY <1>12, EventsGrow DEF IdsApart, ServeCommit, EventsOf
  <2>2. request[k] = "commit" /\ session'[k] # "tx"
    BY <1>12 DEF ServeCommit
  <2> QED
    BY <1>12, <2>1, <2>2 DEF ServeCommit, Answer
<1>13. ASSUME NEW k \in Calls, AckCommit(k) PROVE RequestsInStep'
  BY <1>13, <1>0 DEF AckCommit, Answer
<1>14. ASSUME NEW k \in Calls, Teardown(k) PROVE RequestsInStep'
  BY <1>14, <1>0 DEF Teardown, EndSession, Answer
<1>15. ASSUME NEW k \in Calls, Abandon(k) PROVE RequestsInStep'
  BY <1>15, <1>0 DEF Abandon, EndSession
<1>16. ASSUME NEW k \in Calls, Break(k) PROVE RequestsInStep'
  BY <1>16, <1>0 DEF Break
<1>17. ASSUME NEW k \in Calls, LoseRequest(k) PROVE RequestsInStep'
  BY <1>17, <1>0 DEF LoseRequest, Send
<1>18. ASSUME ServerCrash PROVE RequestsInStep'
  BY <1>18, <1>0 DEF ServerCrash
<1>19. ASSUME UNCHANGED vars PROVE RequestsInStep'
  BY <1>19, <1>0 DEF vars
<1> QED
  BY <1>1, <1>2, <1>3, <1>4, <1>5, <1>6, <1>7, <1>8, <1>9, <1>10, <1>11, <1>12, <1>13, <1>14, <1>15, <1>16, <1>17, <1>18, <1>19 DEF Next, ClientStep, ServerStep

\* An event once committed keeps its owner.
LEMMA OwnersStay ==
  ASSUME LedgerInv, [Next]_vars, NEW i \in Ids, owner[i] # None
  PROVE  owner'[i] = owner[i]
<1>1. CASE UNCHANGED owner
  BY <1>1
<1>2. ASSUME NEW k \in Calls, ServeCommit(k) PROVE owner'[i] = owner[i]
  BY <1>2 DEF ServeCommit, LedgerInv, TypeOK, IdsApart
<1> QED
  BY <1>1, <1>2, EventsGrow DEF LedgerInv

\* A step of one call leaves what another call knows as it is.
LEMMA OthersKnow ==
  ASSUME LedgerInv, TypeOK', [Next]_vars, NEW c \in Calls,
         UNCHANGED <<pc[c], outcome[c], row[c], request[c], reply[c], session[c], pending[c]>>,
         EventsOf(c)' = EventsOf(c)
  PROVE  Knows(c)'
<1>1. Knows(c)
  BY DEF LedgerInv, KnowledgeTrue
<1>2. ASSUME row[c] \in Ids, owner[row[c]] = c PROVE owner'[row[c]] = c
  BY <1>2, OwnersStay
<1> QED
  BY <1>1, <1>2 DEF Knows, Barred

\* No step, of the call itself, of another call or of the server, makes what a
\* call knows untrue.
LEMMA KnowledgeStaysTrue ==
  ASSUME ~Translated, LedgerInv, TypeOK', [Next]_vars, NEW c \in Calls
  PROVE  Knows(c)'
<1> USE DEF LedgerInv, TypeOK, Statements, Outcomes, clientVars, wireVars, serverVars
<1>0. Knows(c) /\ Lang[c] \in {"go", "python"}
  BY DEF KnowledgeTrue
<1>a. ASSUME UNCHANGED owner PROVE EventsOf(c)' = EventsOf(c)
  BY <1>a DEF EventsOf
<1>b. \A i \in Ids : owner[i] # None => owner'[i] = owner[i]
  BY OwnersStay
<1>1. ASSUME Invalid(c) PROVE Knows(c)'
  BY <1>1, <1>0, <1>a DEF Invalid, Return, Knows, Barred
<1>2. ASSUME Start(c) PROVE Knows(c)'
  BY <1>2, <1>0, <1>a DEF Start, Send, Knows, Barred
<1>3. ASSUME BeginDone(c) PROVE Knows(c)'
  BY <1>3, <1>0, <1>a DEF BeginDone, Receive, Send, Knows, Barred, IsDone, IsError
<1>4. ASSUME InsertDone(c) PROVE Knows(c)'
  BY <1>4, <1>0, <1>a DEF InsertDone, Receive, Send, Knows, Barred, IsDone, IsError
<1>5. ASSUME CommitDone(c) PROVE Knows(c)'
  BY <1>5, <1>0, <1>a DEF CommitDone, Receive, Return, Knows, Barred, IsDone
<1>6. ASSUME ErrorAnswer(c) PROVE Knows(c)'
  BY <1>6, <1>0, <1>a, ClassifyValues DEF ErrorAnswer, Receive, Fails, Return, Knows, Barred, IsError
<1>7. ASSUME ScanFails(c) PROVE Knows(c)'
  BY <1>7, <1>0, <1>a, NoAnswerUnknown DEF ScanFails, Receive, Fails, Return, Knows, Barred
<1>8. ASSUME LinkLost(c) PROVE Knows(c)'
  BY <1>8, <1>0, <1>a, NoAnswerUnknown DEF LinkLost, Fails, Return, Knows, Barred
<1>9. ASSUME Die(c) PROVE Knows(c)'
  BY <1>9, <1>0, <1>a DEF Die, Knows, Barred
<1>10. ASSUME ServeBegin(c) PROVE Knows(c)'
  BY <1>10, <1>0, <1>a, Answers DEF ServeBegin, Answer, Knows, Barred, IsDone, IsError, RequestsInStep
<1>11. ASSUME ServeInsert(c) PROVE Knows(c)'
  BY <1>11, <1>0, <1>a, Answers DEF ServeInsert, Answer, Knows, Barred, IsDone, IsError, RequestsInStep
<1>12. ASSUME ServeCommit(c) PROVE Knows(c)'
  <2>1. /\ request[c] = "commit" /\ session[c] = "tx" /\ pc[c] \notin {"idle", "begin", "insert"}
        /\ outcome[c] \notin {"invalid", "not_committed"}
        /\ pc[c] = "commit" /\ IsError(reply[c]) => Classify(Lang[c], reply[c]) # "not_committed"
        /\ EventsOf(c) = {}
    BY <1>12, <1>0 DEF ServeCommit, Knows, Barred, RequestsInStep
  <2>2. CASE session' = [session EXCEPT ![c] = "recorded"] /\ UNCHANGED <<clientVars, wireVars, pending>>
    BY <1>12, <1>0, <1>b, <2>1, <2>2 DEF Knows, Barred
  <2>3. ASSUME NEW e \in Rejections, Answer(c, e), UNCHANGED owner,
               session' = [session EXCEPT ![c] = "idle"], pending' = [pending EXCEPT ![c] = None]
        PROVE  Knows(c)'
    BY <1>12, <1>0, <1>a, <1>b, <2>1, <2>3, Answers DEF Knows, Barred, Answer, IsDone, IsError
  <2> QED
    BY <1>12, <2>2, <2>3 DEF ServeCommit
<1>13. ASSUME AckCommit(c) PROVE Knows(c)'
  BY <1>13, <1>0, <1>a, Answers DEF AckCommit, Answer, Knows, Barred, IsDone, IsError, RequestsInStep, IdsApart
<1>14. ASSUME Teardown(c) PROVE Knows(c)'
  BY <1>14, <1>0, <1>a, Answers, TeardownUnknown DEF Teardown, EndSession, Answer, Knows, Barred, IsDone, IsError
<1>15. ASSUME Abandon(c) PROVE Knows(c)'
  BY <1>15, <1>0, <1>a DEF Abandon, EndSession, Knows, Barred
<1>16. ASSUME Break(c) PROVE Knows(c)'
  BY <1>16, <1>0, <1>a DEF Break, Knows, Barred, IsDone, IsError
<1>17. ASSUME LoseRequest(c) PROVE Knows(c)'
  BY <1>17, <1>0, <1>a DEF LoseRequest, Send, Knows, Barred
<1>18. ASSUME ServerCrash PROVE Knows(c)'
  BY <1>18, <1>0, <1>a DEF ServerCrash, Knows, Barred
<1>19. ASSUME UNCHANGED vars PROVE Knows(c)'
  BY <1>19, OthersKnow, <1>a DEF vars
<1>20. ASSUME NEW k \in Calls \ {c},
              \/ Invalid(k) \/ Start(k) \/ ClientStep(k) \/ Die(k)
              \/ ServerStep(k) \/ Teardown(k) \/ Break(k) \/ LoseRequest(k)
       PROVE  Knows(c)'
  <2>1. UNCHANGED <<pc[c], outcome[c], row[c], request[c], reply[c], session[c], pending[c]>>
    BY <1>20 DEF ClientStep, ServerStep, Invalid, Return, Start, Send, BeginDone, Receive, InsertDone, CommitDone, ErrorAnswer, Fails, ScanFails, LinkLost, Die, ServeBegin, Answer, ServeInsert, ServeCommit, AckCommit, Teardown, EndSession, Abandon, Break, LoseRequest
  <2>2. EventsOf(c)' = EventsOf(c)
    BY <1>20, <1>a, EventsGrow DEF ClientStep, ServerStep, Invalid, Return, Start, Send, BeginDone, Receive, InsertDone, CommitDone, ErrorAnswer, Fails, ScanFails, LinkLost, Die, ServeBegin, Answer, ServeInsert, ServeCommit, AckCommit, Teardown, EndSession, Abandon, Break, LoseRequest
  <2> QED
    BY <2>1, <2>2, OthersKnow
<1> QED
  BY <1>1, <1>2, <1>3, <1>4, <1>5, <1>6, <1>7, <1>8, <1>9, <1>10, <1>11, <1>12, <1>13, <1>14, <1>15, <1>16, <1>17, <1>18, <1>19, <1>20 DEF Next, ClientStep, ServerStep

\* Every step keeps the invariant that carries the outcomes.
LEMMA NextLedgerInv ==
  ASSUME ~Translated, LedgerInv, [Next]_vars
  PROVE  LedgerInv'
<1>1. TypeOK'
  BY NextTypeOK DEF LedgerInv
<1>2. IdsApart'
  BY <1>1, IdsStayApart
<1>3. RequestsInStep'
  BY <1>1, RequestsStayInStep
<1>4. KnowledgeTrue'
  BY <1>1, KnowledgeStaysTrue DEF KnowledgeTrue
<1> QED
  BY <1>1, <1>2, <1>3, <1>4 DEF LedgerInv

\* The inductive invariant behind OutcomeTruth and the refinement.
LEMMA LedgerInvariant == ASSUME ~Translated PROVE Spec => []LedgerInv
<1>1. Init => LedgerInv
  BY InitLedgerInv
<1>2. LedgerInv /\ [Next]_vars => LedgerInv'
  BY NextLedgerInv
<1> QED
  BY <1>1, <1>2, PTL DEF Spec

\* With a server that does not translate severities, a receipt always names an
\* event of its call, and a call told "invalid" or "not committed" never has an
\* event, whatever is still on its way and whatever breaks.
THEOREM OutcomesTrue == ASSUME ~Translated PROVE Spec => []OutcomeTruth
<1>1. LedgerInv => OutcomeTruth
  BY DEF LedgerInv, KnowledgeTrue, Knows, Barred, OutcomeTruth
<1> QED
  BY <1>1, LedgerInvariant, PTL

-----------------------------------------------------------------------------
(* The ledger implements its contract *)

EventsNow == [c \in Calls |-> EventsOf(c)]
ReceiptNow == [c \in Calls |-> IF outcome[c] = "ok" THEN row[c] ELSE None]

\* No event and no report: the initial state of the contract.
LEMMA InitContract == Init => Contract!ContractInit
  BY DEF Init, Contract!ContractInit, EventsOf, Outcomes

\* The return of a call maps to the return of the contract that it names.
LEMMA ReturnRefines ==
  ASSUME LedgerInv, LedgerInv', NEW c \in Calls, UNCHANGED owner, outcome[c] = None,
         NEW o \in Outcomes, outcome' = [outcome EXCEPT ![c] = o], UNCHANGED row
  PROVE  Contract!ContractNext
<1> USE DEF LedgerInv, TypeOK, Outcomes
<1>1. UNCHANGED EventsNow
  BY DEF EventsNow, EventsOf
<1>2. Knows(c)' /\ outcome'[c] = o
  BY DEF KnowledgeTrue
<1>3. \A k \in Calls \ {c} : ReceiptNow'[k] = ReceiptNow[k]
  BY DEF ReceiptNow
<1>4. CASE o = "ok"
  <2>1. row[c] \in EventsOf(c)
    BY <1>2, <1>4 DEF Knows, EventsOf
  <2>2. ReceiptNow' = [ReceiptNow EXCEPT ![c] = row[c]]
    BY <1>2, <1>4 DEF ReceiptNow
  <2>3. Contract!Succeed(c)
    BY <1>1, <1>4, <2>1, <2>2 DEF Contract!Succeed, EventsNow, ReceiptNow
  <2> QED
    BY <2>3 DEF Contract!ContractNext
<1>5. CASE o \in {"invalid", "not_committed"}
  <2>1. EventsOf(c) = {}
    BY <1>2, <1>5 DEF Knows, Barred, EventsOf
  <2>2. UNCHANGED ReceiptNow
    BY <1>2, <1>5 DEF ReceiptNow
  <2>3. Contract!Deny(c)
    BY <1>1, <1>5, <2>1, <2>2 DEF Contract!Deny, Contract!Denials, EventsNow, ReceiptNow
  <2> QED
    BY <2>3 DEF Contract!ContractNext
<1>6. CASE o = "unknown"
  <2>1. UNCHANGED ReceiptNow
    BY <1>2, <1>6 DEF ReceiptNow
  <2>2. Contract!Shrug(c)
    BY <1>1, <1>6, <2>1 DEF Contract!Shrug, EventsNow, ReceiptNow
  <2> QED
    BY <2>2 DEF Contract!ContractNext
<1> QED
  BY <1>4, <1>5, <1>6

\* A commit that is recorded maps to the commit of the contract.
LEMMA CommitRefines ==
  ASSUME LedgerInv, NEW c \in Calls, ServeCommit(c), ~UNCHANGED owner
  PROVE  Contract!Commit(c)
<1> USE DEF LedgerInv, TypeOK, Statements, Outcomes
<1>1. /\ owner' = [owner EXCEPT ![pending[c]] = c]
      /\ request[c] = "commit" /\ session[c] = "tx" /\ UNCHANGED <<outcome, row>>
  BY DEF ServeCommit, clientVars
<1>2. pending[c] \in Ids /\ owner[pending[c]] = None /\ EventsOf(c) = {}
  BY <1>1 DEF IdsApart, RequestsInStep
<1>3. outcome[c] \notin Contract!Denials
  BY <1>1 DEF Contract!Denials, KnowledgeTrue, Knows, Barred
<1>4. \A k \in Calls : pending[c] \notin EventsOf(k)
  BY <1>2 DEF EventsOf
<1>5. EventsNow' = [EventsNow EXCEPT ![c] = {pending[c]}]
  <2>1. \A i \in Ids : owner'[i] = IF i = pending[c] THEN c ELSE owner[i]
    BY <1>1, <1>2
  <2>2. EventsOf(c)' = {pending[c]}
    BY <1>2, <2>1 DEF EventsOf
  <2>3. \A k \in Calls \ {c} : EventsOf(k)' = EventsOf(k)
    BY <1>2, <2>1, LedgerAssumption DEF EventsOf
  <2> QED
    BY <2>2, <2>3, Zenon DEF EventsNow
<1> QED
  BY <1>1, <1>2, <1>3, <1>4, <1>5 DEF Contract!Commit, EventsNow

\* Every step maps to a step of the contract or to a stutter: a return to the
\* return of the same outcome, a commit record to a commit, the others to nothing.
LEMMA StepRefines ==
  ASSUME LedgerInv, LedgerInv', [Next]_vars
  PROVE  [Contract!ContractNext]_(Contract!contractVars)
<1> USE DEF LedgerInv, TypeOK, Statements, Outcomes, clientVars, wireVars, serverVars
<1>1. ASSUME UNCHANGED <<outcome, owner>>,
             \A c \in Calls : row'[c] = row[c] \/ outcome[c] = None
      PROVE  UNCHANGED Contract!contractVars
  BY <1>1 DEF Contract!contractVars, EventsOf
<1>2. ASSUME NEW c \in Calls, Invalid(c) PROVE Contract!ContractNext
  BY <1>2, ReturnRefines DEF Invalid, Return
<1>3. ASSUME NEW c \in Calls, CommitDone(c) PROVE Contract!ContractNext
  BY <1>3, ReturnRefines DEF CommitDone, Return
<1>4. ASSUME NEW c \in Calls, NEW err, Fails(c, err), pc[c] \in Statements
      PROVE  Contract!ContractNext
  <2>1. PICK o \in Outcomes : Return(c, o)
    BY <1>4, ClassifyValues DEF Fails
  <2>2. outcome' = [outcome EXCEPT ![c] = o] /\ UNCHANGED row
    BY <1>4, <2>1 DEF Fails, Return
  <2>3. outcome[c] = None /\ UNCHANGED owner
    BY <1>4 DEF Fails
  <2> QED
    BY <2>2, <2>3, ReturnRefines, Zenon
<1>5. ASSUME NEW c \in Calls, ErrorAnswer(c) \/ ScanFails(c) \/ LinkLost(c)
      PROVE  Contract!ContractNext
  BY <1>4, <1>5 DEF ErrorAnswer, ScanFails, LinkLost
<1>6. ASSUME NEW c \in Calls, ServeCommit(c), ~UNCHANGED owner PROVE Contract!ContractNext
  BY <1>6, CommitRefines DEF Contract!ContractNext
<1>7. ASSUME NEW c \in Calls, ServeCommit(c), UNCHANGED owner
      PROVE  UNCHANGED Contract!contractVars
  BY <1>1, <1>7 DEF ServeCommit, Answer
<1>8. ASSUME NEW c \in Calls, InsertDone(c) PROVE UNCHANGED Contract!contractVars
  BY <1>1, <1>8 DEF InsertDone
<1>9. ASSUME NEW c \in Calls,
             \/ Start(c) \/ BeginDone(c) \/ Die(c) \/ ServeBegin(c) \/ ServeInsert(c)
             \/ AckCommit(c) \/ Teardown(c) \/ Abandon(c) \/ Break(c) \/ LoseRequest(c)
      PROVE  UNCHANGED Contract!contractVars
  BY <1>1, <1>9 DEF Start, BeginDone, Die, ServeBegin, ServeInsert, AckCommit, Teardown,
     Abandon, Break, LoseRequest, Answer, EndSession
<1>10. ASSUME ServerCrash \/ UNCHANGED vars PROVE UNCHANGED Contract!contractVars
  BY <1>1, <1>10 DEF ServerCrash, vars
<1> QED
  BY <1>2, <1>3, <1>5, <1>6, <1>7, <1>8, <1>9, <1>10 DEF Next, ClientStep, ServerStep

\* Both writers keep the contract of the ledger, step by step: at most one event
\* per call, none after a denial, and a receipt only for the event committed.
THEOREM Refinement == ASSUME ~Translated PROVE Spec => KeepsContract
<1>1. Init => Contract!ContractInit
  BY InitContract
<1>2. LedgerInv /\ LedgerInv' /\ [Next]_vars => [Contract!ContractNext]_(Contract!contractVars)
  BY StepRefines
<1> QED
  BY <1>1, <1>2, LedgerInvariant, PTL DEF Spec, KeepsContract, Contract!ContractSpec

-----------------------------------------------------------------------------
(* Projector: rebuilds of a ledger of any size, beside any number of writers *)

\* Only ServeCommit touches what is committed.
LEMMA OwnersChange ==
  ASSUME [Next]_vars, ~UNCHANGED owner
  PROVE  \E c \in Calls : ServeCommit(c)
BY DEF Next, ClientStep, ServerStep, vars, clientVars, serverVars, wireVars,
   Invalid, Start, BeginDone, InsertDone, CommitDone, ErrorAnswer, ScanFails, LinkLost,
   Fails, Die, ServeBegin, ServeInsert, AckCommit, Teardown, EndSession, Abandon, Break,
   LoseRequest, ServerCrash

\* An event, once committed, stays.
LEMMA LedgerGrows ==
  ASSUME owner \in [Ids -> Calls \cup {None}], [Next]_vars
  PROVE  owner' \in [Ids -> Calls \cup {None}] /\ Committed \subseteq Committed'
<1>1. CASE UNCHANGED owner
  BY <1>1 DEF Committed
<1>2. ASSUME NEW c \in Calls, ServeCommit(c), ~UNCHANGED owner
      PROVE  owner' \in [Ids -> Calls \cup {None}] /\ Committed \subseteq Committed'
  <2>1. owner' = [owner EXCEPT ![pending[c]] = c]
    BY <1>2 DEF ServeCommit
  <2>2. c # None
    BY LedgerAssumption
  <2> QED
    BY <2>1, <2>2 DEF Committed
<1> QED
  BY <1>1, <1>2, OwnersChange

\* Every event of the last rebuild is in the ledger, and in the one under way.
RebuildInv ==
    /\ owner \in [Ids -> Calls \cup {None}]
    /\ view \subseteq Committed
    /\ reader = "read" => view \subseteq rows /\ rows \subseteq Committed

\* It is read from a ledger that only grows.
LEMMA RebuildInvHolds == ReadSpec => []RebuildInv
<1>1. ReadInit => RebuildInv
  BY DEF ReadInit, Init, RebuildInv, Committed
<1>2. RebuildInv /\ [ReadNext]_ledgerAndReader => RebuildInv'
  <2> SUFFICES ASSUME RebuildInv, [ReadNext]_ledgerAndReader PROVE RebuildInv'
    OBVIOUS
  <2>1. CASE UNCHANGED vars
    <3>1. Committed' = Committed /\ owner' = owner
      BY <2>1 DEF vars, serverVars, Committed
    <3> QED
      BY <2>1, <3>1 DEF ReadNext, Read, BeginRead, ReadIDs, EndRead, AbortRead, readerVars,
         ledgerAndReader, RebuildInv
  <2>2. CASE Next /\ UNCHANGED readerVars
    <3>1. owner' \in [Ids -> Calls \cup {None}] /\ Committed \subseteq Committed'
      BY <2>2, LedgerGrows DEF RebuildInv
    <3> QED
      BY <2>2, <3>1 DEF readerVars, RebuildInv
  <2> QED
    BY <2>1, <2>2 DEF ReadNext, ledgerAndReader
<1> QED
  BY <1>1, <1>2, PTL DEF ReadSpec

\* No rebuild loses an event that an earlier one had, however many writers commit
\* beside it and in whatever order of their ids.
THEOREM RebuildsGrow == ReadSpec => [][view \subseteq view']_ledgerAndReader
<1>1. RebuildInv /\ [ReadNext]_ledgerAndReader => [view \subseteq view']_ledgerAndReader
  BY DEF ReadNext, Read, BeginRead, ReadIDs, EndRead, AbortRead, readerVars, ledgerAndReader,
     RebuildInv
<1> QED
  BY RebuildInvHolds, <1>1, PTL DEF ReadSpec
=============================================================================
