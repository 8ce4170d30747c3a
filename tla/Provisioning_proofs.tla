------------------------ MODULE Provisioning_proofs ------------------------
(***************************************************************************)
(* Proofs about Provisioning for every set of administrators and roles,    *)
(* any command lines and any changes of roles around them.                 *)
(***************************************************************************)
EXTENDS Provisioning, TLAPS

USE RolesAssumption

-----------------------------------------------------------------------------
(* The inductive invariant *)

\* A command is at the writer's, or the reader's, transaction only if asked to.
RolesAsked ==
    \A i \in Inits :
        /\ pc[i] \in {"checkWriter", "grantWriter"} => Writer[i] # None
        /\ pc[i] \in {"checkReader", "grantReader"} => Reader[i] # None

\* An uncommitted CREATE TABLE belongs to the init about to commit it, which
\* then holds the lock (TypeOK): no other init can be at its own.
OneCreates ==
    /\ creator # None => creator \in Inits /\ pc[creator] = "commit"
    /\ collided = {}

\* What an init knows of public.events by where it is, unless another program
\* can slip a table in between its look-up and its CREATE TABLE.
TableKnown ==
    ~ForeignRaces =>
      \A i \in Inits :
        /\ pc[i] = "create" => table = "none"
        /\ pc[i] = "commit" => table = "none" /\ creator = i
        /\ pc[i] \in Checking \cup Granting \/ result[i] = "ok" => table = "contract"

\* Grants made by a command are not taken away by it, nor by any other.
GrantsMade ==
    \A i \in Inits :
        /\ Writer[i] # None /\ (pc[i] \in {"checkReader", "grantReader"} \/ result[i] = "ok")
             => Writer[i] \in usage \cap insert \cap select
        /\ Reader[i] # None /\ result[i] = "ok" => Reader[i] \in usage \cap select

\* What every role reaches, as the memberships are now.
Reached == [r \in Roles \cup {None} |-> Reach(r)]

WriterChecked(i) ==
    Writer[i] # None /\ (pc[i] \in {"grantWriter", "checkReader", "grantReader"} \/ result[i] = "ok")
ReaderChecked(i) ==
    Reader[i] # None /\ (pc[i] = "grantReader" \/ result[i] = "ok")

\* What the checks of a command found stays true until roles are changed.
ChecksHold ==
    \A i \in steady :
        /\ before[i] \subseteq insert
        /\ WriterChecked(i) => Reached[Writer[i]] \cap powerful = {}
        /\ ReaderChecked(i) =>
              Reached[Reader[i]] \cap (powerful \cup before[i] \cup {Writer[i]}) = {}

ProvisionInv ==
    /\ TypeOK
    /\ RolesAsked
    /\ OneCreates
    /\ TableKnown
    /\ GrantsMade
    /\ GrantsTogether
    /\ ChecksHold

-----------------------------------------------------------------------------
(* Type correctness *)

\* Nothing is created, granted or known before the first command.
LEMMA InitProvisionInv == Init => ProvisionInv
  BY DEF Init, ProvisionInv, TypeOK, Initializing, Checking, Granting, Running, RolesAsked,
         OneCreates, TableKnown, GrantsMade, GrantsTogether, ChecksHold

\* The role a command is about is the one its command line names.
LEMMA RoleNamed ==
  ASSUME RolesAsked, NEW i \in Inits, pc[i] \in Checking \cup Granting
  PROVE  Role(i) \in Roles
  BY DEF RolesAsked, Role, Checking, Granting

\* A writer gets three grants, a reader two.
LEMMA GrantsCount ==
  ASSUME NEW i \in Inits
  PROVE  Len(Grants(i)) \in {2, 3}
<1>1. CASE pc[i] = "grantWriter"
  BY <1>1 DEF Grants
<1>2. CASE pc[i] # "grantWriter"
  BY <1>2 DEF Grants
<1> QED
  BY <1>1, <1>2

\* One more grant is within the count.
LEMMA CountGrows == \A n \in 0 .. 3, m \in {2, 3} : n < m => n + 1 \in 0 .. 3
  OBVIOUS

\* Every step keeps the state well typed.
LEMMA NextTypeOK ==
  ASSUME TypeOK, RolesAsked, [Next]_vars
  PROVE  TypeOK'
<1> USE DEF TypeOK, Initializing, Checking, Granting, Running, Goto, End, Abort, Unlock,
            dbVars, aclVars, roleVars, historyVars
<1>1. ASSUME NEW i \in Inits, Start(i) PROVE TypeOK'
  BY <1>1 DEF Start
<1>2. ASSUME NEW i \in Inits, TakeLock(i) PROVE TypeOK'
  BY <1>2 DEF TakeLock
<1>3. ASSUME NEW i \in Inits, LookUp(i) PROVE TypeOK'
  BY <1>3 DEF LookUp
<1>4. ASSUME NEW i \in Inits, Create(i) PROVE TypeOK'
  BY <1>4 DEF Create
<1>5. ASSUME NEW i \in Inits, CommitInit(i) PROVE TypeOK'
  BY <1>5 DEF CommitInit, CommitTable, AfterInitialize, AfterWriter
<1>6. ASSUME NEW i \in Inits, Compare(i) PROVE TypeOK'
  BY <1>6 DEF Compare, AfterInitialize, AfterWriter
<1>7. ASSUME NEW i \in Inits, CheckRole(i) PROVE TypeOK'
  BY <1>7 DEF CheckRole
<1>8. ASSUME NEW i \in Inits, Grant(i) PROVE TypeOK'
  <2>1. granted[i] < Len(Grants(i))
    BY <1>8 DEF Grant
  <2>2. granted[i] \in 0 .. 3
    OBVIOUS
  <2>3. granted[i] + 1 \in 0 .. 3
    <3>1. Len(Grants(i)) \in {2, 3}
      BY GrantsCount
    <3> HIDE DEF TypeOK
    <3> QED
      BY <2>1, <2>2, <3>1, CountGrows, Zenon
  <2> QED
    BY <1>8, <2>3 DEF Grant
<1>9. ASSUME NEW i \in Inits, CommitGrants(i) PROVE TypeOK'
  <2>1. Role(i) \in Roles
    BY <1>9, RoleNamed DEF CommitGrants, CommitAcl
  <2> QED
    BY <1>9, <2>1 DEF CommitGrants, CommitAcl, AfterWriter
<1>10. ASSUME NEW i \in Inits, StepFails(i) PROVE TypeOK'
  BY <1>10 DEF StepFails
<1>11. ASSUME NEW i \in Inits, AckLost(i) PROVE TypeOK'
  <2>1. CASE CommitTable(i)
    BY <1>11, <2>1 DEF AckLost, CommitTable
  <2>2. CASE CommitAcl(i)
    <3>1. Role(i) \in Roles
      BY <2>2, RoleNamed DEF CommitAcl
    <3> QED
      BY <1>11, <2>2, <3>1 DEF AckLost, CommitAcl
  <2> QED
    BY <1>11, <2>1, <2>2 DEF AckLost
<1>12. ASSUME ChangeRoles \/ ForeignCreate PROVE TypeOK'
  BY <1>12 DEF ChangeRoles, ForeignCreate
<1>13. CASE UNCHANGED vars
  BY <1>13 DEF vars
<1> QED
  BY <1>1, <1>2, <1>3, <1>4, <1>5, <1>6, <1>7, <1>8, <1>9, <1>10, <1>11, <1>12, <1>13
     DEF Next, Advance, Outside

\* A command reaches a transaction only along the options of its command line.
LEMMA NextRolesAsked ==
  ASSUME TypeOK, RolesAsked, [Next]_vars
  PROVE  RolesAsked'
<1> USE DEF TypeOK, RolesAsked, Checking, Granting, Goto, End
<1>1. ASSUME NEW i \in Inits, Start(i) \/ TakeLock(i) \/ LookUp(i) \/ Create(i) PROVE RolesAsked'
  BY <1>1 DEF Start, TakeLock, LookUp, Create
<1>2. ASSUME NEW i \in Inits, CommitInit(i) \/ Compare(i) PROVE RolesAsked'
  BY <1>2 DEF CommitInit, Compare, AfterInitialize, AfterWriter
<1>3. ASSUME NEW i \in Inits, CheckRole(i) \/ Grant(i) PROVE RolesAsked'
  BY <1>3 DEF CheckRole, Grant
<1>4. ASSUME NEW i \in Inits, CommitGrants(i) PROVE RolesAsked'
  BY <1>4 DEF CommitGrants, AfterWriter
<1>5. ASSUME NEW i \in Inits, StepFails(i) \/ AckLost(i) PROVE RolesAsked'
  BY <1>5 DEF StepFails, AckLost
<1>6. CASE ChangeRoles \/ ForeignCreate \/ UNCHANGED vars
  BY <1>6 DEF ChangeRoles, ForeignCreate, vars
<1> QED
  BY <1>1, <1>2, <1>3, <1>4, <1>5, <1>6 DEF Next, Advance, Outside

\* The state of the database and of the commands is well typed: in particular the
\* advisory lock is held exactly while Initialize is at work.
THEOREM TypeCorrect == Spec => []TypeOK
<1>1. Init => TypeOK /\ RolesAsked
  BY InitProvisionInv DEF ProvisionInv
<1>2. TypeOK /\ RolesAsked /\ [Next]_vars => TypeOK' /\ RolesAsked'
  BY NextTypeOK, NextRolesAsked
<1> QED
  BY <1>1, <1>2, PTL DEF Spec

-----------------------------------------------------------------------------
(* One creator, one table *)

\* CREATE TABLE is issued, and committed, under the advisory lock only: no two
\* are open at once, and none meets another.
LEMMA NextOneCreates ==
  ASSUME TypeOK, OneCreates, [Next]_vars
  PROVE  OneCreates'
<1> USE DEF TypeOK, OneCreates, Initializing, Checking, Granting, Running, Goto, End, Abort,
            Unlock, dbVars, aclVars, roleVars
<1>1. ASSUME NEW i \in Inits, Start(i) \/ TakeLock(i) \/ LookUp(i) PROVE OneCreates'
  BY <1>1 DEF Start, TakeLock, LookUp
<1>2. ASSUME NEW i \in Inits, Create(i) PROVE OneCreates'
  <2>1. creator = None
    BY <1>2 DEF Create
  <2> QED
    BY <1>2, <2>1 DEF Create
<1>3. ASSUME NEW i \in Inits, CommitTable(i) \/ Compare(i) PROVE creator' = None /\ UNCHANGED collided
  BY <1>3 DEF CommitTable, Compare
<1>4. ASSUME NEW i \in Inits, CommitInit(i) \/ Compare(i) PROVE OneCreates'
  BY <1>3, <1>4 DEF CommitInit
<1>5. ASSUME NEW i \in Inits, CheckRole(i) \/ Grant(i) PROVE OneCreates'
  BY <1>5 DEF CheckRole, Grant
<1>6. ASSUME NEW i \in Inits, CommitGrants(i) PROVE OneCreates'
  BY <1>6 DEF CommitGrants, CommitAcl, AfterWriter
<1>7. ASSUME NEW i \in Inits, StepFails(i) PROVE OneCreates'
  BY <1>7 DEF StepFails
<1>8. ASSUME NEW i \in Inits, AckLost(i) PROVE OneCreates'
  BY <1>3, <1>8 DEF AckLost, CommitAcl
<1>9. CASE ChangeRoles \/ ForeignCreate \/ UNCHANGED vars
  BY <1>9 DEF ChangeRoles, ForeignCreate, vars
<1> QED
  BY <1>1, <1>2, <1>4, <1>5, <1>6, <1>7, <1>8, <1>9 DEF Next, Advance, Outside

\* With nobody else creating tables in the window, an init that found none is
\* the one to create it, and one that goes on has the contract's.
LEMMA NextTableKnown ==
  ASSUME TypeOK, OneCreates, TableKnown, ~ForeignRaces, [Next]_vars
  PROVE  TableKnown'
<1> USE DEF TypeOK, OneCreates, TableKnown, Initializing, Checking, Granting, Running, Goto, End,
            Abort, Unlock, dbVars, aclVars, roleVars
<1>1. ASSUME NEW i \in Inits, Start(i) \/ TakeLock(i) \/ LookUp(i) PROVE TableKnown'
  BY <1>1 DEF Start, TakeLock, LookUp
<1>2. ASSUME NEW i \in Inits, Create(i) PROVE TableKnown'
  <2>1. creator = None
    BY <1>2 DEF Create
  <2> QED
    BY <1>2, <2>1 DEF Create
<1>3. ASSUME NEW i \in Inits, CommitTable(i)
      PROVE  /\ table' = "contract" /\ creator = i /\ creator' = None
             /\ \A j \in Inits \ {i} : pc[j] \notin {"create", "commit"}
  BY <1>3 DEF CommitTable
<1>4. ASSUME NEW i \in Inits, CommitInit(i) PROVE TableKnown'
  BY <1>3, <1>4 DEF CommitInit, AfterInitialize, AfterWriter
<1>5. ASSUME NEW i \in Inits, Compare(i) PROVE TableKnown'
  BY <1>5 DEF Compare, AfterInitialize, AfterWriter
<1>6. ASSUME NEW i \in Inits, CheckRole(i) \/ Grant(i) PROVE TableKnown'
  BY <1>6 DEF CheckRole, Grant
<1>7. ASSUME NEW i \in Inits, CommitGrants(i) PROVE TableKnown'
  BY <1>7 DEF CommitGrants, CommitAcl, AfterWriter
<1>8. ASSUME NEW i \in Inits, StepFails(i) PROVE TableKnown'
  BY <1>8 DEF StepFails
<1>9. ASSUME NEW i \in Inits, AckLost(i) PROVE TableKnown'
  <2>1. CASE CommitTable(i)
    BY <1>3, <1>9, <2>1 DEF AckLost
  <2>2. CASE CommitAcl(i)
    BY <1>9, <2>2 DEF AckLost, CommitAcl
  <2> QED
    BY <1>9, <2>1, <2>2 DEF AckLost
<1>10. CASE ChangeRoles \/ UNCHANGED vars
  BY <1>10 DEF ChangeRoles, vars
<1>11. CASE ForeignCreate
  BY <1>11 DEF ForeignCreate
<1> QED
  BY <1>1, <1>2, <1>4, <1>5, <1>6, <1>7, <1>8, <1>9, <1>10, <1>11 DEF Next, Advance, Outside

-----------------------------------------------------------------------------
(* Grants *)

\* A step adds grants only by committing a transaction that made all of them.
LEMMA GrantsGrow ==
  ASSUME TypeOK, [Next]_vars
  PROVE  \/ UNCHANGED aclVars
         \/ \E i \in Inits : CommitAcl(i)
  BY DEF Next, Advance, Outside, Start, TakeLock, LookUp, Create, CommitInit, CommitTable, Compare,
         CheckRole, Grant, CommitGrants, StepFails, AckLost, ChangeRoles, ForeignCreate, vars

\* A transaction that commits has run every GRANT of its kind.
LEMMA NextGrantsTogether ==
  ASSUME TypeOK, GrantsTogether, [Next]_vars
  PROVE  GrantsTogether'
<1>1. ASSUME NEW i \in Inits, CommitAcl(i) PROVE GrantsTogether'
  BY <1>1 DEF CommitAcl, GrantsTogether
<1> QED
  BY <1>1, GrantsGrow DEF aclVars, GrantsTogether

\* No step takes a grant away.
LEMMA GrantsStay ==
  ASSUME TypeOK, [Next]_vars
  PROVE  usage \subseteq usage' /\ insert \subseteq insert' /\ select \subseteq select'
  BY GrantsGrow DEF CommitAcl, aclVars

\* A command goes on to the reader, or ends well, only with the writer's grants
\* committed; it ends well only with the reader's.
LEMMA NextGrantsMade ==
  ASSUME TypeOK, RolesAsked, GrantsMade, [Next]_vars
  PROVE  GrantsMade'
<1> USE DEF TypeOK, RolesAsked, GrantsMade, Initializing, Checking, Granting, Running, Goto, End
<1>0. usage \subseteq usage' /\ insert \subseteq insert' /\ select \subseteq select'
  BY GrantsStay
<1>1. ASSUME NEW i \in Inits, Start(i) \/ TakeLock(i) \/ LookUp(i) \/ Create(i) PROVE GrantsMade'
  BY <1>0, <1>1 DEF Start, TakeLock, LookUp, Create
<1>2. ASSUME NEW i \in Inits, CommitInit(i) \/ Compare(i) PROVE GrantsMade'
  <2>1. pc[i] \in {"commit", "compare"}
    BY <1>2 DEF CommitInit, CommitTable, Compare
  <2> QED
    BY <1>0, <1>2, <2>1 DEF CommitInit, Compare, AfterInitialize, AfterWriter
<1>3. ASSUME NEW i \in Inits, CheckRole(i) \/ Grant(i) PROVE GrantsMade'
  BY <1>0, <1>3 DEF CheckRole, Grant
<1>4. ASSUME NEW i \in Inits, CommitGrants(i) PROVE GrantsMade'
  <2>1. CASE pc[i] = "grantWriter"
    <3>1. Role(i) = Writer[i] /\ Writer[i] \in usage' \cap insert' \cap select'
      BY <1>4, <2>1 DEF CommitGrants, CommitAcl, Role
    <3> QED
      BY <1>0, <1>4, <2>1, <3>1 DEF CommitGrants, AfterWriter
  <2>2. CASE pc[i] = "grantReader"
    <3>1. Role(i) = Reader[i] /\ Reader[i] \in usage' \cap select'
      BY <1>4, <2>2 DEF CommitGrants, CommitAcl, Role
    <3> QED
      BY <1>0, <1>4, <2>2, <3>1 DEF CommitGrants
  <2> QED
    BY <1>4, <2>1, <2>2 DEF CommitGrants
<1>5. ASSUME NEW i \in Inits, StepFails(i) \/ AckLost(i) PROVE GrantsMade'
  BY <1>0, <1>5 DEF StepFails, AckLost
<1>6. CASE ChangeRoles \/ ForeignCreate \/ UNCHANGED vars
  BY <1>0, <1>6 DEF ChangeRoles, ForeignCreate, vars
<1> QED
  BY <1>1, <1>2, <1>3, <1>4, <1>5, <1>6 DEF Next, Advance, Outside

-----------------------------------------------------------------------------
(* Authority *)

\* The commands of others leave what i's checks looked at as it was, and add
\* writers at most.
LEMMA OthersKeepChecks ==
  ASSUME TypeOK, [Next]_vars, ~ChangeRoles, NEW i \in Inits, ~Start(i)
  PROVE  /\ UNCHANGED <<member, powerful>>
         /\ before'[i] = before[i] /\ (i \in steady' <=> i \in steady)
<1> USE DEF TypeOK, roleVars, historyVars
<1>1. ASSUME NEW j \in Inits, Start(j)
      PROVE  /\ UNCHANGED <<member, powerful>>
             /\ before'[i] = before[i] /\ (i \in steady' <=> i \in steady)
  <2>1. j # i
    BY <1>1
  <2> QED
    BY <1>1, <2>1 DEF Start
<1>2. ASSUME \A j \in Inits : ~Start(j)
      PROVE  UNCHANGED <<member, powerful, before, steady>>
  BY <1>2 DEF Next, Advance, Outside, TakeLock, LookUp, Create, CommitInit, CommitTable, Compare,
     CheckRole, Grant, CommitGrants, CommitAcl, StepFails, AckLost, ForeignCreate, vars
<1> QED
  BY <1>1, <1>2

\* A command is past a check only by having passed it, or having been past it.
LEMMA ChecksPassed ==
  ASSUME TypeOK, RolesAsked, [Next]_vars, NEW i \in Inits
  PROVE  /\ WriterChecked(i)' => \/ WriterChecked(i)
                                 \/ pc[i] = "checkWriter" /\ Eligible(Writer[i], FALSE)
         /\ ReaderChecked(i)' => \/ ReaderChecked(i)
                                 \/ pc[i] = "checkReader" /\ Eligible(Reader[i], TRUE)
<1> DEFINE Kept == (WriterChecked(i)' => WriterChecked(i)) /\ (ReaderChecked(i)' => ReaderChecked(i))
<1> USE DEF TypeOK, RolesAsked, WriterChecked, ReaderChecked, Checking, Granting, Goto, End
<1>1. ASSUME NEW j \in Inits, Start(j) \/ TakeLock(j) \/ LookUp(j) \/ Create(j) PROVE Kept
  BY <1>1 DEF Start, TakeLock, LookUp, Create
<1>2. ASSUME NEW j \in Inits, CommitInit(j) \/ Compare(j) PROVE Kept
  <2>1. pc[j] \in {"commit", "compare"}
    BY <1>2 DEF CommitInit, CommitTable, Compare
  <2> QED
    BY <1>2, <2>1 DEF CommitInit, Compare, AfterInitialize, AfterWriter
<1>3. ASSUME NEW j \in Inits, Grant(j) PROVE Kept
  BY <1>3 DEF Grant
<1>4. ASSUME NEW j \in Inits, CommitGrants(j) PROVE Kept
  <2>1. pc[j] \in {"grantWriter", "grantReader"}
    BY <1>4 DEF CommitGrants
  <2> QED
    BY <1>4, <2>1 DEF CommitGrants, AfterWriter
<1>5. ASSUME NEW j \in Inits, StepFails(j) \/ AckLost(j) PROVE Kept
  BY <1>5 DEF StepFails, AckLost
<1>6. CASE ChangeRoles \/ ForeignCreate \/ UNCHANGED vars
  BY <1>6 DEF ChangeRoles, ForeignCreate, vars
<1>7. ASSUME NEW j \in Inits, CheckRole(j), pc'[i] # pc[i], pc'[i] # "done"
      PROVE  j = i /\ Eligible(Role(i), pc[i] = "checkReader") /\ pc[i] \in Checking
  BY <1>7 DEF CheckRole
<1>8. ASSUME NEW j \in Inits, CheckRole(j)
      PROVE  /\ result'[i] = "ok" => result[i] = "ok"
             /\ pc'[i] # pc[i] => \/ pc'[i] = "done"
                                  \/ pc[i] = "checkWriter" /\ pc'[i] = "grantWriter"
                                  \/ pc[i] = "checkReader" /\ pc'[i] = "grantReader"
  <2>1. /\ pc[j] \in {"checkWriter", "checkReader"}
        /\ \/ pc' = [pc EXCEPT ![j] = IF pc[j] = "checkReader" THEN "grantReader" ELSE "grantWriter"]
              /\ result' = result
           \/ pc' = [pc EXCEPT ![j] = "done"] /\ result' = [result EXCEPT ![j] = "refused"]
    BY <1>8, Zenon DEF CheckRole
  <2> QED
    BY <2>1
<1>9. ASSUME NEW j \in Inits, CheckRole(j), pc[i] = "checkWriter", pc'[i] = "grantWriter"
      PROVE  Eligible(Writer[i], FALSE)
  <2>1. Role(i) = Writer[i] /\ (pc[i] = "checkReader") = FALSE
    BY <1>9 DEF Role
  <2> QED
    BY <1>7, <1>9, <2>1
<1>10. ASSUME NEW j \in Inits, CheckRole(j), pc[i] = "checkReader", pc'[i] = "grantReader"
       PROVE  Eligible(Reader[i], TRUE)
  <2>1. Role(i) = Reader[i] /\ (pc[i] = "checkReader") = TRUE
    BY <1>10 DEF Role
  <2> QED
    BY <1>7, <1>10, <2>1
<1> QED
  BY <1>1, <1>2, <1>3, <1>4, <1>5, <1>6, <1>8, <1>9, <1>10 DEF Next, Advance, Outside

\* The check of a reader comes after its command's writer was committed, so it
\* sees that writer among those who have INSERT.
LEMMA NextChecksHold ==
  ASSUME TypeOK, RolesAsked, GrantsMade, ChecksHold, [Next]_vars
  PROVE  ChecksHold'
<1>1. CASE ChangeRoles
  BY <1>1 DEF ChangeRoles, ChecksHold
<1>2. ASSUME NEW i \in Inits, Start(i) PROVE ChecksHold'
  <2>1. ~ChangeRoles
    BY <1>2 DEF ChangeRoles, Start, TypeOK
  <2>2. UNCHANGED <<member, powerful, insert>> /\ UNCHANGED Reached
    BY <1>2 DEF Start, aclVars, roleVars, Reached, Reach
  <2>3. before'[i] = insert /\ ~WriterChecked(i)' /\ ~ReaderChecked(i)'
    BY <1>2 DEF Start, TypeOK, WriterChecked, ReaderChecked
  <2>4. ASSUME NEW j \in steady', j # i
        PROVE  /\ before'[j] \subseteq insert'
               /\ WriterChecked(j)' => Reached'[Writer[j]] \cap powerful' = {}
               /\ ReaderChecked(j)' =>
                     Reached'[Reader[j]] \cap (powerful' \cup before'[j] \cup {Writer[j]}) = {}
    <3>1. j \in steady /\ before'[j] = before[j] /\ pc'[j] = pc[j] /\ result'[j] = result[j]
      BY <1>2, <2>4 DEF Start, TypeOK
    <3>2. (WriterChecked(j)' <=> WriterChecked(j)) /\ (ReaderChecked(j)' <=> ReaderChecked(j))
      BY <3>1 DEF WriterChecked, ReaderChecked
    <3> QED
      BY <2>2, <3>1, <3>2 DEF ChecksHold
  <2> QED
    BY <2>2, <2>3, <2>4 DEF ChecksHold
<1>3. CASE ~ChangeRoles /\ \A i \in Inits : ~Start(i)
  <2> SUFFICES ASSUME NEW i \in steady'
               PROVE  /\ before'[i] \subseteq insert'
                      /\ WriterChecked(i)' => Reached'[Writer[i]] \cap powerful' = {}
                      /\ ReaderChecked(i)' =>
                            Reached'[Reader[i]] \cap (powerful' \cup before'[i] \cup {Writer[i]}) = {}
    BY DEF ChecksHold
  <2>1. i \in Inits
    BY NextTypeOK DEF TypeOK
  <2>2. UNCHANGED <<member, powerful>> /\ i \in steady /\ before'[i] = before[i]
    BY <1>3, <2>1, OthersKeepChecks
  <2>3. UNCHANGED Reached
    BY <2>2 DEF Reached, Reach
  <2>4. before[i] \subseteq insert /\ insert \subseteq insert'
    BY <2>2, GrantsStay DEF ChecksHold
  <2>5. Writer[i] \in Roles \cup {None} /\ Reader[i] \in Roles \cup {None}
    BY <2>1
  <2>6. WriterChecked(i)' => Reached[Writer[i]] \cap powerful = {}
    <3>1. CASE WriterChecked(i)
      BY <2>2, <3>1 DEF ChecksHold
    <3>2. CASE pc[i] = "checkWriter" /\ Eligible(Writer[i], FALSE)
      BY <2>5, <3>2 DEF Eligible, Reached
    <3> QED
      BY <2>1, <3>1, <3>2, ChecksPassed
  <2>7. ReaderChecked(i)' => Reached[Reader[i]] \cap (powerful \cup before[i] \cup {Writer[i]}) = {}
    <3>1. CASE ReaderChecked(i)
      BY <2>2, <3>1 DEF ChecksHold
    <3>2. CASE pc[i] = "checkReader" /\ Eligible(Reader[i], TRUE)
      <4>1. Reached[Reader[i]] \cap (powerful \cup insert) = {} /\ Reached[Reader[i]] \subseteq Roles
        BY <2>5, <3>2 DEF Eligible, Reached, Reach
      <4>2. Writer[i] = None \/ Writer[i] \in insert
        BY <2>1, <3>2 DEF GrantsMade
      <4> QED
        BY <2>4, <4>1, <4>2
    <3> QED
      BY <2>1, <3>1, <3>2, ChecksPassed
  <2> QED
    BY <2>2, <2>3, <2>4, <2>6, <2>7
<1> QED
  BY <1>1, <1>2, <1>3

-----------------------------------------------------------------------------
(* What duro init promises *)

\* The invariant holds in every behaviour, whoever creates tables.
LEMMA ProvisionInvariant == Spec => []ProvisionInv
<1>1. Init => ProvisionInv
  BY InitProvisionInv
<1>2. ProvisionInv /\ [Next]_vars => ProvisionInv'
  <2> SUFFICES ASSUME ProvisionInv, [Next]_vars PROVE ProvisionInv'
    OBVIOUS
  <2>1. TypeOK' /\ RolesAsked' /\ OneCreates'
    BY NextTypeOK, NextRolesAsked, NextOneCreates DEF ProvisionInv
  <2>2. TableKnown'
    BY NextTableKnown DEF ProvisionInv, TableKnown
  <2>3. GrantsMade' /\ GrantsTogether' /\ ChecksHold'
    BY NextGrantsMade, NextGrantsTogether, NextChecksHold DEF ProvisionInv
  <2> QED
    BY <2>1, <2>2, <2>3 DEF ProvisionInv
<1> QED
  BY <1>1, <1>2, PTL DEF Spec

\* If no other program creates public.events between an init's look-up and its
\* CREATE TABLE, a command that reports success has the contract's table and all
\* the grants it was asked for, however many administrators race.
THEOREM InitTruthful == ASSUME ~ForeignRaces PROVE Spec => []InitTruth
<1>1. ProvisionInv => InitTruth
  BY DEF ProvisionInv, OneCreates, TableKnown, GrantsMade, InitTruth
<1> QED
  BY <1>1, ProvisionInvariant, PTL

\* With no assumption on other programs: initializers never collide, and success
\* still means that the grants were made.
THEOREM RacersApart ==
  Spec => [](/\ collided = {}
             /\ \A i \in Inits : result[i] = "ok" =>
                  /\ Writer[i] # None => Writer[i] \in usage \cap insert \cap select
                  /\ Reader[i] # None => Reader[i] \in usage \cap select)
<1>1. ProvisionInv =>
        /\ collided = {}
        /\ \A i \in Inits : result[i] = "ok" =>
             /\ Writer[i] # None => Writer[i] \in usage \cap insert \cap select
             /\ Reader[i] # None => Reader[i] \in usage \cap select
  BY DEF ProvisionInv, OneCreates, GrantsMade
<1> QED
  BY <1>1, ProvisionInvariant, PTL

\* A failure, a lost answer or a kill leaves a role with all the grants of its
\* kind or with none of them.
THEOREM GrantsWhole == Spec => []GrantsTogether
<1>1. ProvisionInv => GrantsTogether
  BY DEF ProvisionInv
<1> QED
  BY <1>1, ProvisionInvariant, PTL

\* Until an administrator changes roles, a command that succeeded, and that began
\* after the last such change, gave its grants to a writer and a reader that reach
\* nothing beyond them: whoever provisioned the roles they are members of before
\* the command began, and the command's own writer included.
THEOREM Restrained == Spec => []RolesRestrained
<1>1. ASSUME ProvisionInv PROVE RolesRestrained
  <2>1. \A i \in Inits : Reached[Writer[i]] = Reach(Writer[i]) /\ Reached[Reader[i]] = Reach(Reader[i])
    BY DEF Reached
  <2>2. steady \subseteq Inits
    BY <1>1 DEF ProvisionInv, TypeOK
  <2> QED
    BY <1>1, <2>1, <2>2 DEF ProvisionInv, ChecksHold, WriterChecked, ReaderChecked, RolesRestrained
<1> QED
  BY <1>1, ProvisionInvariant, PTL
=============================================================================
