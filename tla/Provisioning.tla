---------------------------- MODULE Provisioning ----------------------------
(***************************************************************************)
(* duro init: Initialize, then ProvisionWriter, then ProvisionReader, run  *)
(* by several administrators at once.  Each is one transaction of a READ   *)
(* COMMITTED session, so every statement sees what others have committed   *)
(* by then; only Initialize takes the advisory lock.                       *)
(*                                                                         *)
(* What Initialize compares of a table is reduced to whether it is the     *)
(* contract's, and the authority that disqualifies a role (attributes,     *)
(* ownership, mutation privileges, INSERT on a server-owned column) to     *)
(* whether the role has any.                                               *)
(***************************************************************************)
EXTENDS Naturals, Sequences

CONSTANTS
    Inits,          \* administrators' shells, each running one command line
    Roles,
    Logins,         \* roles that can log in
    Writer, Reader, \* the --writer and --reader of each command line, or None
    Grantable,      \* memberships <<role, group>> an administrator may grant
    Empowerable,    \* roles an administrator may give disqualifying authority
    ForeignRaces,   \* whether another program may create public.events also between
                    \* a look-up and its CREATE TABLE
    None

ASSUME RolesAssumption ==
    /\ Logins \subseteq Roles
    /\ Writer \in [Inits -> Roles \cup {None}]
    /\ Reader \in [Inits -> Roles \cup {None}]
    /\ Grantable \subseteq Roles \X Roles
    /\ Empowerable \subseteq Roles
    /\ ForeignRaces \in BOOLEAN
    /\ None \notin Inits \cup Roles \cup {"ok", "refused", "error"}

VARIABLES
    table,          \* public.events as committed
    creator,        \* the init whose CREATE TABLE is not committed yet, or None
    lock,           \* the init holding the advisory lock, or None
    usage,          \* roles granted USAGE on the schema
    insert,         \* roles granted INSERT on the caller's columns
    select,         \* roles granted SELECT on the table
    member,         \* memberships granted
    powerful,       \* roles with disqualifying authority
    pc,             \* where each init is
    granted,        \* how many GRANTs the open transaction of each init has run
    result,         \* how the last run of each init ended, or None
    collided,       \* history: inits whose CREATE TABLE met another's
    steady,         \* history: inits since whose start no administrator changed roles
    before          \* history: the writers there were when each of those started

dbVars == <<table, creator, lock>>
aclVars == <<usage, insert, select>>
roleVars == <<member, powerful>>
historyVars == <<steady, before>>
vars == <<dbVars, aclVars, roleVars, pc, granted, result, collided, historyVars>>

Initializing == {"lock", "lookup", "create", "commit", "compare"}
Checking == {"checkWriter", "checkReader"}
Granting == {"grantWriter", "grantReader"}
Running == Initializing \cup Checking \cup Granting

TypeOK ==
    /\ table \in {"none", "contract", "foreign"}
    /\ creator \in Inits \cup {None} /\ lock \in Inits \cup {None}
    /\ usage \subseteq Roles /\ insert \subseteq Roles /\ select \subseteq Roles
    /\ member \subseteq Grantable /\ powerful \subseteq Roles
    /\ pc \in [Inits -> {"idle", "done"} \cup Running]
    /\ granted \in [Inits -> 0 .. 3]
    /\ result \in [Inits -> {"ok", "refused", "error", None}]
    /\ collided \subseteq Inits
    /\ steady \subseteq Inits /\ before \in [Inits -> SUBSET Roles]
    /\ \A i \in Inits : result[i] # None <=> pc[i] = "done"
    /\ \A i \in Inits : lock = i <=> pc[i] \in Initializing \ {"lock"}
    /\ \A i \in Inits : granted[i] # 0 => pc[i] \in Granting

\* A database may hold the table already, of this contract or of another one.
Init ==
    /\ table \in {"none", "contract", "foreign"}
    /\ creator = None /\ lock = None
    /\ usage = {} /\ insert = {} /\ select = {}
    /\ member = {} /\ powerful = {}
    /\ pc = [i \in Inits |-> "idle"]
    /\ granted = [i \in Inits |-> 0]
    /\ result = [i \in Inits |-> None]
    /\ collided = {}
    /\ steady = {} /\ before = [i \in Inits |-> {}]

-----------------------------------------------------------------------------
(* Ends of transactions and of commands *)

Goto(i, l) == pc' = [pc EXCEPT ![i] = l] /\ UNCHANGED result

End(i, r) ==
    /\ pc' = [pc EXCEPT ![i] = "done"]
    /\ result' = [result EXCEPT ![i] = r]

\* Mutant of Unlock: a session-level lock, which outlives the transaction.
KeepLock(i) == UNCHANGED lock

\* The advisory lock goes with the transaction that took it.
Unlock(i) == lock' = IF lock = i THEN None ELSE lock

\* Rollback, deferred in Initialize and in provision: nothing of it remains.
Abort(i) ==
    /\ Unlock(i)
    /\ creator' = IF creator = i THEN None ELSE creator
    /\ granted' = [granted EXCEPT ![i] = 0]

AfterWriter(i) == IF Reader[i] # None THEN Goto(i, "checkReader") ELSE End(i, "ok")
AfterInitialize(i) == IF Writer[i] # None THEN Goto(i, "checkWriter") ELSE AfterWriter(i)

-----------------------------------------------------------------------------
(* Initialize *)

\* Connects, finds the server's encoding to be UTF8 and begins a transaction.
Start(i) ==
    /\ pc[i] \in {"idle", "done"}
    /\ pc' = [pc EXCEPT ![i] = "lock"]
    /\ result' = [result EXCEPT ![i] = None]
    /\ steady' = steady \cup {i}
    /\ before' = [before EXCEPT ![i] = insert]
    /\ UNCHANGED <<dbVars, aclVars, roleVars, granted, collided>>

\* Mutant of TakeLock: nobody waits for the lock.
PassLock(i) ==
    /\ pc[i] = "lock"
    /\ Goto(i, "lookup")
    /\ UNCHANGED <<dbVars, aclVars, roleVars, granted, collided, historyVars>>

\* pg_advisory_xact_lock
TakeLock(i) ==
    /\ pc[i] = "lock" /\ lock = None
    /\ lock' = i
    /\ Goto(i, "lookup")
    /\ UNCHANGED <<table, creator, aclVars, roleVars, granted, collided, historyVars>>

\* to_regclass: sees committed tables.
LookUp(i) ==
    /\ pc[i] = "lookup"
    /\ Goto(i, IF table = "none" THEN "create" ELSE "compare")
    /\ UNCHANGED <<dbVars, aclVars, roleVars, granted, collided, historyVars>>

\* CREATE TABLE IF NOT EXISTS: creates the table, or leaves a committed one as
\* it is, or runs into one that is being created and fails.
Create(i) ==
    /\ pc[i] = "create"
    /\ IF table = "none" /\ creator # None
         THEN collided' = collided \cup {i} /\ Abort(i) /\ End(i, "error")
         ELSE /\ creator' = IF table = "none" THEN i ELSE None
              /\ Goto(i, "commit")
              /\ UNCHANGED <<lock, granted, collided>>
    /\ UNCHANGED <<table, aclVars, roleVars, historyVars>>

CommitTable(i) ==
    /\ pc[i] = "commit"
    /\ table' = IF creator = i THEN "contract" ELSE table
    /\ Abort(i)
    /\ UNCHANGED <<aclVars, roleVars, collided, historyVars>>

CommitInit(i) == CommitTable(i) /\ AfterInitialize(i)

\* The existing table is compared with the contract's, and left alone.
Compare(i) ==
    /\ pc[i] = "compare"
    /\ Abort(i)
    /\ \/ table = "contract" /\ AfterInitialize(i)
       \/ table # "contract" /\ End(i, "refused")
    /\ UNCHANGED <<table, aclVars, roleVars, collided, historyVars>>

-----------------------------------------------------------------------------
(* ProvisionWriter and ProvisionReader *)

\* pg_has_role: the roles r inherits from or can SET ROLE to, itself included.
Reach(r) ==
    {s \in Roles : \A closed \in SUBSET Roles :
        r \in closed /\ (\A e \in member : e[1] \in closed => e[2] \in closed) => s \in closed}

\* Mutant of Eligible: only what the role itself holds is looked at.
EligibleItself(r, asReader) ==
    /\ r \in Logins \ powerful
    /\ asReader => r \notin insert

\* assertProvisionable: a login role that reaches no authority the grants could
\* not restrain; for a reader, no INSERT either.
Eligible(r, asReader) ==
    /\ r \in Logins
    /\ Reach(r) \cap powerful = {}
    /\ asReader => Reach(r) \cap insert = {}

Role(i) == IF pc[i] \in {"checkWriter", "grantWriter"} THEN Writer[i] ELSE Reader[i]

CheckRole(i) ==
    /\ pc[i] \in Checking
    /\ LET asReader == pc[i] = "checkReader" IN
       \/ /\ Eligible(Role(i), asReader)
          /\ Goto(i, IF asReader THEN "grantReader" ELSE "grantWriter")
       \/ /\ ~Eligible(Role(i), asReader)
          /\ End(i, "refused")
    /\ UNCHANGED <<dbVars, aclVars, roleVars, granted, collided, historyVars>>

Grants(i) == IF pc[i] = "grantWriter" THEN <<"usage", "insert", "select">>
                                     ELSE <<"usage", "select">>

\* Mutant of Grant: every GRANT is committed by itself.
GrantAlone(i) ==
    /\ pc[i] \in Granting /\ granted[i] < Len(Grants(i))
    /\ LET g == Grants(i)[granted[i] + 1] IN
       /\ usage' = usage \cup (IF g = "usage" THEN {Role(i)} ELSE {})
       /\ insert' = insert \cup (IF g = "insert" THEN {Role(i)} ELSE {})
       /\ select' = select \cup (IF g = "select" THEN {Role(i)} ELSE {})
    /\ granted' = [granted EXCEPT ![i] = @ + 1]
    /\ UNCHANGED <<dbVars, roleVars, pc, result, collided, historyVars>>

\* The first GRANT updates the schema's catalog row, which a transaction with
\* GRANTs of its own holds: the next one waits for its end.  It goes on if that one
\* rolls back; if it commits, PostgreSQL may fail the one that waited, which is
\* left to StepFails.
Grant(i) ==
    /\ pc[i] \in Granting /\ granted[i] < Len(Grants(i))
    /\ \A j \in Inits \ {i} : granted[j] = 0
    /\ granted' = [granted EXCEPT ![i] = @ + 1]
    /\ UNCHANGED <<dbVars, aclVars, roleVars, pc, result, collided, historyVars>>

CommitAcl(i) ==
    /\ pc[i] \in Granting /\ granted[i] = Len(Grants(i))
    /\ usage' = usage \cup {Role(i)}
    /\ select' = select \cup {Role(i)}
    /\ insert' = insert \cup (IF pc[i] = "grantWriter" THEN {Role(i)} ELSE {})
    /\ granted' = [granted EXCEPT ![i] = 0]
    /\ UNCHANGED <<dbVars, roleVars, collided, historyVars>>

CommitGrants(i) ==
    /\ CommitAcl(i)
    /\ \/ pc[i] = "grantWriter" /\ AfterWriter(i)
       \/ pc[i] = "grantReader" /\ End(i, "ok")

-----------------------------------------------------------------------------
(* Failures, and the administrators' other work *)

\* A statement fails, the connection breaks or the process is killed.
StepFails(i) ==
    /\ pc[i] \in Running
    /\ Abort(i)
    /\ End(i, "error")
    /\ UNCHANGED <<table, aclVars, roleVars, collided, historyVars>>

\* A commit takes effect and its answer is lost: the command reports an error.
AckLost(i) ==
    /\ CommitTable(i) \/ CommitAcl(i)
    /\ End(i, "error")

ChangeRoles ==
    /\ \/ \E e \in Grantable : member' \in {member \cup {e}, member \ {e}}
       \/ UNCHANGED member
    /\ \/ \E r \in Empowerable : powerful' \in {powerful \cup {r}, powerful \ {r}}
       \/ UNCHANGED powerful
    /\ roleVars' # roleVars
    /\ steady' = {} /\ before' = [i \in Inits |-> {}]
    /\ UNCHANGED <<dbVars, aclVars, pc, granted, result, collided>>

\* Another program creates a table of its own under the name.
ForeignCreate ==
    /\ ForeignRaces \/ \A i \in Inits : pc[i] # "create"
    /\ table = "none" /\ creator = None
    /\ table' = "foreign"
    /\ UNCHANGED <<creator, lock, aclVars, roleVars, pc, granted, result, collided, historyVars>>

-----------------------------------------------------------------------------

Advance(i) ==
    \/ TakeLock(i) \/ LookUp(i) \/ Create(i) \/ CommitInit(i) \/ Compare(i)
    \/ CheckRole(i) \/ Grant(i) \/ CommitGrants(i)

Outside == (\E i \in Inits : StepFails(i) \/ AckLost(i)) \/ ChangeRoles \/ ForeignCreate

Next == (\E i \in Inits : Start(i) \/ Advance(i)) \/ Outside

Spec == Init /\ [][Next]_vars

\* Every command line is run again and again.  PostgreSQL's lock queues are
\* first come, first served, hence strong fairness.
FairSpec == Spec /\ \A i \in Inits : WF_vars(Start(i)) /\ SF_vars(Advance(i))

-----------------------------------------------------------------------------
(* Properties *)

\* Racing initializers never run into each other's CREATE TABLE, and whoever is
\* told "initialized" has the contract's table and the grants asked for, whatever
\* table was there when Initialize looked.
InitTruth ==
    /\ collided = {}
    /\ \A i \in Inits : result[i] = "ok" =>
          /\ table = "contract"
          /\ Writer[i] # None => Writer[i] \in usage \cap insert \cap select
          /\ Reader[i] # None => Reader[i] \in usage \cap select

\* No failure leaves part of a writer's or a reader's grants behind.
GrantsTogether == insert \subseteq select /\ select \subseteq usage

\* What the look at a role must have found.  Unless an administrator changed roles
\* after the command began, its writer reaches no authority the grants would not
\* restrain; its reader none either, and reaches no writer: neither one there was
\* when the command began, whoever provisioned it, nor the command's own.
RolesRestrained ==
    \A i \in steady : result[i] = "ok" =>
        /\ Writer[i] # None => Reach(Writer[i]) \cap powerful = {}
        /\ Reader[i] # None =>
              Reach(Reader[i]) \cap (powerful \cup before[i] \cup {Writer[i]}) = {}

\* Initialize reports success only when public.events is the contract's table,
\* whoever created it: any other table makes it fail and stays as it is.
InitializedMeansContract ==
    \A i \in Inits : result[i] = "ok" => table = "contract"

\* Once nothing fails and nobody else interferes, running the command line again
\* succeeds, unless the database gives a reason to refuse it: what a failed or
\* half-done init leaves behind never blocks a later one.
RerunSucceeds ==
    <>[][~Outside]_vars =>
      \A i \in Inits : []<>( \/ result[i] = "ok"
                             \/ table = "foreign"
                             \/ Writer[i] # None /\ ~Eligible(Writer[i], FALSE)
                             \/ Reader[i] # None /\ ~Eligible(Reader[i], TRUE) )
=============================================================================
