--------------------------- MODULE CommitOutcome ---------------------------
(***************************************************************************)
(* How a failed append is classified: classifyCommitErr of pkg/postgres    *)
(* and _commit_outcome of the Python writer, as functions of what the      *)
(* driver reports about a failed COMMIT.                                   *)
(*                                                                         *)
(* The driver hands over the SEVERITY field of the server's message, which *)
(* PostgreSQL translates to the language of lc_messages; the untranslated  *)
(* field exists in the protocol and neither function reads it.             *)
(***************************************************************************)

CONSTANTS
    Translated,     \* the server's lc_messages is not English
    None            \* no field

ASSUME TranslatedAssumption == Translated \in BOOLEAN

\* The severity as the driver shows it (external: PostgreSQL's message catalog;
\* the values are those of the German one).
Shown(severity) ==
    IF ~Translated THEN severity
    ELSE CASE severity = "ERROR" -> "FEHLER"
           [] severity = "FATAL" -> "FATAL"
           [] severity = "PANIC" -> "PANIK"

\* What a failed COMMIT can report.  "server": an error message of the server;
\* "rollback": the server answered COMMIT with ROLLBACK; "txdone": database/sql
\* sent no COMMIT; "network": no answer.
ServerError(severity, code) == [kind |-> "server", severity |-> Shown(severity), code |-> code]
RolledBack == [kind |-> "rollback", severity |-> None, code |-> None]
TxDone     == [kind |-> "txdone", severity |-> None, code |-> None]
NoAnswer   == [kind |-> "network", severity |-> None, code |-> None]

ConnectionException == {"08000", "08003", "08006", "08P01"}
Shutdown == {"57P01", "57P02", "57P03"}

\* Mutant of ClassifyCommitErr: every answer of the server is a non-commit.
AnyAnswerIsNo(err) == IF err.kind = "network" THEN "unknown" ELSE "not_committed"

\* classifyCommitErr
ClassifyCommitErr(err) ==
    IF err.kind = "server"
      THEN IF \/ err.severity \in {"FATAL", "PANIC"}
              \/ err.code \in ConnectionException \cup Shutdown
           THEN "unknown" ELSE "not_committed"
      ELSE IF err.kind \in {"rollback", "txdone"} THEN "not_committed" ELSE "unknown"

\* _commit_outcome: an error without SQLSTATE is unknown whatever it is.
CommitOutcomePy(err) ==
    IF \/ err.severity \in {"FATAL", "PANIC"}
       \/ err.code \in ConnectionException \cup Shutdown
       \/ err.code = None
    THEN "unknown" ELSE "not_committed"

Classify(lang, err) == IF lang = "go" THEN ClassifyCommitErr(err) ELSE CommitOutcomePy(err)
=============================================================================
