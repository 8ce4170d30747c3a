--------------------------- MODULE MCEventLedger ---------------------------
(***************************************************************************)
(* Two concurrent calls, one through each writer, and a projector.         *)
(***************************************************************************)
EXTENDS Projector, TLC

CONSTANTS goCall, pyCall

MCLang == (goCall :> "go") @@ (pyCall :> "python")
=============================================================================
