--------------------------- MODULE MCProvisioning ---------------------------
(***************************************************************************)
(* Two administrators: one provisions alice as a writer and bob as a       *)
(* reader, the other bob as a writer only.                                 *)
(***************************************************************************)
EXTENDS Provisioning, TLC

CONSTANTS one, two, alice, bob, staff

MCWriter == (one :> alice) @@ (two :> bob)
MCReader == (one :> bob) @@ (two :> None)
MCGrantable == {<<bob, alice>>, <<bob, staff>>, <<staff, alice>>}
MCNoGrants == {}
=============================================================================
