---------------------------- MODULE BlobContract ----------------------------
(***************************************************************************)
(* What the content-addressed store promises: a digest path is filled      *)
(* once, with bytes that hash to it; a power loss may take a blob away     *)
(* until some call has reported it stored, and never afterwards; only      *)
(* damage from outside makes a blob disagree with its digest.              *)
(***************************************************************************)
CONSTANT Digests

VARIABLES
    blob,       \* what each digest path holds
    promised    \* the digests some call reported stored

contractVars == <<blob, promised>>

ContractInit == blob = [d \in Digests |-> "absent"] /\ promised = {}

Publish(d) ==
    /\ blob[d] = "absent"
    /\ blob' = [blob EXCEPT ![d] = "good"]
    /\ UNCHANGED promised

\* A put reports d stored: it is there, put there by this call or an earlier one.
Promise(d) ==
    /\ blob[d] # "absent"
    /\ promised' = promised \cup {d}
    /\ UNCHANGED blob

PowerLoss ==
    /\ \E lost \in SUBSET (Digests \ promised) :
          blob' = [d \in Digests |-> IF d \in lost THEN "absent" ELSE blob[d]]
    /\ UNCHANGED promised

\* From outside the program.
Damage(d) ==
    /\ blob' = [blob EXCEPT ![d] = "damaged"]
    /\ UNCHANGED promised

ContractNext ==
    \/ \E d \in Digests : Publish(d) \/ Promise(d) \/ Damage(d)
    \/ PowerLoss

ContractSpec == ContractInit /\ [][ContractNext]_contractVars
=============================================================================
