-------------------------- MODULE MCGasPaymentSync --------------------------
(* Payments for two leaves, with amounts whose sums are all different. *)
EXTENDS GasPaymentSync

MCLeafOf == [p \in Payments |-> p % 2]
MCAmount == [p \in Payments |-> 2 ^ p]
=============================================================================
