----------------------------- MODULE MCAbacusDB -----------------------------
(***************************************************************************)
(* A small instance of AbacusDB for TLC: two outboxes whose rows share a   *)
(* database; bytes of two values, so that an index fills more than one     *)
(* byte; three payments for the same leaf in one transaction, of which the *)
(* last two together are more than a U256 holds.                           *)
(***************************************************************************)
EXTENDS AbacusDB

MCEntities == {"celo", "polygon"}
MCDestinations == {1, 2}
MCPayments ==
  {[meta |-> [transaction_hash |-> Address("tx"), log_index |-> log], leaf_index |-> 1,
    amount |-> <<1, 2, 14>>[log + 1]] : log \in 0 .. 2}
=============================================================================
