----------------------------- MODULE TypedRows -----------------------------
(***************************************************************************)
(* What AbacusDB promises to the tasks of an agent ("DB handle for storing *)
(* data tied to a specific Outbox", abacus-core/src/db/abacus_db.rs): a    *)
(* set of typed rows <<outbox, table, key, value>>.  A step writes one row *)
(* of one table of one outbox and nothing else; a message, once there, is  *)
(* never changed or taken back, the latest indices never decrease, and a   *)
(* leaf's total grows by the amount of a payment marked as processed.      *)
(***************************************************************************)
EXTENDS Integers

VARIABLE rows

Init == rows = {}

(* The value of a row before the step, at most one. *)
Before(outbox, table, key) ==
  {r[4] : r \in {q \in rows : q[1] = outbox /\ q[2] = table /\ q[3] = key}}

(* The row may be written into its table. *)
Allowed(outbox, table, key, value) ==
  LET before == Before(outbox, table, key) IN
  \/ table \in {"message", "processed payment"} /\ before = {}
  \/ table \in {"latest", "latest for destination"} /\ \A old \in before : old < value
  \/ /\ table = "total"
     /\ \E r \in rows : /\ r[1] = outbox /\ r[2] = "processed payment" /\ r[3].leaf_index = key
                        /\ value - r[3].amount \in (IF before = {} THEN {0} ELSE before)
  \/ table \in {"processed leaf", "message cursor", "payment cursor"}

Next ==
  \E r \in rows' \ rows :
    /\ Allowed(r[1], r[2], r[3], r[4])
    /\ rows' = {q \in rows : <<q[1], q[2], q[3]>> # <<r[1], r[2], r[3]>>} \cup {r}

Spec == Init /\ [][Next]_rows

=============================================================================
