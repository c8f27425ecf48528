------------------------------ MODULE Delivery ------------------------------
(***************************************************************************)
(* What one inbox pipeline promises about the messages it is given,        *)
(* whatever queues, retries and transactions it uses: a message is         *)
(* accepted once, stays accepted until it is recorded, is recorded only on *)
(* evidence about that very message, and what is recorded stays so.  Only  *)
(* the whole memory of the pipeline may be lost at once.                   *)
(***************************************************************************)
CONSTANT Leaves

VARIABLES
  held,      \* leaves accepted and not yet recorded
  recorded,  \* leaves recorded as processed, durably
  evidence   \* leaves for which the destination chain has given evidence

vars == <<held, recorded, evidence>>

Init == held = {} /\ recorded = {} /\ evidence = {}

MoreEvidence == evidence \subseteq evidence'

Accept ==
  /\ \E l \in Leaves \ (held \cup recorded) : held' = held \cup {l}
  /\ MoreEvidence
  /\ UNCHANGED recorded

Record ==
  /\ MoreEvidence
  /\ \E l \in held \cap evidence' :
       held' = held \ {l} /\ recorded' = recorded \cup {l}

Observe == MoreEvidence /\ UNCHANGED <<held, recorded>>

Forget == held' = {} /\ MoreEvidence /\ UNCHANGED recorded

Next == Accept \/ Record \/ Observe \/ Forget

Spec == Init /\ [][Next]_vars
=============================================================================
