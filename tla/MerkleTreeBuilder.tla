------------------------- MODULE MerkleTreeBuilder -------------------------
(***************************************************************************)
(* The Merkle tree an inbox pipeline rebuilds from the DB's leaf rows      *)
(* (agents/relayer/src/merkle_tree_builder.rs) with its Prover             *)
(* (prover.rs): it is brought up to each checkpoint, and proves messages   *)
(* against the checkpoint's root.                                          *)
(*                                                                         *)
(* The outbox contract appends leaves and the validators sign its root     *)
(* after each; module MessageProcessor has the waiting and the scan.       *)
(***************************************************************************)
EXTENDS Accumulators

CONSTANT MaxLeaves    \* bound on the messages dispatched

ASSUME BuilderAssumption ==
  /\ MaxLeaves \in Nat /\ MaxLeaves <= Pow2[Depth]
  /\ Zero \notin Elements

VARIABLES
  leaves,        \* DB: the leaf rows, in leaf order
  prover,        \* Prover: [count, tree]
  incremental,   \* IncrementalMerkle
  checkpoint,    \* the checkpoint the builder works on or has reached: [index, root]
  status         \* "ready" | "updating" | "mismatched" | "panicked"

builder_vars == <<leaves, prover, incremental, checkpoint, status>>

(* The root of the outbox contract after n leaves: each level hashes the one  *)
(* below in pairs, from the leaves padded with zeros.  This is the reference  *)
(* both accumulators are compared with.                                       *)
Levels(bottom) ==
  LET level[d \in 0 .. Depth] ==
        IF d = 0 THEN bottom
        ELSE [k \in Nat |-> HashConcat(level[d - 1][2 * k], level[d - 1][2 * k + 1])]
  IN level
Padded(n) == [k \in Nat |-> IF k < n THEN leaves[k + 1] ELSE Zero]
RootOf(n) == Levels(Padded(n))[Depth][0]

BuilderInit ==
  /\ leaves = <<>>
  /\ prover = [count |-> 0, tree |-> Create[Depth][<<>>]]
  /\ incremental = EmptyIncremental
  /\ checkpoint = [index |-> 0, root |-> RootOf(0)]
  /\ status = "ready"

(* A message is dispatched and indexed. *)
StoreLeaf ==
  /\ Len(leaves) < MaxLeaves
  /\ \E e \in Elements : leaves' = Append(leaves, e)
  /\ UNCHANGED <<prover, incremental, checkpoint, status>>

(* The processor calls update_to_checkpoint for a checkpoint the tree has not *)
(* reached; the call returns at once for index 0.                             *)
BeginUpdate ==
  /\ status = "ready"
  /\ \E index \in 1 .. (Len(leaves) - 1) :
       /\ index >= prover.count
       /\ checkpoint' = [index |-> index, root |-> RootOf(index + 1)]
  /\ status' = "updating"
  /\ UNCHANGED <<leaves, prover, incremental>>

(* Prover::ingest counts before it pushes; the panic of a full tree, of the   *)
(* incremental tree's bound, or of differing roots ends the task.             *)
IngestLeafIndex ==
  LET leaf == leaves[prover.count + 1]
      pushed == PushLeaf(prover.tree, leaf, Depth)
      ingested == IncrementalIngest(incremental, leaf)
  IN
  /\ status = "updating"
  /\ prover.count <= checkpoint.index
  /\ IF pushed.err # "none"
       THEN /\ prover' = [prover EXCEPT !.count = @ + 1]
            /\ status' = "panicked"
            /\ UNCHANGED incremental
       ELSE /\ prover' = [count |-> prover.count + 1, tree |-> pushed.tree]
            /\ IF ~ HasRoom(incremental)
                 THEN status' = "panicked" /\ UNCHANGED incremental
                 ELSE /\ incremental' = ingested
                      /\ status' = IF Hash(pushed.tree) = IncrementalRoot(ingested)
                                     THEN "updating" ELSE "panicked"
  /\ UNCHANGED <<leaves, checkpoint>>

CompareRoots ==
  /\ status = "updating"
  /\ prover.count > checkpoint.index
  /\ status' = IF /\ Hash(prover.tree) = IncrementalRoot(incremental)
                  /\ Hash(prover.tree) = checkpoint.root
                 THEN "ready" ELSE "mismatched"
  /\ UNCHANGED <<leaves, prover, incremental, checkpoint>>

BuilderNext == StoreLeaf \/ BeginUpdate \/ IngestLeafIndex \/ CompareRoots

BuilderSpec == BuilderInit /\ [][BuilderNext]_builder_vars

-----------------------------------------------------------------------------
(* Prover::prove, for an index below the count. *)
Prove(index) == GenerateProof(prover.tree, index, Depth)

(* assert_eq!(prover.root(), incremental.root()) and the comparison with the  *)
(* checkpoint never fail: two different algorithms, fed one leaf at a time,   *)
(* compute the root the contract has.  The builder panics only at the bound   *)
(* of the incremental tree.                                                   *)
RootsAgree ==
  /\ status # "mismatched"
  /\ status = "panicked" => incremental.count = Pow2[Depth] - 1

(* What the inbox contract will check: every message a checkpoint covers has  *)
(* a proof against its root, for its own leaf.                                *)
ProofsVerify ==
  status = "ready" /\ prover.count > 0 =>
    \A i \in 0 .. checkpoint.index :
      /\ Prove(i).leaf = leaves[i + 1]
      /\ RootFromBranch(Prove(i).leaf, Prove(i).path, i) = checkpoint.root

(* A path the prover hands out shows a leaf at an index only if that leaf is  *)
(* at that index.                                                             *)
ProofsBind ==
  status = "ready" =>
    \A i \in 0 .. (prover.count - 1), j \in 0 .. (Pow2[Depth] - 1), e \in Elements :
      RootFromBranch(e, Prove(i).path, j) = Hash(prover.tree)
        => j < prover.count /\ leaves[j + 1] = e
=============================================================================
