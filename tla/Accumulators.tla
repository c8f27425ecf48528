---------------------------- MODULE Accumulators ----------------------------
(***************************************************************************)
(* The two Merkle accumulators of abacus-core/src/accumulator: the sparse  *)
(* tree that can prove its leaves (merkle.rs) and the incremental one that *)
(* only keeps its frontier (incremental.rs).                               *)
(*                                                                         *)
(* Keccak is a constructor without collisions: hash_concat(l, r) is the    *)
(* pair <<l, r>>.  TREE_DEPTH is the constant Depth.                       *)
(***************************************************************************)
EXTENDS Integers, Sequences

CONSTANTS
  Depth,      \* TREE_DEPTH
  Zero,       \* H256::zero()
  Elements    \* the leaf hashes messages may have

ASSUME DepthAssumption == Depth \in Nat \ {0}

HashConcat(l, r) == <<l, r>>

ZeroHash[d \in 0 .. Depth] ==
  IF d = 0 THEN Zero ELSE HashConcat(ZeroHash[d - 1], ZeroHash[d - 1])

(* 2^n, and the bits of a number. *)
Pow2[n \in 0 .. Depth] == IF n = 0 THEN 1 ELSE 2 * Pow2[n - 1]
Bit(n, i) == (n \div Pow2[i]) % 2
Bits(n) == {i \in 0 .. Depth - 1 : Bit(n, i) = 1}

(* A hash and those it becomes when one sibling after another is hashed to it, *)
(* on its left at the heights of lefts, else on its right.                     *)
Climb(leaf, sibling, lefts) ==
  LET node[i \in 0 .. Depth] ==
        IF i = 0 THEN leaf
        ELSE IF i - 1 \in lefts THEN HashConcat(sibling[i - 1], node[i - 1])
        ELSE HashConcat(node[i - 1], sibling[i - 1])
  IN node

-----------------------------------------------------------------------------
(* merkle.rs *)

ZeroTree(depth) == [kind |-> "zero", depth |-> depth]
LeafTree(h) == [kind |-> "leaf", hash |-> h]

Hash(tree) == IF tree.kind = "zero" THEN ZeroHash[tree.depth] ELSE tree.hash

Node(left, right) ==
  [kind |-> "node", hash |-> HashConcat(Hash(left), Hash(right)),
   left |-> left, right |-> right]

(* The hashes and the trees of each depth. *)
Hashes[depth \in 0 .. Depth] ==
  IF depth = 0 THEN {Zero} \cup Elements ELSE Hashes[depth - 1] \X Hashes[depth - 1]
Trees[depth \in 0 .. Depth] ==
  {ZeroTree(depth)}
    \cup (IF depth = 0 THEN {LeafTree(h) : h \in Elements}
          ELSE [kind : {"node"}, hash : Hashes[depth], left : Trees[depth - 1], right : Trees[depth - 1]])

(* The leaves that go to the left subtree. *)
LeftCapacity(depth) == Pow2[depth - 1]

Create[depth \in 0 .. Depth] == [leaves_ \in Seq(Elements) |->
  LET half == IF Len(leaves_) <= LeftCapacity(depth) THEN Len(leaves_) ELSE LeftCapacity(depth)
  IN IF leaves_ = <<>> THEN ZeroTree(depth)
     ELSE IF depth = 0 THEN LeafTree(leaves_[1])
     ELSE Node(Create[depth - 1][SubSeq(leaves_, 1, half)],
               Create[depth - 1][SubSeq(leaves_, half + 1, Len(leaves_))])]

Grown(tree) == [err |-> "none", tree |-> tree]
Failed(e) == [err |-> e]

(* The left node is full: the element starts the right subtree. *)
StartRight(left, elem, depth) == Grown(Node(left, Create[depth - 1][<<elem>>]))

Push(elem) ==
  LET push[depth \in 0 .. Depth] == [tree \in Trees[depth] |->
        IF depth = 0 THEN Failed("DepthTooSmall")
        ELSE IF tree.kind = "leaf" THEN Failed("LeafReached")
        ELSE IF tree.kind = "zero" THEN Grown(Create[depth][<<elem>>])
        ELSE
          LET kinds == <<tree.left.kind, tree.right.kind>> IN
          CASE kinds = <<"leaf", "leaf">> -> Failed("MerkleTreeFull")
            [] kinds = <<"node", "node">> ->
                 LET pushed == push[depth - 1][tree.right] IN
                 IF pushed.err = "none" THEN Grown(Node(tree.left, pushed.tree)) ELSE pushed
            [] kinds = <<"zero", "zero">> ->
                 Grown(Node(Create[depth - 1][<<elem>>], tree.right))
            [] kinds = <<"leaf", "zero">> -> StartRight(tree.left, elem, depth)
            [] kinds = <<"node", "zero">> ->
                 LET pushed == push[depth - 1][tree.left] IN
                 CASE pushed.err = "none" -> Grown(Node(pushed.tree, tree.right))
                   [] pushed.err = "MerkleTreeFull" -> StartRight(tree.left, elem, depth)
                   [] OTHER -> pushed
            [] OTHER -> Failed("Invalid")]
  IN push
PushLeaf(tree, elem, depth) == Push(elem)[depth][tree]

Left(tree) == IF tree.kind = "node" THEN tree.left ELSE ZeroTree(tree.depth - 1)
Right(tree) == IF tree.kind = "node" THEN tree.right ELSE ZeroTree(tree.depth - 1)

SameSide(index, i) == Bit(index, i) = 0                     \* GoesRight: a mistake
GoesRight(index, i) == Bit(index, i) = 1

(* The nodes from the root down to a leaf. *)
Walk(tree, index, depth) ==
  LET node[i \in 0 .. depth] ==
        IF i = 0 THEN tree
        ELSE IF GoesRight(index, depth - i) THEN Right(node[i - 1]) ELSE Left(node[i - 1])
  IN node

(* path[h] is the hash of the sibling at height h - 1: the proof is bottom-up. *)
GenerateProof(tree, index, depth) ==
  LET node == Walk(tree, index, depth)
      sibling(i) == IF GoesRight(index, depth - i) THEN Left(node[i - 1]) ELSE Right(node[i - 1])
  IN [leaf |-> Hash(node[depth]), path |-> [h \in 1 .. depth |-> Hash(sibling(depth - h + 1))]]

(* merkle_root_from_branch: what a leaf and its siblings hash to. *)
AlwaysLeft(leaf, path, index) ==                            \* RootFromBranch: a mistake
  Climb(leaf, [i \in 0 .. Depth - 1 |-> path[i + 1]], {})[Depth]
RootFromBranch(leaf, path, index) ==
  Climb(leaf, [i \in 0 .. Depth - 1 |-> path[i + 1]], Bits(index))[Depth]

-----------------------------------------------------------------------------
(* incremental.rs *)

EmptyIncremental == [branch |-> [i \in 0 .. (Depth - 1) |-> ZeroHash[i]], count |-> 0]

(* assert!(self.count < u32::MAX as usize), for a tree of 2^32 leaves. *)
HasRoom(inc) == inc.count < Pow2[Depth] - 1

(* The element is hashed with the branches on its left up to the first height *)
(* where the new count has a bit, and becomes the branch there.               *)
AlwaysLowest(size) == 0                                     \* HeightFor: a mistake
HeightFor(size) ==
  CHOOSE i \in 0 .. Depth : Bit(size, i) = 1 /\ \A j \in 0 .. (i - 1) : Bit(size, j) = 0

IncrementalIngest(inc, elem) ==
  LET size == inc.count + 1
      height == HeightFor(size)
      node == Climb(elem, inc.branch, 0 .. Depth - 1)
  IN [branch |-> [inc.branch EXCEPT ![height] = node[height]], count |-> size]

IncrementalRoot(inc) ==
  LET sibling == [i \in 0 .. Depth - 1 |-> IF i \in Bits(inc.count) THEN inc.branch[i] ELSE ZeroHash[i]]
  IN Climb(Zero, sibling, Bits(inc.count))[Depth]
=============================================================================
