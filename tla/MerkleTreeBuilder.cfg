\* Every sequence of up to eight leaves in a tree of depth three, in any steps of checkpoints.
SPECIFICATION BuilderSpec
CONSTANTS
  Depth = 3
  Zero = Zero
  Elements = {a, b}
  MaxLeaves = 8
INVARIANTS
  RootsAgree
  ProofsVerify
  ProofsBind
CHECK_DEADLOCK FALSE
