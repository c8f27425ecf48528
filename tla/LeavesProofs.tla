---------------------------- MODULE LeavesProofs ----------------------------
(***************************************************************************)
(* Proofs about the leaves of the outbox: how they are indexed into the DB *)
(* (OutboxSync), and the Merkle trees built over them (Accumulators and    *)
(* MerkleTreeBuilder).                                                     *)
(*                                                                         *)
(* The message indexer, for any number of messages and blocks, any chunk   *)
(* size and any number of wrong answers and crashes: the types, that the   *)
(* latest index moves leaf by leaf, that nothing below it is missing, and  *)
(* that the indexer resumes before everything it has not got.              *)
(*                                                                         *)
(* The trees, for any depth, any leaves and any checkpoints: that both     *)
(* accumulators compute the contract's root, and what the proofs show.     *)
(* Both are compared with Level, the hashes of each height over the first  *)
(* n leaves: the tree is Built, whose hashes they are (BuiltHash), and     *)
(* push_leaf makes the tree of n + 1 leaves of that of n (PushBuilt); the  *)
(* branches are a Frontier of them (IngestIs, RootIs); and a proof is the  *)
(* siblings of the blocks that hold its leaf (ProofIs).                    *)
(***************************************************************************)
EXTENDS OutboxSync, MerkleTreeBuilder, FiniteSetTheorems, SequenceTheorems, WellFoundedInduction, TLAPS

-----------------------------------------------------------------------------
(* The least leaf of a set of leaves is one of them: of the sets of leaves   *)
(* below a leaf of the set, a least one is empty.                            *)
LEMMA LeastIsIn ==
  ASSUME NEW T \in SUBSET Leaves, T # {}
  PROVE  Least(T) \in T /\ \A j \in T : Least(T) <= j
<1> DEFINE Below(i) == {j \in T : j < i}
           belows == {Below(i) : i \in T}
<1>1. \A j \in T : j \in Int
  BY DEF Leaves
<1>2. IsFiniteSet(Leaves)
  BY OutboxSyncAssumption, FS_Interval DEF Leaves
<1>3. belows \subseteq FiniteSubsetsOf(Leaves)
  <2>1. \A i \in T : Below(i) \in SUBSET Leaves
    OBVIOUS
  <2>2. \A i \in T : IsFiniteSet(Below(i))
    BY <1>2, <2>1, FS_Subset
  <2> QED
    BY <2>1, <2>2 DEF FiniteSubsetsOf
<1>4. belows # {}
  <2>1. PICK i \in T : TRUE
    OBVIOUS
  <2>2. Below(i) \in belows
    BY <2>1
  <2> QED
    BY <2>2
<1>5. PICK smallest \in belows : \A b \in belows : ~ (<<b, smallest>> \in StrictSubsetOrdering(Leaves))
  <2> HIDE DEF belows
  <2> QED
    BY <1>3, <1>4, FS_StrictSubsetOrderingWellFounded, WFMin
<1>6. PICK i \in T : smallest = Below(i)
  BY <1>5
<1>7. ASSUME NEW j \in T, j < i
      PROVE  FALSE
  <2>1. ASSUME NEW k \in Below(j)
        PROVE  k \in Below(i)
    BY <1>1, <1>7, <2>1
  <2>2. j \in Below(i) /\ j \notin Below(j)
    BY <1>1, <1>7
  <2>3. <<Below(j), Below(i)>> \in StrictSubsetOrdering(Leaves)
    BY <2>1, <2>2 DEF StrictSubsetOrdering
  <2>4. Below(j) \in belows
    OBVIOUS
  <2> QED
    BY <1>5, <1>6, <2>3, <2>4
<1>8. \A j \in T : i <= j
  BY <1>1, <1>7
<1> QED
  BY <1>8 DEF Least

-----------------------------------------------------------------------------
(***************************************************************************)
(* The inductive invariant.                                                *)
(***************************************************************************)
(* Messages are dispatched in leaf order, none before the configured block. *)
Chain ==
  /\ \A l \in Leaves : ConfigFrom <= blockOf[l]
  /\ \A k, l \in Leaves : k <= l => blockOf[k] <= blockOf[l]

BatchStates == {"leaf", "index", "message"}

(* What is left of a batch goes on, without a gap, from the latest index, and *)
(* a first batch from base; all of it is from the range being indexed.        *)
BatchInv ==
  /\ pc \in BatchStates <=> batch # {}
  /\ NoGaps(batch)
  /\ \A l \in batch : FullChunkFrom <= blockOf[l]
  /\ pc \in {"leaf", "index"} => \A l \in batch : latest < l
  /\ pc \in {"leaf", "index"} /\ latest # NoLeaf => latest + 1 \in batch
  /\ pc \in {"leaf", "index"} /\ latest = NoLeaf => base = Storing
  /\ pc = "index" => Storing \in leafRow
  /\ pc = "message" => Storing = latest /\ Storing \in leafRow
  /\ pc = "range" => latest # NoLeaf /\ FullChunkFrom <= blockOf[latest]

(* There is a first accepted index as soon as there is a latest one. *)
BaseInv == latest # NoLeaf => base # NoLeaf

OutboxInv == TypeOK /\ Chain /\ BatchInv /\ BaseInv /\ StoredUpToLatest /\ MissingIsAhead

(* As long as no answer was wrong, nothing lies before the next range while   *)
(* there is no latest index, and a range reaches back to where it starts.     *)
StartInv ==
  /\ pc = "fetch" => to <= from + ChunkSize
  /\ latest = NoLeaf /\ flaky = 0 => \A l \in Leaves : from <= blockOf[l]
  /\ FirstIsKept

LEMMA Numbers ==
  /\ Leaves \subseteq Nat /\ Blocks \subseteq Nat
  /\ \A b \in Blocks : b <= MaxBlock
  /\ NoLeaf \notin Leaves /\ NoBlock \notin Blocks
  /\ ConfigFrom \in Blocks /\ 0 \in Blocks /\ 0 \in Leaves
BY OutboxSyncAssumption DEF Leaves, Blocks, NoLeaf, NoBlock

LEMMA OutboxInvInit == Init => OutboxInv
<1> SUFFICES ASSUME Init
             PROVE  OutboxInv
  OBVIOUS
<1> USE OutboxSyncAssumption DEF Init
<1>1. blockOf \in [Leaves -> ConfigFrom .. MaxBlock]
  OBVIOUS
<1>2. TypeOK
  BY <1>1, Numbers DEF TypeOK, Blocks
<1>3. Chain
  BY <1>1 DEF Chain
<1>4. BatchInv
  BY DEF BatchInv, BatchStates, NoGaps
<1>5. StoredUpToLatest
  BY Numbers DEF StoredUpToLatest, NoLeaf
<1>6. MissingIsAhead
  BY <1>1, Numbers DEF MissingIsAhead, NoBlock
<1> QED
  BY <1>2, <1>3, <1>4, <1>5, <1>6 DEF OutboxInv, BaseInv

-----------------------------------------------------------------------------
(***************************************************************************)
(* Each step keeps it.                                                     *)
(***************************************************************************)

LEMMA GetTipStep ==
  ASSUME OutboxInv, GetTip
  PROVE  OutboxInv'
<1> USE OutboxSyncAssumption, Numbers DEF GetTip, OutboxInv, dbVars
<1>1. TypeOK'
  BY DEF TypeOK, Flaky, Blocks
<1>2. Chain' /\ BaseInv'
  BY DEF Chain, BaseInv
<1>3. BatchInv'
  BY DEF BatchInv, BatchStates, NoGaps
<1>4. StoredUpToLatest'
  BY DEF StoredUpToLatest
<1>5. MissingIsAhead'
  BY DEF MissingIsAhead
<1> QED
  BY <1>1, <1>2, <1>3, <1>4, <1>5

(* An answer that is not accepted: nothing to store, no continuation, a gap. *)
LEMMA PassedOverStep ==
  ASSUME OutboxInv, pc = "fetch", pc' \in {"tip", "stopped"},
         from' \in {from, ReindexFrom, NextFrom},
         flaky' \in 0 .. MaxFlaky,
         UNCHANGED <<blockOf, height, to, lastValid, batch, dbVars, base, torn, crashes>>
  PROVE  OutboxInv'
<1> USE OutboxSyncAssumption, Numbers DEF OutboxInv, dbVars
<1>1. TypeOK'
  BY DEF TypeOK, Blocks, ReindexFrom, NextFrom
<1>2. Chain' /\ BaseInv'
  BY DEF Chain, BaseInv
<1>3. BatchInv'
  BY DEF BatchInv, BatchStates, NoGaps
<1>4. StoredUpToLatest'
  BY DEF StoredUpToLatest
<1>5. MissingIsAhead'
  BY DEF MissingIsAhead
<1> QED
  BY <1>1, <1>2, <1>3, <1>4, <1>5

(* An accepted answer continues from the latest index, or sets base. *)
LEMMA AcceptStep ==
  ASSUME OutboxInv, pc = "fetch", pc' = "leaf", flaky' \in 0 .. MaxFlaky,
         NEW new \in SUBSET Dispatched(FullChunkFrom, to),
         new # {}, \A l \in new : l > latest, Continues(new), NoGaps(new),
         batch' = new,
         base' = IF latest = NoLeaf THEN Least(new) ELSE base,
         UNCHANGED <<blockOf, height, from, to, lastValid, dbVars, torn, crashes>>
  PROVE  OutboxInv'
<1> USE OutboxSyncAssumption, Numbers DEF OutboxInv, dbVars
<1>1. new \in SUBSET Leaves /\ \A l \in new : FullChunkFrom <= blockOf[l]
  BY DEF Dispatched
<1>2. Least(new) \in new
  BY <1>1, LeastIsIn
<1>3. TypeOK'
  BY <1>1, <1>2 DEF TypeOK
<1>4. Chain' /\ BaseInv'
  BY <1>1, <1>2 DEF Chain, BaseInv
<1>5. BatchInv'
  BY <1>1 DEF BatchInv, BatchStates, NoGaps, Continues, Storing, TypeOK, FullChunkFrom
<1>6. StoredUpToLatest'
  BY <1>1, <1>2 DEF StoredUpToLatest, NoLeaf, TypeOK
<1>7. MissingIsAhead'
  BY DEF MissingIsAhead
<1> QED
  BY <1>3, <1>4, <1>5, <1>6, <1>7

LEMMA FetchStep ==
  ASSUME OutboxInv, Fetch
  PROVE  OutboxInv'
<1>1. PICK answer \in SUBSET Dispatched(FullChunkFrom, to) :
        LET new == {l \in answer : l > latest} IN
        /\ IF answer = Dispatched(FullChunkFrom, to) THEN UNCHANGED flaky ELSE Flaky
        /\ \/ /\ new = {}
              /\ from' = NextFrom
              /\ pc' = "tip"
              /\ UNCHANGED <<batch, base>>
           \/ /\ new # {} /\ ~ Continues(new)
              /\ from' = ReindexFrom
              /\ pc' = "tip"
              /\ UNCHANGED <<batch, base>>
           \/ /\ new # {} /\ Continues(new) /\ ~ NoGaps(new)
              /\ pc' = "tip"
              /\ UNCHANGED <<from, batch, base>>
           \/ /\ new # {} /\ Continues(new) /\ NoGaps(new)
              /\ batch' = new
              /\ pc' = "leaf"
              /\ base' = IF latest = NoLeaf THEN Least(new) ELSE base
              /\ UNCHANGED from
  BY DEF Fetch
<1> DEFINE new == {l \in answer : l > latest}
<1>2. flaky' \in 0 .. MaxFlaky
  BY <1>1, OutboxSyncAssumption DEF OutboxInv, TypeOK, Flaky
<1>3. pc = "fetch" /\ UNCHANGED <<blockOf, height, to, lastValid, dbVars, torn, crashes>>
  BY DEF Fetch
<1>4. new \in SUBSET Dispatched(FullChunkFrom, to) /\ \A l \in new : l > latest
  OBVIOUS
<1> HIDE DEF new
<1>5. CASE pc' = "leaf" /\ new # {} /\ Continues(new) /\ NoGaps(new) /\ batch' = new
           /\ base' = (IF latest = NoLeaf THEN Least(new) ELSE base) /\ UNCHANGED from
  BY <1>2, <1>3, <1>4, <1>5, AcceptStep
<1>6. CASE pc' = "tip" /\ from' \in {from, ReindexFrom, NextFrom} /\ UNCHANGED <<batch, base>>
  BY <1>2, <1>3, <1>6, PassedOverStep
<1> QED
  BY <1>1, <1>5, <1>6 DEF new

LEMMA FetchFailsStep ==
  ASSUME OutboxInv, FetchFails
  PROVE  OutboxInv'
<1>1. flaky' \in 0 .. MaxFlaky
  BY OutboxSyncAssumption DEF OutboxInv, TypeOK, FetchFails, Flaky
<1> QED
  BY <1>1, PassedOverStep DEF FetchFails

(* The leaf being stored. *)
LEMMA StoringIsLeast ==
  ASSUME TypeOK, batch # {}
  PROVE  Storing \in batch /\ Storing \in Leaves /\ \A l \in batch : Storing <= l
BY LeastIsIn DEF Storing, TypeOK

LEMMA PutLeafStep ==
  ASSUME OutboxInv, PutLeaf
  PROVE  OutboxInv'
<1> USE OutboxSyncAssumption, Numbers DEF PutLeaf, OutboxInv
<1>1. Storing \in Leaves /\ Storing' = Storing
  BY StoringIsLeast DEF BatchInv, BatchStates, Storing
<1>2. TypeOK'
  BY <1>1 DEF TypeOK
<1>3. Chain' /\ BaseInv'
  BY DEF Chain, BaseInv
<1>4. BatchInv'
  BY <1>1 DEF BatchInv, BatchStates, NoGaps, FullChunkFrom
<1>5. StoredUpToLatest'
  BY DEF StoredUpToLatest
<1>6. MissingIsAhead'
  BY DEF MissingIsAhead
<1> QED
  BY <1>2, <1>3, <1>4, <1>5, <1>6

(* The leaf being stored comes right after the latest index. *)
LEMMA StoringIsNext ==
  ASSUME OutboxInv, pc = "index"
  PROVE  Storing \in batch /\ Storing \in Leaves /\ Storing > latest
         /\ (latest # NoLeaf => Storing = latest + 1)
<1>1. TypeOK /\ BatchInv /\ batch # {}
  BY DEF OutboxInv, BatchInv, BatchStates
<1>2. Storing \in batch /\ Storing \in Leaves /\ \A l \in batch : Storing <= l
  BY <1>1, StoringIsLeast
<1>3. Storing > latest /\ (latest # NoLeaf => latest + 1 \in batch)
  BY <1>1, <1>2, Numbers DEF BatchInv, TypeOK, NoLeaf
<1>4. latest # NoLeaf => Storing <= latest + 1
  BY <1>2, <1>3
<1> QED
  BY <1>1, <1>2, <1>3, <1>4, Numbers DEF TypeOK

LEMMA PutIndexStep ==
  ASSUME OutboxInv, PutIndex
  PROVE  OutboxInv'
<1> USE OutboxSyncAssumption, Numbers DEF PutIndex, OutboxInv
<1>1. Storing \in batch /\ Storing \in Leaves /\ Storing > latest /\ Storing' = Storing
      /\ (latest # NoLeaf => Storing = latest + 1) /\ latest' = Storing
  BY StoringIsNext DEF Storing
<1>2. TypeOK'
  BY <1>1 DEF TypeOK
<1>3. Chain'
  BY DEF Chain
<1>4. BaseInv'
  BY <1>1 DEF BaseInv, BatchInv, NoLeaf
<1>5. BatchInv'
  BY <1>1 DEF BatchInv, BatchStates, NoGaps, FullChunkFrom
<1>6. StoredUpToLatest'
  <2> SUFFICES ASSUME NEW l \in Leaves, base <= l, l <= latest'
               PROVE  l \in leafRow /\ (l \in messageRow \cup torn \/ l = Storing)
    BY <1>1 DEF StoredUpToLatest
  <2>1. CASE l = Storing
    BY <2>1 DEF BatchInv
  <2>2. CASE l # Storing
    <3>1. latest = NoLeaf => base = Storing
      BY DEF BatchInv
    <3>2. latest # NoLeaf
      BY <1>1, <2>2, <3>1
    <3>3. l <= latest
      BY <1>1, <2>2, <3>2 DEF TypeOK
    <3> QED
      BY <3>3 DEF StoredUpToLatest
  <2> QED
    BY <2>1, <2>2
<1>7. MissingIsAhead'
  <2> SUFFICES ASSUME NEW l \in Leaves, l > latest'
               PROVE  lastValid <= blockOf[l] /\ rangeStart <= blockOf[l]
    BY DEF MissingIsAhead
  <2>1. l > latest
    BY <1>1 DEF TypeOK, NoLeaf
  <2> QED
    BY <2>1 DEF MissingIsAhead
<1> QED
  BY <1>2, <1>3, <1>4, <1>5, <1>6, <1>7

LEMMA PutMessageStep ==
  ASSUME OutboxInv, PutMessage
  PROVE  OutboxInv'
<1> USE OutboxSyncAssumption, Numbers DEF PutMessage, OutboxInv
<1>1. Storing \in batch /\ Storing \in Leaves /\ Storing = latest
      /\ \A l \in batch : Storing <= l
  BY StoringIsLeast DEF BatchInv, BatchStates
<1>2. batch' \in SUBSET batch /\ Storing \notin batch' /\ \A l \in batch' : latest < l
  BY <1>1 DEF TypeOK
<1>3. NoGaps(batch')
  <2> SUFFICES ASSUME NEW k \in batch', NEW l \in batch', NEW j \in k .. l
               PROVE  j \in batch'
    BY DEF NoGaps
  <2>1. j \in batch
    BY <1>2 DEF BatchInv, NoGaps
  <2>2. k \in Nat /\ l \in Nat /\ k > latest /\ latest \in Nat
    BY <1>1, <1>2 DEF TypeOK
  <2>3. j # Storing
    BY <1>1, <2>2
  <2> QED
    BY <2>1, <2>3
<1>4. ASSUME batch' # {}
      PROVE  latest + 1 \in batch'
  <2>1. PICK m \in batch' : TRUE
    BY <1>4
  <2>2. m \in batch /\ m \in Nat /\ latest \in Nat /\ m > latest
    BY <1>1, <1>2, <2>1 DEF TypeOK
  <2>3. latest + 1 \in Storing .. m
    BY <1>1, <2>2
  <2>4. latest + 1 \in batch
    BY <1>1, <2>2, <2>3 DEF BatchInv, NoGaps
  <2> QED
    BY <1>1, <2>2, <2>4
<1>5. batch = {Storing} <=> batch' = {}
  BY <1>1
<1>6. TypeOK'
  BY <1>1, <1>2 DEF TypeOK
<1>7. Chain' /\ BaseInv'
  BY DEF Chain, BaseInv
<1>8. BatchInv'
  <2>1. latest # NoLeaf /\ FullChunkFrom <= blockOf[latest] /\ \A l \in batch' : FullChunkFrom <= blockOf[l]
    BY <1>1, <1>2 DEF BatchInv
  <2> QED
    BY <1>2, <1>3, <1>4, <1>5, <2>1 DEF BatchInv, BatchStates, NoGaps, FullChunkFrom
<1>9. StoredUpToLatest'
  BY DEF StoredUpToLatest
<1>10. MissingIsAhead'
  BY DEF MissingIsAhead
<1> QED
  BY <1>6, <1>7, <1>8, <1>9, <1>10

LEMMA PutRangeStartStep ==
  ASSUME OutboxInv, PutRangeStart
  PROVE  OutboxInv'
<1> USE OutboxSyncAssumption, Numbers DEF PutRangeStart, OutboxInv, ValidRangeStart
<1>1. FullChunkFrom \in Blocks
  BY DEF FullChunkFrom, TypeOK, Blocks
<1>2. TypeOK'
  BY <1>1 DEF TypeOK, NextFrom, Blocks
<1>3. Chain' /\ BaseInv'
  BY DEF Chain, BaseInv
<1>4. BatchInv'
  BY DEF BatchInv, BatchStates, NoGaps, FullChunkFrom
<1>5. StoredUpToLatest'
  BY DEF StoredUpToLatest
<1>6. MissingIsAhead'
  <2> SUFFICES ASSUME NEW l \in Leaves, l > latest
               PROVE  FullChunkFrom <= blockOf[l]
    BY DEF MissingIsAhead
  <2>1. latest \in Leaves /\ FullChunkFrom <= blockOf[latest]
    BY DEF BatchInv, TypeOK
  <2>2. latest <= l
    BY <2>1
  <2>3. blockOf[latest] <= blockOf[l]
    BY <2>1, <2>2 DEF Chain
  <2>4. blockOf[l] \in Nat /\ blockOf[latest] \in Nat /\ FullChunkFrom \in Nat
    BY <1>1, <2>1 DEF TypeOK
  <2> QED
    BY <2>1, <2>3, <2>4
<1> QED
  BY <1>2, <1>3, <1>4, <1>5, <1>6

(* A start resumes from a block before everything that is missing. *)
LEMMA StartStep ==
  ASSUME OutboxInv, Start, crashes' \in 0 .. MaxCrashes,
         torn' = IF pc = "message" THEN torn \cup {Storing} ELSE torn
  PROVE  OutboxInv'
<1> USE OutboxSyncAssumption, Numbers DEF Start, OutboxInv, dbVars
<1>1. pc = "message" => Storing \in Leaves
  BY StoringIsLeast DEF BatchInv, BatchStates
<1>2. TypeOK'
  <2>1. from' \in Blocks /\ lastValid' \in Blocks
    BY DEF TypeOK
  <2>2. torn' \in SUBSET Leaves
    BY <1>1 DEF TypeOK
  <2>3. from' \in 0 .. (MaxBlock + 1)
    <3>1. from' \in Nat /\ from' <= MaxBlock
      BY ONLY <2>1, Numbers
    <3> QED
      BY ONLY <3>1, OutboxSyncAssumption
  <2> QED
    BY <2>1, <2>2, <2>3 DEF TypeOK
<1>3. Chain' /\ BaseInv'
  BY DEF Chain, BaseInv
<1>4. BatchInv'
  BY DEF BatchInv, BatchStates, NoGaps
<1>5. StoredUpToLatest'
  BY DEF StoredUpToLatest
<1>6. MissingIsAhead'
  BY DEF MissingIsAhead, Chain
<1> QED
  BY <1>2, <1>3, <1>4, <1>5, <1>6

LEMMA FinalizeStep ==
  ASSUME OutboxInv, FinalizeBlock \/ UNCHANGED vars
  PROVE  OutboxInv'
<1> USE OutboxSyncAssumption DEF FinalizeBlock, vars, OutboxInv, dbVars
<1>1. TypeOK'
  BY DEF TypeOK, Blocks
<1>2. Chain' /\ BaseInv'
  BY DEF Chain, BaseInv
<1>3. BatchInv'
  BY DEF BatchInv, NoGaps, FullChunkFrom, Storing
<1>4. StoredUpToLatest' /\ MissingIsAhead'
  BY DEF StoredUpToLatest, MissingIsAhead, Storing
<1> QED
  BY <1>1, <1>2, <1>3, <1>4

LEMMA OutboxInvStep == OutboxInv /\ [Next]_vars => OutboxInv'
<1> SUFFICES ASSUME OutboxInv, [Next]_vars
             PROVE  OutboxInv'
  OBVIOUS
<1>1. CASE Crash
  <2>1. crashes' \in 0 .. MaxCrashes
    BY <1>1, OutboxSyncAssumption DEF Crash, OutboxInv, TypeOK
  <2> QED
    BY <1>1, <2>1, StartStep DEF Crash
<1>2. CASE RestartAfterExit
  BY <1>2, StartStep DEF RestartAfterExit, OutboxInv, TypeOK
<1>3. CASE FinalizeBlock \/ UNCHANGED vars
  BY <1>3, FinalizeStep
<1>4. CASE Sync
  BY <1>4, GetTipStep, FetchStep, FetchFailsStep, PutLeafStep, PutIndexStep,
     PutMessageStep, PutRangeStartStep DEF Sync
<1> QED
  BY <1>1, <1>2, <1>3, <1>4 DEF Next

(* The first message is in the first answer that is not empty and not wrong. *)
LEMMA FetchStart ==
  ASSUME OutboxInv, StartInv, Fetch
  PROVE  StartInv'
<1> USE OutboxSyncAssumption, Numbers DEF Fetch, OutboxInv, dbVars
<1>1. PICK answer \in SUBSET Dispatched(FullChunkFrom, to) :
        LET new == {l \in answer : l > latest} IN
        /\ IF answer = Dispatched(FullChunkFrom, to) THEN UNCHANGED flaky ELSE Flaky
        /\ \/ /\ new = {}
              /\ from' = NextFrom
              /\ pc' = "tip"
              /\ UNCHANGED <<batch, base>>
           \/ /\ new # {} /\ ~ Continues(new)
              /\ from' = ReindexFrom
              /\ pc' = "tip"
              /\ UNCHANGED <<batch, base>>
           \/ /\ new # {} /\ Continues(new) /\ ~ NoGaps(new)
              /\ pc' = "tip"
              /\ UNCHANGED <<from, batch, base>>
           \/ /\ new # {} /\ Continues(new) /\ NoGaps(new)
              /\ batch' = new
              /\ pc' = "leaf"
              /\ base' = IF latest = NoLeaf THEN Least(new) ELSE base
              /\ UNCHANGED from
  OBVIOUS
<1> DEFINE new == {l \in answer : l > latest}
<1>2. pc' # "fetch" /\ latest' = latest /\ blockOf' = blockOf /\ to' = to
  BY <1>1
<1>3. flaky \in Nat /\ flaky' \in Nat /\ (flaky' = 0 => flaky = 0 /\ answer = Dispatched(FullChunkFrom, to))
  BY <1>1 DEF TypeOK, Flaky
<1>4. CASE flaky' # 0
  BY <1>2, <1>3, <1>4 DEF StartInv, FirstIsKept
<1>5. CASE flaky' = 0 /\ latest # NoLeaf
  BY <1>1, <1>2, <1>3, <1>5 DEF StartInv, FirstIsKept
<1>6. CASE flaky' = 0 /\ latest = NoLeaf
  <2>1. \A l \in Leaves : blockOf[l] \in Nat /\ from <= blockOf[l]
    BY <1>3, <1>6 DEF StartInv, TypeOK
  <2>2. from \in Nat /\ to \in Nat /\ FullChunkFrom \in Nat /\ FullChunkFrom <= from
    <3>1. to \in Blocks /\ from \in 0 .. (MaxBlock + 1) /\ to <= from + ChunkSize
      BY DEF StartInv, TypeOK
    <3>2. to \in Nat /\ from \in Nat /\ ChunkSize \in Nat
      BY <3>1 DEF Blocks
    <3> QED
      BY ONLY <3>1, <3>2 DEF FullChunkFrom
  <2>3. new = {l \in Leaves : blockOf[l] <= to}
    <3>1. answer = Dispatched(FullChunkFrom, to)
      BY <1>3, <1>6
    <3>2. \A l \in Leaves : FullChunkFrom <= blockOf[l]
      BY ONLY <2>1, <2>2
    <3>3. \A l \in Leaves : l > latest
      BY <1>6, OutboxSyncAssumption DEF NoLeaf, Leaves
    <3> QED
      BY ONLY <3>1, <3>2, <3>3 DEF Dispatched
  <2>4. CASE new = {}
    <3>1. \A l \in Leaves : ~ (blockOf[l] <= to)
      BY <2>3, <2>4
    <3>2. \A l \in Leaves : to + 1 <= blockOf[l]
      BY ONLY <2>1, <2>2, <3>1
    <3>3. base' = base /\ from' = to + 1
      BY <1>1, <2>4 DEF NextFrom
    <3> QED
      BY <1>2, <1>3, <1>6, <3>2, <3>3 DEF StartInv, FirstIsKept
  <2>5. CASE new # {}
    <3>1. Continues(new)
      BY <1>6 DEF Continues
    <3>2. from' = from /\ base' \in {base, Least(new)}
      <4>1. \/ new = {} /\ from' = NextFrom /\ UNCHANGED base
            \/ ~ Continues(new)
            \/ UNCHANGED <<from, base>>
            \/ base' = (IF latest = NoLeaf THEN Least(new) ELSE base) /\ UNCHANGED from
        BY ONLY <1>1
      <4> HIDE DEF new
      <4> QED
        BY ONLY <1>6, <2>5, <3>1, <4>1
    <3>3. 0 \in new
      <4>1. PICK l \in new : TRUE
        BY <2>5
      <4>2. l \in Leaves /\ l \in Nat /\ blockOf[l] <= to
        BY <2>3, <4>1
      <4>3. 0 \in Leaves /\ blockOf[0] <= blockOf[l]
        BY <4>2 DEF Chain
      <4>4. blockOf[0] <= to
        BY <2>1, <2>2, <4>2, <4>3
      <4> QED
        BY <2>3, <4>3, <4>4
    <3>4. new \in SUBSET Leaves
      BY <2>3
    <3>5. Least(new) = 0
      <4>1. Least(new) \in Nat /\ Least(new) <= 0
        BY <2>5, <3>3, <3>4, LeastIsIn
      <4> QED
        BY <4>1
    <3>6. FirstIsKept'
      BY <1>3, <1>6, <3>2, <3>5 DEF StartInv, FirstIsKept
    <3> QED
      BY <1>2, <2>1, <3>2, <3>6 DEF StartInv
  <2> QED
    BY <2>4, <2>5
<1> QED
  BY <1>4, <1>5, <1>6

LEMMA StartInvStep == OutboxInv /\ StartInv /\ [Next]_vars => StartInv'
<1> SUFFICES ASSUME OutboxInv, StartInv, [Next]_vars
             PROVE  StartInv'
  OBVIOUS
<1> USE OutboxSyncAssumption DEF OutboxInv, dbVars
<1>1. CASE GetTip
  <2>1. to' <= from' + ChunkSize
    BY <1>1 DEF GetTip, TypeOK, Blocks
  <2>2. flaky \in Nat /\ flaky' \in Nat /\ (flaky' = 0 => flaky = 0)
    BY <1>1 DEF GetTip, Flaky, TypeOK
  <2> QED
    BY <1>1, <2>1, <2>2 DEF GetTip, StartInv, FirstIsKept
<1>2. CASE Fetch
  BY <1>2, FetchStart
<1>3. CASE FetchFails
  BY <1>3 DEF FetchFails, Flaky, StartInv, FirstIsKept, TypeOK
<1>4. CASE PutIndex
  <2>1. latest' # NoLeaf
    BY <1>4, StoringIsNext, Numbers DEF PutIndex
  <2> QED
    BY <1>4, <2>1 DEF PutIndex, StartInv, FirstIsKept
<1>5. CASE PutRangeStart
  BY <1>5 DEF PutRangeStart, StartInv, FirstIsKept, BatchInv
<1>6. CASE PutLeaf \/ PutMessage
  BY <1>6 DEF PutLeaf, PutMessage, StartInv, FirstIsKept
<1>7. CASE Crash \/ RestartAfterExit
  <2>1. Start
    BY <1>7 DEF Crash, RestartAfterExit
  <2>2. ASSUME latest = NoLeaf, NEW l \in Leaves
        PROVE  from' <= blockOf[l]
    BY <2>1, <2>2, Numbers DEF Start, MissingIsAhead, Chain, NoLeaf
  <2> QED
    BY <2>1, <2>2 DEF Start, StartInv, FirstIsKept
<1>8. CASE FinalizeBlock \/ UNCHANGED vars
  BY <1>8 DEF FinalizeBlock, vars, StartInv, FirstIsKept
<1> QED
  BY <1>1, <1>2, <1>3, <1>4, <1>5, <1>6, <1>7, <1>8 DEF Next, Sync

-----------------------------------------------------------------------------
(***************************************************************************)
(* The theorems.                                                           *)
(***************************************************************************)
(* The invariant holds of the whole loop of sync_outbox_messages, through   *)
(* wrong answers, crashes and restarts.                                     *)
THEOREM OutboxInvariant == Spec => []OutboxInv
BY OutboxInvInit, OutboxInvStep, PTL DEF Spec

(* The loop's variables and the rows keep their types: no block beyond the  *)
(* tip is resumed from, no row is of a leaf that was not dispatched.        *)
THEOREM OutboxTypeCorrect == Spec => []TypeOK
<1>1. OutboxInv => TypeOK
  BY DEF OutboxInv
<1> QED
  BY <1>1, OutboxInvariant, PTL

(* store_messages leaves no hole below the latest index, but for the MESSAGE *)
(* rows that a crash tore off.                                               *)
THEOREM StoredUpToLatestHolds == Spec => []StoredUpToLatest
<1>1. OutboxInv => StoredUpToLatest
  BY DEF OutboxInv
<1> QED
  BY <1>1, OutboxInvariant, PTL

(* What sync_outbox_messages re-indexes from after an invalid continuation,  *)
(* and resumes from after a restart, is before every message it lacks.       *)
THEOREM MissingIsAheadHolds == Spec => []MissingIsAhead
<1>1. OutboxInv => MissingIsAhead
  BY DEF OutboxInv
<1> QED
  BY <1>1, OutboxInvariant, PTL

(* sync_outbox_messages begins with the first message unless the provider   *)
(* gave it a wrong or an old answer.                                        *)
THEOREM FirstIsKeptHolds == Spec => []FirstIsKept
<1>1. Init => StartInv
  BY OutboxSyncAssumption, Numbers DEF Init, StartInv, FirstIsKept, NoLeaf
<1>2. StartInv => FirstIsKept
  BY DEF StartInv
<1> QED
  BY <1>1, <1>2, StartInvStep, OutboxInvariant, PTL DEF Spec

(* update_latest_leaf_index moves the latest index by one leaf, once there is *)
(* one: valid_continuation and the check for gaps let nothing else through.   *)
THEOREM LatestIsDenseHolds == Spec => LatestIsDense
<1> DEFINE Dense == latest' # latest => latest = NoLeaf \/ latest' = latest + 1
<1>1. OutboxInv /\ [Next]_vars => [Dense]_vars
  <2> SUFFICES ASSUME OutboxInv, [Next]_vars, latest' # latest
               PROVE  latest = NoLeaf \/ latest' = latest + 1
    OBVIOUS
  <2>1. PutIndex
    BY DEF Next, Sync, GetTip, Fetch, FetchFails, PutLeaf, PutMessage, PutRangeStart,
           Crash, RestartAfterExit, Start, FinalizeBlock, vars, dbVars
  <2> QED
    BY <2>1, StoringIsNext DEF PutIndex
<1> QED
  BY <1>1, OutboxInvariant, PTL DEF Spec, LatestIsDense

-----------------------------------------------------------------------------
(* The Merkle accumulators. *)

(* A set of naturals that is not empty has a least element.                  *)
LEMMA LeastNumber ==
  ASSUME NEW bad \in SUBSET Nat, bad # {}
  PROVE  \E n \in bad : \A m \in bad : n <= m
<1> DEFINE Less == {ss \in Nat \X Nat : ss[1] < ss[2]}
<1>1. IsWellFoundedOn(Less, Nat)
  BY NatLessThanWellFounded DEF OpToRel
<1>2. PICK n \in bad : \A m \in bad : ~ (<<m, n>> \in Less)
  <2> HIDE DEF Less
  <2> QED
    BY <1>1, WFMin
<1>3. ASSUME NEW m \in bad
      PROVE  n <= m
  <2>1. m \in Nat /\ n \in Nat /\ ~ (m < n)
    BY <1>2
  <2> QED
    BY <2>1
<1> QED
  BY <1>3

(* Induction, over a set of naturals.                                        *)
LEMMA Induction ==
  ASSUME NEW holds, 0 \in holds, \A n \in Nat : n \in holds => n + 1 \in holds
  PROVE  \A n \in Nat : n \in holds
<1> DEFINE fails == {n \in Nat : n \notin holds}
<1>1. SUFFICES ASSUME fails # {}
               PROVE  FALSE
  OBVIOUS
<1>2. PICK n \in fails : \A m \in fails : n <= m
  <2>1. fails \in SUBSET Nat
    OBVIOUS
  <2> HIDE DEF fails
  <2> QED
    BY <1>1, <2>1, LeastNumber
<1>3. n \in Nat /\ n # 0 /\ n - 1 \in Nat
  OBVIOUS
<1>4. n - 1 \in holds
  BY <1>2, <1>3
<1> QED
  BY <1>3, <1>4

(* The recursion of Pow2.  Each recursive function is what its recursion says: *)
(* functions that obey it up to n exist for every n, by induction.           *)
LEMMA Pow2Def ==
  Pow2 = [i \in 0 .. Depth |->
           IF i = 0 THEN 1 ELSE 2 * Pow2[i - 1]]
<1> DEFINE Step(prev, i) == IF i = 0 THEN 1 ELSE 2 * prev
           Made(f, n) == f = [i \in 0 .. n |-> Step(f[i - 1], i)]
           defined == {n \in Nat : \E f : Made(f, n)}
<1>1. \A p, q : Step(p, 0) = Step(q, 0)
  OBVIOUS
<1>2. 0 \in defined
  <2> HIDE DEF Step
  <2>1. Made([i \in 0 .. 0 |-> Step(0, 0)], 0)
    BY <1>1
  <2> QED
    BY <2>1
<1>3. ASSUME NEW n \in Nat, n \in defined
      PROVE  n + 1 \in defined
  <2> HIDE DEF Step
  <2>1. PICK f : Made(f, n)
    BY <1>3
  <2> DEFINE g == [i \in 0 .. n + 1 |-> IF i = n + 1 THEN Step(f[n], n + 1) ELSE f[i]]
  <2>2. ASSUME NEW i \in 0 .. n + 1
        PROVE  g[i] = Step(g[i - 1], i)
    <3>1. i \in 0 .. n => g[i] = Step(f[i - 1], i)
      BY <2>1
    <3> QED
      BY <1>1, <3>1
  <2>3. Made(g, n + 1)
    BY <2>2
  <2> HIDE DEF Made, g
  <2> QED
    BY <2>3
<1>4. Depth \in defined
  <2> HIDE DEF defined
  <2> QED
    BY <1>2, <1>3, Induction, DepthAssumption
<1> QED
  BY <1>4 DEF Pow2

(* The recursion of ZeroHash. *)
LEMMA ZeroHashDef ==
  ZeroHash = [i \in 0 .. Depth |->
           IF i = 0 THEN Zero ELSE HashConcat(ZeroHash[i - 1], ZeroHash[i - 1])]
<1> DEFINE Step(prev, i) == IF i = 0 THEN Zero ELSE HashConcat(prev, prev)
           Made(f, n) == f = [i \in 0 .. n |-> Step(f[i - 1], i)]
           defined == {n \in Nat : \E f : Made(f, n)}
<1>1. \A p, q : Step(p, 0) = Step(q, 0)
  OBVIOUS
<1>2. 0 \in defined
  <2> HIDE DEF Step
  <2>1. Made([i \in 0 .. 0 |-> Step(0, 0)], 0)
    BY <1>1
  <2> QED
    BY <2>1
<1>3. ASSUME NEW n \in Nat, n \in defined
      PROVE  n + 1 \in defined
  <2> HIDE DEF Step
  <2>1. PICK f : Made(f, n)
    BY <1>3
  <2> DEFINE g == [i \in 0 .. n + 1 |-> IF i = n + 1 THEN Step(f[n], n + 1) ELSE f[i]]
  <2>2. ASSUME NEW i \in 0 .. n + 1
        PROVE  g[i] = Step(g[i - 1], i)
    <3>1. i \in 0 .. n => g[i] = Step(f[i - 1], i)
      BY <2>1
    <3> QED
      BY <1>1, <3>1
  <2>3. Made(g, n + 1)
    BY <2>2
  <2> HIDE DEF Made, g
  <2> QED
    BY <2>3
<1>4. Depth \in defined
  <2> HIDE DEF defined
  <2> QED
    BY <1>2, <1>3, Induction, DepthAssumption
<1> QED
  BY <1>4 DEF ZeroHash

(* The recursion of Hashes. *)
LEMMA HashesDef ==
  Hashes = [i \in 0 .. Depth |->
           IF i = 0 THEN {Zero} \cup Elements ELSE Hashes[i - 1] \X Hashes[i - 1]]
<1> DEFINE Step(prev, i) == IF i = 0 THEN {Zero} \cup Elements ELSE prev \X prev
           Made(f, n) == f = [i \in 0 .. n |-> Step(f[i - 1], i)]
           defined == {n \in Nat : \E f : Made(f, n)}
<1>1. \A p, q : Step(p, 0) = Step(q, 0)
  OBVIOUS
<1>2. 0 \in defined
  <2> HIDE DEF Step
  <2>1. Made([i \in 0 .. 0 |-> Step(0, 0)], 0)
    BY <1>1
  <2> QED
    BY <2>1
<1>3. ASSUME NEW n \in Nat, n \in defined
      PROVE  n + 1 \in defined
  <2> HIDE DEF Step
  <2>1. PICK f : Made(f, n)
    BY <1>3
  <2> DEFINE g == [i \in 0 .. n + 1 |-> IF i = n + 1 THEN Step(f[n], n + 1) ELSE f[i]]
  <2>2. ASSUME NEW i \in 0 .. n + 1
        PROVE  g[i] = Step(g[i - 1], i)
    <3>1. i \in 0 .. n => g[i] = Step(f[i - 1], i)
      BY <2>1
    <3> QED
      BY <1>1, <3>1
  <2>3. Made(g, n + 1)
    BY <2>2
  <2> HIDE DEF Made, g
  <2> QED
    BY <2>3
<1>4. Depth \in defined
  <2> HIDE DEF defined
  <2> QED
    BY <1>2, <1>3, Induction, DepthAssumption
<1> QED
  BY <1>4 DEF Hashes

(* The recursion of Trees. *)
LEMMA TreesDef ==
  Trees = [i \in 0 .. Depth |->
           {ZeroTree(i)}
             \cup (IF i = 0 THEN {LeafTree(h) : h \in Elements}
                   ELSE [kind : {"node"}, hash : Hashes[i], left : Trees[i - 1], right : Trees[i - 1]])]
<1> DEFINE Step(prev, i) ==
             {ZeroTree(i)} \cup (IF i = 0 THEN {LeafTree(h) : h \in Elements}
                                 ELSE [kind : {"node"}, hash : Hashes[i], left : prev, right : prev])
           Made(f, n) == f = [i \in 0 .. n |-> Step(f[i - 1], i)]
           defined == {n \in Nat : \E f : Made(f, n)}
<1>1. \A p, q : Step(p, 0) = Step(q, 0)
  OBVIOUS
<1>2. 0 \in defined
  <2> HIDE DEF Step
  <2>1. Made([i \in 0 .. 0 |-> Step(0, 0)], 0)
    BY <1>1
  <2> QED
    BY <2>1
<1>3. ASSUME NEW n \in Nat, n \in defined
      PROVE  n + 1 \in defined
  <2> HIDE DEF Step
  <2>1. PICK f : Made(f, n)
    BY <1>3
  <2> DEFINE g == [i \in 0 .. n + 1 |-> IF i = n + 1 THEN Step(f[n], n + 1) ELSE f[i]]
  <2>2. ASSUME NEW i \in 0 .. n + 1
        PROVE  g[i] = Step(g[i - 1], i)
    <3>1. i \in 0 .. n => g[i] = Step(f[i - 1], i)
      BY <2>1
    <3> QED
      BY <1>1, <3>1
  <2>3. Made(g, n + 1)
    BY <2>2
  <2> HIDE DEF Made, g
  <2> QED
    BY <2>3
<1>4. Depth \in defined
  <2> HIDE DEF defined
  <2> QED
    BY <1>2, <1>3, Induction, DepthAssumption
<1> QED
  BY <1>4 DEF Trees

(* The recursion of Climb. *)
LEMMA ClimbDef ==
  ASSUME NEW leaf, NEW sibling, NEW lefts
  PROVE  Climb(leaf, sibling, lefts) = [i \in 0 .. Depth |->
           IF i = 0 THEN leaf
           ELSE IF i - 1 \in lefts THEN HashConcat(sibling[i - 1], Climb(leaf, sibling, lefts)[i - 1])
           ELSE HashConcat(Climb(leaf, sibling, lefts)[i - 1], sibling[i - 1])]
<1> DEFINE Step(prev, i) ==
             IF i = 0 THEN leaf
             ELSE IF i - 1 \in lefts THEN HashConcat(sibling[i - 1], prev)
             ELSE HashConcat(prev, sibling[i - 1])
           Made(f, n) == f = [i \in 0 .. n |-> Step(f[i - 1], i)]
           defined == {n \in Nat : \E f : Made(f, n)}
<1>1. \A p, q : Step(p, 0) = Step(q, 0)
  OBVIOUS
<1>2. 0 \in defined
  <2> HIDE DEF Step
  <2>1. Made([i \in 0 .. 0 |-> Step(0, 0)], 0)
    BY <1>1
  <2> QED
    BY <2>1
<1>3. ASSUME NEW n \in Nat, n \in defined
      PROVE  n + 1 \in defined
  <2> HIDE DEF Step
  <2>1. PICK f : Made(f, n)
    BY <1>3
  <2> DEFINE g == [i \in 0 .. n + 1 |-> IF i = n + 1 THEN Step(f[n], n + 1) ELSE f[i]]
  <2>2. ASSUME NEW i \in 0 .. n + 1
        PROVE  g[i] = Step(g[i - 1], i)
    <3>1. i \in 0 .. n => g[i] = Step(f[i - 1], i)
      BY <2>1
    <3> QED
      BY <1>1, <3>1
  <2>3. Made(g, n + 1)
    BY <2>2
  <2> HIDE DEF Made, g
  <2> QED
    BY <2>3
<1>4. Depth \in defined
  <2> HIDE DEF defined
  <2> QED
    BY <1>2, <1>3, Induction, DepthAssumption
<1> QED
  BY <1>4 DEF Climb

(* The recursion of Levels. *)
LEMMA LevelsDef ==
  ASSUME NEW bottom
  PROVE  Levels(bottom) = [i \in 0 .. Depth |->
           IF i = 0 THEN bottom
           ELSE [k \in Nat |-> HashConcat(Levels(bottom)[i - 1][2 * k], Levels(bottom)[i - 1][2 * k + 1])]]
<1> DEFINE Step(prev, i) == IF i = 0 THEN bottom ELSE [k \in Nat |-> HashConcat(prev[2 * k], prev[2 * k + 1])]
           Made(f, n) == f = [i \in 0 .. n |-> Step(f[i - 1], i)]
           defined == {n \in Nat : \E f : Made(f, n)}
<1>1. \A p, q : Step(p, 0) = Step(q, 0)
  OBVIOUS
<1>2. 0 \in defined
  <2> HIDE DEF Step
  <2>1. Made([i \in 0 .. 0 |-> Step(0, 0)], 0)
    BY <1>1
  <2> QED
    BY <2>1
<1>3. ASSUME NEW n \in Nat, n \in defined
      PROVE  n + 1 \in defined
  <2> HIDE DEF Step
  <2>1. PICK f : Made(f, n)
    BY <1>3
  <2> DEFINE g == [i \in 0 .. n + 1 |-> IF i = n + 1 THEN Step(f[n], n + 1) ELSE f[i]]
  <2>2. ASSUME NEW i \in 0 .. n + 1
        PROVE  g[i] = Step(g[i - 1], i)
    <3>1. i \in 0 .. n => g[i] = Step(f[i - 1], i)
      BY <2>1
    <3> QED
      BY <1>1, <3>1
  <2>3. Made(g, n + 1)
    BY <2>2
  <2> HIDE DEF Made, g
  <2> QED
    BY <2>3
<1>4. Depth \in defined
  <2> HIDE DEF defined
  <2> QED
    BY <1>2, <1>3, Induction, DepthAssumption
<1> QED
  BY <1>4 DEF Levels

(* The recursion of Create, MerkleTree::create. *)
LEMMA CreateDef ==
  Create = [i \in 0 .. Depth |->
           [leaves_ \in Seq(Elements) |->
             LET half == IF Len(leaves_) <= LeftCapacity(i) THEN Len(leaves_) ELSE LeftCapacity(i)
             IN IF leaves_ = <<>> THEN ZeroTree(i)
                ELSE IF i = 0 THEN LeafTree(leaves_[1])
                ELSE Node(Create[i - 1][SubSeq(leaves_, 1, half)], Create[i - 1][SubSeq(leaves_, half + 1, Len(leaves_))])]]
<1> DEFINE Step(prev, i) == [leaves_ \in Seq(Elements) |->
             LET half == IF Len(leaves_) <= LeftCapacity(i) THEN Len(leaves_) ELSE LeftCapacity(i)
             IN IF leaves_ = <<>> THEN ZeroTree(i)
                ELSE IF i = 0 THEN LeafTree(leaves_[1])
                ELSE Node(prev[SubSeq(leaves_, 1, half)], prev[SubSeq(leaves_, half + 1, Len(leaves_))])]
           Made(f, n) == f = [i \in 0 .. n |-> Step(f[i - 1], i)]
           defined == {n \in Nat : \E f : Made(f, n)}
<1>1. \A p, q : Step(p, 0) = Step(q, 0)
  OBVIOUS
<1>2. 0 \in defined
  <2> HIDE DEF Step
  <2>1. Made([i \in 0 .. 0 |-> Step(0, 0)], 0)
    BY <1>1
  <2> QED
    BY <2>1
<1>3. ASSUME NEW n \in Nat, n \in defined
      PROVE  n + 1 \in defined
  <2> HIDE DEF Step
  <2>1. PICK f : Made(f, n)
    BY <1>3
  <2> DEFINE g == [i \in 0 .. n + 1 |-> IF i = n + 1 THEN Step(f[n], n + 1) ELSE f[i]]
  <2>2. ASSUME NEW i \in 0 .. n + 1
        PROVE  g[i] = Step(g[i - 1], i)
    <3>1. i \in 0 .. n => g[i] = Step(f[i - 1], i)
      BY <2>1
    <3> QED
      BY <1>1, <3>1
  <2>3. Made(g, n + 1)
    BY <2>2
  <2> HIDE DEF Made, g
  <2> QED
    BY <2>3
<1>4. Depth \in defined
  <2> HIDE DEF defined
  <2> QED
    BY <1>2, <1>3, Induction, DepthAssumption
<1> QED
  BY <1>4 DEF Create

(* The recursion of Push, MerkleTree::push_leaf. *)
LEMMA PushDef ==
  ASSUME NEW elem
  PROVE  Push(elem) = [i \in 0 .. Depth |->
           [tree \in Trees[i] |->
        IF i = 0 THEN Failed("DepthTooSmall")
        ELSE IF tree.kind = "leaf" THEN Failed("LeafReached")
        ELSE IF tree.kind = "zero" THEN Grown(Create[i][<<elem>>])
        ELSE
          LET kinds == <<tree.left.kind, tree.right.kind>> IN
          CASE kinds = <<"leaf", "leaf">> -> Failed("MerkleTreeFull")
            [] kinds = <<"node", "node">> ->
                 LET pushed == Push(elem)[i - 1][tree.right] IN
                 IF pushed.err = "none" THEN Grown(Node(tree.left, pushed.tree)) ELSE pushed
            [] kinds = <<"zero", "zero">> ->
                 Grown(Node(Create[i - 1][<<elem>>], tree.right))
            [] kinds = <<"leaf", "zero">> -> StartRight(tree.left, elem, i)
            [] kinds = <<"node", "zero">> ->
                 LET pushed == Push(elem)[i - 1][tree.left] IN
                 CASE pushed.err = "none" -> Grown(Node(pushed.tree, tree.right))
                   [] pushed.err = "MerkleTreeFull" -> StartRight(tree.left, elem, i)
                   [] OTHER -> pushed
            [] OTHER -> Failed("Invalid")]]
<1> DEFINE Step(prev, i) == [tree \in Trees[i] |->
        IF i = 0 THEN Failed("DepthTooSmall")
        ELSE IF tree.kind = "leaf" THEN Failed("LeafReached")
        ELSE IF tree.kind = "zero" THEN Grown(Create[i][<<elem>>])
        ELSE
          LET kinds == <<tree.left.kind, tree.right.kind>> IN
          CASE kinds = <<"leaf", "leaf">> -> Failed("MerkleTreeFull")
            [] kinds = <<"node", "node">> ->
                 LET pushed == prev[tree.right] IN
                 IF pushed.err = "none" THEN Grown(Node(tree.left, pushed.tree)) ELSE pushed
            [] kinds = <<"zero", "zero">> ->
                 Grown(Node(Create[i - 1][<<elem>>], tree.right))
            [] kinds = <<"leaf", "zero">> -> StartRight(tree.left, elem, i)
            [] kinds = <<"node", "zero">> ->
                 LET pushed == prev[tree.left] IN
                 CASE pushed.err = "none" -> Grown(Node(pushed.tree, tree.right))
                   [] pushed.err = "MerkleTreeFull" -> StartRight(tree.left, elem, i)
                   [] OTHER -> pushed
            [] OTHER -> Failed("Invalid")]
           Made(f, n) == f = [i \in 0 .. n |-> Step(f[i - 1], i)]
           defined == {n \in Nat : \E f : Made(f, n)}
<1>1. \A p, q : Step(p, 0) = Step(q, 0)
  OBVIOUS
<1>2. 0 \in defined
  <2> HIDE DEF Step
  <2>1. Made([i \in 0 .. 0 |-> Step(0, 0)], 0)
    BY <1>1
  <2> QED
    BY <2>1
<1>3. ASSUME NEW n \in Nat, n \in defined
      PROVE  n + 1 \in defined
  <2> HIDE DEF Step
  <2>1. PICK f : Made(f, n)
    BY <1>3
  <2> DEFINE g == [i \in 0 .. n + 1 |-> IF i = n + 1 THEN Step(f[n], n + 1) ELSE f[i]]
  <2>2. ASSUME NEW i \in 0 .. n + 1
        PROVE  g[i] = Step(g[i - 1], i)
    <3>1. i \in 0 .. n => g[i] = Step(f[i - 1], i)
      BY <2>1
    <3> QED
      BY <1>1, <3>1
  <2>3. Made(g, n + 1)
    BY <2>2
  <2> HIDE DEF Made, g
  <2> QED
    BY <2>3
<1>4. Depth \in defined
  <2> HIDE DEF defined
  <2> QED
    BY <1>2, <1>3, Induction, DepthAssumption
<1> QED
  BY <1>4 DEF Push

(* The sequence of leaves as a function on all naturals, cut after n leaves. *)
Upto(s, n) == [k \in Nat |-> IF k < n THEN s[k] ELSE Zero]
Level(s, n) == Levels(Upto(s, n))

(* The trees of the first n leaves: tree k of depth d is over the leaves from *)
(* k * Pow2[d].                                                               *)
Built(s, n) ==
  LET built[i \in 0 .. Depth] == [k \in Nat |->
        IF n <= k * Pow2[i] THEN ZeroTree(i)
        ELSE IF i = 0 THEN LeafTree(s[k])
        ELSE Node(built[i - 1][2 * k], built[i - 1][2 * k + 1])]
  IN built

(* The recursion of Built. *)
LEMMA BuiltDef ==
  ASSUME NEW s, NEW m
  PROVE  Built(s, m) = [i \in 0 .. Depth |->
           [k \in Nat |->
             IF m <= k * Pow2[i] THEN ZeroTree(i)
             ELSE IF i = 0 THEN LeafTree(s[k])
             ELSE Node(Built(s, m)[i - 1][2 * k], Built(s, m)[i - 1][2 * k + 1])]]
<1> DEFINE Step(prev, i) == [k \in Nat |->
             IF m <= k * Pow2[i] THEN ZeroTree(i)
             ELSE IF i = 0 THEN LeafTree(s[k])
             ELSE Node(prev[2 * k], prev[2 * k + 1])]
           Made(f, n) == f = [i \in 0 .. n |-> Step(f[i - 1], i)]
           defined == {n \in Nat : \E f : Made(f, n)}
<1>1. \A p, q : Step(p, 0) = Step(q, 0)
  OBVIOUS
<1>2. 0 \in defined
  <2> HIDE DEF Step
  <2>1. Made([i \in 0 .. 0 |-> Step(0, 0)], 0)
    BY <1>1
  <2> QED
    BY <2>1
<1>3. ASSUME NEW n \in Nat, n \in defined
      PROVE  n + 1 \in defined
  <2> HIDE DEF Step
  <2>1. PICK f : Made(f, n)
    BY <1>3
  <2> DEFINE g == [i \in 0 .. n + 1 |-> IF i = n + 1 THEN Step(f[n], n + 1) ELSE f[i]]
  <2>2. ASSUME NEW i \in 0 .. n + 1
        PROVE  g[i] = Step(g[i - 1], i)
    <3>1. i \in 0 .. n => g[i] = Step(f[i - 1], i)
      BY <2>1
    <3> QED
      BY <1>1, <3>1
  <2>3. Made(g, n + 1)
    BY <2>2
  <2> HIDE DEF Made, g
  <2> QED
    BY <2>3
<1>4. Depth \in defined
  <2> HIDE DEF defined
  <2> QED
    BY <1>2, <1>3, Induction, DepthAssumption
<1> QED
  BY <1>4 DEF Built

(* The powers of two. *)
LEMMA PowersAre ==
  /\ Depth \in Nat \ {0}
  /\ Pow2[0] = 1
  /\ \A i \in 0 .. Depth : Pow2[i] \in Nat \ {0}
  /\ \A i \in 0 .. Depth - 1 : i + 1 \in 1 .. Depth /\ i \in 0 .. Depth /\ Pow2[i + 1] = 2 * Pow2[i]
<1>1. Pow2[0] = 1 /\ \A i \in 0 .. Depth - 1 : Pow2[i + 1] = 2 * Pow2[i]
  <2>1. \A i \in 0 .. Depth : Pow2[i] = IF i = 0 THEN 1 ELSE 2 * Pow2[i - 1]
    BY Pow2Def
  <2>2. 0 \in 0 .. Depth /\ \A i \in 0 .. Depth - 1 : i + 1 \in 0 .. Depth /\ i + 1 # 0 /\ (i + 1) - 1 = i
    BY DepthAssumption
  <2> QED
    BY ONLY <2>1, <2>2
<1> DEFINE holds == {i \in Nat : i <= Depth => Pow2[i] \in Nat \ {0}}
<1>2. 0 \in holds
  BY <1>1
<1>3. ASSUME NEW i \in Nat, i \in holds
      PROVE  i + 1 \in holds
  <2>1. SUFFICES ASSUME i + 1 <= Depth
                 PROVE  Pow2[i + 1] \in Nat \ {0}
    OBVIOUS
  <2>2. i \in 0 .. Depth - 1 /\ Pow2[i] \in Nat \ {0}
    BY <1>3, <2>1, DepthAssumption
  <2> QED
    BY <1>1, <2>2
<1>4. \A i \in Nat : i \in holds
  <2> HIDE DEF holds
  <2> QED
    BY <1>2, <1>3, Induction
<1> QED
  BY <1>1, <1>4, DepthAssumption

(* A number cut into blocks, each of them two halves. *)
LEMMA Doubling ==
  ASSUME NEW k \in Nat, NEW p \in Nat \ {0}
  PROVE  /\ k * (2 * p) = (2 * k) * p
         /\ (2 * k + 1) * p = k * (2 * p) + p
         /\ (k + 1) * (2 * p) = (2 * k + 1 + 1) * p
         /\ k * p \in Nat /\ (k + 1) * p = k * p + p
OBVIOUS

(* A position lies in the block its quotient numbers. *)
LEMMA Dividing ==
  ASSUME NEW n \in Nat, NEW p \in Nat \ {0}
  PROVE  /\ n \div p \in Nat
         /\ (n \div p) * p <= n /\ n < (n \div p + 1) * p
         /\ n \div (2 * p) = (n \div p) \div 2
OBVIOUS

(* A number is twice its half, and its lowest bit. *)
LEMMA Parity ==
  ASSUME NEW q \in Nat
  PROVE  /\ q \div 2 \in Nat /\ q % 2 \in {0, 1} /\ q = 2 * (q \div 2) + (q % 2)
OBVIOUS

(* The block that holds position n, and which half of the next block it is. *)
LEMMA BlockOf ==
  ASSUME NEW n \in Nat
  PROVE  /\ n \div Pow2[0] = n
         /\ \A i \in 0 .. Depth :
              /\ n \div Pow2[i] \in Nat
              /\ (n \div Pow2[i]) * Pow2[i] <= n /\ n < (n \div Pow2[i] + 1) * Pow2[i]
         /\ \A i \in 0 .. Depth - 1 :
              /\ Bit(n, i) \in {0, 1}
              /\ n \div Pow2[i] = 2 * (n \div Pow2[i + 1]) + Bit(n, i)
         /\ n < Pow2[Depth] => n \div Pow2[Depth] = 0
<1>1. n \div Pow2[0] = n
  <2>1. Pow2[0] = 1 /\ n \div 1 = n
    BY PowersAre
  <2> QED
    BY <2>1
<1>2. ASSUME NEW i \in 0 .. Depth
      PROVE  /\ n \div Pow2[i] \in Nat
             /\ (n \div Pow2[i]) * Pow2[i] <= n /\ n < (n \div Pow2[i] + 1) * Pow2[i]
  <2>1. Pow2[i] \in Nat \ {0}
    BY PowersAre
  <2> QED
    BY <2>1, Dividing
<1>3. ASSUME NEW i \in 0 .. Depth - 1
      PROVE  Bit(n, i) \in {0, 1} /\ n \div Pow2[i] = 2 * (n \div Pow2[i + 1]) + Bit(n, i)
  <2>1. Pow2[i] \in Nat \ {0} /\ Pow2[i + 1] = 2 * Pow2[i]
    BY PowersAre
  <2>2. n \div Pow2[i] \in Nat /\ n \div Pow2[i + 1] = (n \div Pow2[i]) \div 2
    BY <2>1, Dividing
  <2> QED
    BY <2>2, Parity DEF Bit
<1>4. ASSUME n < Pow2[Depth]
      PROVE  n \div Pow2[Depth] = 0
  <2>1. Pow2[Depth] \in Nat \ {0}
    BY PowersAre
  <2> QED
    BY <1>4, <2>1
<1> QED
  BY <1>1, <1>2, <1>3, <1>4

(* The levels of the reference. *)
LEMMA LevelIs ==
  ASSUME NEW s, NEW n
  PROVE  /\ \A k \in Nat : Level(s, n)[0][k] = IF k < n THEN s[k] ELSE Zero
         /\ \A d \in 0 .. Depth - 1, k \in Nat :
              Level(s, n)[d + 1][k] = <<Level(s, n)[d][2 * k], Level(s, n)[d][2 * k + 1]>>
<1>1. /\ Levels(Upto(s, n))[0] = Upto(s, n)
      /\ \A d \in 0 .. Depth - 1, k \in Nat :
           Levels(Upto(s, n))[d + 1][k] = HashConcat(Levels(Upto(s, n))[d][2 * k], Levels(Upto(s, n))[d][2 * k + 1])
  <2> DEFINE level == Levels(Upto(s, n))
  <2>1. \A i \in 0 .. Depth :
          level[i] = IF i = 0 THEN Upto(s, n) ELSE [k \in Nat |-> HashConcat(level[i - 1][2 * k], level[i - 1][2 * k + 1])]
    <3>1. level = [i \in 0 .. Depth |->
                     IF i = 0 THEN Upto(s, n) ELSE [k \in Nat |-> HashConcat(level[i - 1][2 * k], level[i - 1][2 * k + 1])]]
      BY LevelsDef, Zenon
    <3> HIDE DEF level
    <3> QED
      BY ONLY <3>1
  <2>2. 0 \in 0 .. Depth /\ \A i \in 0 .. Depth - 1 : i + 1 \in 0 .. Depth /\ i + 1 # 0 /\ (i + 1) - 1 = i
    BY DepthAssumption
  <2> HIDE DEF level
  <2>3. ASSUME NEW d \in 0 .. Depth - 1
        PROVE  level[d + 1] = [k \in Nat |-> HashConcat(level[d][2 * k], level[d][2 * k + 1])]
    <3>1. d + 1 \in 0 .. Depth /\ d + 1 # 0 /\ (d + 1) - 1 = d
      BY <2>2
    <3> QED
      BY ONLY <2>1, <3>1
  <2>4. level[0] = Upto(s, n)
    BY ONLY <2>1, <2>2
  <2> QED
    BY <2>3, <2>4 DEF level
<1> QED
  BY <1>1 DEF Level, Upto, HashConcat

(* The zero hashes, one from the other. *)
LEMMA ZeroHashIs ==
  ZeroHash[0] = Zero /\ \A d \in 0 .. Depth - 1 : ZeroHash[d + 1] = <<ZeroHash[d], ZeroHash[d]>>
<1>1. \A i \in 0 .. Depth : ZeroHash[i] = IF i = 0 THEN Zero ELSE <<ZeroHash[i - 1], ZeroHash[i - 1]>>
  BY ZeroHashDef DEF HashConcat
<1>2. 0 \in 0 .. Depth /\ \A i \in 0 .. Depth - 1 : i + 1 \in 0 .. Depth /\ i + 1 # 0 /\ (i + 1) - 1 = i
  BY DepthAssumption
<1> QED
  BY ONLY <1>1, <1>2

(* Beyond the leaves every level has its zero hash. *)
LEMMA ZeroLevel ==
  ASSUME NEW s, NEW n \in Nat
  PROVE  \A d \in 0 .. Depth, k \in Nat : n <= k * Pow2[d] => Level(s, n)[d][k] = ZeroHash[d]
<1> DEFINE holds == {d \in Nat : d <= Depth => \A k \in Nat : n <= k * Pow2[d] => Level(s, n)[d][k] = ZeroHash[d]}
<1>1. 0 \in holds
  <2>1. ASSUME NEW k \in Nat, n <= k * Pow2[0]
        PROVE  Level(s, n)[0][k] = ZeroHash[0]
    <3>1. ~ (k < n)
      BY <2>1, PowersAre
    <3> QED
      BY <3>1, LevelIs, ZeroHashIs
  <2> QED
    BY <2>1
<1>2. ASSUME NEW d \in Nat, d \in holds
      PROVE  d + 1 \in holds
  <2>1. SUFFICES ASSUME d + 1 <= Depth, NEW k \in Nat, n <= k * Pow2[d + 1]
                 PROVE  Level(s, n)[d + 1][k] = ZeroHash[d + 1]
    OBVIOUS
  <2>2. d \in 0 .. Depth - 1 /\ d <= Depth
    BY <2>1, DepthAssumption
  <2>3. Pow2[d] \in Nat \ {0} /\ Pow2[d + 1] = 2 * Pow2[d]
    BY <2>2, PowersAre
  <2>4. n <= (2 * k) * Pow2[d] /\ n <= (2 * k + 1) * Pow2[d]
    BY <2>1, <2>3, Doubling
  <2>5. 2 * k \in Nat /\ 2 * k + 1 \in Nat
    OBVIOUS
  <2>6. Level(s, n)[d][2 * k] = ZeroHash[d] /\ Level(s, n)[d][2 * k + 1] = ZeroHash[d]
    BY <1>2, <2>2, <2>4, <2>5
  <2>7. Level(s, n)[d + 1][k] = <<Level(s, n)[d][2 * k], Level(s, n)[d][2 * k + 1]>>
    BY ONLY <2>2, k \in Nat, LevelIs
  <2>8. ZeroHash[d + 1] = <<ZeroHash[d], ZeroHash[d]>>
    BY <2>2, ZeroHashIs
  <2> QED
    BY ONLY <2>6, <2>7, <2>8
<1>3. \A d \in Nat : d \in holds
  <2> HIDE DEF holds
  <2> QED
    BY <1>1, <1>2, Induction
<1> QED
  BY <1>3

(* What a full block hashes to depends on its leaves only. *)
LEMMA SameLevel ==
  ASSUME NEW s, NEW t, NEW n \in Nat, NEW m \in Nat, n <= m, \A k \in Nat : k < n => s[k] = t[k]
  PROVE  \A d \in 0 .. Depth, k \in Nat : (k + 1) * Pow2[d] <= n => Level(s, n)[d][k] = Level(t, m)[d][k]
<1> DEFINE holds == {d \in Nat : d <= Depth =>
                       \A k \in Nat : (k + 1) * Pow2[d] <= n => Level(s, n)[d][k] = Level(t, m)[d][k]}
<1>1. 0 \in holds
  <2>1. ASSUME NEW k \in Nat, (k + 1) * Pow2[0] <= n
        PROVE  Level(s, n)[0][k] = Level(t, m)[0][k]
    <3>1. k < n /\ k < m
      BY <2>1, PowersAre
    <3> QED
      BY <3>1, LevelIs
  <2> QED
    BY <2>1
<1>2. ASSUME NEW d \in Nat, d \in holds
      PROVE  d + 1 \in holds
  <2>1. SUFFICES ASSUME d + 1 <= Depth, NEW k \in Nat, (k + 1) * Pow2[d + 1] <= n
                 PROVE  Level(s, n)[d + 1][k] = Level(t, m)[d + 1][k]
    OBVIOUS
  <2>2. d \in 0 .. Depth - 1 /\ d <= Depth
    BY <2>1, DepthAssumption
  <2>3. Pow2[d] \in Nat \ {0} /\ Pow2[d + 1] = 2 * Pow2[d]
    BY <2>2, PowersAre
  <2>4. (2 * k + 1) * Pow2[d] <= n /\ (2 * k + 1 + 1) * Pow2[d] <= n
    <3>1. /\ (2 * k + 1) * Pow2[d] = k * (2 * Pow2[d]) + Pow2[d]
          /\ (k + 1) * (2 * Pow2[d]) = (2 * k + 1 + 1) * Pow2[d]
          /\ k * (2 * Pow2[d]) \in Nat /\ (k + 1) * (2 * Pow2[d]) = k * (2 * Pow2[d]) + 2 * Pow2[d]
      BY <2>3, Doubling
    <3> QED
      BY <2>1, <2>3, <3>1
  <2>5. 2 * k \in Nat /\ 2 * k + 1 \in Nat
    OBVIOUS
  <2>6. Level(s, n)[d][2 * k] = Level(t, m)[d][2 * k] /\ Level(s, n)[d][2 * k + 1] = Level(t, m)[d][2 * k + 1]
    BY <1>2, <2>2, <2>4, <2>5
  <2>7. /\ Level(s, n)[d + 1][k] = <<Level(s, n)[d][2 * k], Level(s, n)[d][2 * k + 1]>>
        /\ Level(t, m)[d + 1][k] = <<Level(t, m)[d][2 * k], Level(t, m)[d][2 * k + 1]>>
    BY ONLY <2>2, k \in Nat, LevelIs
  <2> QED
    BY ONLY <2>6, <2>7
<1>3. \A d \in Nat : d \in holds
  <2> HIDE DEF holds
  <2> QED
    BY <1>1, <1>2, Induction
<1> QED
  BY <1>3

(* The heights of a tree, one above the other. *)
LEMMA Heights ==
  /\ 0 \in 0 .. Depth
  /\ \A d \in 0 .. Depth - 1 : d \in 0 .. Depth /\ d + 1 \in 0 .. Depth /\ d + 1 # 0 /\ (d + 1) - 1 = d
  /\ \A d \in Nat : d + 1 <= Depth => d \in 0 .. Depth - 1 /\ d <= Depth
BY DepthAssumption

(* The cases of Built, one equation each. *)
LEMMA BuiltIs ==
  ASSUME NEW s, NEW n \in Nat
  PROVE  /\ \A d \in 0 .. Depth, k \in Nat : n <= k * Pow2[d] => Built(s, n)[d][k] = ZeroTree(d)
         /\ \A k \in Nat : k < n => Built(s, n)[0][k] = LeafTree(s[k])
         /\ \A d \in 0 .. Depth - 1, k \in Nat :
              ~ (n <= k * Pow2[d + 1]) =>
                Built(s, n)[d + 1][k] = Node(Built(s, n)[d][2 * k], Built(s, n)[d][2 * k + 1])
<1> DEFINE built == Built(s, n)
           Tree(i, k) == IF n <= k * Pow2[i] THEN ZeroTree(i)
                         ELSE IF i = 0 THEN LeafTree(s[k])
                         ELSE Node(built[i - 1][2 * k], built[i - 1][2 * k + 1])
<1>1. built = [i \in 0 .. Depth |-> [k \in Nat |-> Tree(i, k)]]
  BY BuiltDef
<1>2. \A i \in 0 .. Depth : \A k \in Nat : built[i][k] = Tree(i, k)
  <2> HIDE DEF built, Tree
  <2> QED
    BY ONLY <1>1
<1> HIDE DEF built
<1>3. \A d \in 0 .. Depth, k \in Nat : n <= k * Pow2[d] => built[d][k] = ZeroTree(d)
  BY <1>2
<1>4. ASSUME NEW k \in Nat, k < n
      PROVE  built[0][k] = LeafTree(s[k])
  <2>1. ~ (n <= k * Pow2[0])
    BY <1>4, PowersAre
  <2> QED
    BY <1>2, <2>1, Heights
<1>5. ASSUME NEW d \in 0 .. Depth - 1, NEW k \in Nat, ~ (n <= k * Pow2[d + 1])
      PROVE  built[d + 1][k] = Node(built[d][2 * k], built[d][2 * k + 1])
  <2>1. d + 1 \in 0 .. Depth /\ d + 1 # 0 /\ (d + 1) - 1 = d
    BY Heights
  <2> QED
    BY <1>2, <1>5, <2>1
<1> QED
  BY <1>3, <1>4, <1>5 DEF built

(* What kind of tree is built over a block. *)
LEMMA BuiltKind ==
  ASSUME NEW s, NEW n \in Nat, NEW d \in 0 .. Depth, NEW k \in Nat
  PROVE  /\ n <= k * Pow2[d] => Built(s, n)[d][k].kind = "zero"
         /\ ~ (n <= k * Pow2[d]) /\ d = 0 => Built(s, n)[d][k].kind = "leaf"
         /\ ~ (n <= k * Pow2[d]) /\ d # 0 => Built(s, n)[d][k].kind = "node"
<1>1. ASSUME n <= k * Pow2[d]
      PROVE  Built(s, n)[d][k].kind = "zero"
  <2>1. Built(s, n)[d][k] = ZeroTree(d)
    BY <1>1, BuiltIs
  <2> QED
    BY <2>1 DEF ZeroTree
<1>2. ASSUME ~ (n <= k * Pow2[d]), d = 0
      PROVE  Built(s, n)[d][k].kind = "leaf"
  <2>1. k < n
    BY <1>2, PowersAre
  <2>2. Built(s, n)[0][k] = LeafTree(s[k])
    BY <2>1, BuiltIs
  <2> QED
    BY <1>2, <2>2 DEF LeafTree
<1>3. ASSUME ~ (n <= k * Pow2[d]), d # 0
      PROVE  Built(s, n)[d][k].kind = "node"
  <2>1. d - 1 \in 0 .. Depth - 1 /\ (d - 1) + 1 = d
    BY <1>3, DepthAssumption
  <2>2. Built(s, n)[d][k] = Node(Built(s, n)[d - 1][2 * k], Built(s, n)[d - 1][2 * k + 1])
    BY <1>3, <2>1, BuiltIs
  <2> QED
    BY <2>2 DEF Node
<1> QED
  BY <1>1, <1>2, <1>3

(* The two halves of a block begin where it does, and half a block later. *)
LEMMA Halves ==
  ASSUME NEW d \in 0 .. Depth - 1, NEW k \in Nat
  PROVE  /\ Pow2[d] \in Nat \ {0} /\ Pow2[d + 1] = 2 * Pow2[d]
         /\ 2 * k \in Nat /\ 2 * k + 1 \in Nat
         /\ k * Pow2[d + 1] = (2 * k) * Pow2[d] /\ (2 * k) * Pow2[d] \in Nat
         /\ (2 * k + 1) * Pow2[d] = (2 * k) * Pow2[d] + Pow2[d]
         /\ (2 * k + 1 + 1) * Pow2[d] = (2 * k) * Pow2[d] + Pow2[d] + Pow2[d]
         /\ (k + 1) * Pow2[d + 1] = (2 * k) * Pow2[d] + Pow2[d] + Pow2[d]
<1>1. Pow2[d] \in Nat \ {0} /\ Pow2[d + 1] = 2 * Pow2[d]
  BY PowersAre
<1>2. 2 * k \in Nat /\ 2 * k + 1 \in Nat
  OBVIOUS
<1>3. /\ k * (2 * Pow2[d]) = (2 * k) * Pow2[d]
      /\ (2 * k + 1) * Pow2[d] = k * (2 * Pow2[d]) + Pow2[d]
      /\ (k + 1) * (2 * Pow2[d]) = (2 * k + 1 + 1) * Pow2[d]
  BY <1>1, Doubling
<1>4. (2 * k) * Pow2[d] \in Nat /\ (2 * k + 1 + 1) * Pow2[d] = (2 * k + 1) * Pow2[d] + Pow2[d]
  BY <1>1, <1>2, Doubling
<1> QED
  BY <1>1, <1>2, <1>3, <1>4

(* The tree of a block has the hash of the reference. *)
LEMMA BuiltHash ==
  ASSUME NEW s, NEW n \in Nat
  PROVE  \A d \in 0 .. Depth, k \in Nat : Hash(Built(s, n)[d][k]) = Level(s, n)[d][k]
<1> DEFINE holds == {d \in Nat : d <= Depth => \A k \in Nat : Hash(Built(s, n)[d][k]) = Level(s, n)[d][k]}
<1>1. ASSUME NEW d \in 0 .. Depth, NEW k \in Nat, n <= k * Pow2[d]
      PROVE  Hash(Built(s, n)[d][k]) = Level(s, n)[d][k]
  <2>1. Built(s, n)[d][k] = ZeroTree(d)
    BY <1>1, BuiltIs
  <2>2. Level(s, n)[d][k] = ZeroHash[d]
    BY <1>1, ZeroLevel
  <2> QED
    BY <2>1, <2>2 DEF Hash, ZeroTree
<1>2. 0 \in holds
  <2>1. ASSUME NEW k \in Nat, ~ (n <= k * Pow2[0])
        PROVE  Hash(Built(s, n)[0][k]) = Level(s, n)[0][k]
    <3>1. k < n
      BY <2>1, PowersAre
    <3>2. Built(s, n)[0][k] = LeafTree(s[k])
      BY <3>1, BuiltIs
    <3>3. Level(s, n)[0][k] = s[k]
      BY <3>1, LevelIs
    <3> QED
      BY <3>2, <3>3 DEF Hash, LeafTree
  <2> QED
    BY <1>1, <2>1, Heights
<1>3. ASSUME NEW d \in Nat, d \in holds
      PROVE  d + 1 \in holds
  <2>1. SUFFICES ASSUME d + 1 <= Depth, NEW k \in Nat, ~ (n <= k * Pow2[d + 1])
                 PROVE  Hash(Built(s, n)[d + 1][k]) = Level(s, n)[d + 1][k]
    BY <1>1, Heights
  <2>2. d \in 0 .. Depth - 1 /\ d <= Depth
    BY <2>1, Heights
  <2>3. Built(s, n)[d + 1][k] = Node(Built(s, n)[d][2 * k], Built(s, n)[d][2 * k + 1])
    BY <2>1, <2>2, BuiltIs
  <2>4. /\ Hash(Built(s, n)[d][2 * k]) = Level(s, n)[d][2 * k]
        /\ Hash(Built(s, n)[d][2 * k + 1]) = Level(s, n)[d][2 * k + 1]
    BY <1>3, <2>2
  <2>5. Level(s, n)[d + 1][k] = <<Level(s, n)[d][2 * k], Level(s, n)[d][2 * k + 1]>>
    BY ONLY <2>2, k \in Nat, LevelIs
  <2>6. Hash(Built(s, n)[d + 1][k]) = <<Hash(Built(s, n)[d][2 * k]), Hash(Built(s, n)[d][2 * k + 1])>>
    <3> DEFINE left == Built(s, n)[d][2 * k]
               right == Built(s, n)[d][2 * k + 1]
    <3> HIDE DEF left, right
    <3>1. Hash(Node(left, right)) = <<Hash(left), Hash(right)>>
      <4>1. Node(left, right).kind = "node" /\ Node(left, right).hash = <<Hash(left), Hash(right)>>
        BY DEF Node, HashConcat
      <4> QED
        BY <4>1 DEF Hash
    <3> QED
      BY <2>3, <3>1 DEF left, right
  <2> QED
    BY ONLY <2>4, <2>5, <2>6
<1>4. \A d \in Nat : d \in holds
  <2> HIDE DEF holds
  <2> QED
    BY <1>2, <1>3, Induction
<1> QED
  BY <1>4

(* The hashes and the trees are those of their heights. *)
LEMMA BuiltType ==
  ASSUME NEW s, NEW n \in Nat, \A k \in Nat : k < n => s[k] \in Elements
  PROVE  \A d \in 0 .. Depth, k \in Nat : Level(s, n)[d][k] \in Hashes[d] /\ Built(s, n)[d][k] \in Trees[d]
<1> DEFINE holds == {d \in Nat : d <= Depth =>
                       \A k \in Nat : Level(s, n)[d][k] \in Hashes[d] /\ Built(s, n)[d][k] \in Trees[d]}
<1>1. Hashes[0] = {Zero} \cup Elements /\ \A d \in 0 .. Depth - 1 : Hashes[d + 1] = Hashes[d] \X Hashes[d]
  <2>1. \A i \in 0 .. Depth : Hashes[i] = IF i = 0 THEN {Zero} \cup Elements ELSE Hashes[i - 1] \X Hashes[i - 1]
    BY HashesDef
  <2> QED
    BY ONLY <2>1, Heights
<1>2. /\ \A d \in 0 .. Depth : ZeroTree(d) \in Trees[d]
      /\ Trees[0] = {ZeroTree(0)} \cup {LeafTree(h) : h \in Elements}
      /\ \A d \in 0 .. Depth - 1 :
           [kind : {"node"}, hash : Hashes[d + 1], left : Trees[d], right : Trees[d]] \subseteq Trees[d + 1]
  <2>1. \A i \in 0 .. Depth :
          Trees[i] = {ZeroTree(i)} \cup (IF i = 0 THEN {LeafTree(h) : h \in Elements}
                       ELSE [kind : {"node"}, hash : Hashes[i], left : Trees[i - 1], right : Trees[i - 1]])
    BY TreesDef
  <2>2. \A i \in 0 .. Depth - 1 :
          Trees[i + 1] = {ZeroTree(i + 1)} \cup [kind : {"node"}, hash : Hashes[i + 1], left : Trees[i], right : Trees[i]]
    BY ONLY <2>1, Heights
  <2> QED
    BY ONLY <2>1, <2>2, Heights
<1>3. 0 \in holds
  <2>1. ASSUME NEW k \in Nat
        PROVE  Level(s, n)[0][k] \in Hashes[0] /\ Built(s, n)[0][k] \in Trees[0]
    <3>1. CASE k < n
      <4>1. Level(s, n)[0][k] = s[k] /\ Built(s, n)[0][k] = LeafTree(s[k]) /\ s[k] \in Elements
        BY <3>1, LevelIs, BuiltIs
      <4> QED
        BY ONLY <1>1, <1>2, <4>1
    <3>2. CASE ~ (k < n)
      <4>1. n <= k * Pow2[0]
        BY <3>2, PowersAre
      <4>2. Level(s, n)[0][k] = Zero /\ Built(s, n)[0][k] = ZeroTree(0)
        BY <3>2, <4>1, LevelIs, BuiltIs, Heights
      <4> QED
        BY ONLY <1>1, <1>2, <4>2
    <3> QED
      BY <3>1, <3>2
  <2> QED
    BY <2>1
<1>4. ASSUME NEW d \in Nat, d \in holds
      PROVE  d + 1 \in holds
  <2>1. SUFFICES ASSUME d + 1 <= Depth, NEW k \in Nat
                 PROVE  Level(s, n)[d + 1][k] \in Hashes[d + 1] /\ Built(s, n)[d + 1][k] \in Trees[d + 1]
    OBVIOUS
  <2>2. d \in 0 .. Depth - 1 /\ d <= Depth /\ d + 1 \in 0 .. Depth
    BY <2>1, Heights
  <2> DEFINE left == Built(s, n)[d][2 * k]
             right == Built(s, n)[d][2 * k + 1]
             leftHash == Level(s, n)[d][2 * k]
             rightHash == Level(s, n)[d][2 * k + 1]
  <2>3. leftHash \in Hashes[d] /\ rightHash \in Hashes[d] /\ left \in Trees[d] /\ right \in Trees[d]
    BY <1>4, <2>2
  <2>4. Level(s, n)[d + 1][k] = <<leftHash, rightHash>>
    BY ONLY <2>2, k \in Nat, LevelIs
  <2>5. Hash(left) = leftHash /\ Hash(right) = rightHash
    <3>1. d \in 0 .. Depth /\ 2 * k \in Nat /\ 2 * k + 1 \in Nat
      BY <2>2, Heights
    <3> QED
      BY ONLY <3>1, n \in Nat, BuiltHash
  <2>6. Built(s, n)[d + 1][k] = ZeroTree(d + 1) \/ Built(s, n)[d + 1][k] = Node(left, right)
    BY <2>2, BuiltIs
  <2> HIDE DEF left, right, leftHash, rightHash
  <2>7. <<leftHash, rightHash>> \in Hashes[d + 1]
    BY ONLY <1>1, <2>2, <2>3
  <2>8. Node(left, right) \in [kind : {"node"}, hash : Hashes[d + 1], left : Trees[d], right : Trees[d]]
    BY ONLY <2>3, <2>5, <2>7 DEF Node, HashConcat
  <2> QED
    BY ONLY <1>2, <2>2, <2>4, <2>6, <2>7, <2>8
<1>5. \A d \in Nat : d \in holds
  <2> HIDE DEF holds
  <2> QED
    BY <1>3, <1>4, Induction
<1> QED
  BY <1>5

(* The tree of a block depends on the leaves in it only. *)
LEMMA SameTree ==
  ASSUME NEW s, NEW t, NEW n \in Nat, NEW m \in Nat, n <= m, \A k \in Nat : k < n => s[k] = t[k]
  PROVE  \A d \in 0 .. Depth, k \in Nat :
           n = m \/ (k + 1) * Pow2[d] <= n => Built(s, n)[d][k] = Built(t, m)[d][k]
<1> DEFINE holds == {d \in Nat : d <= Depth => \A k \in Nat :
                       n = m \/ (k + 1) * Pow2[d] <= n => Built(s, n)[d][k] = Built(t, m)[d][k]}
<1>1. 0 \in holds
  <2>1. ASSUME NEW k \in Nat, n = m \/ (k + 1) * Pow2[0] <= n
        PROVE  Built(s, n)[0][k] = Built(t, m)[0][k]
    <3>1. CASE k < n
      <4>1. k < m
        BY <3>1
      <4>2. Built(s, n)[0][k] = LeafTree(s[k]) /\ Built(t, m)[0][k] = LeafTree(t[k])
        BY ONLY <3>1, <4>1, k \in Nat, n \in Nat, m \in Nat, BuiltIs
      <4> QED
        BY <3>1, <4>2
    <3>2. CASE ~ (k < n)
      <4>1. n <= k * Pow2[0] /\ n = m
        BY <2>1, <3>2, PowersAre
      <4>2. Built(s, n)[0][k] = ZeroTree(0) /\ Built(t, m)[0][k] = ZeroTree(0)
        BY <4>1, BuiltIs, Heights
      <4> QED
        BY <4>2
    <3> QED
      BY <3>1, <3>2
  <2> QED
    BY <2>1
<1>2. ASSUME NEW d \in Nat, d \in holds
      PROVE  d + 1 \in holds
  <2>1. SUFFICES ASSUME d + 1 <= Depth, NEW k \in Nat, n = m \/ (k + 1) * Pow2[d + 1] <= n
                 PROVE  Built(s, n)[d + 1][k] = Built(t, m)[d + 1][k]
    OBVIOUS
  <2>2. d \in 0 .. Depth - 1 /\ d <= Depth /\ d + 1 \in 0 .. Depth
    BY <2>1, Heights
  <2>3. /\ 2 * k \in Nat /\ 2 * k + 1 \in Nat
        /\ n = m \/ (2 * k + 1) * Pow2[d] <= n
        /\ n = m \/ (2 * k + 1 + 1) * Pow2[d] <= n
    <3>1. /\ Pow2[d] \in Nat \ {0}
          /\ 2 * k \in Nat /\ 2 * k + 1 \in Nat
          /\ (2 * k) * Pow2[d] \in Nat
          /\ (2 * k + 1) * Pow2[d] = (2 * k) * Pow2[d] + Pow2[d]
          /\ (2 * k + 1 + 1) * Pow2[d] = (2 * k) * Pow2[d] + Pow2[d] + Pow2[d]
          /\ (k + 1) * Pow2[d + 1] = (2 * k) * Pow2[d] + Pow2[d] + Pow2[d]
      BY ONLY <2>2, k \in Nat, Halves
    <3> QED
      BY ONLY <2>1, <3>1, n \in Nat, m \in Nat
  <2>4. /\ Built(s, n)[d][2 * k] = Built(t, m)[d][2 * k]
        /\ Built(s, n)[d][2 * k + 1] = Built(t, m)[d][2 * k + 1]
    BY <1>2, <2>2, <2>3
  <2> DEFINE start == k * Pow2[d + 1]
             end == (k + 1) * Pow2[d + 1]
  <2>0. start \in Nat /\ end \in Nat /\ start < end
    <3>1. /\ Pow2[d] \in Nat \ {0}
          /\ k * Pow2[d + 1] = (2 * k) * Pow2[d] /\ (2 * k) * Pow2[d] \in Nat
          /\ (k + 1) * Pow2[d + 1] = (2 * k) * Pow2[d] + Pow2[d] + Pow2[d]
      BY ONLY <2>2, k \in Nat, Halves
    <3> QED
      BY ONLY <3>1
  <2>5. CASE n <= k * Pow2[d + 1]
    <3>1. n = m
      <4> HIDE DEF start, end
      <4>1. n <= start /\ (n = m \/ end <= n)
        BY <2>1, <2>5 DEF start, end
      <4> QED
        BY ONLY <2>0, <4>1, n \in Nat
    <3>2. Built(s, n)[d + 1][k] = ZeroTree(d + 1) /\ Built(t, m)[d + 1][k] = ZeroTree(d + 1)
      BY <2>2, <2>5, <3>1, BuiltIs
    <3> QED
      BY <3>2
  <2>6. CASE ~ (n <= k * Pow2[d + 1])
    <3>1. ~ (m <= k * Pow2[d + 1])
      <4> HIDE DEF start, end
      <4>1. ~ (n <= start)
        BY <2>6 DEF start
      <4>2. ~ (m <= start)
        BY ONLY <2>0, <4>1, n \in Nat, m \in Nat, n <= m
      <4> QED
        BY <4>2 DEF start
    <3>2. /\ Built(s, n)[d + 1][k] = Node(Built(s, n)[d][2 * k], Built(s, n)[d][2 * k + 1])
          /\ Built(t, m)[d + 1][k] = Node(Built(t, m)[d][2 * k], Built(t, m)[d][2 * k + 1])
      BY ONLY <2>2, <2>6, <3>1, k \in Nat, n \in Nat, m \in Nat, BuiltIs
    <3> QED
      BY ONLY <2>4, <3>2
  <2> QED
    BY <2>5, <2>6
<1>3. \A d \in Nat : d \in holds
  <2> HIDE DEF holds
  <2> QED
    BY <1>1, <1>2, Induction
<1> QED
  BY <1>3

(* The tree of no leaves. *)
LEMMA CreateEmpty ==
  \A d \in 0 .. Depth : Create[d][<<>>] = ZeroTree(d)
<1> DEFINE Half(x, i) == IF Len(x) <= LeftCapacity(i) THEN Len(x) ELSE LeftCapacity(i)
           Made(x, i) == IF x = <<>> THEN ZeroTree(i)
                         ELSE IF i = 0 THEN LeafTree(x[1])
                         ELSE Node(Create[i - 1][SubSeq(x, 1, Half(x, i))],
                                   Create[i - 1][SubSeq(x, Half(x, i) + 1, Len(x))])
<1>1. \A i \in 0 .. Depth : \A x \in Seq(Elements) : Create[i][x] = Made(x, i)
  <2>1. Create = [i \in 0 .. Depth |-> [x \in Seq(Elements) |-> Made(x, i)]]
    BY CreateDef
  <2> HIDE DEF Made
  <2> QED
    BY ONLY <2>1
<1>2. <<>> \in Seq(Elements)
  OBVIOUS
<1>3. \A d \in 0 .. Depth : Create[d][<<>>] = Made(<<>>, d)
  <2> HIDE DEF Made
  <2> QED
    BY <1>1, <1>2
<1> QED
  BY <1>3

(* The tree of one leaf. *)
LEMMA CreateIs ==
  ASSUME NEW elem \in Elements
  PROVE  /\ Create[0][<<elem>>] = LeafTree(elem)
         /\ \A d \in 0 .. Depth - 1 : Create[d + 1][<<elem>>] = Node(Create[d][<<elem>>], Create[d][<<>>])
<1> DEFINE Half(x, i) == IF Len(x) <= LeftCapacity(i) THEN Len(x) ELSE LeftCapacity(i)
           Made(x, i) == IF x = <<>> THEN ZeroTree(i)
                         ELSE IF i = 0 THEN LeafTree(x[1])
                         ELSE Node(Create[i - 1][SubSeq(x, 1, Half(x, i))],
                                   Create[i - 1][SubSeq(x, Half(x, i) + 1, Len(x))])
<1>1. \A i \in 0 .. Depth : \A x \in Seq(Elements) : Create[i][x] = Made(x, i)
  <2>1. Create = [i \in 0 .. Depth |-> [x \in Seq(Elements) |-> Made(x, i)]]
    BY CreateDef
  <2> HIDE DEF Made
  <2> QED
    BY ONLY <2>1
<1>2. /\ <<>> \in Seq(Elements) /\ <<elem>> \in Seq(Elements)
      /\ <<elem>> # <<>> /\ Len(<<elem>>) = 1 /\ <<elem>>[1] = elem
  OBVIOUS
<1>4. Create[0][<<elem>>] = LeafTree(elem)
  <2>1. Create[0][<<elem>>] = Made(<<elem>>, 0)
    <3> HIDE DEF Made
    <3> QED
      BY <1>1, <1>2, Heights
  <2> QED
    BY <1>2, <2>1
<1>5. ASSUME NEW d \in 0 .. Depth - 1
      PROVE  Create[d + 1][<<elem>>] = Node(Create[d][<<elem>>], Create[d][<<>>])
  <2>1. d + 1 \in 0 .. Depth /\ d + 1 # 0 /\ (d + 1) - 1 = d
    BY Heights
  <2>2. Create[d + 1][<<elem>>] = Made(<<elem>>, d + 1)
    <3> HIDE DEF Made
    <3> QED
      BY <1>1, <1>2, <2>1
  <2>3. Half(<<elem>>, d + 1) = 1
    <3>1. LeftCapacity(d + 1) \in Nat \ {0}
      BY <2>1, PowersAre DEF LeftCapacity
    <3> QED
      BY <1>2, <3>1
  <2>4. SubSeq(<<elem>>, 1, 1) = <<elem>> /\ SubSeq(<<elem>>, 1 + 1, 1) = <<>>
    <3>1. /\ SubSeq(<<elem>>, 1, 1) \in Seq(Elements)
          /\ Len(SubSeq(<<elem>>, 1, 1)) = 1
          /\ SubSeq(<<elem>>, 1, 1)[1] = elem
      <4>1. \A i \in 1 .. 1 : <<elem>>[i] \in Elements
        OBVIOUS
      <4>2. /\ SubSeq(<<elem>>, 1, 1) \in Seq(Elements)
            /\ Len(SubSeq(<<elem>>, 1, 1)) = IF 1 <= 1 THEN 1 - 1 + 1 ELSE 0
            /\ \A i \in 1 .. 1 - 1 + 1 : SubSeq(<<elem>>, 1, 1)[i] = <<elem>>[1 + i - 1]
        BY ONLY <4>1, 1 \in Int, SubSeqProperties
      <4> QED
        BY <4>2
    <3>2. SubSeq(<<elem>>, 1, 1) = <<elem>>
      <4> DEFINE sub == SubSeq(<<elem>>, 1, 1)
                 one == <<elem>>
      <4> HIDE DEF sub, one
      <4>1. sub \in Seq(Elements) /\ one \in Seq(Elements) /\ Len(sub) = 1 /\ Len(one) = 1 /\ sub[1] = one[1]
        BY <1>2, <3>1 DEF sub, one
      <4>2. Len(sub) = Len(one) /\ \A i \in 1 .. Len(sub) : sub[i] = one[i]
        BY ONLY <4>1
      <4>3. sub = one
        BY ONLY <4>1, <4>2, SeqEqual
      <4> QED
        BY <4>3 DEF sub, one
    <3>3. SubSeq(<<elem>>, 1 + 1, 1) = <<>>
      BY SubSeqEmpty
    <3> QED
      BY <3>2, <3>3
  <2>5. Made(<<elem>>, d + 1) = Node(Create[(d + 1) - 1][SubSeq(<<elem>>, 1, Half(<<elem>>, d + 1))],
                                     Create[(d + 1) - 1][SubSeq(<<elem>>, Half(<<elem>>, d + 1) + 1, Len(<<elem>>))])
    BY <1>2, <2>1
  <2> HIDE DEF Half, Made
  <2> QED
    BY <1>2, <2>1, <2>2, <2>3, <2>4, <2>5
<1> QED
  BY <1>4, <1>5

(* The tree of one leaf is the one built over the block that begins with it. *)
LEMMA CreateFirst ==
  ASSUME NEW s, NEW n \in Nat, s[n] \in Elements
  PROVE  \A d \in 0 .. Depth, k \in Nat : k * Pow2[d] = n => Create[d][<<s[n]>>] = Built(s, n + 1)[d][k]
<1> DEFINE elem == s[n]
           holds == {d \in Nat : d <= Depth =>
                       \A k \in Nat : k * Pow2[d] = n => Create[d][<<s[n]>>] = Built(s, n + 1)[d][k]}
<1>1. 0 \in holds
  <2>1. ASSUME NEW k \in Nat, k * Pow2[0] = n
        PROVE  Create[0][<<s[n]>>] = Built(s, n + 1)[0][k]
    <3>1. k = n /\ k < n + 1 /\ n + 1 \in Nat
      BY <2>1, PowersAre
    <3>2. Built(s, n + 1)[0][k] = LeafTree(s[k])
      BY <3>1, BuiltIs
    <3> QED
      BY <3>1, <3>2, CreateIs
  <2> QED
    BY <2>1
<1>2. ASSUME NEW d \in Nat, d \in holds
      PROVE  d + 1 \in holds
  <2>1. SUFFICES ASSUME d + 1 <= Depth, NEW k \in Nat, k * Pow2[d + 1] = n
                 PROVE  Create[d + 1][<<s[n]>>] = Built(s, n + 1)[d + 1][k]
    OBVIOUS
  <2>2. d \in 0 .. Depth - 1 /\ d <= Depth /\ d \in 0 .. Depth
    BY <2>1, Heights
  <2>3. /\ Pow2[d] \in Nat \ {0} /\ 2 * k \in Nat /\ 2 * k + 1 \in Nat
        /\ k * Pow2[d + 1] = (2 * k) * Pow2[d] /\ (2 * k) * Pow2[d] \in Nat
        /\ (2 * k + 1) * Pow2[d] = (2 * k) * Pow2[d] + Pow2[d]
    BY ONLY <2>2, k \in Nat, Halves
  <2>4. /\ ~ (n + 1 <= k * Pow2[d + 1])
        /\ (2 * k) * Pow2[d] = n
        /\ n + 1 <= (2 * k + 1) * Pow2[d]
    <3> DEFINE a == (2 * k) * Pow2[d]
               b == (2 * k + 1) * Pow2[d]
               c == k * Pow2[d + 1]
               p == Pow2[d]
    <3>1. p \in Nat \ {0} /\ c = a /\ a \in Nat /\ b = a + p /\ c = n
      BY <2>1, <2>3
    <3> HIDE DEF a, b, c, p
    <3>2. ~ (n + 1 <= c) /\ a = n /\ n + 1 <= b
      BY ONLY <3>1, n \in Nat
    <3> QED
      BY <3>2 DEF a, b, c
  <2>5. Built(s, n + 1)[d + 1][k] = Node(Built(s, n + 1)[d][2 * k], Built(s, n + 1)[d][2 * k + 1])
    BY <2>2, <2>4, BuiltIs
  <2>6. Built(s, n + 1)[d][2 * k + 1] = ZeroTree(d)
    BY <2>2, <2>3, <2>4, BuiltIs
  <2>7. Create[d][<<s[n]>>] = Built(s, n + 1)[d][2 * k]
    BY <1>2, <2>2, <2>3, <2>4
  <2>8. Create[d + 1][<<s[n]>>] = Node(Create[d][<<s[n]>>], Create[d][<<>>]) /\ Create[d][<<>>] = ZeroTree(d)
    <3>1. d \in 0 .. Depth
      BY <2>2, Heights
    <3>2. Create[d + 1][<<s[n]>>] = Node(Create[d][<<s[n]>>], Create[d][<<>>])
      BY <2>2, CreateIs
    <3>3. Create[d][<<>>] = ZeroTree(d)
      BY <3>1, CreateEmpty
    <3> QED
      BY <3>2, <3>3
  <2> QED
    BY ONLY <2>5, <2>6, <2>7, <2>8
<1>3. \A d \in Nat : d \in holds
  <2> HIDE DEF holds
  <2> QED
    BY <1>1, <1>2, Induction
<1> QED
  BY <1>3

(* What push_leaf does with each kind of tree. *)
LEMMA PushIs ==
  ASSUME NEW elem, NEW d \in 0 .. Depth - 1
  PROVE  /\ \A tree \in Trees[d + 1] : tree.kind = "zero" => Push(elem)[d + 1][tree] = Grown(Create[d + 1][<<elem>>])
         /\ \A left, right : Node(left, right) \in Trees[d + 1] =>
              LET pushed == Push(elem)[d + 1][Node(left, right)]
                  into == Push(elem)[d][left]
                  onto == Push(elem)[d][right]
              IN /\ left.kind = "leaf" /\ right.kind = "leaf" => pushed = Failed("MerkleTreeFull")
                 /\ left.kind = "leaf" /\ right.kind = "zero" => pushed = Grown(Node(left, Create[d][<<elem>>]))
                 /\ left.kind = "node" /\ right.kind = "node" =>
                      pushed = IF onto.err = "none" THEN Grown(Node(left, onto.tree)) ELSE onto
                 /\ left.kind = "node" /\ right.kind = "zero" =>
                      /\ into.err = "none" => pushed = Grown(Node(into.tree, right))
                      /\ into.err = "MerkleTreeFull" => pushed = Grown(Node(left, Create[d][<<elem>>]))
<1> DEFINE Pushed(tree, i) ==
             IF i = 0 THEN Failed("DepthTooSmall")
             ELSE IF tree.kind = "leaf" THEN Failed("LeafReached")
             ELSE IF tree.kind = "zero" THEN Grown(Create[i][<<elem>>])
             ELSE
               LET kinds == <<tree.left.kind, tree.right.kind>> IN
               CASE kinds = <<"leaf", "leaf">> -> Failed("MerkleTreeFull")
                 [] kinds = <<"node", "node">> ->
                      LET pushed == Push(elem)[i - 1][tree.right] IN
                      IF pushed.err = "none" THEN Grown(Node(tree.left, pushed.tree)) ELSE pushed
                 [] kinds = <<"zero", "zero">> ->
                      Grown(Node(Create[i - 1][<<elem>>], tree.right))
                 [] kinds = <<"leaf", "zero">> -> StartRight(tree.left, elem, i)
                 [] kinds = <<"node", "zero">> ->
                      LET pushed == Push(elem)[i - 1][tree.left] IN
                      CASE pushed.err = "none" -> Grown(Node(pushed.tree, tree.right))
                        [] pushed.err = "MerkleTreeFull" -> StartRight(tree.left, elem, i)
                        [] OTHER -> pushed
                 [] OTHER -> Failed("Invalid")
<1>1. \A i \in 0 .. Depth : \A tree \in Trees[i] : Push(elem)[i][tree] = Pushed(tree, i)
  <2>1. Push(elem) = [i \in 0 .. Depth |-> [tree \in Trees[i] |-> Pushed(tree, i)]]
    BY PushDef
  <2> HIDE DEF Pushed
  <2> QED
    BY ONLY <2>1
<1>2. d + 1 \in 0 .. Depth /\ d + 1 # 0 /\ (d + 1) - 1 = d
  BY Heights
<1>3. \A tree \in Trees[d + 1] : Push(elem)[d + 1][tree] = Pushed(tree, d + 1)
  <2> HIDE DEF Pushed
  <2> QED
    BY ONLY <1>1, <1>2
<1>4. ASSUME NEW tree \in Trees[d + 1], tree.kind = "zero"
      PROVE  Push(elem)[d + 1][tree] = Grown(Create[d + 1][<<elem>>])
  <2>1. Pushed(tree, d + 1) = Grown(Create[d + 1][<<elem>>])
    BY ONLY <1>2, <1>4
  <2> HIDE DEF Pushed
  <2> QED
    BY ONLY <1>3, <2>1, tree \in Trees[d + 1]
<1>5. ASSUME NEW left, NEW right, Node(left, right) \in Trees[d + 1]
      PROVE  LET pushed == Push(elem)[d + 1][Node(left, right)]
                 into == Push(elem)[d][left]
                 onto == Push(elem)[d][right]
             IN /\ left.kind = "leaf" /\ right.kind = "leaf" => pushed = Failed("MerkleTreeFull")
                /\ left.kind = "leaf" /\ right.kind = "zero" => pushed = Grown(Node(left, Create[d][<<elem>>]))
                /\ left.kind = "node" /\ right.kind = "node" =>
                     pushed = IF onto.err = "none" THEN Grown(Node(left, onto.tree)) ELSE onto
                /\ left.kind = "node" /\ right.kind = "zero" =>
                     /\ into.err = "none" => pushed = Grown(Node(into.tree, right))
                     /\ into.err = "MerkleTreeFull" => pushed = Grown(Node(left, Create[d][<<elem>>]))
  <2> DEFINE tree == Node(left, right)
             pushed == Push(elem)[d + 1][tree]
             into == Push(elem)[d][left]
             onto == Push(elem)[d][right]
  <2>1. tree.kind = "node" /\ tree.left = left /\ tree.right = right
    BY DEF Node
  <2>2. pushed = Pushed(tree, d + 1)
    <3> HIDE DEF Pushed, tree
    <3>1. tree \in Trees[d + 1]
      BY <1>5 DEF tree
    <3> QED
      BY ONLY <1>3, <3>1 DEF pushed
  <2> DEFINE kinds == <<left.kind, right.kind>>
  <2>3. pushed = CASE kinds = <<"leaf", "leaf">> -> Failed("MerkleTreeFull")
                   [] kinds = <<"node", "node">> ->
                        IF onto.err = "none" THEN Grown(Node(left, onto.tree)) ELSE onto
                   [] kinds = <<"zero", "zero">> -> Grown(Node(Create[d][<<elem>>], right))
                   [] kinds = <<"leaf", "zero">> -> StartRight(left, elem, d + 1)
                   [] kinds = <<"node", "zero">> ->
                        (CASE into.err = "none" -> Grown(Node(into.tree, right))
                           [] into.err = "MerkleTreeFull" -> StartRight(left, elem, d + 1)
                           [] OTHER -> into)
                   [] OTHER -> Failed("Invalid")
    <3> HIDE DEF tree, pushed
    <3> QED
      BY ONLY <1>2, <2>1, <2>2
  <2>4. StartRight(left, elem, d + 1) = Grown(Node(left, Create[d][<<elem>>]))
    BY ONLY <1>2 DEF StartRight
  <2> HIDE DEF pushed, into, onto, tree
  <2>5. ASSUME left.kind = "leaf", right.kind = "leaf"
        PROVE  pushed = Failed("MerkleTreeFull")
    BY ONLY <2>3, <2>5
  <2>6. ASSUME left.kind = "leaf", right.kind = "zero"
        PROVE  pushed = Grown(Node(left, Create[d][<<elem>>]))
    BY ONLY <2>3, <2>4, <2>6
  <2>7. ASSUME left.kind = "node", right.kind = "node"
        PROVE  pushed = IF onto.err = "none" THEN Grown(Node(left, onto.tree)) ELSE onto
    BY ONLY <2>3, <2>7
  <2>8. ASSUME left.kind = "node", right.kind = "zero", into.err = "none"
        PROVE  pushed = Grown(Node(into.tree, right))
    BY ONLY <2>3, <2>8
  <2>9. ASSUME left.kind = "node", right.kind = "zero", into.err = "MerkleTreeFull"
        PROVE  pushed = Grown(Node(left, Create[d][<<elem>>]))
    BY ONLY <2>3, <2>4, <2>9
  <2> QED
    BY <2>5, <2>6, <2>7, <2>8, <2>9 DEF pushed, into, onto, tree
<1> QED
  BY <1>4, <1>5

(* Pushing leaf n into the tree of a block of depth d grows it, if the block   *)
(* holds that leaf, and fails if the block is full.                           *)
Grows(s, n, d) ==
  \A k \in Nat :
    /\ k * Pow2[d] <= n /\ n < (k + 1) * Pow2[d] =>
         Push(s[n])[d][Built(s, n)[d][k]] = Grown(Built(s, n + 1)[d][k])
    /\ (k + 1) * Pow2[d] <= n => Push(s[n])[d][Built(s, n)[d][k]] = Failed("MerkleTreeFull")

(* From each depth to the next: the cases of push_leaf. *)
LEMMA PushStep ==
  ASSUME NEW s, NEW n \in Nat, \A i \in Nat : i <= n => s[i] \in Elements,
         NEW d \in 0 .. Depth - 1, d # 0 => Grows(s, n, d)
  PROVE  Grows(s, n, d + 1)
<1> SUFFICES ASSUME NEW k \in Nat
             PROVE  /\ k * Pow2[d + 1] <= n /\ n < (k + 1) * Pow2[d + 1] =>
                         Push(s[n])[d + 1][Built(s, n)[d + 1][k]] = Grown(Built(s, n + 1)[d + 1][k])
                    /\ (k + 1) * Pow2[d + 1] <= n =>
                         Push(s[n])[d + 1][Built(s, n)[d + 1][k]] = Failed("MerkleTreeFull")
  BY DEF Grows
<1> DEFINE p == Pow2[d]
           a == k * Pow2[d + 1]
           b == (2 * k + 1) * Pow2[d]
           c == (k + 1) * Pow2[d + 1]
           tree == Built(s, n)[d + 1][k]
           next == Built(s, n + 1)[d + 1][k]
           l == Built(s, n)[d][2 * k]
           r == Built(s, n)[d][2 * k + 1]
           lnext == Built(s, n + 1)[d][2 * k]
           rnext == Built(s, n + 1)[d][2 * k + 1]
           elem == s[n]
<1>1. /\ p \in Nat \ {0} /\ a \in Nat /\ b = a + p /\ c = a + p + p /\ (d = 0 => p = 1)
      /\ a = (2 * k) * Pow2[d] /\ c = (2 * k + 1 + 1) * Pow2[d]
      /\ 2 * k \in Nat /\ 2 * k + 1 \in Nat
  <2>1. /\ Pow2[d] \in Nat \ {0} /\ Pow2[d + 1] = 2 * Pow2[d]
        /\ 2 * k \in Nat /\ 2 * k + 1 \in Nat
        /\ k * Pow2[d + 1] = (2 * k) * Pow2[d] /\ (2 * k) * Pow2[d] \in Nat
        /\ (2 * k + 1) * Pow2[d] = (2 * k) * Pow2[d] + Pow2[d]
        /\ (2 * k + 1 + 1) * Pow2[d] = (2 * k) * Pow2[d] + Pow2[d] + Pow2[d]
        /\ (k + 1) * Pow2[d + 1] = (2 * k) * Pow2[d] + Pow2[d] + Pow2[d]
    BY ONLY k \in Nat, d \in 0 .. Depth - 1, Halves
  <2>2. d = 0 => Pow2[d] = 1
    BY PowersAre
  <2> QED
    BY ONLY <2>1, <2>2
<1>2. d \in 0 .. Depth /\ d + 1 \in 0 .. Depth /\ n + 1 \in Nat /\ elem \in Elements
  BY Heights
<1>3. \A i \in Nat : i < n + 1 => s[i] \in Elements
  OBVIOUS
<1>4. tree \in Trees[d + 1]
  BY <1>2, BuiltType
<1>5. n <= a => tree = ZeroTree(d + 1)
  BY <1>2, BuiltIs
<1>6. ~ (n <= a) => tree = Node(l, r)
  BY BuiltIs
<1>7. ~ (n + 1 <= a) => next = Node(lnext, rnext)
  BY <1>2, BuiltIs
<1>8. /\ ~ (n <= a) /\ d = 0 => l.kind = "leaf"
      /\ ~ (n <= a) /\ d # 0 => l.kind = "node"
      /\ n <= b => r.kind = "zero" /\ r = ZeroTree(d)
      /\ ~ (n <= b) /\ d = 0 => r.kind = "leaf"
      /\ ~ (n <= b) /\ d # 0 => r.kind = "node"
      /\ n + 1 <= b => rnext = ZeroTree(d)
  <2>1. /\ n <= b => r = ZeroTree(d)
        /\ n + 1 <= b => rnext = ZeroTree(d)
    <3>1. n <= b => r = ZeroTree(d)
      BY ONLY <1>1, <1>2, n \in Nat, BuiltIs
    <3>2. n + 1 <= b => rnext = ZeroTree(d)
      BY ONLY <1>1, <1>2, BuiltIs
    <3> QED
      BY <3>1, <3>2
  <2>2. /\ ~ (n <= a) /\ d = 0 => l.kind = "leaf"
        /\ ~ (n <= a) /\ d # 0 => l.kind = "node"
    BY ONLY <1>1, <1>2, n \in Nat, BuiltKind
  <2>3. /\ n <= b => r.kind = "zero"
        /\ ~ (n <= b) /\ d = 0 => r.kind = "leaf"
        /\ ~ (n <= b) /\ d # 0 => r.kind = "node"
    BY ONLY <1>1, <1>2, n \in Nat, BuiltKind
  <2> QED
    BY ONLY <2>1, <2>2, <2>3
<1>9. /\ n = a => Create[d + 1][<<elem>>] = next
      /\ n = b => Create[d][<<elem>>] = rnext
  <2>1. n = a => Create[d + 1][<<elem>>] = next
    BY <1>2, CreateFirst
  <2>2. \A i \in 0 .. Depth, j \in Nat : j * Pow2[i] = n => Create[i][<<s[n]>>] = Built(s, n + 1)[i][j]
    BY ONLY <1>2, n \in Nat, CreateFirst
  <2>3. n = b => Create[d][<<elem>>] = rnext
    BY ONLY <1>1, <1>2, <2>2
  <2> QED
    BY <2>1, <2>3
<1>10. b <= n => l = lnext
  <2>1. \A i \in Nat : i < n => s[i] = s[i]
    OBVIOUS
  <2>2. \A i \in 0 .. Depth, j \in Nat : (j + 1) * Pow2[i] <= n => Built(s, n)[i][j] = Built(s, n + 1)[i][j]
    BY ONLY <1>2, <2>1, n \in Nat, n <= n + 1, SameTree
  <2> QED
    BY ONLY <1>1, <1>2, <2>2
<1>11. /\ d # 0 /\ a <= n /\ n < b => Push(elem)[d][l] = Grown(lnext)
       /\ d # 0 /\ b <= n => Push(elem)[d][l] = Failed("MerkleTreeFull")
       /\ d # 0 /\ b <= n /\ n < c => Push(elem)[d][r] = Grown(rnext)
       /\ d # 0 /\ c <= n => Push(elem)[d][r] = Failed("MerkleTreeFull")
  <2>1. ASSUME d # 0
        PROVE  /\ a <= n /\ n < b => Push(elem)[d][l] = Grown(lnext)
               /\ b <= n => Push(elem)[d][l] = Failed("MerkleTreeFull")
    BY <1>1, <2>1 DEF Grows
  <2>2. ASSUME d # 0
        PROVE  /\ b <= n /\ n < c => Push(elem)[d][r] = Grown(rnext)
               /\ c <= n => Push(elem)[d][r] = Failed("MerkleTreeFull")
    BY <1>1, <2>2 DEF Grows
  <2> QED
    BY <2>1, <2>2
<1>12. tree.kind = "zero" => Push(elem)[d + 1][tree] = Grown(Create[d + 1][<<elem>>])
  BY <1>4, PushIs
<1>13. tree = Node(l, r) =>
         /\ l.kind = "leaf" /\ r.kind = "leaf" => Push(elem)[d + 1][tree] = Failed("MerkleTreeFull")
         /\ l.kind = "leaf" /\ r.kind = "zero" => Push(elem)[d + 1][tree] = Grown(Node(l, Create[d][<<elem>>]))
         /\ l.kind = "node" /\ r.kind = "node" =>
              Push(elem)[d + 1][tree] = IF Push(elem)[d][r].err = "none" THEN Grown(Node(l, Push(elem)[d][r].tree))
                                        ELSE Push(elem)[d][r]
         /\ l.kind = "node" /\ r.kind = "zero" =>
              /\ Push(elem)[d][l].err = "none" => Push(elem)[d + 1][tree] = Grown(Node(Push(elem)[d][l].tree, r))
              /\ Push(elem)[d][l].err = "MerkleTreeFull" => Push(elem)[d + 1][tree] = Grown(Node(l, Create[d][<<elem>>]))
  <2>1. ASSUME NEW x, NEW y, tree = Node(x, y)
        PROVE  /\ x.kind = "leaf" /\ y.kind = "leaf" => Push(elem)[d + 1][tree] = Failed("MerkleTreeFull")
               /\ x.kind = "leaf" /\ y.kind = "zero" => Push(elem)[d + 1][tree] = Grown(Node(x, Create[d][<<elem>>]))
               /\ x.kind = "node" /\ y.kind = "node" =>
                    Push(elem)[d + 1][tree] = IF Push(elem)[d][y].err = "none" THEN Grown(Node(x, Push(elem)[d][y].tree))
                                              ELSE Push(elem)[d][y]
               /\ x.kind = "node" /\ y.kind = "zero" =>
                    /\ Push(elem)[d][x].err = "none" => Push(elem)[d + 1][tree] = Grown(Node(Push(elem)[d][x].tree, y))
                    /\ Push(elem)[d][x].err = "MerkleTreeFull" =>
                         Push(elem)[d + 1][tree] = Grown(Node(x, Create[d][<<elem>>]))
    <3> DEFINE t == tree
    <3> HIDE DEF tree
    <3>1. Node(x, y) \in Trees[d + 1]
      BY <1>4, <2>1
    <3> HIDE DEF t
    <3> QED
      BY <2>1, <3>1, PushIs
  <2> HIDE DEF tree, l, r, elem
  <2> QED
    BY <2>1
<1>14. \A t : Grown(t).err = "none" /\ Grown(t).tree = t
  BY DEF Grown
<1>15. Failed("MerkleTreeFull").err = "MerkleTreeFull"
  BY DEF Failed
<1>16. ZeroTree(d + 1).kind = "zero"
  BY DEF ZeroTree
<1> HIDE DEF p, a, b, c, tree, next, l, r, lnext, rnext, elem
<1>20. CASE n = a
  <2>1. n < c /\ ~ (c <= n)
    BY ONLY <1>1, <1>20, n \in Nat
  <2>2. Push(elem)[d + 1][tree] = Grown(next)
    BY ONLY <1>5, <1>9, <1>12, <1>16, <1>20, n \in Nat
  <2> QED
    BY <2>1, <2>2 DEF p, a, b, c, tree, next, elem
<1>21. CASE a < n
  <2>1. a <= n /\ ~ (n <= a) /\ ~ (n + 1 <= a)
    BY ONLY <1>1, <1>21, n \in Nat
  <2>2. tree = Node(l, r) /\ next = Node(lnext, rnext)
    BY ONLY <1>6, <1>7, <2>1
  <2>3. n < c => Push(elem)[d + 1][tree] = Grown(next)
    <3>1. CASE n < b
      <4>1. d # 0 /\ n <= b /\ n + 1 <= b
        BY ONLY <1>1, <1>21, <3>1, n \in Nat
      <4>2. l.kind = "node" /\ r.kind = "zero" /\ r = rnext
        BY ONLY <1>8, <2>1, <4>1
      <4>3. Push(elem)[d][l] = Grown(lnext)
        BY ONLY <1>11, <2>1, <3>1, <4>1
      <4> QED
        BY ONLY <1>13, <1>14, <2>2, <4>2, <4>3
    <3>2. CASE n = b
      <4>1. b <= n /\ n <= b
        BY ONLY <1>1, <3>2, n \in Nat
      <4>2. r.kind = "zero" /\ l = lnext /\ Create[d][<<elem>>] = rnext
        BY ONLY <1>8, <1>9, <1>10, <3>2, <4>1
      <4>3. Push(elem)[d + 1][tree] = Grown(Node(l, Create[d][<<elem>>]))
        <5>1. CASE d = 0
          BY ONLY <1>8, <1>13, <2>1, <2>2, <4>2, <5>1
        <5>2. CASE d # 0
          BY ONLY <1>8, <1>11, <1>13, <1>15, <2>1, <2>2, <4>1, <4>2, <5>2
        <5> QED
          BY <5>1, <5>2
      <4> QED
        BY ONLY <2>2, <4>2, <4>3
    <3>3. CASE b < n
      <4>1. SUFFICES ASSUME n < c
                     PROVE  Push(elem)[d + 1][tree] = Grown(next)
        OBVIOUS
      <4>2. d # 0 /\ b <= n /\ ~ (n <= b)
        BY ONLY <1>1, <3>3, <4>1, n \in Nat
      <4>3. l.kind = "node" /\ r.kind = "node" /\ l = lnext
        BY ONLY <1>8, <1>10, <2>1, <4>2
      <4>4. Push(elem)[d][r] = Grown(rnext)
        BY ONLY <1>11, <4>1, <4>2
      <4> QED
        BY ONLY <1>13, <1>14, <2>2, <4>3, <4>4
    <3> QED
      BY ONLY <1>1, <3>1, <3>2, <3>3, n \in Nat
  <2>4. c <= n => Push(elem)[d + 1][tree] = Failed("MerkleTreeFull")
    <3>1. SUFFICES ASSUME c <= n
                   PROVE  Push(elem)[d + 1][tree] = Failed("MerkleTreeFull")
      OBVIOUS
    <3>2. ~ (n <= b)
      BY ONLY <1>1, <3>1, n \in Nat
    <3>3. CASE d = 0
      BY ONLY <1>8, <1>13, <2>1, <2>2, <3>2, <3>3
    <3>4. CASE d # 0
      <4>1. Push(elem)[d][r] = Failed("MerkleTreeFull")
        BY ONLY <1>11, <3>1, <3>4
      <4> QED
        BY ONLY <1>8, <1>13, <1>15, <2>1, <2>2, <3>2, <3>4, <4>1
    <3> QED
      BY <3>3, <3>4
  <2> QED
    BY <2>3, <2>4 DEF p, a, b, c, tree, next, elem
<1>22. CASE n < a
  <2>1. ~ (a <= n) /\ ~ (c <= n)
    BY ONLY <1>1, <1>22, n \in Nat
  <2> QED
    BY <2>1 DEF a, c
<1> QED
  BY ONLY <1>1, <1>20, <1>21, <1>22, n \in Nat

(* Pushing leaf n into the whole tree, unless it is full. *)
LEMMA PushBuilt ==
  ASSUME NEW s, NEW n \in Nat, \A i \in Nat : i <= n => s[i] \in Elements, n < Pow2[Depth]
  PROVE  Push(s[n])[Depth][Built(s, n)[Depth][0]] = Grown(Built(s, n + 1)[Depth][0])
<1> DEFINE holds == {d \in Nat : d + 1 <= Depth => Grows(s, n, d + 1)}
<1>1. 0 \in holds
  <2>1. 0 \in 0 .. Depth - 1
    BY DepthAssumption
  <2>2. Grows(s, n, 0 + 1)
    BY <2>1, PushStep
  <2> QED
    BY <2>2
<1>2. ASSUME NEW d \in Nat, d \in holds
      PROVE  d + 1 \in holds
  <2>1. SUFFICES ASSUME d + 1 + 1 <= Depth
                 PROVE  Grows(s, n, d + 1 + 1)
    OBVIOUS
  <2>2. d + 1 <= Depth /\ d + 1 \in 0 .. Depth - 1
    BY <2>1, DepthAssumption
  <2>3. Grows(s, n, d + 1)
    BY <1>2, <2>2
  <2> QED
    BY <2>2, <2>3, PushStep
<1>3. \A d \in Nat : d \in holds
  <2> HIDE DEF holds
  <2> QED
    BY <1>1, <1>2, Induction
<1>4. Grows(s, n, Depth)
  <2>1. Depth - 1 \in Nat /\ (Depth - 1) + 1 = Depth
    BY DepthAssumption
  <2> QED
    BY <1>3, <2>1
<1>5. 0 * Pow2[Depth] <= n /\ n < (0 + 1) * Pow2[Depth]
  <2>1. Pow2[Depth] \in Nat
    BY PowersAre
  <2> QED
    BY <2>1
<1> QED
  BY <1>4, <1>5 DEF Grows

(* What Climb hashes at each height. *)
LEMMA ClimbIs ==
  ASSUME NEW leaf, NEW sibling, NEW lefts
  PROVE  /\ Climb(leaf, sibling, lefts)[0] = leaf
         /\ \A i \in 0 .. Depth - 1 :
              /\ i \in lefts =>
                   Climb(leaf, sibling, lefts)[i + 1] = <<sibling[i], Climb(leaf, sibling, lefts)[i]>>
              /\ i \notin lefts =>
                   Climb(leaf, sibling, lefts)[i + 1] = <<Climb(leaf, sibling, lefts)[i], sibling[i]>>
<1> DEFINE node == Climb(leaf, sibling, lefts)
<1>1. \A i \in 0 .. Depth :
        node[i] = IF i = 0 THEN leaf
                  ELSE IF i - 1 \in lefts THEN HashConcat(sibling[i - 1], node[i - 1])
                  ELSE HashConcat(node[i - 1], sibling[i - 1])
  <2>1. node = [i \in 0 .. Depth |->
                  IF i = 0 THEN leaf
                  ELSE IF i - 1 \in lefts THEN HashConcat(sibling[i - 1], node[i - 1])
                  ELSE HashConcat(node[i - 1], sibling[i - 1])]
    BY ClimbDef
  <2> HIDE DEF node
  <2> QED
    BY ONLY <2>1
<1> HIDE DEF node
<1>2. node[0] = leaf
  BY ONLY <1>1, Heights
<1>3. ASSUME NEW i \in 0 .. Depth - 1
      PROVE  node[i + 1] = IF i \in lefts THEN HashConcat(sibling[i], node[i]) ELSE HashConcat(node[i], sibling[i])
  <2>1. i + 1 \in 0 .. Depth /\ i + 1 # 0 /\ (i + 1) - 1 = i
    BY Heights
  <2> QED
    BY ONLY <1>1, <2>1
<1> QED
  BY <1>2, <1>3 DEF node, HashConcat

(* Where the sibling of the block that holds position j is. *)
Beside(j, i) == IF Bit(j, i) = 1 THEN j \div Pow2[i] - 1 ELSE j \div Pow2[i] + 1

(* A block and the one beside it are the halves of the block above. *)
LEMMA BesideIs ==
  ASSUME NEW j \in Nat, NEW i \in 0 .. Depth - 1
  PROVE  /\ Beside(j, i) \in Nat
         /\ j \div Pow2[i] \in Nat /\ j \div Pow2[i + 1] \in Nat
         /\ Bit(j, i) = 1 => Beside(j, i) = 2 * (j \div Pow2[i + 1]) /\ j \div Pow2[i] = 2 * (j \div Pow2[i + 1]) + 1
         /\ Bit(j, i) # 1 => Beside(j, i) = 2 * (j \div Pow2[i + 1]) + 1 /\ j \div Pow2[i] = 2 * (j \div Pow2[i + 1])
<1>1. /\ j \div Pow2[i] \in Nat /\ j \div Pow2[i + 1] \in Nat /\ Bit(j, i) \in {0, 1}
      /\ j \div Pow2[i] = 2 * (j \div Pow2[i + 1]) + Bit(j, i)
  BY BlockOf, Heights
<1> DEFINE low == j \div Pow2[i]
           high == j \div Pow2[i + 1]
           bit == Bit(j, i)
<1>2. low \in Nat /\ high \in Nat /\ bit \in {0, 1} /\ low = 2 * high + bit
      /\ Beside(j, i) = IF bit = 1 THEN low - 1 ELSE low + 1
  BY <1>1 DEF Beside
<1> HIDE DEF low, high, bit
<1>3. /\ Beside(j, i) \in Nat /\ low \in Nat /\ high \in Nat
      /\ bit = 1 => Beside(j, i) = 2 * high /\ low = 2 * high + 1
      /\ bit # 1 => Beside(j, i) = 2 * high + 1 /\ low = 2 * high
  BY ONLY <1>2
<1> QED
  BY <1>3 DEF low, high, bit

(* A path has the siblings of the blocks that hold position j, up to a height. *)
Leads(s, n, j, sibling, lefts, top) ==
  \A i \in 0 .. Depth - 1 : i < top =>
    /\ i \in lefts <=> Bit(j, i) = 1
    /\ sibling[i] = Level(s, n)[i][Beside(j, i)]

(* Hashing a block with its siblings leads up the levels of the reference. *)
LEMMA ClimbsTo ==
  ASSUME NEW s, NEW n \in Nat, NEW j \in Nat, NEW leaf, NEW sibling, NEW lefts, NEW top \in 0 .. Depth,
         leaf = Level(s, n)[0][j], Leads(s, n, j, sibling, lefts, top)
  PROVE  \A i \in 0 .. Depth : i <= top => Climb(leaf, sibling, lefts)[i] = Level(s, n)[i][j \div Pow2[i]]
<1> DEFINE node == Climb(leaf, sibling, lefts)
           level == Level(s, n)
           holds == {i \in Nat : i <= top => node[i] = level[i][j \div Pow2[i]]}
<1>0. /\ node[0] = leaf
      /\ \A i \in 0 .. Depth - 1 : /\ i \in lefts => node[i + 1] = <<sibling[i], node[i]>>
                                   /\ i \notin lefts => node[i + 1] = <<node[i], sibling[i]>>
  BY ClimbIs
<1>1. ASSUME NEW d \in 0 .. Depth - 1, NEW k \in Nat
      PROVE  level[d + 1][k] = <<level[d][2 * k], level[d][2 * k + 1]>>
  BY ONLY d \in 0 .. Depth - 1, k \in Nat, LevelIs
<1>2. j \div Pow2[0] = j
  BY BlockOf
<1>3. /\ leaf = level[0][j]
      /\ \A i \in 0 .. Depth - 1 : i < top =>
           ((i \in lefts <=> Bit(j, i) = 1) /\ sibling[i] = level[i][Beside(j, i)])
  BY DEF Leads
<1> HIDE DEF node, level
<1>4. 0 \in holds
  BY <1>0, <1>2, <1>3
<1>5. ASSUME NEW i \in Nat, i \in holds
      PROVE  i + 1 \in holds
  <2>1. SUFFICES ASSUME i + 1 <= top
                 PROVE  node[i + 1] = level[i + 1][j \div Pow2[i + 1]]
    OBVIOUS
  <2>2. i \in 0 .. Depth - 1 /\ i <= top /\ i < top
    BY <2>1, DepthAssumption
  <2> DEFINE high == j \div Pow2[i + 1]
             low == j \div Pow2[i]
             bit == Bit(j, i)
             beside == Beside(j, i)
  <2>3. /\ high \in Nat
        /\ bit = 1 => beside = 2 * high /\ low = 2 * high + 1
        /\ bit # 1 => beside = 2 * high + 1 /\ low = 2 * high
    BY ONLY <2>2, j \in Nat, BesideIs
  <2>4. node[i] = level[i][low] /\ (i \in lefts <=> bit = 1) /\ sibling[i] = level[i][beside]
    BY <1>3, <1>5, <2>2
  <2> HIDE DEF high, low, bit, beside
  <2>5. level[i + 1][high] = <<level[i][2 * high], level[i][2 * high + 1]>>
    BY ONLY <1>1, <2>2, <2>3
  <2>6. node[i + 1] = level[i + 1][high]
    <3>1. CASE bit = 1
      BY ONLY <1>0, <2>2, <2>3, <2>4, <2>5, <3>1
    <3>2. CASE bit # 1
      BY ONLY <1>0, <2>2, <2>3, <2>4, <2>5, <3>2
    <3> QED
      BY <3>1, <3>2
  <2> QED
    BY <2>6 DEF high
<1>6. \A i \in Nat : i \in holds
  <2> HIDE DEF holds
  <2> QED
    BY <1>4, <1>5, Induction
<1> QED
  BY <1>6, DepthAssumption DEF node, level

(* Counting one more carries through the ones. *)
LEMMA Carry ==
  ASSUME NEW n \in Nat
  PROVE  \A i \in 0 .. Depth :
           (\A j \in 0 .. Depth - 1 : j < i => Bit(n + 1, j) = 0) =>
             /\ (n + 1) \div Pow2[i] = n \div Pow2[i] + 1
             /\ \A j \in 0 .. Depth - 1 : j < i => Bit(n, j) = 1
<1> DEFINE Zeros(i) == \A j \in 0 .. Depth - 1 : j < i => Bit(n + 1, j) = 0
           Ones(i) == \A j \in 0 .. Depth - 1 : j < i => Bit(n, j) = 1
           holds == {i \in Nat : i <= Depth => (Zeros(i) => (n + 1) \div Pow2[i] = n \div Pow2[i] + 1 /\ Ones(i))}
<1>1. 0 \in holds
  <2>1. (n + 1) \div Pow2[0] = n + 1 /\ n \div Pow2[0] = n
    BY BlockOf
  <2> QED
    BY <2>1
<1>2. ASSUME NEW i \in Nat, i \in holds
      PROVE  i + 1 \in holds
  <2>1. SUFFICES ASSUME i + 1 <= Depth, Zeros(i + 1)
                 PROVE  (n + 1) \div Pow2[i + 1] = n \div Pow2[i + 1] + 1 /\ Ones(i + 1)
    OBVIOUS
  <2>2. i \in 0 .. Depth - 1 /\ i <= Depth /\ i < i + 1
    BY <2>1, DepthAssumption
  <2>3. Zeros(i) /\ Bit(n + 1, i) = 0
    BY <2>1, <2>2
  <2>4. (n + 1) \div Pow2[i] = n \div Pow2[i] + 1 /\ Ones(i)
    <3> HIDE DEF Ones, Zeros
    <3> QED
      BY <1>2, <2>2, <2>3
  <2> DEFINE a == (n + 1) \div Pow2[i]
             b == n \div Pow2[i]
             aa == (n + 1) \div Pow2[i + 1]
             bb == n \div Pow2[i + 1]
  <2>5. /\ n + 1 \in Nat /\ i \in 0 .. Depth /\ i + 1 \in 0 .. Depth
    BY <2>2, Heights
  <2>6. /\ aa \in Nat /\ bb \in Nat /\ Bit(n, i) \in {0, 1}
        /\ a = 2 * aa + Bit(n + 1, i) /\ b = 2 * bb + Bit(n, i)
    <3>1. aa \in Nat /\ bb \in Nat
      BY <2>5, BlockOf
    <3>2. a = 2 * aa + Bit(n + 1, i)
      BY <2>2, <2>5, BlockOf
    <3>3. Bit(n, i) \in {0, 1} /\ b = 2 * bb + Bit(n, i)
      BY <2>2, BlockOf
    <3> QED
      BY <3>1, <3>2, <3>3
  <2> HIDE DEF a, b, aa, bb
  <2>7. a = b + 1
    BY <2>4 DEF a, b
  <2>8. aa = bb + 1 /\ Bit(n, i) = 1
    <3> DEFINE bit == Bit(n, i)
    <3>1. aa \in Nat /\ bb \in Nat /\ bit \in {0, 1} /\ a = 2 * aa + 0 /\ b = 2 * bb + bit
      BY <2>3, <2>6
    <3> HIDE DEF bit
    <3>2. aa = bb + 1 /\ bit = 1
      BY ONLY <2>7, <3>1
    <3> QED
      BY <3>2 DEF bit
  <2>9. Ones(i + 1)
    BY <2>4, <2>8
  <2> QED
    BY <2>8, <2>9 DEF aa, bb
<1>3. \A i \in Nat : i \in holds
  <2> HIDE DEF holds
  <2> QED
    BY <1>1, <1>2, Induction
<1> QED
  BY <1>3, DepthAssumption

(* The height an ingested leaf settles at, when the n + 1 leaves fit. *)
LEMMA HeightIs ==
  ASSUME NEW n \in Nat, n + 1 < Pow2[Depth]
  PROVE  /\ HeightFor(n + 1) \in 0 .. Depth - 1
         /\ Bit(n + 1, HeightFor(n + 1)) = 1
         /\ (n + 1) \div Pow2[HeightFor(n + 1)] = n \div Pow2[HeightFor(n + 1)] + 1
         /\ \A i \in 0 .. Depth - 1 : i < HeightFor(n + 1) => Bit(n, i) = 1 /\ Bit(n + 1, i) = 0
         /\ \A i \in 0 .. Depth - 1 :
              i > HeightFor(n + 1) => (n + 1) \div Pow2[i] = n \div Pow2[i] /\ Bit(n + 1, i) = Bit(n, i)
<1> DEFINE h == HeightFor(n + 1)
           ones == {i \in 0 .. Depth - 1 : Bit(n + 1, i) = 1}
<1>1. /\ \A i \in 0 .. Depth - 1 : Bit(n + 1, i) \in {0, 1} /\ Bit(n, i) \in {0, 1}
      /\ \A i \in 0 .. Depth - 1 : (n + 1) \div Pow2[i] = 2 * ((n + 1) \div Pow2[i + 1]) + Bit(n + 1, i)
      /\ \A i \in 0 .. Depth - 1 : n \div Pow2[i] = 2 * (n \div Pow2[i + 1]) + Bit(n, i)
      /\ \A i \in 0 .. Depth : (n + 1) \div Pow2[i] \in Nat /\ n \div Pow2[i] \in Nat
      /\ (n + 1) \div Pow2[Depth] = 0
  <2>1. n + 1 \in Nat
    OBVIOUS
  <2> QED
    BY <2>1, BlockOf
<1>2. ones # {}
  <2>1. SUFFICES ASSUME ones = {}
                 PROVE  FALSE
    OBVIOUS
  <2>2. \A j \in 0 .. Depth - 1 : Bit(n + 1, j) = 0
    BY <1>1, <2>1
  <2>3. Depth \in 0 .. Depth
    BY DepthAssumption
  <2>4. (n + 1) \div Pow2[Depth] = n \div Pow2[Depth] + 1
    BY <2>2, <2>3, Carry
  <2>5. n \div Pow2[Depth] \in Nat
    BY <1>1, <2>3
  <2> QED
    BY ONLY <1>1, <2>4, <2>5
<1>3. PICK least \in ones : \A i \in ones : least <= i
  <2>1. ones \in SUBSET Nat
    BY DepthAssumption
  <2> HIDE DEF ones
  <2> QED
    BY <1>2, <2>1, LeastNumber
<1>4. h \in 0 .. Depth /\ Bit(n + 1, h) = 1 /\ \A j \in 0 .. (h - 1) : Bit(n + 1, j) = 0
  <2>1. least \in 0 .. Depth /\ Bit(n + 1, least) = 1 /\ \A j \in 0 .. (least - 1) : Bit(n + 1, j) = 0
    <3>1. least \in 0 .. Depth - 1 /\ Bit(n + 1, least) = 1
      OBVIOUS
    <3>2. ASSUME NEW j \in 0 .. (least - 1)
          PROVE  Bit(n + 1, j) = 0
      <4>1. j \in 0 .. Depth - 1 /\ ~ (least <= j)
        BY <3>1, DepthAssumption
      <4> QED
        BY <1>1, <1>3, <4>1
    <3> QED
      BY <3>1, <3>2, DepthAssumption
  <2>2. \E i \in 0 .. Depth : Bit(n + 1, i) = 1 /\ \A j \in 0 .. (i - 1) : Bit(n + 1, j) = 0
    BY <2>1
  <2> QED
    BY ONLY <2>2 DEF HeightFor
<1>5. h \in 0 .. Depth - 1
  <2>1. Bit(n + 1, Depth) = 0
    BY <1>1 DEF Bit
  <2>2. h # Depth
    BY <1>4, <2>1
  <2> HIDE DEF h
  <2> QED
    BY <1>4, <2>2, DepthAssumption
<1> HIDE DEF h, ones
<1>6. \A j \in 0 .. Depth - 1 : j < h => Bit(n + 1, j) = 0
  <2>1. \A j \in 0 .. Depth - 1 : j < h => j \in 0 .. (h - 1)
    BY <1>5, DepthAssumption
  <2> QED
    BY <1>4, <2>1
<1>7. (n + 1) \div Pow2[h] = n \div Pow2[h] + 1 /\ \A j \in 0 .. Depth - 1 : j < h => Bit(n, j) = 1
  BY ONLY <1>4, <1>6, n \in Nat, Carry
<1> DEFINE above == {i \in Nat : h + 1 + i <= Depth => (n + 1) \div Pow2[h + 1 + i] = n \div Pow2[h + 1 + i]}
<1>8. (n + 1) \div Pow2[h + 1] = n \div Pow2[h + 1]
  <2> DEFINE a == (n + 1) \div Pow2[h]
             b == n \div Pow2[h]
             aa == (n + 1) \div Pow2[h + 1]
             bb == n \div Pow2[h + 1]
             bit == Bit(n, h)
  <2>1. aa \in Nat /\ bb \in Nat /\ a = 2 * aa + 1 /\ b = 2 * bb + bit /\ bit \in {0, 1} /\ a = b + 1
    BY <1>1, <1>4, <1>5, <1>7, Heights
  <2> HIDE DEF a, b, aa, bb, bit
  <2>2. aa = bb
    BY ONLY <2>1
  <2> QED
    BY <2>2 DEF aa, bb
<1>9. 0 \in above
  <2>1. h + 1 + 0 = h + 1
    BY <1>5
  <2> QED
    BY <1>8, <2>1
<1>10. ASSUME NEW i \in Nat, i \in above
       PROVE  i + 1 \in above
  <2>1. SUFFICES ASSUME h + 1 + (i + 1) <= Depth
                 PROVE  (n + 1) \div Pow2[h + 1 + (i + 1)] = n \div Pow2[h + 1 + (i + 1)]
    OBVIOUS
  <2> DEFINE g == h + 1 + i
             a == (n + 1) \div Pow2[g]
             aa == (n + 1) \div Pow2[g + 1]
             bb == n \div Pow2[g + 1]
             abit == Bit(n + 1, g)
             bbit == Bit(n, g)
  <2>2. g \in 0 .. Depth - 1 /\ g <= Depth /\ h + 1 + (i + 1) = g + 1
    BY <1>5, <2>1, DepthAssumption
  <2>3. a = n \div Pow2[g]
    BY <1>10, <2>2
  <2>4. aa \in Nat /\ bb \in Nat /\ abit \in {0, 1} /\ bbit \in {0, 1} /\ a = 2 * aa + abit /\ a = 2 * bb + bbit
    <3> HIDE DEF g
    <3> QED
      BY <1>1, <2>2, <2>3, Heights
  <2> HIDE DEF g, a, aa, bb, abit, bbit
  <2>5. aa = bb
    BY ONLY <2>4
  <2> QED
    BY <2>2, <2>5 DEF aa, bb
<1>11. \A i \in Nat : i \in above
  <2> HIDE DEF above
  <2> QED
    BY <1>9, <1>10, Induction
<1>12. ASSUME NEW i \in 0 .. Depth - 1, i > h
       PROVE  (n + 1) \div Pow2[i] = n \div Pow2[i] /\ Bit(n + 1, i) = Bit(n, i)
  <2>1. i - h - 1 \in Nat /\ h + 1 + (i - h - 1) = i /\ i <= Depth
    BY <1>5, <1>12, DepthAssumption
  <2>2. (n + 1) \div Pow2[i] = n \div Pow2[i]
    BY <1>11, <2>1
  <2> QED
    BY <2>2 DEF Bit
<1> QED
  BY <1>4, <1>5, <1>6, <1>7, <1>12 DEF h

(* The recursion of Walk, the descent of MerkleTree::generate_proof. *)
LEMMA WalkDef ==
  ASSUME NEW tree, NEW index, NEW depth \in Nat
  PROVE  Walk(tree, index, depth) = [i \in 0 .. depth |->
           IF i = 0 THEN tree
           ELSE IF GoesRight(index, depth - i) THEN Right(Walk(tree, index, depth)[i - 1])
           ELSE Left(Walk(tree, index, depth)[i - 1])]
<1> DEFINE Step(prev, i) == IF i = 0 THEN tree ELSE IF GoesRight(index, depth - i) THEN Right(prev) ELSE Left(prev)
           Made(f, n) == f = [i \in 0 .. n |-> Step(f[i - 1], i)]
           defined == {n \in Nat : \E f : Made(f, n)}
<1>1. \A p, q : Step(p, 0) = Step(q, 0)
  OBVIOUS
<1>2. 0 \in defined
  <2> HIDE DEF Step
  <2>1. Made([i \in 0 .. 0 |-> Step(0, 0)], 0)
    BY <1>1
  <2> QED
    BY <2>1
<1>3. ASSUME NEW n \in Nat, n \in defined
      PROVE  n + 1 \in defined
  <2> HIDE DEF Step
  <2>1. PICK f : Made(f, n)
    BY <1>3
  <2> DEFINE g == [i \in 0 .. n + 1 |-> IF i = n + 1 THEN Step(f[n], n + 1) ELSE f[i]]
  <2>2. ASSUME NEW i \in 0 .. n + 1
        PROVE  g[i] = Step(g[i - 1], i)
    <3>1. i \in 0 .. n => g[i] = Step(f[i - 1], i)
      BY <2>1
    <3> QED
      BY <1>1, <3>1
  <2>3. Made(g, n + 1)
    BY <2>2
  <2> HIDE DEF Made, g
  <2> QED
    BY <2>3
<1>4. depth \in defined
  <2> HIDE DEF defined
  <2> QED
    BY <1>2, <1>3, Induction
<1> QED
  BY <1>4 DEF Walk

(* The walk passes the blocks that hold the leaf. *)
LEMMA WalkIs ==
  ASSUME NEW s, NEW n \in Nat, NEW index \in Nat, index < n, index < Pow2[Depth]
  PROVE  LET node == Walk(Built(s, n)[Depth][0], index, Depth) IN
         /\ \A d \in 0 .. Depth : node[Depth - d] = Built(s, n)[d][index \div Pow2[d]]
         /\ \A d \in 0 .. Depth - 1 :
              /\ Bit(index, d) = 1 => Left(node[Depth - (d + 1)]) = Built(s, n)[d][Beside(index, d)]
              /\ Bit(index, d) # 1 => Right(node[Depth - (d + 1)]) = Built(s, n)[d][Beside(index, d)]
<1> DEFINE tree == Built(s, n)[Depth][0]
           node == Walk(tree, index, Depth)
           At(d) == Built(s, n)[d][index \div Pow2[d]]
<1>1. \A i \in 0 .. Depth :
        node[i] = IF i = 0 THEN tree
                  ELSE IF GoesRight(index, Depth - i) THEN Right(node[i - 1]) ELSE Left(node[i - 1])
  <2> HIDE DEF tree
  <2>1. Depth \in Nat
    BY DepthAssumption
  <2>2. node = [i \in 0 .. Depth |->
                  IF i = 0 THEN tree
                  ELSE IF GoesRight(index, Depth - i) THEN Right(node[i - 1]) ELSE Left(node[i - 1])]
    BY <2>1, WalkDef
  <2> HIDE DEF node
  <2> QED
    BY ONLY <2>2
<1>2. \A x, y : Left(Node(x, y)) = x /\ Right(Node(x, y)) = y
  BY DEF Left, Right, Node
<1>3. ASSUME NEW d \in 0 .. Depth - 1
      PROVE  /\ At(d + 1) = Node(Built(s, n)[d][2 * (index \div Pow2[d + 1])],
                                 Built(s, n)[d][2 * (index \div Pow2[d + 1]) + 1])
             /\ Bit(index, d) = 1 => Left(At(d + 1)) = Built(s, n)[d][Beside(index, d)] /\ Right(At(d + 1)) = At(d)
             /\ Bit(index, d) # 1 => Right(At(d + 1)) = Built(s, n)[d][Beside(index, d)] /\ Left(At(d + 1)) = At(d)
  <2> DEFINE high == index \div Pow2[d + 1]
             low == index \div Pow2[d]
             beside == Beside(index, d)
             start == high * Pow2[d + 1]
  <2>1. /\ high \in Nat
        /\ Bit(index, d) = 1 => beside = 2 * high /\ low = 2 * high + 1
        /\ Bit(index, d) # 1 => beside = 2 * high + 1 /\ low = 2 * high
    BY BesideIs
  <2>2. start <= index /\ start \in Nat
    <3>1. d + 1 \in 0 .. Depth /\ Pow2[d + 1] \in Nat
      BY Heights, PowersAre
    <3>2. start <= index
      BY <3>1, BlockOf
    <3> HIDE DEF high
    <3> QED
      BY <2>1, <3>1, <3>2
  <2>3. ~ (n <= start)
    <3> HIDE DEF start
    <3> QED
      BY <2>2
  <2>4. At(d + 1) = Node(Built(s, n)[d][2 * high], Built(s, n)[d][2 * high + 1])
    <3> HIDE DEF high
    <3>1. Built(s, n)[d + 1][high] = Node(Built(s, n)[d][2 * high], Built(s, n)[d][2 * high + 1])
      BY ONLY <2>1, <2>3, n \in Nat, d \in 0 .. Depth - 1, BuiltIs DEF start
    <3> QED
      BY ONLY <3>1 DEF high
  <2>5. At(d) = Built(s, n)[d][low]
    OBVIOUS
  <2> DEFINE built == Built(s, n)[d]
             here == At(d)
             above == At(d + 1)
             bit == Bit(index, d)
  <2>6. above = Node(built[2 * high], built[2 * high + 1]) /\ here = built[low]
    BY <2>4, <2>5
  <2>7. /\ bit = 1 => beside = 2 * high /\ low = 2 * high + 1
        /\ bit # 1 => beside = 2 * high + 1 /\ low = 2 * high
    BY <2>1
  <2> HIDE DEF high, low, beside, start, built, here, above, bit
  <2>8. /\ bit = 1 => Left(above) = built[beside] /\ Right(above) = here
        /\ bit # 1 => Right(above) = built[beside] /\ Left(above) = here
    BY ONLY <1>2, <2>6, <2>7
  <2> QED
    BY <2>4, <2>8 DEF high, beside, built, here, above, bit
<1> DEFINE holds == {i \in Nat : i <= Depth => node[i] = At(Depth - i)}
<1>4. 0 \in holds
  <2>1. node[0] = tree
    BY ONLY <1>1, Heights
  <2>2. index \div Pow2[Depth] = 0
    BY BlockOf
  <2>3. Depth - 0 = Depth
    BY DepthAssumption
  <2> QED
    BY <2>1, <2>2, <2>3
<1>5. ASSUME NEW i \in Nat, i \in holds
      PROVE  i + 1 \in holds
  <2>1. SUFFICES ASSUME i + 1 <= Depth
                 PROVE  node[i + 1] = At(Depth - (i + 1))
    OBVIOUS
  <2> DEFINE d == Depth - (i + 1)
  <2>2. /\ d \in 0 .. Depth - 1 /\ Depth - i = d + 1 /\ i <= Depth
        /\ i + 1 \in 0 .. Depth /\ i + 1 # 0 /\ (i + 1) - 1 = i
    BY <2>1, DepthAssumption
  <2>3. node[i] = At(d + 1)
    <3> HIDE DEF d, node, At
    <3> QED
      BY <1>5, <2>2
  <2> HIDE DEF node, tree
  <2>4. node[i + 1] = IF GoesRight(index, d) THEN Right(node[i]) ELSE Left(node[i])
    BY ONLY <1>1, <2>2 DEF d
  <2> HIDE DEF d, At
  <2>5. node[i + 1] = At(d)
    BY <1>3, <2>2, <2>3, <2>4 DEF GoesRight
  <2> QED
    BY <2>5 DEF d
<1>6. \A i \in Nat : i \in holds
  <2> HIDE DEF holds
  <2> QED
    BY <1>4, <1>5, Induction
<1>7. ASSUME NEW d \in 0 .. Depth
      PROVE  node[Depth - d] = At(d)
  <2>1. Depth - d \in Nat /\ Depth - d <= Depth /\ Depth - (Depth - d) = d
    BY DepthAssumption
  <2> HIDE DEF node, At
  <2> QED
    BY <1>6, <2>1
<1>8. \A d \in 0 .. Depth - 1 : node[Depth - (d + 1)] = At(d + 1)
  BY <1>7, Heights
<1> HIDE DEF node
<1>9. /\ \A d \in 0 .. Depth : node[Depth - d] = Built(s, n)[d][index \div Pow2[d]]
      /\ \A d \in 0 .. Depth - 1 :
           /\ Bit(index, d) = 1 => Left(node[Depth - (d + 1)]) = Built(s, n)[d][Beside(index, d)]
           /\ Bit(index, d) # 1 => Right(node[Depth - (d + 1)]) = Built(s, n)[d][Beside(index, d)]
  BY <1>3, <1>7, <1>8
<1> QED
  BY <1>9 DEF node

(* The proof of a leaf: the leaf, and the siblings of the blocks that hold it. *)
LEMMA ProofIs ==
  ASSUME NEW s, NEW n \in Nat, NEW index \in Nat, index < n, index < Pow2[Depth]
  PROVE  /\ GenerateProof(Built(s, n)[Depth][0], index, Depth).leaf = s[index]
         /\ \A d \in 0 .. Depth - 1 :
              GenerateProof(Built(s, n)[Depth][0], index, Depth).path[d + 1] = Level(s, n)[d][Beside(index, d)]
<1> DEFINE tree == Built(s, n)[Depth][0]
           node == Walk(tree, index, Depth)
           proof == GenerateProof(tree, index, Depth)
           sibling(i) == IF GoesRight(index, Depth - i) THEN Left(node[i - 1]) ELSE Right(node[i - 1])
<1>1. /\ \A d \in 0 .. Depth : node[Depth - d] = Built(s, n)[d][index \div Pow2[d]]
      /\ \A d \in 0 .. Depth - 1 :
           /\ Bit(index, d) = 1 => Left(node[Depth - (d + 1)]) = Built(s, n)[d][Beside(index, d)]
           /\ Bit(index, d) # 1 => Right(node[Depth - (d + 1)]) = Built(s, n)[d][Beside(index, d)]
  BY WalkIs
<1>2. proof = [leaf |-> Hash(node[Depth]), path |-> [h \in 1 .. Depth |-> Hash(sibling(Depth - h + 1))]]
  BY DEF GenerateProof
<1>3. proof.leaf = s[index]
  <2>1. node[Depth] = Built(s, n)[0][index]
    <3>1. Depth - 0 = Depth /\ 0 \in 0 .. Depth /\ index \div Pow2[0] = index
      BY BlockOf, DepthAssumption
    <3> HIDE DEF node
    <3> QED
      BY <1>1, <3>1
  <2>2. Hash(Built(s, n)[0][index]) = s[index]
    <3>1. Built(s, n)[0][index] = LeafTree(s[index])
      BY BuiltIs
    <3> QED
      BY <3>1 DEF Hash, LeafTree
  <2> HIDE DEF node
  <2> QED
    BY <1>2, <2>1, <2>2
<1>4. ASSUME NEW d \in 0 .. Depth - 1
      PROVE  proof.path[d + 1] = Level(s, n)[d][Beside(index, d)]
  <2>1. /\ d + 1 \in 1 .. Depth /\ Depth - (d + 1) + 1 = Depth - d /\ Depth - (Depth - d) = d
        /\ (Depth - d) - 1 = Depth - (d + 1) /\ d \in 0 .. Depth
    BY DepthAssumption
  <2>2. proof.path[d + 1] = Hash(sibling(Depth - d))
    <3>1. proof.path = [h \in 1 .. Depth |-> Hash(sibling(Depth - h + 1))]
      BY <1>2
    <3> HIDE DEF proof, sibling
    <3>2. proof.path[d + 1] = Hash(sibling(Depth - (d + 1) + 1))
      BY ONLY <2>1, <3>1
    <3> QED
      BY ONLY <2>1, <3>2
  <2>3. sibling(Depth - d) = IF Bit(index, d) = 1 THEN Left(node[Depth - (d + 1)]) ELSE Right(node[Depth - (d + 1)])
    <3> HIDE DEF node
    <3> QED
      BY ONLY <2>1 DEF GoesRight
  <2>4. sibling(Depth - d) = Built(s, n)[d][Beside(index, d)]
    <3> HIDE DEF node, sibling
    <3> QED
      BY ONLY <1>1, <2>3, d \in 0 .. Depth - 1
  <2>5. Beside(index, d) \in Nat
    BY BesideIs
  <2>6. Hash(Built(s, n)[d][Beside(index, d)]) = Level(s, n)[d][Beside(index, d)]
    BY ONLY <2>1, <2>5, n \in Nat, BuiltHash
  <2> HIDE DEF sibling, proof
  <2> QED
    BY ONLY <2>2, <2>4, <2>6
<1> QED
  BY <1>3, <1>4

(* A leaf and its proof hash to the root. *)
LEMMA ProofLeadsToRoot ==
  ASSUME NEW s, NEW n \in Nat, NEW index \in Nat, index < n, index < Pow2[Depth]
  PROVE  LET proof == GenerateProof(Built(s, n)[Depth][0], index, Depth) IN
         RootFromBranch(proof.leaf, proof.path, index) = Level(s, n)[Depth][0]
<1> DEFINE proof == GenerateProof(Built(s, n)[Depth][0], index, Depth)
           sibling == [i \in 0 .. Depth - 1 |-> proof.path[i + 1]]
<1>1. proof.leaf = s[index] /\ \A d \in 0 .. Depth - 1 : proof.path[d + 1] = Level(s, n)[d][Beside(index, d)]
  BY ProofIs
<1> HIDE DEF proof
<1>2. proof.leaf = Level(s, n)[0][index]
  BY <1>1, LevelIs
<1>3. Leads(s, n, index, sibling, Bits(index), Depth)
  BY <1>1 DEF Bits, Leads
<1>4. Depth \in 0 .. Depth
  BY DepthAssumption
<1> HIDE DEF sibling
<1>5. \A i \in 0 .. Depth : i <= Depth =>
        Climb(proof.leaf, sibling, Bits(index))[i] = Level(s, n)[i][index \div Pow2[i]]
  BY ONLY <1>2, <1>3, <1>4, n \in Nat, index \in Nat, ClimbsTo
<1>6. index \div Pow2[Depth] = 0
  BY BlockOf
<1>7. Climb(proof.leaf, sibling, Bits(index))[Depth] = Level(s, n)[Depth][0]
  BY <1>4, <1>5, <1>6, DepthAssumption
<1> QED
  BY <1>7 DEF RootFromBranch, proof, sibling

(* Whatever the path, only leaf j can hash to the root at index j. *)
LEMMA RootBinds ==
  ASSUME NEW s, NEW n \in Nat, NEW j \in Nat, j < Pow2[Depth], NEW e, NEW path,
         RootFromBranch(e, path, j) = Level(s, n)[Depth][0]
  PROVE  e = Level(s, n)[0][j]
<1> DEFINE sibling == [i \in 0 .. Depth - 1 |-> path[i + 1]]
           node == Climb(e, sibling, Bits(j))
           level == Level(s, n)
           holds == {i \in Nat : i <= Depth => node[Depth - i] = level[Depth - i][j \div Pow2[Depth - i]]}
<1>1. node[Depth] = level[Depth][0]
  BY DEF RootFromBranch
<1> HIDE DEF sibling
<1>2. /\ node[0] = e
      /\ \A i \in 0 .. Depth - 1 : /\ i \in Bits(j) => node[i + 1] = <<sibling[i], node[i]>>
                                   /\ i \notin Bits(j) => node[i + 1] = <<node[i], sibling[i]>>
  BY ClimbIs
<1>3. ASSUME NEW d \in 0 .. Depth - 1, NEW k \in Nat
      PROVE  level[d + 1][k] = <<level[d][2 * k], level[d][2 * k + 1]>>
  BY ONLY d \in 0 .. Depth - 1, k \in Nat, LevelIs
<1>4. \A i \in 0 .. Depth - 1 : i \in Bits(j) <=> Bit(j, i) = 1
  BY DEF Bits
<1> HIDE DEF node, level
<1>5. 0 \in holds
  <2>1. j \div Pow2[Depth] = 0
    BY BlockOf
  <2>2. Depth - 0 = Depth
    BY DepthAssumption
  <2> QED
    BY <1>1, <2>1, <2>2
<1>6. ASSUME NEW i \in Nat, i \in holds
      PROVE  i + 1 \in holds
  <2>1. SUFFICES ASSUME i + 1 <= Depth
                 PROVE  node[Depth - (i + 1)] = level[Depth - (i + 1)][j \div Pow2[Depth - (i + 1)]]
    OBVIOUS
  <2> DEFINE d == Depth - (i + 1)
             high == j \div Pow2[d + 1]
             low == j \div Pow2[d]
             bit == Bit(j, d)
  <2>2. d \in 0 .. Depth - 1 /\ Depth - i = d + 1 /\ i <= Depth
    BY <2>1, DepthAssumption
  <2>3. node[d + 1] = level[d + 1][high]
    <3> HIDE DEF d
    <3> QED
      BY <1>6, <2>2
  <2> HIDE DEF d
  <2>4. /\ high \in Nat
        /\ bit = 1 => low = 2 * high + 1
        /\ bit # 1 => low = 2 * high
    BY ONLY <2>2, j \in Nat, BesideIs
  <2>5. d \in Bits(j) <=> bit = 1
    BY <1>4, <2>2
  <2> HIDE DEF high, low, bit
  <2>6. level[d + 1][high] = <<level[d][2 * high], level[d][2 * high + 1]>>
    BY ONLY <1>3, <2>2, <2>4
  <2>7. node[d] = level[d][low]
    <3>1. CASE bit = 1
      BY ONLY <1>2, <2>2, <2>3, <2>4, <2>5, <2>6, <3>1
    <3>2. CASE bit # 1
      BY ONLY <1>2, <2>2, <2>3, <2>4, <2>5, <2>6, <3>2
    <3> QED
      BY <3>1, <3>2
  <2> QED
    BY <2>7 DEF d, low
<1>7. \A i \in Nat : i \in holds
  <2> HIDE DEF holds
  <2> QED
    BY <1>5, <1>6, Induction
<1>8. node[0] = level[0][j]
  <2>1. Depth \in Nat /\ Depth <= Depth /\ Depth - Depth = 0 /\ j \div Pow2[0] = j
    BY BlockOf, DepthAssumption
  <2> QED
    BY <1>7, <2>1
<1> QED
  BY <1>2, <1>8 DEF level

(* What the branches of the incremental tree are after n leaves. *)
Frontier(s, n, inc) ==
  /\ inc.count = n
  /\ DOMAIN inc.branch = 0 .. Depth - 1
  /\ \A i \in 0 .. Depth - 1 : Bit(n, i) = 1 => inc.branch[i] = Level(s, n)[i][n \div Pow2[i] - 1]

(* A new incremental tree is the frontier of no leaves. *)
LEMMA FrontierEmpty ==
  ASSUME NEW s
  PROVE  Frontier(s, 0, EmptyIncremental)
<1>1. ASSUME NEW i \in 0 .. Depth - 1
      PROVE  Bit(0, i) = 0
  <2>1. Pow2[i] \in Nat \ {0}
    BY PowersAre
  <2>2. 0 \div Pow2[i] = 0
    BY <2>1
  <2> QED
    BY <2>2 DEF Bit
<1> QED
  BY <1>1 DEF Frontier, EmptyIncremental

(* A full block is the same with one more leaf. *)
LEMMA FullBlock ==
  ASSUME NEW s, NEW n \in Nat, NEW i \in 0 .. Depth, n \div Pow2[i] # 0
  PROVE  /\ n \div Pow2[i] - 1 \in Nat
         /\ Level(s, n)[i][n \div Pow2[i] - 1] = Level(s, n + 1)[i][n \div Pow2[i] - 1]
<1> DEFINE k == n \div Pow2[i] - 1
<1>1. n \div Pow2[i] \in Nat /\ (n \div Pow2[i]) * Pow2[i] <= n
  BY BlockOf
<1>2. k \in Nat /\ k + 1 = n \div Pow2[i]
  <2> DEFINE q == n \div Pow2[i]
  <2>1. q \in Nat /\ q # 0
    BY <1>1
  <2> HIDE DEF q
  <2>2. q - 1 \in Nat /\ (q - 1) + 1 = q
    BY <2>1
  <2> QED
    BY <2>2 DEF q
<1>3. (k + 1) * Pow2[i] <= n
  <2> HIDE DEF k
  <2> QED
    BY ONLY <1>1, <1>2
<1> HIDE DEF k
<1>4. \A j \in Nat : j < n => s[j] = s[j]
  OBVIOUS
<1>5. n + 1 \in Nat /\ n <= n + 1
  OBVIOUS
<1>6. \A d \in 0 .. Depth, j \in Nat : (j + 1) * Pow2[d] <= n => Level(s, n)[d][j] = Level(s, n + 1)[d][j]
  BY ONLY <1>4, <1>5, n \in Nat, SameLevel
<1>7. Level(s, n)[i][k] = Level(s, n + 1)[i][k]
  BY ONLY <1>2, <1>3, <1>6, i \in 0 .. Depth
<1> QED
  BY <1>2, <1>7 DEF k

(* Ingesting leaf n. *)
LEMMA IngestIs ==
  ASSUME NEW s, NEW n \in Nat, NEW inc, Frontier(s, n, inc), n + 1 < Pow2[Depth]
  PROVE  Frontier(s, n + 1, IncrementalIngest(inc, s[n]))
<1> DEFINE h == HeightFor(n + 1)
           node == Climb(s[n], inc.branch, 0 .. Depth - 1)
           branch == [inc.branch EXCEPT ![h] = node[h]]
<1>1. /\ h \in 0 .. Depth - 1
      /\ Bit(n + 1, h) = 1
      /\ (n + 1) \div Pow2[h] = n \div Pow2[h] + 1
      /\ \A i \in 0 .. Depth - 1 : i < h => Bit(n, i) = 1 /\ Bit(n + 1, i) = 0
      /\ \A i \in 0 .. Depth - 1 : i > h => (n + 1) \div Pow2[i] = n \div Pow2[i] /\ Bit(n + 1, i) = Bit(n, i)
  BY HeightIs
<1>2. inc.count = n /\ DOMAIN inc.branch = 0 .. Depth - 1
  BY DEF Frontier
<1>3. IncrementalIngest(inc, s[n]) = [branch |-> branch, count |-> n + 1]
  BY <1>2 DEF IncrementalIngest
<1> HIDE DEF h
<1>4. ASSUME NEW i \in 0 .. Depth - 1, Bit(n, i) = 1
      PROVE  /\ n \div Pow2[i] - 1 \in Nat
             /\ inc.branch[i] = Level(s, n + 1)[i][n \div Pow2[i] - 1]
  <2>1. n \div Pow2[i] # 0
    <3> DEFINE low == n \div Pow2[i]
               high == n \div Pow2[i + 1]
    <3>1. high \in Nat /\ low = 2 * high + 1
      BY <1>4, BesideIs
    <3> HIDE DEF low, high
    <3>2. low # 0
      BY ONLY <3>1
    <3> QED
      BY <3>2 DEF low
  <2>2. i \in 0 .. Depth
    BY Heights
  <2>3. /\ n \div Pow2[i] - 1 \in Nat
        /\ Level(s, n)[i][n \div Pow2[i] - 1] = Level(s, n + 1)[i][n \div Pow2[i] - 1]
    BY ONLY <2>1, <2>2, n \in Nat, FullBlock
  <2>4. inc.branch[i] = Level(s, n)[i][n \div Pow2[i] - 1]
    BY <1>4 DEF Frontier
  <2> QED
    BY <2>3, <2>4
<1>5. node[h] = Level(s, n + 1)[h][n \div Pow2[h]]
  <2> DEFINE lefts == 0 .. Depth - 1
             sibling == inc.branch
             leaf == s[n]
  <2>1. Leads(s, n + 1, n, sibling, lefts, h)
    <3>1. ASSUME NEW i \in 0 .. Depth - 1, i < h
          PROVE  i \in lefts /\ Bit(n, i) = 1 /\ sibling[i] = Level(s, n + 1)[i][Beside(n, i)]
      <4>1. Bit(n, i) = 1
        BY <1>1, <3>1
      <4> QED
        BY <1>4, <4>1 DEF Beside
    <3> QED
      BY <3>1 DEF Leads
  <2>2. leaf = Level(s, n + 1)[0][n]
    <3>1. n < n + 1
      OBVIOUS
    <3> QED
      BY <3>1, LevelIs
  <2>3. h \in 0 .. Depth /\ h <= h /\ n + 1 \in Nat
    BY <1>1, Heights
  <2> HIDE DEF lefts, sibling, leaf
  <2>4. \A i \in 0 .. Depth : i <= h => Climb(leaf, sibling, lefts)[i] = Level(s, n + 1)[i][n \div Pow2[i]]
    BY ONLY <2>1, <2>2, <2>3, n \in Nat, ClimbsTo
  <2> QED
    BY <2>3, <2>4 DEF lefts, sibling, leaf
<1> HIDE DEF node
<1>6. ASSUME NEW i \in 0 .. Depth - 1, Bit(n + 1, i) = 1
      PROVE  branch[i] = Level(s, n + 1)[i][(n + 1) \div Pow2[i] - 1]
  <2>1. CASE i = h
    <3>1. branch[h] = node[h]
      BY <1>1, <1>2
    <3>2. (n + 1) \div Pow2[h] - 1 = n \div Pow2[h]
      <4> DEFINE low == n \div Pow2[h]
      <4>1. low \in Nat /\ (n + 1) \div Pow2[h] = low + 1
        BY <1>1, BlockOf, Heights
      <4> HIDE DEF low
      <4>2. (n + 1) \div Pow2[h] - 1 = low
        BY <4>1
      <4> QED
        BY <4>2 DEF low
    <3> QED
      BY <1>5, <2>1, <3>1, <3>2
  <2>2. CASE i > h
    <3>1. branch[i] = inc.branch[i]
      BY <1>1, <1>2, <2>2
    <3>2. (n + 1) \div Pow2[i] = n \div Pow2[i] /\ Bit(n, i) = 1
      BY <1>1, <1>6, <2>2
    <3> HIDE DEF branch
    <3> QED
      BY <1>4, <3>1, <3>2
  <2>3. CASE i < h
    BY <1>1, <1>6, <2>3
  <2> HIDE DEF branch
  <2> QED
    BY <1>1, <2>1, <2>2, <2>3
<1>7. DOMAIN branch = 0 .. Depth - 1
  BY <1>2
<1> HIDE DEF branch
<1> QED
  BY <1>3, <1>6, <1>7 DEF Frontier

(* The branches hash to the root of the reference. *)
LEMMA RootIs ==
  ASSUME NEW s, NEW n \in Nat, NEW inc, Frontier(s, n, inc), n < Pow2[Depth]
  PROVE  IncrementalRoot(inc) = Level(s, n)[Depth][0]
<1> DEFINE sibling == [i \in 0 .. Depth - 1 |-> IF i \in Bits(n) THEN inc.branch[i] ELSE ZeroHash[i]]
<1>1. ASSUME NEW i \in 0 .. Depth - 1
      PROVE  (i \in Bits(n) <=> Bit(n, i) = 1) /\ sibling[i] = Level(s, n)[i][Beside(n, i)]
  <2>1. i \in Bits(n) <=> Bit(n, i) = 1
    BY DEF Bits
  <2>2. CASE Bit(n, i) = 1
    <3>1. sibling[i] = inc.branch[i] /\ inc.branch[i] = Level(s, n)[i][n \div Pow2[i] - 1]
      BY <2>1, <2>2 DEF Frontier
    <3> QED
      BY <2>1, <2>2, <3>1 DEF Beside
  <2>3. CASE Bit(n, i) # 1
    <3>1. sibling[i] = ZeroHash[i]
      BY <2>1, <2>3
    <3>2. Beside(n, i) = n \div Pow2[i] + 1 /\ Beside(n, i) \in Nat
      BY <2>3, BesideIs DEF Beside
    <3>3. i \in 0 .. Depth /\ n < (n \div Pow2[i] + 1) * Pow2[i] /\ Pow2[i] \in Nat
      BY BlockOf, Heights, PowersAre
    <3> DEFINE end == Beside(n, i) * Pow2[i]
    <3>4. end \in Nat /\ n < end
      <4>1. n < end
        BY <3>2, <3>3
      <4>2. end \in Nat
        BY <3>2, <3>3
      <4> QED
        BY <4>1, <4>2
    <3> HIDE DEF end
    <3>5. n <= end
      BY <3>4
    <3>6. Level(s, n)[i][Beside(n, i)] = ZeroHash[i]
      BY ONLY <3>2, <3>3, <3>5, n \in Nat, ZeroLevel DEF end
    <3> QED
      BY <2>1, <3>1, <3>6
  <2> QED
    BY <2>2, <2>3
<1> HIDE DEF sibling
<1>2. Leads(s, n, n, sibling, Bits(n), Depth)
  BY <1>1 DEF Leads
<1>3. Zero = Level(s, n)[0][n]
  <2>1. ~ (n < n)
    OBVIOUS
  <2> QED
    BY <2>1, LevelIs
<1>4. Depth \in 0 .. Depth /\ Depth <= Depth
  BY DepthAssumption
<1>5. \A i \in 0 .. Depth : i <= Depth => Climb(Zero, sibling, Bits(n))[i] = Level(s, n)[i][n \div Pow2[i]]
  BY ONLY <1>2, <1>3, <1>4, n \in Nat, ClimbsTo
<1>6. n \div Pow2[Depth] = 0
  BY BlockOf
<1>7. Climb(Zero, sibling, Bits(n))[Depth] = Level(s, n)[Depth][0]
  BY <1>4, <1>5, <1>6
<1>8. inc.count = n
  BY DEF Frontier
<1> QED
  BY <1>7, <1>8 DEF IncrementalRoot, sibling

-----------------------------------------------------------------------------
(* The leaves in the DB, as a sequence the accumulators may be fed. *)
Stored == [k \in Nat |-> IF k < Len(leaves) THEN leaves[k + 1] ELSE Zero]

(* The inductive invariant: the prover has the tree of the first leaves, the  *)
(* incremental tree their frontier, and a checkpoint the root of the leaves   *)
(* it covers.                                                                 *)
Fed ==
  /\ prover.count \in Nat /\ prover.count <= Len(leaves) /\ prover.count < Pow2[Depth]
  /\ prover.tree = Built(Stored, prover.count)[Depth][0]
  /\ Frontier(Stored, prover.count, incremental)
Signed(n) ==
  /\ checkpoint.index \in Nat
  /\ n <= checkpoint.index + 1 /\ checkpoint.index < Len(leaves)
  /\ checkpoint.root = Level(Stored, checkpoint.index + 1)[Depth][0]
BuilderInvariant ==
  /\ leaves \in Seq(Elements)
  /\ status \in {"ready", "updating", "panicked"}
  /\ status # "panicked" => Fed
  /\ status = "updating" => Signed(prover.count)
  /\ status = "ready" /\ prover.count > 0 => Signed(prover.count) /\ prover.count = checkpoint.index + 1
  /\ status = "panicked" => incremental.count = Pow2[Depth] - 1

(* Only the first n leaves matter. *)
LEMMA SameLeaves ==
  ASSUME NEW s, NEW t, NEW n \in Nat, \A k \in Nat : k < n => s[k] = t[k]
  PROVE  /\ Level(s, n) = Level(t, n)
         /\ Built(s, n)[Depth][0] = Built(t, n)[Depth][0]
         /\ \A inc : Frontier(s, n, inc) => Frontier(t, n, inc)
<1>1. Upto(s, n) = Upto(t, n)
  BY DEF Upto
<1>2. Level(s, n) = Level(t, n)
  BY <1>1 DEF Level
<1>3. Built(s, n)[Depth][0] = Built(t, n)[Depth][0]
  <2>1. \A d \in 0 .. Depth, k \in Nat :
          n = n \/ (k + 1) * Pow2[d] <= n => Built(s, n)[d][k] = Built(t, n)[d][k]
    BY ONLY n \in Nat, n <= n, \A k \in Nat : k < n => s[k] = t[k], SameTree
  <2>2. Depth \in 0 .. Depth /\ 0 \in Nat
    BY DepthAssumption
  <2> QED
    BY ONLY <2>1, <2>2
<1> QED
  BY <1>2, <1>3 DEF Frontier

(* The leaves stored are the rows, and the contract's root is over them. *)
LEMMA StoredIs ==
  ASSUME leaves \in Seq(Elements)
  PROVE  /\ \A k \in Nat : k < Len(leaves) => Stored[k] = leaves[k + 1] /\ Stored[k] \in Elements
         /\ \A n \in Nat : n <= Len(leaves) => RootOf(n) = Level(Stored, n)[Depth][0]
<1>1. Len(leaves) \in Nat /\ \A i \in 1 .. Len(leaves) : leaves[i] \in Elements
  OBVIOUS
<1>2. ASSUME NEW k \in Nat, k < Len(leaves)
      PROVE  Stored[k] = leaves[k + 1] /\ Stored[k] \in Elements
  BY <1>1, <1>2 DEF Stored
<1>3. ASSUME NEW n \in Nat, n <= Len(leaves)
      PROVE  RootOf(n) = Level(Stored, n)[Depth][0]
  <2>1. Upto(Stored, n) = Padded(n)
    <3>1. \A k \in Nat : k < n => Stored[k] = leaves[k + 1]
      BY <1>1, <1>2, <1>3
    <3> QED
      BY <3>1 DEF Upto, Padded
  <2> QED
    BY <2>1 DEF RootOf, Level
<1> QED
  BY <1>2, <1>3

(* A new leaf leaves those before it as they were. *)
LEMMA LeavesKept ==
  ASSUME leaves \in Seq(Elements), StoreLeaf
  PROVE  /\ leaves' \in Seq(Elements) /\ Len(leaves') = Len(leaves) + 1
         /\ \A n \in Nat : n <= Len(leaves) => \A k \in Nat : k < n => Stored[k] = Stored'[k]
<1>1. PICK e \in Elements : leaves' = Append(leaves, e)
  BY DEF StoreLeaf
<1>2. /\ leaves' \in Seq(Elements) /\ Len(leaves') = Len(leaves) + 1 /\ Len(leaves) \in Nat
      /\ \A i \in 1 .. Len(leaves) : leaves'[i] = leaves[i]
  BY <1>1
<1>3. ASSUME NEW n \in Nat, n <= Len(leaves), NEW k \in Nat, k < n
      PROVE  Stored[k] = Stored'[k]
  BY <1>2, <1>3 DEF Stored
<1> QED
  BY <1>2, <1>3

(* The builder starts with two empty trees. *)
LEMMA BuilderInvariantInit ==
  BuilderInit => BuilderInvariant
<1> SUFFICES ASSUME BuilderInit
             PROVE  BuilderInvariant
  OBVIOUS
<1>1. /\ leaves = <<>> /\ prover.count = 0 /\ prover.tree = Create[Depth][<<>>]
      /\ incremental = EmptyIncremental /\ status = "ready"
  BY DEF BuilderInit
<1>2. leaves \in Seq(Elements) /\ Len(leaves) = 0
  BY <1>1
<1>3. prover.tree = Built(Stored, 0)[Depth][0]
  <2>1. Depth \in 0 .. Depth /\ Pow2[Depth] \in Nat \ {0}
    BY PowersAre, DepthAssumption
  <2>2. 0 <= 0 * Pow2[Depth]
    BY <2>1
  <2>3. Built(Stored, 0)[Depth][0] = ZeroTree(Depth)
    BY <2>1, <2>2, BuiltIs
  <2>4. Create[Depth][<<>>] = ZeroTree(Depth)
    BY <2>1, CreateEmpty
  <2> QED
    BY <1>1, <2>3, <2>4
<1>4. Frontier(Stored, 0, incremental)
  BY <1>1, FrontierEmpty
<1>5. 0 < Pow2[Depth]
  <2>1. Pow2[Depth] \in Nat \ {0}
    BY PowersAre, DepthAssumption
  <2> QED
    BY <2>1
<1>6. Fed
  BY <1>1, <1>2, <1>3, <1>4, <1>5 DEF Fed
<1> QED
  BY <1>1, <1>2, <1>6 DEF BuilderInvariant

(* What ingesting leaf n does, when the tree is not full. *)
LEMMA IngestFeeds ==
  ASSUME BuilderInvariant, IngestLeafIndex
  PROVE  BuilderInvariant'
<1> DEFINE n == prover.count
           s == Stored
           pushed == PushLeaf(prover.tree, leaves[n + 1], Depth)
           ingested == IncrementalIngest(incremental, leaves[n + 1])
<1>1. /\ leaves \in Seq(Elements) /\ status = "updating" /\ n <= checkpoint.index
      /\ leaves' = leaves /\ checkpoint' = checkpoint
  BY DEF BuilderInvariant, IngestLeafIndex
<1>2. Fed /\ Signed(n)
  BY <1>1 DEF BuilderInvariant
<1>3. /\ n \in Nat /\ n < Pow2[Depth] /\ n < Len(leaves) /\ Len(leaves) \in Nat /\ Pow2[Depth] \in Nat
      /\ checkpoint.index \in Nat
  <2>1. n \in Nat /\ n < Pow2[Depth] /\ checkpoint.index \in Nat /\ checkpoint.index < Len(leaves)
    BY <1>2 DEF Fed, Signed
  <2>2. Len(leaves) \in Nat
    BY <1>1
  <2>3. Pow2[Depth] \in Nat
    BY PowersAre, DepthAssumption
  <2> HIDE DEF n
  <2> QED
    BY <1>1, <2>1, <2>2, <2>3
<1>4. /\ prover.tree = Built(s, n)[Depth][0]
      /\ Frontier(s, n, incremental)
      /\ incremental.count = n
  BY <1>2 DEF Fed, Frontier
<1>5. s[n] = leaves[n + 1] /\ \A i \in Nat : i <= n => s[i] \in Elements
  <2> HIDE DEF n, s
  <2>1. \A k \in Nat : k < Len(leaves) => s[k] = leaves[k + 1] /\ s[k] \in Elements
    BY <1>1, StoredIs DEF s
  <2>2. \A i \in Nat : i <= n => i < Len(leaves)
    BY <1>3
  <2> QED
    BY <1>3, <2>1, <2>2
<1>6. pushed = Grown(Built(s, n + 1)[Depth][0])
  <2> HIDE DEF n, s
  <2>1. Push(s[n])[Depth][Built(s, n)[Depth][0]] = Grown(Built(s, n + 1)[Depth][0])
    BY ONLY <1>3, <1>5, PushBuilt
  <2> QED
    BY <1>4, <1>5, <2>1 DEF PushLeaf
<1>7. /\ prover'.count = n + 1 /\ prover'.tree = Built(s, n + 1)[Depth][0]
      /\ IF ~ HasRoom(incremental)
           THEN status' = "panicked" /\ UNCHANGED incremental
           ELSE /\ incremental' = ingested
                /\ status' = IF Hash(Built(s, n + 1)[Depth][0]) = IncrementalRoot(ingested)
                               THEN "updating" ELSE "panicked"
  <2>1. pushed.err = "none" /\ pushed.tree = Built(s, n + 1)[Depth][0]
    <3> DEFINE t == Built(s, n + 1)[Depth][0]
    <3>1. pushed = Grown(t)
      BY <1>6
    <3> HIDE DEF pushed, t
    <3>2. pushed.err = "none" /\ pushed.tree = t
      BY <3>1 DEF Grown
    <3> QED
      BY <3>2 DEF t
  <2>2. IF pushed.err # "none"
          THEN /\ prover' = [prover EXCEPT !.count = @ + 1]
               /\ status' = "panicked"
               /\ UNCHANGED incremental
          ELSE /\ prover' = [count |-> n + 1, tree |-> pushed.tree]
               /\ IF ~ HasRoom(incremental)
                    THEN status' = "panicked" /\ UNCHANGED incremental
                    ELSE /\ incremental' = ingested
                         /\ status' = IF Hash(pushed.tree) = IncrementalRoot(ingested)
                                        THEN "updating" ELSE "panicked"
    BY DEF IngestLeafIndex
  <2> HIDE DEF pushed, n, s, ingested
  <2>3. /\ prover' = [count |-> n + 1, tree |-> pushed.tree]
        /\ IF ~ HasRoom(incremental)
             THEN status' = "panicked" /\ UNCHANGED incremental
             ELSE /\ incremental' = ingested
                  /\ status' = IF Hash(pushed.tree) = IncrementalRoot(ingested)
                                 THEN "updating" ELSE "panicked"
    BY ONLY <2>1, <2>2
  <2> QED
    BY ONLY <2>1, <2>3
<1>8. s = Stored'
  BY <1>1 DEF Stored
<1>9. CASE ~ HasRoom(incremental)
  <2>1. status' = "panicked" /\ incremental' = incremental
    BY <1>7, <1>9
  <2>2. incremental.count = Pow2[Depth] - 1
    <3>1. ~ (n < Pow2[Depth] - 1)
      BY <1>4, <1>9 DEF HasRoom
    <3> HIDE DEF n
    <3> QED
      BY ONLY <1>3, <1>4, <3>1
  <2> QED
    BY <1>1, <2>1, <2>2 DEF BuilderInvariant
<1>10. CASE HasRoom(incremental)
  <2>1. n + 1 < Pow2[Depth] /\ n + 1 \in Nat /\ n + 1 <= Len(leaves) /\ n + 1 <= checkpoint.index + 1
    <3>1. n < Pow2[Depth] - 1
      BY <1>4, <1>10 DEF HasRoom
    <3> HIDE DEF n
    <3> QED
      BY ONLY <1>1, <1>3, <3>1
  <2>2. Frontier(s, n + 1, ingested)
    <3> HIDE DEF n, s
    <3>1. Frontier(s, n + 1, IncrementalIngest(incremental, s[n]))
      BY ONLY <1>3, <1>4, <2>1, IngestIs
    <3> QED
      BY <1>5, <3>1
  <2>3. Hash(Built(s, n + 1)[Depth][0]) = IncrementalRoot(ingested)
    <3> HIDE DEF n, s, ingested
    <3>1. IncrementalRoot(ingested) = Level(s, n + 1)[Depth][0]
      BY ONLY <2>1, <2>2, RootIs
    <3>2. Depth \in 0 .. Depth /\ 0 \in Nat
      BY DepthAssumption
    <3>3. \A d \in 0 .. Depth, k \in Nat : Hash(Built(s, n + 1)[d][k]) = Level(s, n + 1)[d][k]
      BY ONLY <2>1, BuiltHash
    <3> QED
      BY ONLY <3>1, <3>2, <3>3
  <2> HIDE DEF s, ingested
  <2>4. status' = "updating" /\ incremental' = ingested
    BY <1>7, <1>10, <2>3
  <2>5. Fed'
    <3>1. /\ prover'.count = n + 1 /\ prover'.tree = Built(Stored', n + 1)[Depth][0]
          /\ Frontier(Stored', n + 1, incremental')
      BY <1>7, <1>8, <2>2, <2>4
    <3> HIDE DEF n
    <3>2. /\ prover'.count \in Nat /\ prover'.count <= Len(leaves') /\ prover'.count < Pow2[Depth]
          /\ prover'.tree = Built(Stored', prover'.count)[Depth][0]
          /\ Frontier(Stored', prover'.count, incremental')
      BY ONLY <1>1, <2>1, <3>1
    <3> QED
      BY <3>2 DEF Fed
  <2>6. Signed(prover.count)'
    <3>1. /\ prover'.count = n + 1 /\ checkpoint.index < Len(leaves)
          /\ checkpoint.root = Level(Stored, checkpoint.index + 1)[Depth][0]
      BY <1>2, <1>7 DEF Signed
    <3>2. prover'.count <= checkpoint'.index + 1
      BY <1>1, <2>1, <3>1
    <3>3. checkpoint'.root = Level(Stored', checkpoint'.index + 1)[Depth][0]
      BY <1>1, <1>8, <3>1 DEF s
    <3> QED
      BY <1>1, <1>3, <3>1, <3>2, <3>3 DEF Signed
  <2> QED
    BY <1>1, <2>4, <2>5, <2>6 DEF BuilderInvariant
<1> QED
  BY <1>9, <1>10

(* Every step of the builder keeps the invariant. *)
LEMMA BuilderInvariantStep ==
  BuilderInvariant /\ [BuilderNext]_builder_vars => BuilderInvariant'
<1> SUFFICES ASSUME BuilderInvariant, [BuilderNext]_builder_vars
             PROVE  BuilderInvariant'
  OBVIOUS
<1>1. CASE StoreLeaf
  <2>1. /\ leaves' \in Seq(Elements) /\ Len(leaves') = Len(leaves) + 1 /\ Len(leaves) \in Nat
        /\ \A n \in Nat : n <= Len(leaves) => \A k \in Nat : k < n => Stored[k] = Stored'[k]
    <3>1. leaves \in Seq(Elements)
      BY DEF BuilderInvariant
    <3> QED
      BY <1>1, <3>1, LeavesKept
  <2>2. UNCHANGED <<prover, incremental, checkpoint, status>>
    BY <1>1 DEF StoreLeaf
  <2>3. ASSUME Fed
        PROVE  Fed'
    <3> DEFINE n == prover.count
               s == Stored
               t == Stored'
    <3>1. n \in Nat /\ n <= Len(leaves) /\ n < Pow2[Depth]
      BY <2>3 DEF Fed
    <3>2. \A k \in Nat : k < n => s[k] = t[k]
      BY <2>1, <3>1
    <3>3. prover.tree = Built(s, n)[Depth][0] /\ Frontier(s, n, incremental)
      BY <2>3 DEF Fed
    <3> HIDE DEF n, s, t
    <3>4. Built(s, n)[Depth][0] = Built(t, n)[Depth][0] /\ \A inc : Frontier(s, n, inc) => Frontier(t, n, inc)
      BY ONLY <3>1, <3>2, SameLeaves
    <3>5. prover.tree = Built(t, n)[Depth][0] /\ Frontier(t, n, incremental) /\ n <= Len(leaves')
      BY ONLY <2>1, <3>1, <3>3, <3>4
    <3> QED
      BY <2>2, <3>1, <3>5 DEF Fed, n, t
  <2>4. ASSUME Signed(prover.count)
        PROVE  Signed(prover.count)'
    <3> DEFINE index == checkpoint.index
               s == Stored
               t == Stored'
    <3>1. /\ index \in Nat /\ prover.count <= index + 1 /\ index < Len(leaves)
          /\ checkpoint.root = Level(s, index + 1)[Depth][0]
      BY <2>4 DEF Signed
    <3>2. index + 1 \in Nat /\ index + 1 <= Len(leaves) /\ index < Len(leaves')
      BY <2>1, <3>1
    <3>3. \A k \in Nat : k < index + 1 => s[k] = t[k]
      BY <2>1, <3>2
    <3> HIDE DEF index, s, t
    <3>4. Level(s, index + 1) = Level(t, index + 1)
      BY ONLY <3>2, <3>3, SameLeaves
    <3>5. checkpoint.root = Level(t, index + 1)[Depth][0]
      BY <3>1, <3>4
    <3> QED
      BY <2>2, <3>1, <3>2, <3>5 DEF Signed, index, t
  <2> QED
    BY <2>1, <2>2, <2>3, <2>4 DEF BuilderInvariant
<1>2. CASE BeginUpdate
  <2>1. PICK index \in 1 .. (Len(leaves) - 1) :
          index >= prover.count /\ checkpoint' = [index |-> index, root |-> RootOf(index + 1)]
    BY <1>2 DEF BeginUpdate
  <2>2. status = "ready" /\ status' = "updating" /\ UNCHANGED <<leaves, prover, incremental>>
    BY <1>2 DEF BeginUpdate
  <2>3. leaves \in Seq(Elements) /\ Fed
    BY <2>2 DEF BuilderInvariant
  <2>4. Stored' = Stored
    BY <2>2 DEF Stored
  <2>5. Fed'
    BY <2>2, <2>3, <2>4 DEF Fed
  <2>6. Signed(prover.count)'
    <3>1. index \in Nat /\ prover.count <= index + 1 /\ index < Len(leaves)
      <4>1. Len(leaves) \in Nat /\ prover.count \in Nat
        BY <2>3 DEF Fed
      <4> QED
        BY <2>1, <4>1
    <3>2. RootOf(index + 1) = Level(Stored, index + 1)[Depth][0]
      <4>1. index + 1 \in Nat /\ index + 1 <= Len(leaves)
        BY <2>3, <3>1
      <4> QED
        BY <2>3, <4>1, StoredIs
    <3>3. checkpoint'.index = index /\ checkpoint'.root = Level(Stored', index + 1)[Depth][0]
      BY <2>1, <2>4, <3>2
    <3> QED
      BY <2>2, <3>1, <3>3 DEF Signed
  <2> QED
    BY <2>2, <2>3, <2>5, <2>6 DEF BuilderInvariant
<1>3. CASE IngestLeafIndex
  BY <1>3, IngestFeeds
<1>4. CASE CompareRoots
  <2> DEFINE n == prover.count
  <2>1. /\ status = "updating" /\ n > checkpoint.index
        /\ UNCHANGED <<leaves, prover, incremental, checkpoint>>
        /\ status' = IF /\ Hash(prover.tree) = IncrementalRoot(incremental)
                        /\ Hash(prover.tree) = checkpoint.root
                       THEN "ready" ELSE "mismatched"
    BY <1>4 DEF CompareRoots
  <2>2. leaves \in Seq(Elements) /\ Fed /\ Signed(n)
    BY <2>1 DEF BuilderInvariant
  <2>3. n \in Nat /\ n <= Len(leaves) /\ n < Pow2[Depth] /\ n = checkpoint.index + 1
    <3>1. n \in Nat /\ n <= Len(leaves) /\ n < Pow2[Depth] /\ n <= checkpoint.index + 1 /\ checkpoint.index \in Nat
      BY <2>2 DEF Fed, Signed
    <3> HIDE DEF n
    <3> QED
      BY <2>1, <3>1
  <2>4. Hash(prover.tree) = Level(Stored, n)[Depth][0]
    <3>1. prover.tree = Built(Stored, n)[Depth][0]
      BY <2>2 DEF Fed
    <3>2. Depth \in 0 .. Depth /\ 0 \in Nat
      BY DepthAssumption
    <3> HIDE DEF n
    <3>3. \A d \in 0 .. Depth, k \in Nat : Hash(Built(Stored, n)[d][k]) = Level(Stored, n)[d][k]
      BY ONLY <2>3, BuiltHash
    <3> QED
      BY ONLY <3>1, <3>2, <3>3
  <2>5. IncrementalRoot(incremental) = Level(Stored, n)[Depth][0]
    <3>1. Frontier(Stored, n, incremental)
      BY <2>2 DEF Fed
    <3> HIDE DEF n
    <3> QED
      BY ONLY <2>3, <3>1, RootIs
  <2>6. checkpoint.root = Level(Stored, n)[Depth][0]
    BY <2>2, <2>3 DEF Signed
  <2> HIDE DEF n
  <2>7. status' = "ready"
    BY ONLY <2>1, <2>4, <2>5, <2>6
  <2>8. Stored' = Stored
    BY <2>1 DEF Stored
  <2>9. Fed'
    BY <2>1, <2>2, <2>8 DEF Fed
  <2>10. Signed(prover.count)' /\ prover'.count = checkpoint'.index + 1
    BY <2>1, <2>2, <2>3, <2>8 DEF Signed, n
  <2> QED
    BY <2>1, <2>2, <2>7, <2>9, <2>10 DEF BuilderInvariant
<1>5. CASE UNCHANGED builder_vars
  <2>1. UNCHANGED <<leaves, prover, incremental, checkpoint, status>>
    BY <1>5 DEF builder_vars
  <2>2. Stored' = Stored
    BY <2>1 DEF Stored
  <2>3. Fed' = Fed
    BY <2>1, <2>2 DEF Fed
  <2>4. Signed(prover.count)' = Signed(prover.count)
    BY <2>1, <2>2 DEF Signed
  <2> QED
    BY <2>1, <2>3, <2>4 DEF BuilderInvariant
<1> QED
  BY <1>1, <1>2, <1>3, <1>4, <1>5 DEF BuilderNext

(* The prover's tree is the tree of the leaves ingested, the incremental tree  *)
(* their frontier, and a checkpoint's root the contract's, in every behaviour. *)
THEOREM BuilderInvariantHolds == BuilderSpec => []BuilderInvariant
<1> QED
  BY BuilderInvariantInit, BuilderInvariantStep, PTL DEF BuilderSpec

(* merkle.rs and incremental.rs, fed one leaf at a time, compute the root of *)
(* the outbox contract: update_to_checkpoint never finds them apart, and the *)
(* only panic is that of the incremental tree's bound.                       *)
THEOREM RootsAgreeHolds == BuilderSpec => []RootsAgree
<1>1. BuilderInvariant => RootsAgree
  BY DEF BuilderInvariant, RootsAgree
<1> QED
  BY <1>1, BuilderInvariantHolds, PTL

(* What the invariant says of a builder that is ready. *)
LEMMA ProverIs ==
  ASSUME BuilderInvariant, status = "ready"
  PROVE  /\ leaves \in Seq(Elements)
         /\ prover.count \in Nat /\ prover.count <= Len(leaves) /\ prover.count < Pow2[Depth]
         /\ prover.tree = Built(Stored, prover.count)[Depth][0]
         /\ Hash(prover.tree) = Level(Stored, prover.count)[Depth][0]
         /\ prover.count > 0 => /\ prover.count = checkpoint.index + 1 /\ checkpoint.index \in Nat
                                /\ checkpoint.root = Level(Stored, prover.count)[Depth][0]
<1> DEFINE n == prover.count
<1>1. leaves \in Seq(Elements) /\ Fed
  BY DEF BuilderInvariant
<1>2. n \in Nat /\ n <= Len(leaves) /\ n < Pow2[Depth] /\ prover.tree = Built(Stored, n)[Depth][0]
  BY <1>1 DEF Fed
<1>3. n > 0 => n = checkpoint.index + 1 /\ checkpoint.index \in Nat /\ checkpoint.root = Level(Stored, n)[Depth][0]
  BY DEF BuilderInvariant, Signed
<1>4. Depth \in 0 .. Depth /\ 0 \in Nat
  BY DepthAssumption
<1> HIDE DEF n
<1>5. \A d \in 0 .. Depth, k \in Nat : Hash(Built(Stored, n)[d][k]) = Level(Stored, n)[d][k]
  BY ONLY <1>2, BuiltHash
<1>7. Hash(prover.tree) = Level(Stored, n)[Depth][0]
  BY ONLY <1>2, <1>4, <1>5
<1> QED
  BY <1>1, <1>2, <1>3, <1>7 DEF n

(* Every message a checkpoint covers has a proof for its own leaf that        *)
(* merkle_root_from_branch, and so the inbox, takes to the checkpoint's root. *)
THEOREM ProofsVerifyHolds == BuilderSpec => []ProofsVerify
<1>1. ASSUME BuilderInvariant, status = "ready", prover.count > 0, NEW i \in 0 .. checkpoint.index
      PROVE  Prove(i).leaf = leaves[i + 1] /\ RootFromBranch(Prove(i).leaf, Prove(i).path, i) = checkpoint.root
  <2> DEFINE n == prover.count
             s == Stored
             root == Level(s, n)[Depth][0]
  <2>1. /\ leaves \in Seq(Elements) /\ n \in Nat /\ n <= Len(leaves) /\ n < Pow2[Depth]
        /\ prover.tree = Built(s, n)[Depth][0]
        /\ n = checkpoint.index + 1 /\ checkpoint.index \in Nat /\ checkpoint.root = root
    BY <1>1, ProverIs
  <2> HIDE DEF n, s
  <2>2. i \in Nat /\ i < n /\ i < Pow2[Depth] /\ i < Len(leaves)
    <3>1. Pow2[Depth] \in Nat /\ Len(leaves) \in Nat
      BY <2>1, PowersAre, DepthAssumption
    <3> QED
      BY <2>1, <3>1
  <2>3. s[i] = leaves[i + 1]
    BY <2>1, <2>2, StoredIs DEF s
  <2> DEFINE proof == GenerateProof(Built(s, n)[Depth][0], i, Depth)
  <2>4. proof.leaf = s[i]
    BY ONLY <2>1, <2>2, ProofIs
  <2>5. RootFromBranch(proof.leaf, proof.path, i) = root
    BY ONLY <2>1, <2>2, ProofLeadsToRoot
  <2>6. Prove(i) = proof
    BY <2>1 DEF Prove
  <2> HIDE DEF proof, root
  <2> QED
    BY <2>1, <2>3, <2>4, <2>5, <2>6
<1>2. BuilderInvariant => ProofsVerify
  BY <1>1 DEF ProofsVerify
<1> QED
  BY <1>2, BuilderInvariantHolds, PTL

(* A path of the prover takes a leaf to the root at an index only if that leaf *)
(* is at that index.  The proof does not look at the path: none can do more.   *)
THEOREM ProofsBindHolds == BuilderSpec => []ProofsBind
<1>1. ASSUME BuilderInvariant, status = "ready", NEW i \in 0 .. (prover.count - 1),
             NEW j \in 0 .. (Pow2[Depth] - 1), NEW e \in Elements,
             RootFromBranch(e, Prove(i).path, j) = Hash(prover.tree)
      PROVE  j < prover.count /\ leaves[j + 1] = e
  <2> DEFINE n == prover.count
             s == Stored
             path == Prove(i).path
  <2>1. /\ leaves \in Seq(Elements) /\ n \in Nat /\ n <= Len(leaves)
        /\ Hash(prover.tree) = Level(s, n)[Depth][0]
    BY <1>1, ProverIs
  <2>2. RootFromBranch(e, path, j) = Level(s, n)[Depth][0]
    BY <1>1, <2>1
  <2> HIDE DEF n, s, path
  <2>3. j \in Nat /\ j < Pow2[Depth]
    <3>1. Pow2[Depth] \in Nat
      BY PowersAre, DepthAssumption
    <3> QED
      BY <3>1
  <2>4. e = Level(s, n)[0][j]
    BY ONLY <2>1, <2>2, <2>3, RootBinds
  <2>5. Level(s, n)[0][j] = IF j < n THEN s[j] ELSE Zero
    BY <2>3, LevelIs
  <2>6. j < n
    BY <2>4, <2>5, BuilderAssumption
  <2>7. j < Len(leaves)
    <3>1. Len(leaves) \in Nat
      BY <2>1
    <3> QED
      BY <2>1, <2>3, <2>6, <3>1
  <2>8. s[j] = leaves[j + 1]
    BY <2>1, <2>3, <2>7, StoredIs DEF s
  <2> QED
    BY <2>4, <2>5, <2>6, <2>8 DEF n
<1>2. BuilderInvariant => ProofsBind
  BY <1>1 DEF ProofsBind
<1> QED
  BY <1>2, BuilderInvariantHolds, PTL
=============================================================================
