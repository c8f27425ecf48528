----------------------------- MODULE OutboxSync -----------------------------
(***************************************************************************)
(* The message indexer of the relayer (sync_outbox_messages in             *)
(* abacus-base/src/contract_sync/outbox.rs) and the rows of AbacusDB it    *)
(* writes (abacus-core/src/db/abacus_db.rs).                               *)
(*                                                                         *)
(* Messages are dispatched in blocks in leaf order.  The provider reports  *)
(* a finalized block number and answers log queries, and it is flaky: it   *)
(* may report an old number and leave events out of an answer.             *)
(*                                                                         *)
(* One round of the loop is cut at its two awaits and between the puts of  *)
(* store_messages: rocksdb makes each put durable by itself, so a crash    *)
(* may fall between any two of them.                                       *)
(***************************************************************************)
EXTENDS Integers, FiniteSets

CONSTANTS
  NumLeaves,   \* messages dispatched, leaf indices 0..NumLeaves-1
  ConfigFrom,  \* IndexSettings::from
  ChunkSize,   \* IndexSettings::chunk_size
  MaxBlock,    \* bound on the source chain's finalized height
  MaxFlaky,    \* bound on wrong answers and failed log queries of the provider
  MaxCrashes   \* bound on crashes of the relayer

Leaves == 0 .. (NumLeaves - 1)
Blocks == 0 .. MaxBlock
NoLeaf == -1    \* latest leaf index: None
NoBlock == -1   \* latest valid range start: None

ASSUME OutboxSyncAssumption ==
  /\ NumLeaves \in Nat \ {0}
  /\ ConfigFrom \in Nat
  /\ ChunkSize \in Nat \ {0}
  /\ MaxBlock \in Nat /\ ConfigFrom <= MaxBlock
  /\ MaxFlaky \in Nat
  /\ MaxCrashes \in Nat

VARIABLES
  blockOf,     \* the block each message is dispatched in; never changes
  height,      \* finalized height of the source chain
  pc,          \* "tip" | "fetch" | "leaf" | "index" | "message" | "range" | "stopped"
  from,        \* first block of the next range
  to,          \* last block of the range being indexed
  lastValid,   \* last_valid_range_start_block
  batch,       \* messages of the accepted range still to be stored
  leafRow,     \* DB: indices with a LEAF row
  messageRow,  \* DB: indices whose leaf has a MESSAGE row
  latest,      \* DB: LATEST_LEAF_INDEX
  rangeStart,  \* DB: LATEST_VALID_MESSAGE_RANGE_START_BLOCK
  base,        \* history: least index of the batch accepted with no latest index
  torn,        \* history: indices whose MESSAGE put a crash prevented
  flaky, crashes

dbVars == <<leafRow, messageRow, latest, rangeStart>>
vars == <<blockOf, height, pc, from, to, lastValid, batch, dbVars, base, torn,
          flaky, crashes>>

Least(S) == CHOOSE x \in S : \A y \in S : x <= y

TypeOK ==
  /\ blockOf \in [Leaves -> Blocks]
  /\ height \in Blocks
  /\ pc \in {"tip", "fetch", "leaf", "index", "message", "range", "stopped"}
  /\ from \in 0 .. (MaxBlock + 1)
  /\ to \in Blocks
  /\ lastValid \in Blocks
  /\ batch \in SUBSET Leaves
  /\ leafRow \in SUBSET Leaves
  /\ messageRow \in SUBSET Leaves
  /\ latest \in Leaves \cup {NoLeaf}
  /\ rangeStart \in Blocks \cup {NoBlock}
  /\ base \in Leaves \cup {NoLeaf}
  /\ torn \in SUBSET Leaves
  /\ flaky \in 0 .. MaxFlaky
  /\ crashes \in 0 .. MaxCrashes

Init ==
  /\ blockOf \in {f \in [Leaves -> ConfigFrom .. MaxBlock] :
                    \A k, l \in Leaves : k <= l => f[k] <= f[l]}
  /\ height = 0
  /\ pc = "tip"
  /\ from = ConfigFrom
  /\ to = 0
  /\ lastValid = ConfigFrom
  /\ batch = {}
  /\ leafRow = {}
  /\ messageRow = {}
  /\ latest = NoLeaf
  /\ rangeStart = NoBlock
  /\ base = NoLeaf
  /\ torn = {}
  /\ flaky = 0
  /\ crashes = 0

Flaky == flaky < MaxFlaky /\ flaky' = flaky + 1

-----------------------------------------------------------------------------
(***************************************************************************)
(* Plausible mistakes, each in place of the definition it names.           *)
(***************************************************************************)
AnyContinuation(new) == TRUE   \* Continues: a batch may start anywhere
KeepScanning == to + 1         \* ReindexFrom: an invalid continuation is passed over
StartOfScan == from            \* ValidRangeStart: the range without its look-back
ShortLookBack == IF to >= ChunkSize THEN to - ChunkSize + 1 ELSE 0   \* FullChunkFrom

-----------------------------------------------------------------------------
(***************************************************************************)
(* One round of the loop.                                                  *)
(***************************************************************************)

(* get_finalized_block_number().await.  An error, like a number that is not *)
(* beyond from, starts the loop over, and changes nothing.                  *)
GetTip ==
  /\ pc = "tip"
  /\ \E tip \in 0 .. height :
       /\ IF tip = height THEN UNCHANGED flaky ELSE Flaky
       /\ tip > from
       /\ to' = IF tip < from + ChunkSize THEN tip ELSE from + ChunkSize
  /\ pc' = "fetch"
  /\ UNCHANGED <<blockOf, height, from, lastValid, batch, dbVars, base, torn, crashes>>

(* to.checked_sub(chunk_size).unwrap_or_default() *)
FullChunkFrom == IF to >= ChunkSize THEN to - ChunkSize ELSE 0

Dispatched(a, b) == {l \in Leaves : a <= blockOf[l] /\ blockOf[l] <= b}

(* OptLatestLeafIndex::valid_continuation, on a batch that is not empty. *)
Continues(new) == latest # NoLeaf => latest + 1 \in new
NoGaps(new) == \A k, l \in new : \A j \in k .. l : j \in new

ReindexFrom == lastValid
NextFrom == to + 1
ValidRangeStart == FullChunkFrom

(* fetch_sorted_messages(..).await?, then the synchronous part up to the first *)
(* put.  A flaky answer leaves some events out.                                *)
Fetch ==
  /\ pc = "fetch"
  /\ \E answer \in SUBSET Dispatched(FullChunkFrom, to) :
       LET new == {l \in answer : l > latest} IN
       /\ IF answer = Dispatched(FullChunkFrom, to) THEN UNCHANGED flaky ELSE Flaky
       /\ \/ /\ new = {}
             /\ from' = NextFrom
             /\ pc' = "tip"
             /\ UNCHANGED <<batch, base>>
          \/ /\ new # {} /\ ~ Continues(new)
             /\ from' = ReindexFrom
             /\ pc' = "tip"
             /\ UNCHANGED <<batch, base>>
          \/ /\ new # {} /\ Continues(new) /\ ~ NoGaps(new)
             /\ pc' = "tip"
             /\ UNCHANGED <<from, batch, base>>
          \/ /\ new # {} /\ Continues(new) /\ NoGaps(new)
             /\ batch' = new
             /\ pc' = "leaf"
             /\ base' = IF latest = NoLeaf THEN Least(new) ELSE base
             /\ UNCHANGED from
  /\ UNCHANGED <<blockOf, height, to, lastValid, dbVars, torn, crashes>>

(* The error ends the sync task, and with it the agent. *)
FetchFails ==
  /\ pc = "fetch"
  /\ Flaky
  /\ pc' = "stopped"
  /\ UNCHANGED <<blockOf, height, from, to, lastValid, batch, dbVars, base, torn, crashes>>

(***************************************************************************)
(* store_messages, one put at a time: the LEAF row, the latest index, the  *)
(* MESSAGE row of each message in leaf order.                              *)
(***************************************************************************)
Storing == Least(batch)

PutLeaf ==
  /\ pc = "leaf"
  /\ leafRow' = leafRow \cup {Storing}
  /\ pc' = "index"
  /\ UNCHANGED <<blockOf, height, from, to, lastValid, batch, messageRow, latest,
                 rangeStart, base, torn, flaky, crashes>>

(* update_latest_leaf_index never goes back *)
PutIndex ==
  /\ pc = "index"
  /\ latest' = IF Storing > latest THEN Storing ELSE latest
  /\ pc' = "message"
  /\ UNCHANGED <<blockOf, height, from, to, lastValid, batch, leafRow, messageRow,
                 rangeStart, base, torn, flaky, crashes>>

PutMessage ==
  /\ pc = "message"
  /\ messageRow' = messageRow \cup {Storing}
  /\ batch' = batch \ {Storing}
  /\ pc' = IF batch = {Storing} THEN "range" ELSE "leaf"
  /\ UNCHANGED <<blockOf, height, from, to, lastValid, leafRow, latest, rangeStart,
                 base, torn, flaky, crashes>>

(* store_latest_valid_message_range_start_block, then on to the next range *)
PutRangeStart ==
  /\ pc = "range"
  /\ rangeStart' = ValidRangeStart
  /\ lastValid' = ValidRangeStart
  /\ from' = NextFrom
  /\ pc' = "tip"
  /\ UNCHANGED <<blockOf, height, to, batch, leafRow, messageRow, latest, base, torn,
                 flaky, crashes>>

(* The process starts: resume from the stored block, or the configured one. *)
Start ==
  /\ pc' = "tip"
  /\ from' = IF rangeStart = NoBlock THEN ConfigFrom ELSE rangeStart
  /\ lastValid' = from'
  /\ to' = 0
  /\ batch' = {}
  /\ UNCHANGED <<blockOf, height, dbVars, base, flaky>>

Crash ==
  /\ crashes < MaxCrashes
  /\ crashes' = crashes + 1
  /\ torn' = IF pc = "message" THEN torn \cup {Storing} ELSE torn
  /\ Start

RestartAfterExit ==
  /\ pc = "stopped"
  /\ Start
  /\ UNCHANGED <<torn, crashes>>

FinalizeBlock ==
  /\ height < MaxBlock
  /\ height' = height + 1
  /\ UNCHANGED <<blockOf, pc, from, to, lastValid, batch, dbVars, base, torn,
                 flaky, crashes>>

Sync ==
  \/ GetTip \/ Fetch \/ FetchFails
  \/ PutLeaf \/ PutIndex \/ PutMessage \/ PutRangeStart

Next == Sync \/ Crash \/ RestartAfterExit \/ FinalizeBlock

Spec == Init /\ [][Next]_vars

(* The task is scheduled, the chain goes on to MaxBlock, an exited agent is *)
(* started again.  No fault is obliged to happen.                           *)
Fairness ==
  /\ WF_vars(GetTip)
  /\ WF_vars(Fetch)
  /\ WF_vars(PutLeaf \/ PutIndex \/ PutMessage \/ PutRangeStart)
  /\ WF_vars(RestartAfterExit)
  /\ WF_vars(FinalizeBlock)

FairSpec == Spec /\ Fairness

-----------------------------------------------------------------------------
(***************************************************************************)
(* Properties.                                                             *)
(***************************************************************************)

(* Between the first index ever accepted and the latest index every leaf has *)
(* its LEAF row, and its MESSAGE row unless a crash cut its puts or they are *)
(* under way: gaps, flaky answers, re-indexing and restarts leave no hole.   *)
StoredUpToLatest ==
  \A l \in Leaves : base <= l /\ l <= latest =>
    /\ l \in leafRow
    /\ l \in messageRow \cup torn \/ (pc = "message" /\ l = Storing)

(* Neither the block to re-index from nor the block a restart resumes from   *)
(* lies behind a message that is not indexed yet.                            *)
MissingIsAhead ==
  \A l \in Leaves : l > latest =>
    /\ lastValid <= blockOf[l]
    /\ rangeStart <= blockOf[l]

(* The latest index moves one leaf at a time once there is one.              *)
LatestIsDense ==
  [][latest' # latest => latest = NoLeaf \/ latest' = latest + 1]_vars

(* A first batch is accepted wherever it starts, so what comes before it is    *)
(* lost.  Only an answer that is wrong or old makes it start behind the first  *)
(* message: ranges, look-back and restarts alone do not jump over it.          *)
FirstIsKept == base > 0 => flaky > 0

Settled(l) == l \in messageRow \cup torn \/ (base # NoLeaf /\ l < base)

(* Recovery from missed events: once the provider answers correctly, a       *)
(* message in a block not yet passed leads to that message and all before it *)
(* being stored, however many of those an earlier answer left out.  Lost     *)
(* are only the leaves below the first accepted index and those a crash      *)
(* tore; a message in the tip block itself waits for the next block, because *)
(* the loop sleeps while tip <= from.                                        *)
MissedIsRecovered ==
  \A l \in Leaves :
    (pc = "tip" /\ flaky = MaxFlaky /\ from <= blockOf[l] /\ blockOf[l] < MaxBlock)
      ~> (\A k \in 0 .. l : Settled(k))

(* "All messages whose indices are <= this index have been stored in the DB": *)
(* what the loop assumes when it reads the latest index.                      *)
AllBelowLatestStored ==
  pc = "fetch" => \A l \in Leaves : l <= latest => l \in messageRow
=============================================================================
