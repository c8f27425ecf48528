# A TLA+ model of the Abacus relayer

This directory models, checks and proves the core of the repository's program,
the Rust relayer under `src/rust`: how a message dispatched on one chain is
indexed, covered by a validator checkpoint, proved and delivered to another
chain exactly as the code does it, through lost replies, restarts and crashes; and
what carries it: the database, the settings, the supervision of the tasks, the
providers under each call, and the end-to-end test driver.
Paths below are relative to `src/rust/`.

Contents: [the system](#the-system) · [modules](#modules-and-their-correspondence-to-the-code) ·
[conventions](#modelling-conventions) · [runs](#what-each-run-checks) ·
[fairness](#fairness) · [proofs](#what-is-proved) · [findings](#findings) ·
[not modelled](#what-is-not-modelled) · [plan](#plan)

## The system

One relayer process serves one source chain (the *outbox*) and several
destination chains (the *inboxes*). All its tasks share a single-threaded tokio
runtime (`agents/relayer/src/main.rs:46`) and one RocksDB (`AbacusDB`).

```
 outbox chain --events--> message indexer ---> AbacusDB (LEAF, MESSAGE, latest index)
                          gas-payment indexer > AbacusDB (processed marks, totals)
 validators' storages --> MultisigCheckpointSyncer <- CheckpointFetcher
                                                        | watch channel
                             for each inbox:            v
     AbacusDB --scan--> MessageProcessor + MerkleTreeBuilder --mpsc--> SerialSubmitter --> inbox chain
                                   ^------ processing status rows ---------'
```

| Component | State it keeps | Operations | What makes it correct |
| --- | --- | --- | --- |
| Message indexer (`contract_sync/outbox.rs`, `last_message.rs`, `schema.rs`) | next block, last valid range; in the DB the leaf and message rows, the latest leaf index, the latest valid range | wait for the tip, fetch a range, accept or reject its messages, store them put by put, go back and re-index | no hole below the latest index; nothing missing behind the point it goes back to, or that a restart resumes from; missed events are recovered |
| Gas-payment indexer (`contract_sync/interchain_gas.rs`) | next block; in the DB the processed marks, the total for each leaf, the latest block | fetch with a look-back, process each payment once | each payment is added exactly once; no block is passed unsearched |
| Checkpoint fetcher (`checkpoint_fetcher.rs`) | latest index, the value in the watch channel | poll `latest_index`, fetch and send a newer checkpoint | what receivers see never goes back |
| Multisig syncer (`types/multisig.rs`) and storages | nothing between calls; the validators' files | `latest_index`, `fetch_checkpoint`, `write_checkpoint` | a checkpoint is published only with a quorum of distinct signers; an index a quorum keeps is found |
| Message processor (`msg/processor.rs`), one for each inbox | scan position, the checkpoint it has seen | skip, wait for a message or for a covering checkpoint, bring the tree up to date, prove and send | its assertion on the tree holds; it passes no message of its inbox; it sends nothing already recorded |
| Merkle tree builder and prover, accumulators | two trees over the leaves | ingest a leaf, compare roots, prove | the two algorithms and the contract agree; a proof shows its leaf at its index, and no other |
| Serial submitter (`msg/serial_submitter.rs`), one for each inbox | channel, run queue, the message in hand; in the DB the status rows | receive a batch, pick, check the status, estimate, send, await the receipt, record or requeue | nothing duplicated, forgotten or delivered again; fresh before retried; everything is settled in the end |
| Database (`abacus-core/src/db`, `contract_sync/schema.rs`, the encodings in `abacus-core`) | rocksdb's keys and values | each store and retrieve operation, as a list of puts | every row reads back; no table runs into another; a crash leaves indices behind, never ahead |
| Settings and matching lists (`abacus-base/src/settings`, `macros.rs`, `agents/relayer/src/settings`) | the layered sources | parse, connect, decide what is relayed | the pipelines are those the settings name; a well-formed configuration starts |
| Relayer agent (`main.rs`, `relayer.rs`, `agent.rs`) | task handles, the prometheus registry | start, join, select, cancel, exit | a dead task ends the agent, which is started again |
| Providers (`ethers-prometheus`, `retrying.rs`, `trait_builder.rs`) and the contract wrappers over them | the configuration under a lock, counters | contract operations, retries, the update cycle, tracking a wallet or a token | every send is counted as ended once; nothing waits for ever; the updater ends |
| Test driver (`utils/run-locally`) | children, reader threads, the flag `RUNNING` | start, poll the metrics, assert, stop and join | success means that all was processed; it always ends |

Hard here: the tasks interleave at every `await`; several rows that belong
together are put one by one, so a crash tears them; RPC replies are lost or late
(a send may fail after the node took the transaction, a receipt may never come);
event queries leave out events; validators answer inconsistently and are read
one file at a time; a lock is held across requests; a chain re-org undoes deliveries; an error ends one task while
its siblings live on. `PROJECT.json` lists each such hazard at its line with the
properties that watch it.

## Modules and their correspondence to the code

`PROJECT.json` ("map") gives the lines behind every definition.

- **SerialSubmitter** – the submitter of one inbox, its channel, the status rows
  and the destination chain. `pc` says at which await `tick()` is suspended:
  `idle` (sleep), `status` (`message_status`), `estimate` and `send` (`process`,
  `report_tx`), `receipt`. `TickPick` is the whole synchronous part: drain the
  channel, move the batch to the front of the run queue, pop. The outcomes of a
  call are actions of their own (`StatusProcessed`, `StatusNone`, `StatusFails`,
  `EstimateReverts`, `SendFails`, `ReceiptArrives`, `ReceiptDropped`, ...). A
  transaction is `awaited` while `report_tx` waits and an *orphan* after it gave
  up; an orphan may still be mined. Chain actions (mining, eviction, a rival
  relayer, a re-org) are external.
- **Delivery** – the abstract promise of such a pipeline: a message is accepted
  once, held until recorded, recorded only on evidence, recorded for good; only
  the whole memory may be lost at once. `SerialSubmitter` refines it through
  `Held`, `processed` and the deliveries that were seen (`ImplementsDelivery`).
- **CheckpointFetcher** – the fetcher and the watch channel. The syncer is seen
  through the answers its two calls may give.
- **MessageProcessor** extends it with the processors of all inboxes, the rows the
  indexer puts and the processing status. `message_leaf_index`, `ckpt`, `count`
  (leaves in the tree) and `ppc` are kept for each inbox; `UpToDate`/`Ingest` are
  `update_to_checkpoint` cut at its `wait_for_leaf`. The verdict of the matching
  lists is the constant `Admitted`, which the checked instance computes with
  MatchingList; the submitter is the action `Record`.
- **InboxPipeline** – both halves of `run_inbox` over one channel and one database:
  `Source` and `Submitter` are the two modules, each instantiated with its view of the
  whole. `HandsOver` is the send that reaches the real channel, `FindsNoSubmitter` the
  send that fails because the submitter has dropped its end, `PipelineJoined` the
  `try_join!`, `Exits` what `run_all` does when the fetcher or the pipeline has ended.
  One inbox, every message admitted, no re-orgs.
- **MultisigCheckpointSyncer** – inside the fetcher's two calls: each read of a
  validator's file is a step, each of a validator's two writes is a step.
  `latest_index` has its two passes (`ChooseIndex`, `SearchNext`),
  `fetch_checkpoint` its votes for each root (`ReadVote`). It justifies what
  CheckpointFetcher assumes (`AnswerIsSigned`).
- **OutboxSync** – `sync_outbox_messages` and the puts of `store_messages`, in
  their order: LEAF, latest index, MESSAGE, valid range start. `Continues` and
  `NoGaps` are the two tests of `valid_continuation`.
- **GasPaymentSync** – `sync_gas_payments` and `process_gas_payment` with its two
  puts.
- **Accumulators** – `merkle.rs` and `incremental.rs` as operators; what the code
  computes by recursion or in a loop over the heights is a recursive function on
  `0 .. Depth` (`Create`, `Push`, `Walk`; `Climb` is the loop that hashes siblings, shared
  by `merkle_root_from_branch` and both methods of `incremental.rs`).
  **MerkleTreeBuilder** drives both as `merkle_tree_builder.rs` does and compares
  them with the root the contract has.
- **Encodings** – `Encode` and `Decode` of every stored or hashed type as sequences of
  bytes of `ByteBase` values, big endian; the leaf, the checkpoint's signing hash and
  its signature, with keccak as a constructor.
- **AbacusDB** – the operations of `AbacusDB` over one rocksdb, as lists of puts of a
  key and a value: an operation computes its puts (`LeafPuts`, `MessagePuts`, ...), each
  `Flush` does one, `Crash` forgets the rest. **TypedRows** is its abstract
  specification: tables of typed rows for each outbox, each step changing one row.
- **MatchingList** – the text of a list as the deserializer sees it, its parsing and
  its verdict on a message. **RelayerSettings** – the layered sources and the outcome
  (`ok`, `error`, `panic`) of converting each setting.
- **RelayerAgent** – the process from its settings to its exit code: `FromSettings`,
  one `Connect` for each contract object, `Run`, then the tasks, which fail at any
  time; `JoinInbox` is `try_join!`, `SyncEnds` the tasks that drop their loop's result,
  `Select`, `Cancel` and `Return` are `run_all` and `_main`. `detached` holds the running
  tasks whose handle nobody awaits: the updater each `Connect` spawns, the metrics server
  and the processors' metrics loops that `Run` does (`DetachedFails`: one panics).
- **PrometheusMiddleware** – contract operations as the requests they make, through the
  middleware's counts and its lock, `RetryingProvider`'s attempts, and the node. A
  client is at `name` or `label` while it waits for the lock, at `request` while the
  node works. The updater holds the read guard over its requests.
- **RunLocally** – the test driver. Each look at `RUNNING`, at a child or at a metric is
  a step; the relayer is reduced to what its metrics show.
- **MCMessageProcessor**, **MCGasPaymentSync**, **MCAbacusDB**, **MCRelayerAgent** –
  constants for TLC.
- **SerialSubmitterProofs**, **MessageProcessorProofs**, **InboxPipelineProofs**,
  **GasPaymentSyncProofs**, **RelayerAgentProofs** – the theorems about the module each is
  named after; **LeavesProofs** – those about OutboxSync, and about MerkleTreeBuilder with
  Accumulators; **StoresProofs** – those about AbacusDB with Encodings and TypedRows, and
  about MultisigCheckpointSyncer; **ProvidersAndDriverProofs** – those about
  PrometheusMiddleware and RunLocally.

MessageProcessor and SerialSubmitter meet at the channel and the status rows, each
with the other reduced to what it sees of it: the submitter's processor sends the
unrecorded leaves in ascending order, once each in one life of the process; the
processor's submitter records a sent leaf at some time. InboxPipeline discharges both
assumptions: with the real other half, each module's specification (`Source!Next`,
`Submitter!Next`) still holds of its view. MessageProcessor and
OutboxSync meet at the rows: what OutboxSync leaves torn after a crash is `torn` in
MessageProcessor. Both take the rows as a table; that the bytes in rocksdb are such a
table is `ImplementsRows` of AbacusDB. What ends a task in one of these models is an
action of it; where that leads the process is RelayerAgent.

## Modelling conventions

- **Atomicity.** Code between two awaits is one action, since no other task runs
  meanwhile. DB puts are durable one by one, so where a crash may fall between two
  puts they are separate actions even without an await.
- **Crash** loses all memory and keeps the DB and the chains. `RestartAfterExit`
  stands for the supervisor outside the repository that starts an exited agent.
- **Errors** of calls are actions bounded by `MaxFaults` or `MaxFlaky`. A task that
  returns an error is `stopped`: its queues and channel ends are dropped.
- **An idle tick changes nothing** and is left out; therefore the systems may stop
  (all messages settled, bounds used up) and deadlock is not checked.
- **Data.** A message is its leaf index, a checkpoint its index (with root and
  signers in MultisigCheckpointSyncer), a hash a constructor, an amount a number.
  Blocks are the finalized ones: the indexers never see a source re-org.
  Only AbacusDB and Encodings go down to bytes, since their properties are about them.
- A definition marked *a mistake* is what a plausible bug would turn its
  neighbour into; no behaviour uses it, and each property is broken by one.
- Folded away: the wait queue (filled and drained between two awaits). The latest
  leaf index for each destination, which no task reads, is modelled in AbacusDB only.

## What each run checks

States are TLC's distinct states.

| Run | States | Question | Bounds, and why they are enough |
| --- | --- | --- | --- |
| SerialSubmitter | 270,000 | `HeldOnce`, `NothingForgotten`, `FreshBeforeRetried`, `RecordedIsDelivered`, `RetriesAreFifo`, `EverySettled`, `ImplementsDelivery` | 3 messages: one fresh, one retried, one in hand at once; two faults: two retries, or a lost reply and a failed receipt; one crash, one re-org; one message a rival may deliver, one that may revert |
| MessageProcessor | 64,000 | `AssertionHolds`, `NothingPassed`, `NeverSentAfterRecorded`, `EveryForwarded` | two inboxes that share the channel, 3 messages that alternate between them, one of them on the blacklist, two faults (stale index, missing quorum, errors), a crash that may tear a row |
| InboxPipeline | 68,000 | `SubmitterIsAsAssumed`, `ProcessorIsAsAssumed`, `EveryDelivered` | 2 messages, so that one is in the channel while another is in hand; one a rival may deliver, one that may revert; one fault of the scanning half, two failed calls of the submitter, one crash: either half may end first, or both |
| MultisigCheckpointSyncer | 432,000 | `PublishedHasQuorum`, `AnswerIsSigned`, `CatchesUp` | 3 validators, quorum 2, one of them with one wrong file (other root, a peer's copy, other index, no valid signature), two indices so that both passes run, one crash or failed read |
| OutboxSync | 114,000 | `StoredUpToLatest`, `MissingIsAhead`, `FirstIsKept`, `MissedIsRecovered` | every placement of 3 messages in the blocks, chunks of 2 blocks, two flaky answers, one crash |
| GasPaymentSync | 74,000 | `TotalIsExact`, `NoSilentGap`, `EveryProcessed` | every placement of 3 payments for two leaves, amounts whose sums all differ, chunks of 2 blocks in 5, one flaky answer, one crash |
| MerkleTreeBuilder | 21,000 | `RootsAgree`, `ProofsVerify`, `ProofsBind` | depth 3: every shape of full and partial subtree occurs; every sequence of two leaf values, up to and beyond the last leaf the code accepts; every choice of checkpoints |
| AbacusDB | 112,000 | `ReadsBack`, `LatestNeverAhead`, `EncodingsAreCanonical`, `ImplementsRows` | two outboxes, two messages that may differ in nothing but the index, three payments of one transaction for one leaf, of which two together overflow a U256 (the sum panics and its put is never done); bytes of two values, so that an index or a domain fills several bytes; three operations in any order, a crash between any two puts |
| PrometheusMiddleware | 23,000 | `EverySendAccounted`, `EveryRequestReturns`, `UpdaterEnds` | two clients and a writer beside the updater: a writer behind a reader that holds the lock, a reader behind the writer; two attempts, so that a request is retried and retries run out; operations with a call, with a plain request, and with estimate and send |
| RelayerAgent | 105,000 | `PipelinesAsConfigured`, `StartupNeedsOnlySettings`, `AdmittedByLists`, `FailureEndsAgent` | two inboxes, with and without a paymaster; each setting that can be given, absent, wrong, or given twice by two sources; two failures, so that a second task, joined or detached, may fail while the first failure travels |
| RunLocally | 444,000 | `SuccessMeansProcessed`, `HarnessEnds` | 0, 1 or 2 messages: a maximum that is reached before the count; one failing child, spawn or reader thread; SIGINT and the timeout at any time |
| OutboxSyncLatest | | a statement of the repository which the code contradicts | the smallest instance that shows it |

What the passing runs show, in words:

- *Submitter.* No interleaving of receiving, promoting, failing and requeueing
  duplicates or loses a message while the task lives. A leaf is recorded only if the
  inbox had it, or its receipt said *reverted* (see the known divergences). After any crash the
  recorded leaves are not tried again and the others are. Every message is
  settled in the end, except when a failed status query has ended the submitter,
  which `EverySettled` names as its second disjunct (see the known divergences).
- *Processor.* `assert_eq!(checkpoint.index + 1, prover.count())` cannot fail: the
  checkpoint was copied before the awaits, but published checkpoints only grow and
  are never 0, and the tree never grows beyond the newest of them. A message whose
  row is not yet there is waited for and never passed.
- *Pipeline.* Nothing gets lost or made up between the tasks: the processor sees a
  submitter that records only what was sent, the submitter a processor that sends each
  leaf once, in order. A submitter that ended is noticed by the next send,
  and the pipeline then ends and is started again; if nothing more is sent, it stays
  unnoticed, which `EveryDelivered` names as its exception.
- *Syncer.* The answer of `latest_index` mixes files read at different times; since
  a validator writes the checkpoint before the index, a quorum has always written
  the answered index. What is published was signed by a quorum of distinct
  validators for that root and index, and with fewer diverging validators than the
  quorum it is the outbox's root. A single unrecoverable signature can end the task
  (`multisig.rs:49`); `CatchesUp` excepts exactly that. It also covers the second
  pass, which finds what a quorum signed although its validators report different
  indices; there one unrecoverable signature can hide the quorum. It is checked with a
  majority quorum; with a smaller one two disjoint quorums could differ.
- *Indexers.* Dropped events lead back to the last valid range and are found; no
  gas payment is added twice; what a crash between two puts loses is exactly what
  the history variables `torn` and `lost` record. On an empty DB a first batch is
  accepted wherever it starts (`last_message.rs:38`); `FirstIsKept` says that only an
  event query that left the first messages out can make it start late: the indexer's
  own range bounds never do.
- *Trees.* Both accumulators agree with the contract's root after every leaf; every
  proof handed out verifies, and for no other leaf or index.
- *Database.* The prefixes of the tables and of the outboxes keep all rows apart, so
  each put is one change of one typed row; a crash inside an operation leaves rows that
  still decode, and the latest index for a destination behind that of the outbox.
- *Providers.* The updater's guard is released at the end of each update, which is what
  keeps a waiting writer, and every reader behind it, from waiting for ever. A send
  is counted once whatever is retried beneath it; with a signer on top, a send does
  not pass the counting layer at all (`trait_builder.rs`), and is not counted.
- *Agent.* Whichever fails of the tasks that `run_all` holds, and of those that these wait
  for, the process ends, except for a submitter that returned an error while its
  processor sends nothing. Three kinds of tasks have no such watch: the metrics server
  (`main.rs:39`), the metrics loops (`processor.rs:63`) and the updaters
  (`trait_builder.rs:56`) are spawned and their handles dropped; they may panic and stay
  dead while the relayer runs, and the model lets them die at any time. An inbox disabled
  by any source stays disabled. A start panics only for a setting that is wrong, and fails
  only for such a one, for the environment, or for an inbox whose name is not its key.
- *Driver.* Success is reported only if every message was processed, although each
  metric is read at another time: the count of processed messages settles it, the gas
  payment count would not (see below). The driver ends even if a child hangs in CI.

## Fairness

The tasks' own steps are weakly fair: the runtime polls every woken task, and each
awaited call returns (`report_tx` has a timeout). The awaited transaction is
mined unless the node evicts it or the wait for it ends first. The source
chain finalizes blocks up to the bound, and in MessageProcessor the validators go on
signing and the indexer goes on; MultisigCheckpointSyncer asks nothing of the
validators, its property speaks of what their files keep. `RestartAfterExit` is fair
because the operator's supervisor restarts an exited process; without it nothing is
delivered after a task error, and no code under `src/` does it. InboxPipeline assumes
what its two halves do, of the union of their steps. No fault, crash,
re-org or rival is ever obliged to happen.

In PrometheusMiddleware every request that was sent comes back, if only as the HTTP
client's error, and a task whose turn at the lock has come goes on. In RelayerAgent no
task is obliged to fail and no processor to have a message; what follows a failure (join,
select, cancel, return) is polled by the runtime. In RunLocally the driver's threads run,
a child ends after SIGTERM and time passes; kathy, relayer and validator may hang.
AbacusDB has safety only. All of it is weak fairness.

## What is proved

TLAPS checks the theorems for every value of the constants that satisfies the named
assumptions (`SubmitterAssumption`, `FetcherAssumption`, `ProcessorAssumption`,
`SyncerAssumption`, `OutboxSyncAssumption`, `GasPaymentSyncAssumption`,
`PrometheusMiddlewareAssumption`, `RunLocallyAssumption`, `RelayerSettingsAssumption`,
`RelayerAgentAssumption`, `EncodingsAssumption`, `AbacusDBAssumption`,
`DepthAssumption`, `BuilderAssumption`): any number of messages, inboxes, validators, blocks, clients and
sources of settings, and any bound on faults, crashes and re-orgs.

**SerialSubmitterProofs.** `TypeCorrect`, then the pipeline invariant

    PipelineInv == TypeOK /\ HeldOnce /\ HeldBelow /\ NothingForgotten
                     /\ ChannelFresh /\ FreshBeforeRetried

`HeldOnce` alone is not inductive: a send could add a leaf already held unless all
held leaves lie below the scan position (`HeldBelow`). `FreshBeforeRetried` needs that
the channel has only fresh messages (`ChannelFresh`), since the received batch goes in
front. Lemmas on sequences say what pushing, popping and concatenating do to the set of
leaves, to distinctness and to the fresh-first order; `StepEffect` sums the steps up.
From it follow `HeldOnceHolds`, `NothingForgottenHolds`, `FreshBeforeRetriedHolds` and the
action properties `CommitIsFinalHolds` and `RetriesAreFifoHolds` (a step that keeps a retried
message in the queue puts fresh messages before it and retried ones behind it only; the
positions of distinct leaves tell which). `RecordedIsDeliveredHolds` rests on `AwaitedInv`: a
transaction seen as executed was in the inbox. `SubmitterImplementsDelivery` shows that
every step is a step of Delivery or a stutter: `HeldEffect` classifies what a step does
to `Held` and `processed`, `EvidenceGrows` that evidence only grows.

**MessageProcessorProofs.** `ProcessorTypeCorrect`; `ScanInv` = types, `PublishedInv` (the
published value is the fetcher's latest and never 0; the one being fetched is newer)
and `TreeInv` (no tree is beyond the newest checkpoint; a processor at work has a
checkpoint that is not 0 and not behind its tree). It gives `AssertionHoldsAlways` and
`CheckpointNeverGoesBackHolds`. `StatusInv` adds what a scan has done with each leaf before
its position, and gives `NothingPassedHolds` and `NeverSentAfterRecordedHolds`.

**InboxPipelineProofs.** The composed state is seen by instances of the proof modules of
both halves, `S` (scan) and `T` (submitter), whose lemmas are cited for their own steps:

    PipeInv == S!ScanInv /\ S!StatusInv /\ T!PipelineInv /\ HandedInv /\ BoundsInv

The two halves' invariants do not suffice: that the submitter records only what was sent
needs that what it holds was handed over (`HandedInv`), and that each half's faults stay
within the bounds it is specified with needs the account of all faults (`BoundsInv`). Each
step of the pipeline is then a step of one half, a step both take together (the send, the
crash), or a stutter for the other, so both mutual refinements hold
(`SubmitterIsAsAssumedHolds`, `ProcessorIsAsAssumedHolds`). With them the
theorems about the halves carry over: the pipeline implements Delivery
(`PipelineImplementsDelivery`) and passes no message (`PipelinePassesNothing`).

**StoresProofs, the syncer.** `SyncerInv` orders a validator's two writes and the
syncer's reads: the checkpoint file of every index up to the written one exists, a
reported index was written, and each vote of the call in progress is the file its own
validator has signed. Hence `PublishedHasQuorumHolds` (the votes of a root are from
distinct validators) and `AnswerIsSignedHolds` (a quorum's reports bound the answer).

**StoresProofs, the database.** `EncodingsAssumption`: a byte has at least two values and
a U256 is at least as wide as a u32. `AbacusDBAssumption`: leaf indices and destinations
are u32s, amounts and log indices U256s, and one log is one payment. From the bottom up:

- *Numbers.* `BigEndianIs`: digit by digit, the bytes of a number below `Power[width]` give
  it back (`NumberRead`). The digits are a recursive function, so the facts about it come
  from a least counterexample (`LeastNumber`) in place of an induction.
- *Types.* Each `Read...` lemma says that a type is read back from the front of a longer
  sequence, and what is left over; so the concatenations follow (`ReadMessage`, `ReadSigned`,
  `ReadMeta`, ...; a proof with a path of two, as the run has it). `SignatureBinds`: the two
  nested hashes tell checkpoints apart. They give `RoundTripsHold`, and with the invariant
  `EncodingsAreCanonicalHolds`.
- *Keys.* Two rows with the same key are the same row of the same table of the same outbox;
  prefixes are compared by their length and their first two words (`Prefixes`). So a put
  changes the row it is for and no other.
- *The invariant.*

      DatabaseInv == DispatchedInv /\ RowsInv /\ NeverAhead /\ Work

  `RowsInv`: a row holds nothing, or what decodes to one value that fits its table and its
  own key (the row of a leaf holds that leaf and no other). `NeverAhead` is about the latest
  indices. Neither is inductive without `Work`, which says what is still to be done: the
  pending puts are the rest of one operation, in the code's order, and the rows already
  have what its earlier puts wrote. So `ReadsBackHolds` and `LatestNeverAheadHolds`.
- *The refinement.* `DatabaseImplementsRows`: `Mapped` ties the visible rows to the rows of
  the store. Only `Flush` changes the store, and each of its puts writes one visible row as
  TypedRows allows (a latest index that grows, a message that was not there, a total that
  adds a payment already marked), or none: the LEAF row becomes visible with its message.

**LeavesProofs, the indexer.** `OutboxInv` = types, the order in which the chain's messages lie
(`Chain`), what is known of the batch being stored (`BatchInv`: it continues the stored
messages without a gap and comes from the range searched), where the stored messages
begin (`BaseInv`) and the two checked invariants. `StoredUpToLatestHolds` and
`MissingIsAheadHolds` follow; `LatestIsDenseHolds` is its action property. `StartInv` says
in which block the search has to have begun as long as nothing is stored and no answer
left anything out, and gives `FirstIsKeptHolds`.

**LeavesProofs, the trees.** For any depth that is not 0, any leaves but `Zero` (no message
hashes to it) and any checkpoints. The reference is `Level(s, n)`: the hashes of each height over the first `n`
leaves of `s`, zero beyond. The numbers of blocks follow the bits of an index (`BlockOf`);
the facts about each height come from the one below (`Induction`, on a set of naturals).

- *The recursions.* A recursive function is a CHOOSE; that it obeys its recursion
  (`PushDef`, `ClimbDef`, `WalkDef`, ...) holds because functions that do exist.
- *merkle.rs.* `Built(s, n)` is the tree of each block: its hashes are `Level` (`BuiltHash`),
  and it depends on the leaves in it only (`SameTree`). `PushBuilt`: pushing leaf `n` makes
  the tree of `n + 1` leaves of that of `n`. By height: the block that holds position `n`
  grows, and a full one answers `MerkleTreeFull`, on which its neighbour is started
  (`PushStep`).
- *incremental.rs.* `Frontier`: where the count has a bit, the branch is the last full block
  of that height. Ingesting keeps it, because one more leaf carries through the ones
  (`Carry`, `IngestIs`), and from it `root` climbs to the root of `Level` (`RootIs`).
- *Proofs.* The walk down passes the blocks that hold the leaf (`WalkIs`), so the path has
  their siblings, and climbing it leads to the root (`ProofLeadsToRoot`). Downwards, a pair
  has one left and one right half, so only leaf `j` climbs to the root at index `j`, whatever
  the path (`RootBinds`).

`BuilderInvariant` says that the prover has `Built` of the leaves ingested, the incremental
tree their `Frontier`, and a checkpoint the root of the leaves it covers; new leaves do not
change what is over the earlier ones. It gives `RootsAgreeHolds`, `ProofsVerifyHolds` and
`ProofsBindHolds`. That keccak has no collisions is part of the model: `HashConcat` is a pair.

**GasPaymentSyncProofs.** `RangeInv`: the range being processed reaches back to `from`, and
each of its payments is in the batch, processed, or left out by a flaky answer; without it
the next block could pass a payment. It gives `NoSilentGapHolds`. `TotalInv` adds the account
of the totals to it and gives `TotalIsExactHolds`. The sum over a finite set is a recursive
function on sets, so two facts come first: that the function exists and that it grows by
the amount of an added element. Both are shown with a least counterexample
(`LeastCounterexample`), since strict inclusion of finite sets is well founded.

**RelayerAgentProofs.** `ListNames`: what parsing makes of the text of a list admits the
messages that the text names, field by field. The value of a setting is that of the last
source that gives it (there is a last one: `ValueIsGiven`). Then the invariant of a start,

    AgentInv == ConnectInv /\ TasksInv /\ (a start that failed had a reason), and types

`ConnectInv`: the connections made and those still to be made are together what the
settings ask for, and whether the provider metrics are in the registry is told by the cell
that is initialized once; without the latter the second connection could fail on a name
that is taken. A start that failed did so for a malformed setting, or with exit code 1 for
the environment or for a name that is not its key. `TasksInv`: the tasks are those of the settings. It gives
`PipelinesAsConfiguredHolds`, `StartupNeedsOnlySettingsHolds` and `AdmittedByListsHolds`. The
assumptions are that the inboxes are finite in number, that only a list called
"unparsable" fails to parse, and the types of messages and sources.

**ProvidersAndDriverProofs, the providers.** `SendInv`: the started sends are the ended ones and those
of the clients that are sending; adding or removing one client changes the cardinality by
one. It gives `EverySendAccountedHolds` for any finite set of clients.

**ProvidersAndDriverProofs, the test driver.** `StepIs` reduces the steps to what the two results look at. `CountedInv`:
from the moment the count of processed messages was as expected, all are processed (a
subset of the same size is the whole, and no message leaves it), and with `FlagInv` (only
SIGINT lowers `RUNNING` before the drop) no other way leads to success. It gives
`SuccessMeansProcessedHolds` for any number of rounds. `StopInv`: what is alive is on the
list that `State::drop` goes through. It gives `NoChildLeftHolds`, the safety half of
`HarnessEnds`.

The type invariants are proved and not run; so are `CommitIsFinal`,
`CheckpointNeverGoesBack`, `LatestIsDense` and `NoChildLeft`, which the runs' other
properties rest on or imply.

**Only model-checked:** liveness (`EverySettled`, `EveryForwarded`, `MissedIsRecovered`,
`EveryProcessed`, `CatchesUp`, `EveryRequestReturns`, `UpdaterEnds`, `FailureEndsAgent`,
`HarnessEnds`, `EveryDelivered`): under fairness it is out of the prover's reach. Every
other property of a passing run is stated by a theorem.

## Findings

One run in which TLC finds a statement of the repository violated; details and
quoted lines are in `PROJECT.json`.

1. `OutboxSyncLatest` – the latest index is put before the message it counts; a crash in
   between loses that message for good.

**Known divergences without a run of their own.** The models follow the code in each of
them:

- A delivery that reverted on chain is recorded as processed and never tried again:
  `serial_submitter.rs:251` ignores `TxOutcome::executed`, though the doc (263-267) says
  that a success was observed. Exception of `RecordedIsDelivered` (`reverted`).
- A failed `message_status` ends the submitter and drops its queues, though the doc says
  such messages are retained (`serial_submitter.rs:36-37`, 211); `try_join!` on
  JoinHandles does not notice an `Err`. Named exception of `EverySettled` and of
  `FailureEndsAgent`.
- A later batch is picked before fresh messages of an earlier one; the module doc
  (`serial_submitter.rs:54-69`) promises leaf order.
- Checkpoint 0 is never published (`checkpoint_fetcher.rs:71`, 86), so the first message
  waits for a second one, though it may be covered (`processor.rs:174-175`).
- A gas payment is marked as processed before it is added (`abacus_db.rs:250-253`); a
  crash in between loses it from the total. History variable `lost` of `TotalIsExact`.
- An empty list matches nothing, while the doc of `default` says "if the matching list
  is empty" (`matching_list.rs:217-233`): a whitelist `[]` relays no message. The doc's
  hex domains (15-19) do not parse (106-114).
- `disabled = "false"` disables an inbox (`settings/mod.rs:263`). Errors of a signer's
  configuration are dropped (253), and the inbox is connected without a signer.
- `contract_sync_stored_events` is meant to count events "stored into db"
  (`contract_sync/metrics.rs:49`), but every fetched payment is added, also those the
  look-back brings again (`contract_sync/interchain_gas.rs:79`), so the driver's gas
  assertion (`run-locally/src/main.rs:471`) can hold although payments are missing.
- The driver's end condition may hold before the relayer has indexed the last messages;
  its assertions then panic although nothing is wrong. Zero rounds always panic.
- A metrics server that cannot bind its port panics in a task nobody awaits
  (`main.rs:39`, `abacus-base/src/metrics/core.rs:392-415`): the relayer runs on without
  metrics. So do a metrics loop and an updater that panic; a processor that returns aborts
  its metrics loop, one that panics leaves it running (`processor.rs:67-71`).
- A sync task or an inbox that ends with an error makes the process exit with code 0
  (`abacus-base/src/outbox.rs:75`, `relayer.rs:162`).

## What is not modelled

- The proof row (`store_proof`, called by a test only) and the leaf iterator (called by
  nothing); `wait_for_leaf`'s polling is the guard of the step that waits.
- Tracing set-up, the values of duration histograms and gauges, chain names, mocks and
  build helpers: no control of the system depends on them.
- What a Gelato submitter would do: its tick is `unimplemented!()`, and panics in the model.
- The validator and kathy: the agents are not in this repository; only what they
  write or send is modelled, as external actions.
- The contracts: `src/` holds their ABIs only.
- The subgraphs (each handler adds one event to a daily total) and the React app (a page
  showing queried data): they run apart from the relayer and share nothing with it.
- Files torn in the middle of one write (`tokio::fs::write`), wrong outbox domains in
  checkpoints, and a source chain that re-organizes below the finality depth.

## Plan

Order followed so far: SerialSubmitter with Delivery and its proofs, MessageProcessor
over CheckpointFetcher with its proofs, OutboxSync, GasPaymentSync, the trees, the
multisig syncer; then the lists and settings, the agent, the database with its
encodings, the providers, the test driver; then the proofs about the indexers, the syncer
and the providers, and the pipeline of one inbox; then its proofs, those of the totals,
of the agent, of the test driver, and of the database with its encodings. Left:

- **Compose.** An abstract indexer (rows appear in leaf order) that OutboxSync implements
  and MessageProcessor assumes; two pipelines that share one fetcher in InboxPipeline.
