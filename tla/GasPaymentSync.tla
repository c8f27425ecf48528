--------------------------- MODULE GasPaymentSync ---------------------------
(***************************************************************************)
(* The gas-payment indexer of the relayer (sync_gas_payments in            *)
(* abacus-base/src/contract_sync/interchain_gas.rs) and the rows of        *)
(* AbacusDB it writes: which payments were processed, the total paid for   *)
(* each leaf, the last indexed block.                                      *)
(*                                                                         *)
(* Each range is fetched with a look-back of a full chunk, so a payment is *)
(* seen several times; process_gas_payment must add it once.  Its two puts *)
(* are separate, and a crash may fall between them.                        *)
(***************************************************************************)
EXTENDS Integers, FiniteSetsExt

CONSTANTS
  NumPayments, \* payments made, numbered in log order
  LeafOf,      \* [Payments -> Nat]: the leaf a payment is for
  Amount,      \* [Payments -> Nat]: the amount paid
  ConfigFrom,  \* IndexSettings::from
  ChunkSize,   \* IndexSettings::chunk_size
  MaxBlock,    \* bound on the source chain's finalized height
  MaxFlaky,    \* bound on wrong answers and failed log queries of the provider
  MaxCrashes   \* bound on crashes of the relayer

Payments == 0 .. (NumPayments - 1)
Blocks == 0 .. MaxBlock
NoBlock == -1    \* latest indexed block: None

ASSUME GasPaymentSyncAssumption ==
  /\ NumPayments \in Nat \ {0}
  /\ LeafOf \in [Payments -> Nat]
  /\ Amount \in [Payments -> Nat]
  /\ ConfigFrom \in Nat
  /\ ChunkSize \in Nat \ {0}
  /\ MaxBlock \in Nat /\ ConfigFrom <= MaxBlock
  /\ MaxFlaky \in Nat
  /\ MaxCrashes \in Nat

PaidLeaves == {LeafOf[p] : p \in Payments}

VARIABLES
  blockOf,     \* the block of each payment; never changes
  height,      \* finalized height of the source chain
  pc,          \* "tip" | "fetch" | "meta" | "total" | "block" | "stopped"
  from,        \* first block of the next range
  to,          \* last block of the range being indexed
  batch,       \* fetched payments still to be processed
  metaProcessed,  \* DB: payments marked as processed
  total,          \* DB: the total paid for each leaf
  latestBlock,    \* DB: LATEST_INDEXED_GAS_PAYMENT_BLOCK
  omitted,     \* history: payments left out of an answer whose range held them
  lost,        \* history: payments whose addition a crash prevented
  flaky, crashes

dbVars == <<metaProcessed, total, latestBlock>>
vars == <<blockOf, height, pc, from, to, batch, dbVars, omitted, lost, flaky, crashes>>

Least(S) == CHOOSE x \in S : \A y \in S : x <= y

TypeOK ==
  /\ blockOf \in [Payments -> Blocks]
  /\ height \in Blocks
  /\ pc \in {"tip", "fetch", "meta", "total", "block", "stopped"}
  /\ from \in 0 .. (MaxBlock + 1)
  /\ to \in Blocks
  /\ batch \in SUBSET Payments
  /\ metaProcessed \in SUBSET Payments
  /\ total \in [PaidLeaves -> Nat]
  /\ latestBlock \in Blocks \cup {NoBlock}
  /\ omitted \in SUBSET Payments
  /\ lost \in SUBSET Payments
  /\ flaky \in 0 .. MaxFlaky
  /\ crashes \in 0 .. MaxCrashes

Init ==
  /\ blockOf \in {f \in [Payments -> ConfigFrom .. MaxBlock] :
                    \A p, q \in Payments : p <= q => f[p] <= f[q]}
  /\ height = 0
  /\ pc = "tip"
  /\ from = ConfigFrom
  /\ to = 0
  /\ batch = {}
  /\ metaProcessed = {}
  /\ total = [l \in PaidLeaves |-> 0]
  /\ latestBlock = NoBlock
  /\ omitted = {}
  /\ lost = {}
  /\ flaky = 0
  /\ crashes = 0

Flaky == flaky < MaxFlaky /\ flaky' = flaky + 1

-----------------------------------------------------------------------------
(***************************************************************************)
(* Plausible mistakes, each in place of the definition it names.           *)
(***************************************************************************)
NeverSeen(p) == FALSE              \* AlreadyProcessed: no check of the metadata
ShortLookBack == IF to > ChunkSize THEN to - ChunkSize + 1 ELSE 0   \* FullChunkFrom
ResumeAtConfig == ConfigFrom + (IF latestBlock = NoBlock THEN 0 ELSE latestBlock + 1)
                                   \* ResumeFrom: the offset is added to the start
Overwrite(p) == [total EXCEPT ![LeafOf[p]] = Amount[p]]  \* Added: the total is lost

-----------------------------------------------------------------------------
(***************************************************************************)
(* One round of the loop.                                                  *)
(***************************************************************************)

(* get_finalized_block_number().await.  An error, or a number that is not   *)
(* beyond from, starts the loop over and changes nothing.                   *)
GetTip ==
  /\ pc = "tip"
  /\ \E tip \in 0 .. height :
       /\ IF tip = height THEN UNCHANGED flaky ELSE Flaky
       /\ tip > from
       /\ to' = IF tip < from + ChunkSize THEN tip ELSE from + ChunkSize
  /\ pc' = "fetch"
  /\ UNCHANGED <<blockOf, height, from, batch, dbVars, omitted, lost, crashes>>

(* to.checked_sub(chunk_size).unwrap_or_default() *)
FullChunkFrom == IF to >= ChunkSize THEN to - ChunkSize ELSE 0

Paid(a, b) == {p \in Payments : a <= blockOf[p] /\ blockOf[p] <= b}

(* fetch_gas_payments(..).await?  A flaky answer leaves some events out. *)
Fetch ==
  /\ pc = "fetch"
  /\ \E answer \in SUBSET Paid(FullChunkFrom, to) :
       /\ IF answer = Paid(FullChunkFrom, to) THEN UNCHANGED flaky ELSE Flaky
       /\ omitted' = omitted \cup (Paid(FullChunkFrom, to) \ answer)
       /\ batch' = answer
       /\ pc' = IF answer = {} THEN "block" ELSE "meta"
  /\ UNCHANGED <<blockOf, height, from, to, dbVars, lost, crashes>>

(* The error ends the sync task, and with it the agent. *)
FetchFails ==
  /\ pc = "fetch"
  /\ Flaky
  /\ pc' = "stopped"
  /\ UNCHANGED <<blockOf, height, from, to, batch, dbVars, omitted, lost, crashes>>

(***************************************************************************)
(* process_gas_payment, for the payments of the batch in log order.        *)
(***************************************************************************)
Processing == Least(batch)

AlreadyProcessed(p) == p \in metaProcessed

Done(p) ==
  /\ batch' = batch \ {p}
  /\ pc' = IF batch = {p} THEN "block" ELSE "meta"

SkipPayment ==
  /\ pc = "meta"
  /\ AlreadyProcessed(Processing)
  /\ Done(Processing)
  /\ UNCHANGED <<blockOf, height, from, to, dbVars, omitted, lost, flaky, crashes>>

(* store_gas_payment_meta_processed *)
PutMeta ==
  /\ pc = "meta"
  /\ ~ AlreadyProcessed(Processing)
  /\ metaProcessed' = metaProcessed \cup {Processing}
  /\ pc' = "total"
  /\ UNCHANGED <<blockOf, height, from, to, batch, total, latestBlock, omitted, lost,
                 flaky, crashes>>

(* update_gas_payment_for_leaf *)
Added(p) == [total EXCEPT ![LeafOf[p]] = @ + Amount[p]]

PutTotal ==
  /\ pc = "total"
  /\ total' = Added(Processing)
  /\ Done(Processing)
  /\ UNCHANGED <<blockOf, height, from, to, metaProcessed, latestBlock, omitted, lost,
                 flaky, crashes>>

NextFrom == to + 1

(* store_latest_indexed_gas_payment_block(to), then on to the next range *)
PutBlock ==
  /\ pc = "block"
  /\ latestBlock' = to
  /\ from' = NextFrom
  /\ pc' = "tip"
  /\ UNCHANGED <<blockOf, height, to, batch, metaProcessed, total, omitted, lost,
                 flaky, crashes>>

ResumeFrom == IF latestBlock = NoBlock THEN ConfigFrom ELSE latestBlock + 1

(* The process starts. *)
Start ==
  /\ pc' = "tip"
  /\ from' = ResumeFrom
  /\ to' = 0
  /\ batch' = {}
  /\ UNCHANGED <<blockOf, height, dbVars, omitted, flaky>>

Crash ==
  /\ crashes < MaxCrashes
  /\ crashes' = crashes + 1
  /\ lost' = IF pc = "total" THEN lost \cup {Processing} ELSE lost
  /\ Start

RestartAfterExit ==
  /\ pc = "stopped"
  /\ Start
  /\ UNCHANGED <<lost, crashes>>

FinalizeBlock ==
  /\ height < MaxBlock
  /\ height' = height + 1
  /\ UNCHANGED <<blockOf, pc, from, to, batch, dbVars, omitted, lost, flaky, crashes>>

Process == SkipPayment \/ PutMeta \/ PutTotal \/ PutBlock

Next ==
  GetTip \/ Fetch \/ FetchFails \/ Process \/ Crash \/ RestartAfterExit \/ FinalizeBlock

Spec == Init /\ [][Next]_vars

(* The task is scheduled and its calls return, the chain goes on to MaxBlock, *)
(* an exited agent is started again.  No fault is obliged to happen.          *)
Fairness ==
  /\ WF_vars(GetTip)
  /\ WF_vars(Fetch)
  /\ WF_vars(Process)
  /\ WF_vars(RestartAfterExit)
  /\ WF_vars(FinalizeBlock)

FairSpec == Spec /\ Fairness

-----------------------------------------------------------------------------
(***************************************************************************)
(* Properties.                                                             *)
(***************************************************************************)
SumFor(l, payments) == MapThenSumSet(LAMBDA p : Amount[p], {p \in payments : LeafOf[p] = l})

InFlight == IF pc = "total" THEN {Processing} ELSE {}

(* A payment is added to the total of its leaf exactly once, however often the *)
(* look-back, a restart or a repeated answer shows it; what is missing from    *)
(* the total is the payment being added and those a crash cut off.             *)
TotalIsExact ==
  \A l \in PaidLeaves : total[l] = SumFor(l, metaProcessed \ (InFlight \cup lost))

(* Every block before from was searched: a payment there that was not          *)
(* processed was left out of an answer, and a restart does not jump over it.   *)
NoSilentGap ==
  /\ \A p \in Payments : blockOf[p] < from => p \in metaProcessed \cup omitted
  /\ \A p \in Payments : blockOf[p] <= latestBlock => p \in metaProcessed \cup omitted

(* Every payment is eventually processed, unless an answer left it out: faults, *)
(* crashes and restarts do not lose it.  A payment in the last block waits for  *)
(* the next block, because the loop sleeps while tip <= from.                   *)
EveryProcessed ==
  \A p \in Payments :
    <>(p \in metaProcessed \cup omitted \/ blockOf[p] = MaxBlock)
=============================================================================
