-------------------------- MODULE SerialSubmitter --------------------------
(***************************************************************************)
(* The delivery half of one inbox pipeline of the relayer: the             *)
(* SerialSubmitter task (agents/relayer/src/msg/serial_submitter.rs), the  *)
(* unbounded channel that feeds it, the processing-status rows of AbacusDB *)
(* it commits to, and the destination chain it submits to.                 *)
(*                                                                         *)
(* The MessageProcessor is reduced to what the submitter sees of it: it    *)
(* scans leaf indices upwards, skips those the DB marks as processed and   *)
(* sends the others once each (module MessageProcessor has the rest).      *)
(*                                                                         *)
(* tick() is cut at its awaits.  Everything between two awaits is one      *)
(* action, because the tasks share a single-threaded runtime.  The         *)
(* wait_queue is filled and drained between two awaits, so it exists only  *)
(* inside TickPick.                                                        *)
(***************************************************************************)
EXTENDS Naturals, Sequences

CONSTANTS
  NumLeaves,   \* messages dispatched on the source chain, leaf indices 0..NumLeaves-1
  Contested,   \* leaves another relayer may deliver
  MayRevert,   \* leaves whose delivery may revert although its gas estimate succeeded
  MaxFaults,   \* bound on failed calls, evicted transactions and processor errors
  MaxCrashes,  \* bound on crashes of the relayer process
  MaxReorgs    \* bound on destination re-orgs that undo a delivery

Leaves == 0 .. (NumLeaves - 1)

ASSUME SubmitterAssumption ==
  /\ NumLeaves \in Nat \ {0}
  /\ Contested \subseteq Leaves
  /\ MayRevert \subseteq Leaves
  /\ MaxFaults \in Nat
  /\ MaxCrashes \in Nat
  /\ MaxReorgs \in Nat

VARIABLES
  nextLeaf,    \* MessageProcessor::message_leaf_index
  processor,   \* "running" | "stopped": the processor task
  channel,     \* messages sent to rx and not yet received
  run_queue,   \* SerialSubmitter::run_queue
  pc,          \* where the submitter task is suspended
  msg,         \* the message tick() popped, while it is busy with it
  awaited,     \* fate of the transaction report_tx is waiting for
  orphans,     \* leaves with a broadcast transaction nobody waits for any more
  inbox,       \* leaves the destination chain has processed
  processed,   \* leaves AbacusDB marks as processed (survives a crash)
  undone,      \* history: leaves some re-org removed from the inbox
  reverted,    \* history: leaves whose awaited transaction reverted
  faults, crashes, reorgs   \* how much of each bound is used up

procVars  == <<nextLeaf, processor>>
queueVars == <<channel, run_queue>>
chainVars == <<orphans, inbox, undone, reverted>>
bounds    == <<faults, crashes, reorgs>>
vars == <<procVars, queueVars, pc, msg, awaited, chainVars, processed, bounds>>

(***************************************************************************)
(* SubmitMessageArgs, reduced to the two fields the scheduler looks at.    *)
(***************************************************************************)
Message == [leaf : Leaves, num_retries : Nat]
Fresh(l) == [leaf |-> l, num_retries |-> 0]

LeavesIn(queue) == {queue[i].leaf : i \in 1 .. Len(queue)}

Distinct(queue) ==
  \A i, j \in 1 .. Len(queue) : queue[i].leaf = queue[j].leaf => i = j

FreshFirst(queue) ==
  \A i, j \in 1 .. Len(queue) :
    i < j /\ queue[i].num_retries > 0 => queue[j].num_retries > 0

Busy == pc \in {"status", "estimate", "send", "receipt"}

(* The leaves the pipeline holds in memory. *)
Held == LeavesIn(channel) \cup LeavesIn(run_queue)
          \cup (IF Busy THEN {msg.leaf} ELSE {})

TypeOK ==
  /\ nextLeaf \in 0 .. NumLeaves
  /\ processor \in {"running", "stopped"}
  /\ channel \in Seq(Message)
  /\ run_queue \in Seq(Message)
  /\ pc \in {"idle", "status", "estimate", "send", "receipt", "stopped"}
  /\ msg \in Message
  /\ awaited \in {"none", "pending", "executed", "reverted", "dropped"}
  /\ orphans \in SUBSET Leaves
  /\ inbox \in SUBSET Leaves
  /\ processed \in SUBSET Leaves
  /\ undone \in SUBSET Leaves
  /\ reverted \in SUBSET Leaves
  /\ faults \in 0 .. MaxFaults
  /\ crashes \in 0 .. MaxCrashes
  /\ reorgs \in 0 .. MaxReorgs

Init ==
  /\ nextLeaf = 0
  /\ processor = "running"
  /\ channel = <<>>
  /\ run_queue = <<>>
  /\ pc = "idle"
  /\ msg = Fresh(0)
  /\ awaited = "none"
  /\ orphans = {}
  /\ inbox = {}
  /\ processed = {}
  /\ undone = {}
  /\ reverted = {}
  /\ faults = 0
  /\ crashes = 0
  /\ reorgs = 0

Fault == faults < MaxFaults /\ faults' = faults + 1

-----------------------------------------------------------------------------
(***************************************************************************)
(* Plausible mistakes: each replaces the definition it names, and a        *)
(* property below must then fail.                                          *)
(***************************************************************************)
PromoteAtBack(queue, batch) == queue \o batch                           \* Promote
RequeueInFront(queue, m) == <<[m EXCEPT !.num_retries = @ + 1]>> \o queue \* Requeue
RequeueDropped(queue, m) == queue                                       \* Requeue
RequeueTwice(queue, m) == queue \o <<[m EXCEPT !.num_retries = @ + 1], m>> \* Requeue
RecordedWhenSent == awaited \in {"pending", "executed", "reverted"} \* ReceiptRecorded

-----------------------------------------------------------------------------
(***************************************************************************)
(* The processor's end of the channel.                                     *)
(***************************************************************************)
SkipProcessed == nextLeaf \in processed

ProcessorSkip ==
  /\ processor = "running"
  /\ nextLeaf < NumLeaves
  /\ SkipProcessed
  /\ nextLeaf' = nextLeaf + 1
  /\ UNCHANGED <<processor, queueVars, pc, msg, awaited, chainVars, processed, bounds>>

ProcessorSend ==
  /\ processor = "running"
  /\ nextLeaf < NumLeaves
  /\ ~ SkipProcessed
  /\ pc # "stopped"
  /\ channel' = Append(channel, Fresh(nextLeaf))
  /\ nextLeaf' = nextLeaf + 1
  /\ UNCHANGED <<processor, run_queue, pc, msg, awaited, chainVars, processed, bounds>>

(* tx_msg.send() fails once the submitter, which owned rx, is gone. *)
ProcessorSendFails ==
  /\ processor = "running"
  /\ nextLeaf < NumLeaves
  /\ ~ SkipProcessed
  /\ pc = "stopped"
  /\ processor' = "stopped"
  /\ UNCHANGED <<nextLeaf, queueVars, pc, msg, awaited, chainVars, processed, bounds>>

(* Any other error tick() returns: a DB error, a message that does not decode. *)
ProcessorStops ==
  /\ processor = "running"
  /\ Fault
  /\ processor' = "stopped"
  /\ UNCHANGED <<nextLeaf, queueVars, pc, msg, awaited, chainVars, processed,
                 crashes, reorgs>>

-----------------------------------------------------------------------------
(***************************************************************************)
(* SerialSubmitter::tick.                                                  *)
(***************************************************************************)

(* The task returns: run_queue and rx are dropped with it. *)
StopTask ==
  /\ pc' = "stopped"
  /\ channel' = <<>>
  /\ run_queue' = <<>>
  /\ msg' = Fresh(0)

Finish == pc' = "idle" /\ msg' = Fresh(0) /\ awaited' = "none"

(* wait_queue.drain(..).rev() with push_front: the batch keeps its order. *)
Promote(queue, batch) == batch \o queue

(* process_message returned an error: back of the run queue, one more retry. *)
Requeue(queue, m) == Append(queue, [m EXCEPT !.num_retries = @ + 1])

ProcessingFailed ==
  /\ run_queue' = Requeue(run_queue, msg)
  /\ Finish

RecordProcessSuccess ==
  /\ processed' = processed \cup {msg.leaf}
  /\ Finish

(* try_recv reports a closed channel once it has handed over what was in it. *)
TickDisconnected ==
  /\ pc = "idle"
  /\ processor = "stopped"
  /\ StopTask
  /\ UNCHANGED <<procVars, awaited, chainVars, processed, bounds>>

(* Receive what the channel holds, promote all of it, pop the front.  A tick *)
(* that finds nothing to pop changes nothing.                                *)
TickPick ==
  LET queue == Promote(run_queue, channel) IN
  /\ pc = "idle"
  /\ processor = "running"
  /\ queue # <<>>
  /\ channel' = <<>>
  /\ msg' = Head(queue)
  /\ run_queue' = Tail(queue)
  /\ pc' = "status"
  /\ UNCHANGED <<procVars, awaited, chainVars, processed, bounds>>

StatusProcessed ==
  /\ pc = "status"
  /\ msg.leaf \in inbox
  /\ RecordProcessSuccess
  /\ UNCHANGED <<procVars, queueVars, chainVars, bounds>>

StatusNone ==
  /\ pc = "status"
  /\ msg.leaf \notin inbox
  /\ pc' = "estimate"
  /\ UNCHANGED <<procVars, queueVars, msg, awaited, chainVars, processed, bounds>>

(* message_status(..).await? : the error leaves tick() and ends the task. *)
StatusFails ==
  /\ pc = "status"
  /\ Fault
  /\ StopTask
  /\ UNCHANGED <<procVars, awaited, chainVars, processed, crashes, reorgs>>

(* InboxValidatorManager::process: estimate_gas, which simulates the call. *)
EstimateOk ==
  /\ pc = "estimate"
  /\ msg.leaf \notin inbox
  /\ pc' = "send"
  /\ UNCHANGED <<procVars, queueVars, msg, awaited, chainVars, processed, bounds>>

EstimateReverts ==
  /\ pc = "estimate"
  /\ msg.leaf \in inbox
  /\ ProcessingFailed
  /\ UNCHANGED <<procVars, channel, chainVars, processed, bounds>>

EstimateFails ==
  /\ pc = "estimate"
  /\ Fault
  /\ ProcessingFailed
  /\ UNCHANGED <<procVars, channel, chainVars, processed, crashes, reorgs>>

(* report_tx: tx.send().await *)
SendOk ==
  /\ pc = "send"
  /\ pc' = "receipt"
  /\ awaited' = "pending"
  /\ UNCHANGED <<procVars, queueVars, msg, chainVars, processed, bounds>>

(* The call fails, before or after the node has accepted the transaction. *)
SendFails ==
  /\ pc = "send"
  /\ Fault
  /\ \E broadcast \in SUBSET {msg.leaf} : orphans' = orphans \cup broadcast
  /\ ProcessingFailed
  /\ UNCHANGED <<procVars, channel, inbox, undone, reverted, processed,
                 crashes, reorgs>>

(* report_tx returns any receipt, process_message does not look at `executed`. *)
ReceiptRecorded == awaited \in {"executed", "reverted"}

ReceiptArrives ==
  /\ pc = "receipt"
  /\ ReceiptRecorded
  /\ RecordProcessSuccess
  /\ reverted' = IF awaited = "reverted" THEN reverted \cup {msg.leaf} ELSE reverted
  /\ UNCHANGED <<procVars, queueVars, orphans, inbox, undone, bounds>>

(* Ok(Ok(None)): DroppedError *)
ReceiptDropped ==
  /\ pc = "receipt"
  /\ awaited = "dropped"
  /\ ProcessingFailed
  /\ UNCHANGED <<procVars, channel, chainVars, processed, bounds>>

(* The 300s timeout, a polling error, or a DB error on the way to recording   *)
(* success: the transaction may still be in the mempool, or already be mined. *)
ReceiptFails ==
  /\ pc = "receipt"
  /\ Fault
  /\ orphans' = IF awaited = "pending" THEN orphans \cup {msg.leaf} ELSE orphans
  /\ ProcessingFailed
  /\ UNCHANGED <<procVars, channel, inbox, undone, reverted, processed,
                 crashes, reorgs>>

-----------------------------------------------------------------------------
(***************************************************************************)
(* The destination chain.  A transaction for a leaf the inbox already has  *)
(* reverts; one for a leaf in MayRevert may revert.                        *)
(***************************************************************************)
MineAwaited ==
  /\ pc = "receipt"
  /\ awaited = "pending"
  /\ \/ /\ msg.leaf \notin inbox
        /\ awaited' = "executed"
        /\ inbox' = inbox \cup {msg.leaf}
     \/ /\ msg.leaf \in inbox \cup MayRevert
        /\ awaited' = "reverted"
        /\ UNCHANGED inbox
  /\ UNCHANGED <<procVars, queueVars, pc, msg, orphans, undone, reverted,
                 processed, bounds>>

DropAwaited ==
  /\ awaited = "pending"
  /\ Fault
  /\ awaited' = "dropped"
  /\ UNCHANGED <<procVars, queueVars, pc, msg, chainVars, processed, crashes, reorgs>>

(* An abandoned transaction executes, or reverts or is evicted. *)
OrphanResolved(l) ==
  /\ l \in orphans
  /\ orphans' = orphans \ {l}
  /\ \E executed \in SUBSET {l} : inbox' = inbox \cup executed
  /\ UNCHANGED <<procVars, queueVars, pc, msg, awaited, undone, reverted,
                 processed, bounds>>

(* Another relayer delivers a dispatched message. *)
RivalDelivers(l) ==
  /\ l \notin inbox
  /\ inbox' = inbox \cup {l}
  /\ UNCHANGED <<procVars, queueVars, pc, msg, awaited, orphans, undone, reverted,
                 processed, bounds>>

(* A re-org undoes a delivery; its transaction returns to the mempool or is lost. *)
Reorg(l) ==
  /\ reorgs < MaxReorgs
  /\ reorgs' = reorgs + 1
  /\ l \in inbox
  /\ inbox' = inbox \ {l}
  /\ undone' = undone \cup {l}
  /\ IF awaited = "executed" /\ msg.leaf = l
       THEN awaited' \in {"pending", "dropped"} /\ UNCHANGED orphans
       ELSE UNCHANGED awaited
            /\ \E back \in SUBSET {l} : orphans' = orphans \cup back
  /\ UNCHANGED <<procVars, queueVars, pc, msg, reverted, processed, faults, crashes>>

-----------------------------------------------------------------------------
(***************************************************************************)
(* The process.  Volatile state is lost; a transaction in flight is not.   *)
(***************************************************************************)
StartProcess ==
  /\ nextLeaf' = 0
  /\ processor' = "running"
  /\ channel' = <<>>
  /\ run_queue' = <<>>
  /\ Finish
  /\ orphans' = IF awaited = "pending" THEN orphans \cup {msg.leaf} ELSE orphans
  /\ UNCHANGED <<inbox, undone, reverted, processed, faults, reorgs>>

Crash ==
  /\ crashes < MaxCrashes
  /\ crashes' = crashes + 1
  /\ StartProcess

(* try_join! waits for both tasks of the pipeline; then run_all returns, the *)
(* agent exits and is started again from outside.                            *)
RestartAfterExit ==
  /\ processor = "stopped"
  /\ pc = "stopped"
  /\ StartProcess
  /\ UNCHANGED crashes

ProcessorStep == ProcessorSkip \/ ProcessorSend \/ ProcessorSendFails

SubmitterStep ==
  \/ TickDisconnected \/ TickPick
  \/ StatusProcessed \/ StatusNone
  \/ EstimateOk \/ EstimateReverts
  \/ SendOk
  \/ ReceiptArrives \/ ReceiptDropped

CallFails ==
  ProcessorStops \/ StatusFails \/ EstimateFails \/ SendFails \/ ReceiptFails

Chain ==
  \/ MineAwaited
  \/ DropAwaited
  \/ \E l \in Leaves : OrphanResolved(l) \/ Reorg(l)
  \/ \E l \in Contested : RivalDelivers(l)

Next ==
  ProcessorStep \/ SubmitterStep \/ CallFails \/ Chain \/ Crash \/ RestartAfterExit

Spec == Init /\ [][Next]_vars

(***************************************************************************)
(* Both tasks are scheduled, calls return, a pending transaction is mined  *)
(* unless it is evicted, and an exited agent is started again.  Faults and *)
(* crashes are never obliged to happen.                                    *)
(***************************************************************************)
Fairness ==
  /\ WF_vars(ProcessorStep)
  /\ WF_vars(SubmitterStep)
  /\ WF_vars(MineAwaited)
  /\ WF_vars(RestartAfterExit)

FairSpec == Spec /\ Fairness

-----------------------------------------------------------------------------
(***************************************************************************)
(* Properties.                                                             *)
(***************************************************************************)

(* A message the processor handed over is in memory exactly once until it is *)
(* recorded, and not in memory afterwards: no interleaving of receiving,     *)
(* promoting, failing and requeueing duplicates it.                          *)
HeldOnce ==
  /\ Distinct(channel)
  /\ Distinct(run_queue)
  /\ LeavesIn(channel) \cap LeavesIn(run_queue) = {}
  /\ Busy => msg.leaf \notin LeavesIn(channel) \cup LeavesIn(run_queue)
  /\ Held \cap processed = {}

(* While the submitter task lives, no leaf the processor has moved past is   *)
(* forgotten: it is recorded as processed or still held.                     *)
NothingForgotten ==
  pc # "stopped" => \A l \in Leaves : l < nextLeaf => l \in Held \cup processed

(* Objective 1 of the scheduler: messages that have been tried and failed    *)
(* never stand before one that has not been tried.                           *)
FreshBeforeRetried == FreshFirst(run_queue)

(* A leaf is recorded only when the inbox has processed it, whoever delivered *)
(* it and however late; the exceptions are a leaf some delivery of which a      *)
(* re-org has undone, before or after the observation, and a receipt that says *)
(* the transaction reverted.                                                   *)
RecordedIsDelivered == processed \subseteq inbox \cup undone \cup reverted

(* "we will never re-attempt processing for this message again, even after   *)
(* the relayer restarts": a recorded leaf stays recorded and tick() never    *)
(* picks it.                                                                 *)
CommitIsFinal ==
  [][ /\ processed \subseteq processed'
      /\ pc = "idle" /\ pc' = "status" => msg'.leaf \notin processed ]_vars

(* The leaves of retried messages that stand before the retried message of l. *)
RetriedAhead(l) ==
  {run_queue[i].leaf : i \in {k \in 1 .. Len(run_queue) :
     /\ run_queue[k].num_retries > 0
     /\ \E j \in (k + 1) .. Len(run_queue) :
          run_queue[j].leaf = l /\ run_queue[j].num_retries > 0}}

(* "all messages are retried frequently": while a message waits for its next *)
(* retry, no retried message gets in front of it.                            *)
RetriesAreFifo ==
  [][ \A l \in LeavesIn(run_queue) \cap LeavesIn(run_queue') :
        RetriedAhead(l)' \subseteq RetriedAhead(l) ]_vars

(* Every dispatched message is eventually recorded, through crashes, lost    *)
(* replies, evictions and restarts, unless the submitter task ends while the *)
(* processor task keeps the pipeline from being joined.                      *)
EverySettled ==
  \/ \A l \in Leaves : <>(l \in processed)
  \/ <>[](pc = "stopped" /\ processor = "running")

(***************************************************************************)
(* The pipeline implements Delivery: what it holds is what the channel,    *)
(* the run queue and the busy submitter hold together, and the evidence is *)
(* a delivery in the inbox, perhaps undone since, or a reverted receipt.   *)
(***************************************************************************)
Promise == INSTANCE Delivery
  WITH held <- Held, recorded <- processed, evidence <- inbox \cup undone \cup reverted

(* Every step of the tasks, of the chain and of a crash is a step of Delivery *)
(* or leaves what it speaks of unchanged.                                     *)
ImplementsDelivery == Promise!Spec
=============================================================================
