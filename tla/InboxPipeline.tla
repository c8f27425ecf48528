---------------------------- MODULE InboxPipeline ----------------------------
(***************************************************************************)
(* One inbox pipeline from the signed checkpoint to the destination chain, *)
(* as Relayer::run_inbox joins it: the CheckpointFetcher and the           *)
(* MessageProcessor (module MessageProcessor), the channel, and the        *)
(* SerialSubmitter with its chain (module SerialSubmitter).                *)
(*                                                                         *)
(* Each of the two modules stands for the other with a few actions: a scan *)
(* that sends every leaf once, a submitter that records what it was sent.  *)
(* Here the real ones run together over one channel and one database, and  *)
(* the whole must be a behaviour of either module.                         *)
(*                                                                         *)
(* All messages are for the one inbox and on no blacklist; the chain has   *)
(* no re-organizations (SerialSubmitter has them).                         *)
(***************************************************************************)
EXTENDS Integers, Sequences

CONSTANTS
  NumLeaves,   \* messages dispatched, leaf indices 0..NumLeaves-1
  Inbox,       \* the destination
  Contested,   \* leaves another relayer may deliver
  MayRevert,   \* leaves whose delivery may revert
  MaxFaults,   \* bound on faults of the fetcher and the processor
  MaxCalls,    \* bound on failed calls of the submitter and evictions
  MaxCrashes   \* bound on crashes of the relayer

Leaves == 0 .. (NumLeaves - 1)

ASSUME InboxPipelineAssumption ==
  /\ NumLeaves \in Nat \ {0}
  /\ Contested \subseteq Leaves /\ MayRevert \subseteq Leaves
  /\ MaxFaults \in Nat /\ MaxCalls \in Nat /\ MaxCrashes \in Nat

VARIABLES
  quorum, fpc, latest, target, ckpt_rx, unseen,        \* the fetcher
  ppc, message_leaf_index, ckpt, count, sent,          \* the processor
  leafRows, messageRow, torn, processed,               \* the database
  channel, run_queue, pc, msg, awaited,                \* the submitter
  orphans, inbox, undone, reverted,                    \* the destination chain
  faults,      \* faults used up, and messages that found no submitter
  calls,       \* failed calls used up
  stops,       \* history: errors that ended the processor, other than a failed send
  crashes,
  ends         \* history: crashes, and exits that cut off a running pipeline

processorVars == <<ppc, message_leaf_index, ckpt, count, sent>>
rowVars == <<leafRows, messageRow, torn>>
sourceVars == <<quorum, fpc, latest, target, ckpt_rx, unseen, processorVars, rowVars, faults, crashes>>
submitterVars == <<channel, run_queue, pc, msg, awaited, orphans, inbox, undone, reverted, calls>>
vars == <<sourceVars, processed, submitterVars, stops, ends>>

ProcessorTask == IF ppc[Inbox] \in {"stopped", "panicked"} THEN "stopped" ELSE "running"

(* The two modules, each with a view of the whole. *)
Source == INSTANCE MessageProcessor
  WITH Inboxes <- {Inbox}, Destination <- [l \in Leaves |-> Inbox], Admitted <- Leaves,
       MaxFaults <- MaxFaults + MaxCalls

Submitter == INSTANCE SerialSubmitter
  WITH nextLeaf <- message_leaf_index[Inbox], processor <- ProcessorTask,
       faults <- calls + stops, MaxFaults <- MaxCalls + MaxFaults,
       crashes <- ends, MaxCrashes <- MaxCrashes + MaxFaults,
       reorgs <- 0, MaxReorgs <- 0

Init ==
  /\ Source!Init
  /\ channel = <<>> /\ run_queue = <<>> /\ pc = "idle" /\ msg = Submitter!Fresh(0)
  /\ awaited = "none"
  /\ orphans = {} /\ inbox = {} /\ undone = {} /\ reverted = {}
  /\ calls = 0 /\ stops = 0 /\ ends = 0

-----------------------------------------------------------------------------
(***************************************************************************)
(* Plausible mistakes, each in place of the definition it names.           *)
(***************************************************************************)
SendsAgain(l) == <<Submitter!Fresh(l), Submitter!Fresh(l)>>   \* Handed: the next tick's too
SendsNext(l) == <<Submitter!Fresh((l + 1) % NumLeaves)>>      \* Handed: the index after advancing
NotSupervised == FALSE                                         \* PipelineJoined: not in run_all

-----------------------------------------------------------------------------
(***************************************************************************)
(* The fetcher, the indexer and the processor go on by themselves.         *)
(***************************************************************************)
SourceQuiet == UNCHANGED <<processed, submitterVars, stops, ends>>
WithinFaults == faults' <= MaxFaults \/ faults' = faults

Fetches ==
  /\ Source!FetcherStep \/ Source!FetcherTrouble \/ Source!ValidatorsSign
  /\ WithinFaults
  /\ SourceQuiet

Indexes == (Source!PutLeaf \/ Source!PutMessage) /\ SourceQuiet

Scans ==
  /\ \/ Source!FirstCheckpoint(Inbox) \/ Source!Skip(Inbox) \/ Source!Work(Inbox)
     \/ Source!Changed(Inbox) \/ Source!Ingest(Inbox)
  /\ SourceQuiet

ProcessorFails ==
  /\ Source!ProcessorFails(Inbox)
  /\ WithinFaults
  /\ stops' = stops + 1
  /\ UNCHANGED <<processed, submitterVars, ends>>

-----------------------------------------------------------------------------
(***************************************************************************)
(* The channel between the tasks.                                          *)
(***************************************************************************)
Handed(l) == <<Submitter!Fresh(l)>>

(* tx_msg.send succeeds as long as the submitter has not dropped rx. *)
HandsOver ==
  /\ pc # "stopped"
  /\ Source!ProveAndSend(Inbox)
  /\ channel' = channel \o Handed(message_leaf_index[Inbox])
  /\ UNCHANGED <<processed, run_queue, pc, msg, awaited, orphans, inbox, undone, reverted,
                 calls, stops, ends>>

(* The error of send ends the processor. *)
FindsNoSubmitter ==
  /\ pc = "stopped"
  /\ ppc[Inbox] = "ingest" /\ Source!UpToDate(Inbox)
  /\ ppc' = [ppc EXCEPT ![Inbox] = "stopped"]
  /\ faults' = faults + 1
  /\ UNCHANGED <<quorum, fpc, latest, target, ckpt_rx, unseen, message_leaf_index, ckpt, count,
                 sent, rowVars, crashes>>
  /\ SourceQuiet

-----------------------------------------------------------------------------
(***************************************************************************)
(* The submitter and the destination chain.                                *)
(***************************************************************************)
SubmitterQuiet == UNCHANGED <<sourceVars, stops, ends>>

Submits == SubmitterQuiet /\ UNCHANGED calls /\ Submitter!SubmitterStep

CallFails ==
  /\ SubmitterQuiet
  /\ calls < MaxCalls /\ calls' = calls + 1
  /\ \/ Submitter!StatusFails \/ Submitter!EstimateFails \/ Submitter!SendFails
     \/ Submitter!ReceiptFails \/ Submitter!DropAwaited

Mines == SubmitterQuiet /\ UNCHANGED calls /\ Submitter!MineAwaited

OthersDeliver ==
  /\ SubmitterQuiet /\ UNCHANGED calls
  /\ \/ \E l \in Leaves : Submitter!OrphanResolved(l)
     \/ \E l \in Contested : Submitter!RivalDelivers(l)

-----------------------------------------------------------------------------
(***************************************************************************)
(* The process.                                                            *)
(***************************************************************************)
(* try_join! of run_inbox returns when both tasks have ended. *)
PipelineJoined == ProcessorTask = "stopped" /\ pc = "stopped"

StartsAgain == UNCHANGED <<calls, stops>> /\ Submitter!StartProcess

Crash == Source!Crash /\ ends' = ends + 1 /\ StartsAgain

(* run_all returns with the first of its tasks: the fetcher or the pipeline. *)
(* If it is the fetcher, the tasks of the pipeline are dropped where they are. *)
Exits ==
  /\ fpc = "stopped" \/ PipelineJoined
  /\ Source!RestartAfterExit
  /\ ends' = IF ProcessorTask = "stopped" /\ pc = "stopped" THEN ends ELSE ends + 1
  /\ StartsAgain

ProcessorProceeds == Scans \/ HandsOver \/ FindsNoSubmitter

Next ==
  \/ Fetches \/ Indexes \/ ProcessorProceeds \/ ProcessorFails
  \/ Submits \/ CallFails \/ Mines \/ OthersDeliver
  \/ Crash \/ Exits

(* Every task is scheduled and its calls return, the validators sign, the     *)
(* indexer goes on, a transaction that is not evicted is mined, an exited     *)
(* agent is started again.  No fault and no crash is obliged to happen.       *)
Fairness ==
  /\ WF_vars((Source!FetcherStep \/ Source!ValidatorsSign) /\ SourceQuiet /\ WithinFaults)
  /\ WF_vars(Indexes)
  /\ WF_vars(ProcessorProceeds)
  /\ WF_vars(Submits)
  /\ WF_vars(Mines)
  /\ WF_vars(Exits)

Spec == Init /\ [][Next]_vars /\ Fairness

-----------------------------------------------------------------------------
(***************************************************************************)
(* Properties.                                                             *)
(***************************************************************************)

(* With the real submitter behind it, the scanning half behaves as its module *)
(* says: a message is recorded only after it was sent, since the last start.  *)
SubmitterIsAsAssumed == Source!Init /\ [][Source!Next]_(Source!vars)

(* With the real processor before it, the delivering half behaves as its      *)
(* module says: leaves arrive once each, in order, and not when recorded.     *)
ProcessorIsAsAssumed == Submitter!Init /\ [][Submitter!Next]_(Submitter!vars)

(* End to end: every dispatched message is delivered, through faults of any   *)
(* task, failed calls, crashes and restarts, unless a crash tore the rows of  *)
(* it or of one before it, or the submitter ends alone and is not noticed.    *)
EveryDelivered ==
  \/ \A l \in Leaves : <>(l \in inbox \cup reverted \/ \E k \in torn : k <= l)
  \/ <>[](pc = "stopped" /\ ProcessorTask = "running")
=============================================================================
