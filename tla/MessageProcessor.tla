-------------------------- MODULE MessageProcessor --------------------------
(***************************************************************************)
(* The scanning half of the inbox pipelines: one MessageProcessor task per *)
(* inbox (agents/relayer/src/msg/processor.rs) with its MerkleTreeBuilder  *)
(* (merkle_tree_builder.rs), the CheckpointFetcher that feeds them, and    *)
(* the DB rows they read while the indexer and the submitters write them.  *)
(*                                                                         *)
(* tick() is cut at its awaits: the one-second sleep, changed() on the     *)
(* watch channel, and wait_for_leaf.  The iterations of                    *)
(* update_to_checkpoint and the code after it are separate actions, which  *)
(* adds interleavings and removes none.                                    *)
(***************************************************************************)
EXTENDS CheckpointFetcher

CONSTANTS
  Destination, \* [Leaves -> Inboxes]: the inbox a message is for
  Admitted,    \* leaves the whitelist matches and the blacklist does not
  MaxCrashes   \* bound on crashes of the relayer

ASSUME ProcessorAssumption ==
  /\ Destination \in [Leaves -> Inboxes]
  /\ Admitted \subseteq Leaves
  /\ MaxCrashes \in Nat

VARIABLES
  ppc,                 \* [Inboxes -> ...]: where each processor task is suspended
  message_leaf_index,  \* [Inboxes -> ...]: next leaf of the scan
  ckpt,                \* [Inboxes -> ...]: the checkpoint tick() works with
  count,               \* [Inboxes -> ...]: leaves in the prover's tree
  sent,                \* [Inboxes -> ...]: leaves handed to the inbox's submitter
  leafRows,            \* DB: the LEAF rows are those of 0..leafRows-1
  messageRow,          \* DB: leaves with a MESSAGE row
  torn,                \* leaves whose MESSAGE row a crash prevented for good
  processed,           \* DB: leaves marked as processed
  crashes

procVars == <<ppc, message_leaf_index, ckpt, count, sent>>
dbVars == <<leafRows, messageRow, torn, processed>>
vars == <<quorum, fetcherVars, unseen, faults, procVars, dbVars, crashes>>

TypeOK ==
  /\ FetcherTypeOK
  /\ ppc \in [Inboxes -> {"first", "scan", "await", "ingest", "stopped", "panicked"}]
  /\ message_leaf_index \in [Inboxes -> 0 .. NumLeaves]
  /\ ckpt \in [Inboxes -> Leaves \cup {None}]
  /\ count \in [Inboxes -> 0 .. NumLeaves]
  /\ sent \in [Inboxes -> SUBSET Leaves]
  /\ leafRows \in 0 .. NumLeaves
  /\ messageRow \in SUBSET Leaves
  /\ torn \in SUBSET Leaves
  /\ processed \in SUBSET Leaves
  /\ crashes \in 0 .. MaxCrashes

Init ==
  /\ FetcherInit
  /\ ppc = [p \in Inboxes |-> "first"]
  /\ message_leaf_index = [p \in Inboxes |-> 0]
  /\ ckpt = [p \in Inboxes |-> None]
  /\ count = [p \in Inboxes |-> 0]
  /\ sent = [p \in Inboxes |-> {}]
  /\ leafRows = 0
  /\ messageRow = {}
  /\ torn = {}
  /\ processed = {}
  /\ crashes = 0

-----------------------------------------------------------------------------
(***************************************************************************)
(* Plausible mistakes, each in place of the definition it names.           *)
(***************************************************************************)
ForgetsStatus(l) == FALSE                                            \* IsProcessed
PassesMissing(p, l) ==                                               \* Skippable
  l \in processed \/ l \notin messageRow \/ Destination[l] # p \/ l \notin Admitted

-----------------------------------------------------------------------------
(***************************************************************************)
(* MessageProcessor::tick, for the inbox p.                                *)
(***************************************************************************)
At(p) == message_leaf_index[p]

IsProcessed(l) == l \in processed
Readable(l) == l < leafRows /\ l \in messageRow
NotForInbox(p, l) == Destination[l] # p \/ l \notin Admitted

(* A leaf with a delivery confirmation, or one that is not for this inbox. *)
Skippable(p, l) == IsProcessed(l) \/ (Readable(l) /\ NotForInbox(p, l))

Woken(p) == p \in unseen

Advance(p) == message_leaf_index' = [message_leaf_index EXCEPT ![p] = @ + 1]
Goto(p, label) == ppc' = [ppc EXCEPT ![p] = label]

(* main_loop: changed().await? until there is a first checkpoint. *)
FirstCheckpoint(p) ==
  /\ ppc[p] = "first"
  /\ Woken(p)
  /\ unseen' = unseen \ {p}
  /\ Goto(p, IF ckpt_rx = None THEN "first" ELSE "scan")
  /\ UNCHANGED <<quorum, fetcherVars, faults, message_leaf_index, ckpt, count, sent,
                 dbVars, crashes>>

Skip(p) ==
  /\ ppc[p] = "scan"
  /\ At(p) \in Leaves
  /\ Skippable(p, At(p))
  /\ Advance(p)
  /\ UNCHANGED <<quorum, fetcherVars, unseen, faults, ppc, ckpt, count, sent,
                 dbVars, crashes>>

(* The loop on the watch channel: take a checkpoint that covers the message, *)
(* or wait for the next one.                                                 *)
TakeCheckpoint(p) ==
  IF ckpt_rx >= At(p)
    THEN Goto(p, "ingest") /\ ckpt' = [ckpt EXCEPT ![p] = ckpt_rx]
    ELSE Goto(p, "await") /\ UNCHANGED ckpt

Work(p) ==
  /\ ppc[p] = "scan"
  /\ At(p) \in Leaves
  /\ ~ IsProcessed(At(p))
  /\ Readable(At(p))
  /\ ~ NotForInbox(p, At(p))
  /\ TakeCheckpoint(p)
  /\ UNCHANGED <<quorum, fetcherVars, unseen, faults, message_leaf_index, count,
                 sent, dbVars, crashes>>

Changed(p) ==
  /\ ppc[p] = "await"
  /\ Woken(p)
  /\ unseen' = unseen \ {p}
  /\ TakeCheckpoint(p)
  /\ UNCHANGED <<quorum, fetcherVars, faults, message_leaf_index, count, sent,
                 dbVars, crashes>>

(* update_to_checkpoint has nothing (more) to do: it was not called, or it    *)
(* returned at once for index 0, or its loop is through.                     *)
UpToDate(p) == ckpt[p] = 0 \/ count[p] > ckpt[p]

(* wait_for_leaf(count).await?, ingest_leaf_index *)
Ingest(p) ==
  /\ ppc[p] = "ingest"
  /\ ~ UpToDate(p)
  /\ count[p] < leafRows
  /\ count' = [count EXCEPT ![p] = @ + 1]
  /\ UNCHANGED <<quorum, fetcherVars, unseen, faults, ppc, message_leaf_index, ckpt,
                 sent, dbVars, crashes>>

(* assert_eq!(checkpoint.index + 1, count), get_proof, tx_msg.send.  The LEAF *)
(* row looked up before the send has been ingested, so it is there.          *)
Send(p) ==
  /\ sent' = [sent EXCEPT ![p] = @ \cup {At(p)}]
  /\ Advance(p)
  /\ Goto(p, "scan")

Panic(p) == Goto(p, "panicked") /\ UNCHANGED <<sent, message_leaf_index>>

ProveAndSend(p) ==
  /\ ppc[p] = "ingest"
  /\ UpToDate(p)
  /\ IF ckpt[p] + 1 = count[p] THEN Send(p) ELSE Panic(p)
  /\ UNCHANGED <<quorum, fetcherVars, unseen, faults, ckpt, count, dbVars, crashes>>

Running(p) == ppc[p] \notin {"stopped", "panicked"}
Listening == {p \in Inboxes : Running(p)}

(* tick() returns an error: a DB read, a message that does not decode, roots  *)
(* that do not match, a submitter that is gone; or changed() finds nothing    *)
(* unseen and the sender dropped.                                            *)
ProcessorFails(p) ==
  /\ Running(p)
  /\ \/ Fault
     \/ /\ fpc = "stopped"
        /\ ppc[p] \in {"first", "await"}
        /\ ~ Woken(p)
        /\ UNCHANGED faults
  /\ Goto(p, "stopped")
  /\ UNCHANGED <<quorum, fetcherVars, unseen, message_leaf_index, ckpt, count, sent,
                 dbVars, crashes>>

-----------------------------------------------------------------------------
(***************************************************************************)
(* The tasks around it: the indexer's puts in their order (OutboxSync has  *)
(* the rest), and the submitter recording what it was sent.                *)
(***************************************************************************)
PutLeaf ==
  /\ leafRows < NumLeaves
  /\ leafRows > 0 => leafRows - 1 \in messageRow \cup torn
  /\ leafRows' = leafRows + 1
  /\ UNCHANGED <<quorum, fetcherVars, unseen, faults, procVars, messageRow, torn,
                 processed, crashes>>

PutMessage ==
  /\ leafRows > 0
  /\ leafRows - 1 \notin messageRow \cup torn
  /\ messageRow' = messageRow \cup {leafRows - 1}
  /\ UNCHANGED <<quorum, fetcherVars, unseen, faults, procVars, leafRows, torn,
                 processed, crashes>>

Record(p) ==
  /\ \E l \in sent[p] \ processed : processed' = processed \cup {l}
  /\ UNCHANGED <<quorum, fetcherVars, unseen, faults, procVars, leafRows, messageRow,
                 torn, crashes>>

StartProcess ==
  /\ FetcherStarts
  /\ ppc' = [p \in Inboxes |-> "first"]
  /\ message_leaf_index' = [p \in Inboxes |-> 0]
  /\ ckpt' = [p \in Inboxes |-> None]
  /\ count' = [p \in Inboxes |-> 0]
  /\ sent' = [p \in Inboxes |-> {}]
  /\ UNCHANGED <<quorum, faults, leafRows, messageRow, processed>>

(* A crash before the MESSAGE put of the last leaf tears it if the latest    *)
(* index was put already; if not, the indexer writes the message again.      *)
Crash ==
  /\ crashes < MaxCrashes
  /\ crashes' = crashes + 1
  /\ \E lost \in SUBSET (({leafRows - 1} \cap Leaves) \ messageRow) : torn' = torn \cup lost
  /\ StartProcess

(* run_all returns as soon as one task has ended: the agent exits and is      *)
(* started again from outside.                                               *)
RestartAfterExit ==
  /\ fpc = "stopped" \/ Listening # Inboxes
  /\ StartProcess
  /\ UNCHANGED <<torn, crashes>>

-----------------------------------------------------------------------------
ProcessorStep(p) ==
  \/ FirstCheckpoint(p) \/ Skip(p) \/ Work(p) \/ Changed(p)
  \/ Ingest(p) \/ ProveAndSend(p)

FetcherStep ==
  /\ Poll \/ FetchSends(Listening)
  /\ UNCHANGED <<procVars, dbVars, crashes>>

FetcherTrouble ==
  /\ FetchFindsNoQuorum \/ FetcherFails(Listening)
  /\ UNCHANGED <<procVars, dbVars, crashes>>

ValidatorsSign == Sign /\ UNCHANGED <<procVars, dbVars, crashes>>

Next ==
  \/ ValidatorsSign \/ FetcherStep \/ FetcherTrouble
  \/ \E p \in Inboxes : ProcessorStep(p) \/ ProcessorFails(p) \/ Record(p)
  \/ PutLeaf \/ PutMessage
  \/ Crash \/ RestartAfterExit

Spec == Init /\ [][Next]_vars

(* Every task is scheduled and its calls return, the validators go on signing, *)
(* the indexer and the submitters make progress, an exited agent is started    *)
(* again.  Faults and crashes are never obliged to happen.                     *)
Fairness ==
  /\ WF_vars(ValidatorsSign)
  /\ WF_vars(FetcherStep)
  /\ \A p \in Inboxes : WF_vars(ProcessorStep(p)) /\ WF_vars(Record(p))
  /\ WF_vars(PutLeaf \/ PutMessage)
  /\ WF_vars(RestartAfterExit)

FairSpec == Spec /\ Fairness

-----------------------------------------------------------------------------
(***************************************************************************)
(* Properties.                                                             *)
(***************************************************************************)

(* assert_eq!(checkpoint.index + 1, prover_sync.count()) never fails, though  *)
(* the checkpoint was read before the awaits that bring the tree up to date,  *)
(* update_to_checkpoint does nothing for index 0, and the validators' storage *)
(* may report a lower index than before.                                      *)
AssertionHolds == \A p \in Inboxes : ppc[p] # "panicked"

(* The scan passes no message of its inbox: every admitted message before its *)
(* position has been sent or is recorded, although the indexer writes a       *)
(* message in several puts and may be torn between them.                      *)
NothingPassed ==
  \A p \in Inboxes : \A l \in Leaves :
    l < At(p) /\ Destination[l] = p /\ l \in Admitted => l \in sent[p] \cup processed

(* The processing status is read before the awaits of tick() and not again:   *)
(* still no message is sent that is recorded as processed.                    *)
NeverSentAfterRecorded ==
  [][\A p \in Inboxes : (sent'[p] \ sent[p]) \cap processed = {}]_vars

(* What the receivers of the watch channel see never goes back while the      *)
(* process lives, whatever latest_index answers.                              *)
CheckpointNeverGoesBack ==
  [][ckpt_rx' # ckpt_rx => ckpt_rx' > ckpt_rx \/ ckpt_rx' = None]_vars

(* Every admitted message is eventually recorded, unless a crash tore the rows *)
(* of it or of one before it, where the scan of every inbox then stays.        *)
EveryForwarded ==
  \A l \in Admitted : <>(l \in processed \/ \E k \in torn : k <= l)
=============================================================================
