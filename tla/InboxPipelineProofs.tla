------------------------- MODULE InboxPipelineProofs -------------------------
(***************************************************************************)
(* Proofs about a whole inbox pipeline: with the real submitter behind it  *)
(* the scanning half behaves as MessageProcessor says, and with the real   *)
(* processor before it the delivering half behaves as SerialSubmitter      *)
(* says.  So whatever is proved of either module holds of the two          *)
(* together, for any number of messages and any bounds on faults, failed   *)
(* calls and crashes.                                                      *)
(***************************************************************************)
EXTENDS InboxPipeline, TLAPS

(* The views of InboxPipeline, with what is proved of the two modules. *)
S == INSTANCE MessageProcessorProofs
  WITH Inboxes <- {Inbox}, Destination <- [l \in Leaves |-> Inbox], Admitted <- Leaves,
       MaxFaults <- MaxFaults + MaxCalls

T == INSTANCE SerialSubmitterProofs
  WITH nextLeaf <- message_leaf_index[Inbox], processor <- ProcessorTask,
       faults <- calls + stops, MaxFaults <- MaxCalls + MaxFaults,
       crashes <- ends, MaxCrashes <- MaxCrashes + MaxFaults,
       reorgs <- 0, MaxReorgs <- 0

(* The assumptions of the two modules hold of the constants they are given. *)
LEMMA SourceAssumptions == S!FetcherAssumption /\ S!ProcessorAssumption
BY InboxPipelineAssumption DEF Leaves, S!Leaves

LEMMA SubmitterAssumptions == T!SubmitterAssumption
BY InboxPipelineAssumption DEF Leaves, T!Leaves

(* S is Source, and T is Submitter, definition by definition. *)
LEMMA SameSource ==
  /\ Source!Init <=> S!Init
  /\ [Source!Next]_(Source!vars) <=> [S!Next]_(S!vars)
BY DEF Source!Leaves, S!Leaves, Source!None, S!None, Source!Fault, S!Fault,
    Source!FetcherStarts, S!FetcherStarts, Source!FetcherInit, S!FetcherInit,
    Source!IsNewer, S!IsNewer, Source!Sign, S!Sign, Source!Poll, S!Poll,
    Source!FetchSends, S!FetchSends, Source!LatestWithoutQuorum,
    S!LatestWithoutQuorum, Source!FetchFindsNoQuorum, S!FetchFindsNoQuorum,
    Source!FetcherFails, S!FetcherFails, Source!fetcherVars, S!fetcherVars,
    Source!procVars, S!procVars, Source!dbVars, S!dbVars, Source!vars, S!vars,
    Source!Init, S!Init, Source!At, S!At, Source!IsProcessed, S!IsProcessed,
    Source!Readable, S!Readable, Source!NotForInbox, S!NotForInbox, Source!Skippable,
    S!Skippable, Source!Woken, S!Woken, Source!Advance, S!Advance, Source!Goto,
    S!Goto, Source!FirstCheckpoint, S!FirstCheckpoint, Source!Skip, S!Skip,
    Source!TakeCheckpoint, S!TakeCheckpoint, Source!Work, S!Work, Source!Changed,
    S!Changed, Source!UpToDate, S!UpToDate, Source!Ingest, S!Ingest, Source!Send,
    S!Send, Source!Panic, S!Panic, Source!ProveAndSend, S!ProveAndSend,
    Source!Running, S!Running, Source!Listening, S!Listening, Source!ProcessorFails,
    S!ProcessorFails, Source!PutLeaf, S!PutLeaf, Source!PutMessage, S!PutMessage,
    Source!Record, S!Record, Source!StartProcess, S!StartProcess, Source!Crash,
    S!Crash, Source!RestartAfterExit, S!RestartAfterExit, Source!ProcessorStep,
    S!ProcessorStep, Source!FetcherStep, S!FetcherStep, Source!FetcherTrouble,
    S!FetcherTrouble, Source!ValidatorsSign, S!ValidatorsSign, Source!Next, S!Next

LEMMA SameSubmitter ==
  /\ Submitter!Init <=> T!Init
  /\ [Submitter!Next]_(Submitter!vars) <=> [T!Next]_(T!vars)
BY DEF Submitter!Leaves, T!Leaves, Submitter!Fresh, T!Fresh, Submitter!Init, T!Init,
    Submitter!Fault, T!Fault, Submitter!SkipProcessed, T!SkipProcessed,
    Submitter!ProcessorSkip, T!ProcessorSkip, Submitter!ProcessorSend,
    T!ProcessorSend, Submitter!ProcessorSendFails, T!ProcessorSendFails,
    Submitter!ProcessorStops, T!ProcessorStops, Submitter!StopTask, T!StopTask,
    Submitter!Finish, T!Finish, Submitter!Promote, T!Promote, Submitter!Requeue,
    T!Requeue, Submitter!ProcessingFailed, T!ProcessingFailed,
    Submitter!RecordProcessSuccess, T!RecordProcessSuccess,
    Submitter!TickDisconnected, T!TickDisconnected, Submitter!TickPick, T!TickPick,
    Submitter!StatusProcessed, T!StatusProcessed, Submitter!StatusNone, T!StatusNone,
    Submitter!StatusFails, T!StatusFails, Submitter!EstimateOk, T!EstimateOk,
    Submitter!EstimateReverts, T!EstimateReverts, Submitter!EstimateFails,
    T!EstimateFails, Submitter!SendOk, T!SendOk, Submitter!SendFails, T!SendFails,
    Submitter!ReceiptRecorded, T!ReceiptRecorded, Submitter!ReceiptArrives,
    T!ReceiptArrives, Submitter!ReceiptDropped, T!ReceiptDropped,
    Submitter!ReceiptFails, T!ReceiptFails, Submitter!MineAwaited, T!MineAwaited,
    Submitter!DropAwaited, T!DropAwaited, Submitter!OrphanResolved, T!OrphanResolved,
    Submitter!RivalDelivers, T!RivalDelivers, Submitter!Reorg, T!Reorg,
    Submitter!StartProcess, T!StartProcess, Submitter!Crash, T!Crash,
    Submitter!RestartAfterExit, T!RestartAfterExit, Submitter!ProcessorStep,
    T!ProcessorStep, Submitter!SubmitterStep, T!SubmitterStep, Submitter!CallFails,
    T!CallFails, Submitter!Chain, T!Chain, Submitter!Next, T!Next, Submitter!procVars,
    T!procVars, Submitter!queueVars, T!queueVars, Submitter!chainVars, T!chainVars,
    Submitter!bounds, T!bounds, Submitter!vars, T!vars

-----------------------------------------------------------------------------
(***************************************************************************)
(* The invariant.  Each half keeps its own (no message is sent that is     *)
(* recorded, no message is held twice); what is held was sent; and the     *)
(* errors seen by one half stay within the bounds of the whole: an error   *)
(* of the fetcher, one of the processor and the loss of a pipeline have a  *)
(* fault each, a processor that finds no submitter has a failed call.      *)
(***************************************************************************)
Running == ProcessorTask = "running"

BoundsInv ==
  /\ calls \in 0 .. MaxCalls /\ stops \in Nat /\ ends \in Nat
  /\ stops <= MaxFaults /\ stops <= faults
  /\ faults <= MaxFaults + calls
  /\ crashes <= ends /\ ends <= crashes + MaxFaults /\ ends <= crashes + faults
  /\ pc = "stopped" /\ Running => calls > 0 /\ faults < MaxFaults + calls
  /\ fpc = "stopped" /\ Running => stops < MaxFaults /\ stops < faults
  /\ (fpc = "stopped" \/ ~ Running) /\ ~ PipelineJoined =>
       ends < crashes + MaxFaults /\ ends < crashes + faults

HandedInv == T!Held \subseteq sent[Inbox]

PipeInv == S!ScanInv /\ S!StatusInv /\ T!PipelineInv /\ HandedInv /\ BoundsInv

(* The types of what both halves look at. *)
LEMMA Types ==
  ASSUME S!ScanInv
  PROVE  /\ ppc \in [{Inbox} -> {"first", "scan", "await", "ingest", "stopped", "panicked"}]
         /\ ppc[Inbox] # "panicked"
         /\ message_leaf_index \in [{Inbox} -> 0 .. NumLeaves]
         /\ sent \in [{Inbox} -> SUBSET Leaves]
         /\ fpc \in {"poll", "fetch", "stopped"}
         /\ faults \in Nat /\ crashes \in Nat /\ crashes <= MaxCrashes
         /\ MaxFaults \in Nat /\ MaxCalls \in Nat /\ MaxCrashes \in Nat
BY InboxPipelineAssumption
DEF S!ScanInv, S!TypeOK, S!FetcherTypeOK, S!TreeInv, S!TreeOK, Leaves, S!Leaves

(* Nothing has run yet. *)
LEMMA PipeInvInit == Init => PipeInv
<1> SUFFICES ASSUME Init
             PROVE  PipeInv
  OBVIOUS
<1>1. S!Init
  BY SameSource DEF Init
<1>2. S!ScanInv /\ S!StatusInv
  BY <1>1, SourceAssumptions, S!ScanInvInit, S!StatusInvInit
<1>3. Source!Init
  BY DEF Init
<1>4. /\ fpc = "poll" /\ faults = 0 /\ crashes = 0 /\ processed = {}
      /\ message_leaf_index[Inbox] = 0 /\ ProcessorTask = "running"
  BY <1>3 DEF Source!Init, Source!FetcherInit, ProcessorTask
<1>5. Submitter!Init
  BY <1>4 DEF Init, Submitter!Init
<1>6. T!PipelineInv
  BY <1>5, SameSubmitter, SubmitterAssumptions, T!PipelineInvInit
<1>7. HandedInv
  BY DEF Init, HandedInv, T!Held, T!LeavesIn, T!Busy
<1>8. BoundsInv
  BY <1>4, InboxPipelineAssumption DEF Init, BoundsInv, Running
<1> QED
  BY <1>2, <1>6, <1>7, <1>8 DEF PipeInv

-----------------------------------------------------------------------------
(***************************************************************************)
(* Every step is a step of SerialSubmitter.                                *)
(***************************************************************************)

(* What the delivering half does not see. *)
LEMMA UnseenBySubmitter ==
  ASSUME UNCHANGED <<message_leaf_index, ProcessorTask, processed, submitterVars, stops, ends>>
  PROVE  UNCHANGED Submitter!vars
BY DEF submitterVars, Submitter!vars, Submitter!procVars, Submitter!queueVars,
       Submitter!chainVars, Submitter!bounds

(* All messages are for the one inbox, so the scan skips only recorded ones. *)
LEMMA ScanStep ==
  ASSUME PipeInv, Scans
  PROVE  [Submitter!Next]_(Submitter!vars)
<1> USE DEF SourceQuiet, ProcessorTask, Source!Goto, Source!Leaves, Leaves
<1>0. /\ ppc \in [{Inbox} -> {"first", "scan", "await", "ingest", "stopped", "panicked"}]
      /\ message_leaf_index \in [{Inbox} -> 0 .. NumLeaves]
  BY Types DEF PipeInv
<1>1. CASE Source!Skip(Inbox)
  <2>1. /\ ppc[Inbox] = "scan" /\ message_leaf_index[Inbox] \in Leaves
        /\ message_leaf_index[Inbox] \in processed
        /\ message_leaf_index' = [message_leaf_index EXCEPT ![Inbox] = @ + 1]
        /\ UNCHANGED <<ppc, processed, submitterVars, stops, ends>>
    BY <1>1 DEF Scans, Source!Skip, Source!Skippable, Source!IsProcessed, Source!NotForInbox,
                Source!At, Source!Advance
  <2>2. Submitter!ProcessorSkip
    BY <1>0, <2>1, InboxPipelineAssumption
    DEF Submitter!ProcessorSkip, Submitter!SkipProcessed, submitterVars,
        Submitter!queueVars, Submitter!chainVars, Submitter!bounds
  <2> QED
    BY <2>2 DEF Submitter!Next, Submitter!ProcessorStep
<1>2. CASE Source!FirstCheckpoint(Inbox) \/ Source!Work(Inbox) \/ Source!Changed(Inbox)
             \/ Source!Ingest(Inbox)
  <2>1. UNCHANGED <<message_leaf_index, ProcessorTask>>
    BY <1>0, <1>2 DEF Source!FirstCheckpoint, Source!Work, Source!Changed, Source!Ingest,
                      Source!TakeCheckpoint
  <2> QED
    BY <2>1, UnseenBySubmitter DEF Scans
<1> QED
  BY <1>1, <1>2 DEF Scans

(* The assertion of the prover holds, so the leaf is sent; it is a dispatched *)
(* one, and was not recorded while the processor awaited.                     *)
LEMMA HandsOverStep ==
  ASSUME PipeInv, HandsOver
  PROVE  /\ Submitter!Next
         /\ UNCHANGED ProcessorTask
         /\ sent'[Inbox] = sent[Inbox] \cup {message_leaf_index[Inbox]}
<1>0. /\ ppc \in [{Inbox} -> {"first", "scan", "await", "ingest", "stopped", "panicked"}]
      /\ message_leaf_index \in [{Inbox} -> 0 .. NumLeaves]
      /\ sent \in [{Inbox} -> SUBSET Leaves]
  BY Types DEF PipeInv
<1>1. ppc[Inbox] = "ingest" /\ Source!UpToDate(Inbox)
  BY DEF HandsOver, Source!ProveAndSend
<1>2. message_leaf_index[Inbox] \in Leaves /\ ckpt[Inbox] + 1 = count[Inbox]
  BY <1>1, SourceAssumptions, S!ReadyToSend
  DEF PipeInv, Source!UpToDate, S!UpToDate, Leaves, S!Leaves
<1>3. message_leaf_index[Inbox] \notin processed
  BY <1>1 DEF PipeInv, S!StatusInv, S!ScanOK
<1>4. /\ message_leaf_index' = [message_leaf_index EXCEPT ![Inbox] = @ + 1]
      /\ sent' = [sent EXCEPT ![Inbox] = @ \cup {message_leaf_index[Inbox]}]
      /\ ppc' = [ppc EXCEPT ![Inbox] = "scan"]
  BY <1>2 DEF HandsOver, Source!ProveAndSend, Source!Send, Source!Advance, Source!Goto, Source!At
<1>5. channel \in Seq(T!Message)
  BY DEF PipeInv, T!PipelineInv, T!TypeOK
<1>6. channel' = Append(channel, Submitter!Fresh(message_leaf_index[Inbox]))
  BY <1>5 DEF HandsOver, Handed
<1>7. Submitter!ProcessorSend
  BY <1>0, <1>1, <1>2, <1>3, <1>4, <1>6, InboxPipelineAssumption
  DEF HandsOver, Submitter!ProcessorSend, Submitter!SkipProcessed, ProcessorTask, Leaves,
      Submitter!chainVars, Submitter!bounds
<1> QED
  BY <1>0, <1>1, <1>4, <1>7 DEF Submitter!Next, Submitter!ProcessorStep, ProcessorTask

(* The send that fails is the submitter's error, not one of the processor's. *)
LEMMA FindsNoSubmitterStep ==
  ASSUME PipeInv, FindsNoSubmitter
  PROVE  Submitter!Next
<1>0. ppc \in [{Inbox} -> {"first", "scan", "await", "ingest", "stopped", "panicked"}]
  BY Types DEF PipeInv
<1>1. message_leaf_index[Inbox] \in Leaves
  BY SourceAssumptions, S!ReadyToSend DEF FindsNoSubmitter, PipeInv, Leaves, S!Leaves
<1>2. message_leaf_index[Inbox] \notin processed
  BY DEF FindsNoSubmitter, PipeInv, S!StatusInv, S!ScanOK
<1>3. Submitter!ProcessorSendFails
  BY <1>0, <1>1, <1>2, InboxPipelineAssumption
  DEF FindsNoSubmitter, SourceQuiet, Submitter!ProcessorSendFails, Submitter!SkipProcessed,
      ProcessorTask, Leaves, submitterVars, Submitter!queueVars, Submitter!chainVars,
      Submitter!bounds
<1> QED
  BY <1>3 DEF Submitter!Next, Submitter!ProcessorStep

(* Every other end of the processor has a fault of its own, or the fetcher's. *)
LEMMA ProcessorFailsStep ==
  ASSUME PipeInv, ProcessorFails
  PROVE  Submitter!Next
<1>0. /\ ppc \in [{Inbox} -> {"first", "scan", "await", "ingest", "stopped", "panicked"}]
      /\ faults \in Nat /\ MaxFaults \in Nat /\ MaxCalls \in Nat
  BY Types DEF PipeInv
<1>1. ppc[Inbox] \notin {"stopped", "panicked"} /\ ppc' = [ppc EXCEPT ![Inbox] = "stopped"]
  BY DEF ProcessorFails, Source!ProcessorFails, Source!Running, Source!Goto
<1>2. Running
  BY <1>1 DEF Running, ProcessorTask
<1>3. stops < MaxFaults
  <2>1. CASE Source!Fault
    BY <1>0, <2>1 DEF Source!Fault, ProcessorFails, WithinFaults, PipeInv, BoundsInv
  <2>2. CASE fpc = "stopped"
    BY <1>2, <2>2 DEF PipeInv, BoundsInv
  <2> QED
    BY <2>1, <2>2 DEF ProcessorFails, Source!ProcessorFails
<1>4. Submitter!Fault
  BY <1>0, <1>3 DEF Submitter!Fault, ProcessorFails, submitterVars, PipeInv, BoundsInv
<1>5. Submitter!ProcessorStops
  BY <1>0, <1>1, <1>4
  DEF ProcessorFails, Source!ProcessorFails, Submitter!ProcessorStops, ProcessorTask, submitterVars,
      Submitter!queueVars, Submitter!chainVars
<1> QED
  BY <1>5 DEF Submitter!Next, Submitter!CallFails

(* A crash, or an exit that drops a running pipeline, is a crash of it. *)
LEMMA StartsAgainStep ==
  ASSUME PipeInv, Crash \/ Exits
  PROVE  Submitter!Next
<1>0. /\ faults \in Nat /\ crashes \in Nat /\ crashes <= MaxCrashes /\ ends \in Nat
      /\ MaxFaults \in Nat /\ MaxCrashes \in Nat
  BY Types DEF PipeInv, BoundsInv
<1>1. CASE Crash
  <2>1. crashes < MaxCrashes /\ ends' = ends + 1 /\ Submitter!StartProcess
    BY <1>1 DEF Crash, Source!Crash, StartsAgain
  <2>2. ends < MaxCrashes + MaxFaults
    BY <1>0, <2>1 DEF PipeInv, BoundsInv
  <2> QED
    BY <2>1, <2>2 DEF Submitter!Next, Submitter!Crash
<1>2. CASE Exits /\ PipelineJoined
  BY <1>2 DEF Exits, PipelineJoined, StartsAgain, Submitter!Next, Submitter!RestartAfterExit
<1>3. CASE Exits /\ ~ PipelineJoined
  <2>1. fpc = "stopped" /\ ends' = ends + 1 /\ Submitter!StartProcess
    BY <1>3 DEF Exits, PipelineJoined, StartsAgain
  <2>2. ends < MaxCrashes + MaxFaults
    BY <1>0, <1>3, <2>1 DEF PipeInv, BoundsInv
  <2> QED
    BY <2>1, <2>2 DEF Submitter!Next, Submitter!Crash
<1> QED
  BY <1>1, <1>2, <1>3

(* Every step of the pipeline, seen from the delivering half. *)
LEMMA SubmitterStep ==
  ASSUME PipeInv, [Next]_vars
  PROVE  [Submitter!Next]_(Submitter!vars)
<1>1. CASE Fetches \/ Indexes
  <2>1. UNCHANGED <<ppc, message_leaf_index>> /\ SourceQuiet
    BY <1>1 DEF Fetches, Indexes, Source!FetcherStep, Source!FetcherTrouble,
                Source!ValidatorsSign, Source!PutLeaf, Source!PutMessage, Source!procVars
  <2> QED
    BY <2>1, UnseenBySubmitter DEF SourceQuiet, ProcessorTask
<1>2. CASE ProcessorProceeds \/ ProcessorFails
  BY <1>2, ScanStep, HandsOverStep, FindsNoSubmitterStep, ProcessorFailsStep
  DEF ProcessorProceeds
<1>3. CASE Submits \/ CallFails \/ Mines \/ OthersDeliver
  BY <1>3 DEF Submits, CallFails, Mines, OthersDeliver, Submitter!Next, Submitter!CallFails,
              Submitter!Chain, Leaves, Submitter!Leaves
<1>4. CASE Crash \/ Exits
  BY <1>4, StartsAgainStep
<1>5. CASE UNCHANGED vars
  BY <1>5, UnseenBySubmitter DEF vars, sourceVars, processorVars, ProcessorTask
<1> QED
  BY <1>1, <1>2, <1>3, <1>4, <1>5 DEF Next

(* What is proved of the delivering half is kept by every step of the whole. *)
LEMMA SubmitterInvStep ==
  ASSUME PipeInv, [Next]_vars
  PROVE  T!PipelineInv'
<1>1. [T!Next]_(T!vars)
  BY SubmitterStep, SameSubmitter
<1> QED
  BY <1>1, SubmitterAssumptions, T!PipelineInvStep DEF PipeInv

-----------------------------------------------------------------------------
(***************************************************************************)
(* Every step is a step of MessageProcessor.                               *)
(***************************************************************************)

(* While the scan stands still nothing new is held, and only a message that *)
(* is held is recorded.                                                     *)
LEMMA DeliveryEffect ==
  ASSUME PipeInv, Submits \/ CallFails \/ Mines \/ OthersDeliver
  PROVE  /\ UNCHANGED sourceVars
         /\ T!Held' \subseteq T!Held
         /\ processed' = processed \/ \E l \in T!Held \ processed : processed' = processed \cup {l}
<1>1. [Next]_vars
  BY DEF Next
<1>2. UNCHANGED sourceVars
  BY DEF Submits, CallFails, Mines, OthersDeliver, SubmitterQuiet
<1>3. UNCHANGED message_leaf_index
  BY <1>2 DEF sourceVars, processorVars
<1>4. [T!Next]_(T!vars) /\ T!PipelineInv'
  BY <1>1, SubmitterStep, SameSubmitter, SubmitterInvStep
<1>5. message_leaf_index[Inbox] \notin T!Held'
  <2>1. message_leaf_index[Inbox] \in Int
    BY Types DEF PipeInv
  <2> QED
    BY <1>3, <1>4, <2>1 DEF T!PipelineInv, T!HeldBelow
<1>6. \/ T!Held' = T!Held /\ processed' = processed
      \/ T!Held' = {} /\ processed' = processed
      \/ T!Held' = T!Held \cup {message_leaf_index[Inbox]}
      \/ /\ msg.leaf \in T!Held
         /\ T!Held' = T!Held \ {msg.leaf} /\ processed' = processed \cup {msg.leaf}
  BY <1>4, SubmitterAssumptions, T!HeldEffect DEF PipeInv
<1>7. T!Held \cap processed = {}
  BY DEF PipeInv, T!PipelineInv, T!HeldOnce
<1> QED
  BY <1>2, <1>5, <1>6, <1>7

(* Every step of the pipeline, seen from the scanning half: what is recorded was *)
(* held, hence sent since the last start.                                       *)
LEMMA SourceStep ==
  ASSUME PipeInv, [Next]_vars
  PROVE  [Source!Next]_(Source!vars)
<1>1. CASE Fetches \/ Indexes \/ Scans \/ HandsOver \/ ProcessorFails
  BY <1>1 DEF Fetches, Indexes, Scans, HandsOver, ProcessorFails, Source!Next, Source!ProcessorStep
<1>2. CASE FindsNoSubmitter
  <2>1. ppc[Inbox] = "ingest" /\ pc = "stopped" /\ faults' = faults + 1
    BY <1>2 DEF FindsNoSubmitter
  <2>2. faults < MaxFaults + calls /\ calls <= MaxCalls
    BY <2>1, Types DEF PipeInv, BoundsInv, Running, ProcessorTask
  <2>3. Source!Fault
    BY <2>1, <2>2, Types DEF Source!Fault, PipeInv, BoundsInv
  <2>4. Source!ProcessorFails(Inbox)
    BY <1>2, <2>1, <2>3
    DEF FindsNoSubmitter, SourceQuiet, Source!ProcessorFails, Source!Running, Source!Goto,
        Source!fetcherVars, Source!dbVars, rowVars
  <2> QED
    BY <2>4 DEF Source!Next
<1>3. CASE Submits \/ CallFails \/ Mines \/ OthersDeliver
  <2>1. /\ UNCHANGED sourceVars
        /\ processed' = processed \/ \E l \in T!Held \ processed : processed' = processed \cup {l}
    BY <1>3, DeliveryEffect
  <2>2. UNCHANGED <<quorum, Source!fetcherVars, unseen, faults, Source!procVars, leafRows,
                    messageRow, torn, crashes>>
    BY <2>1 DEF sourceVars, processorVars, rowVars, Source!fetcherVars, Source!procVars
  <2>3. CASE processed' = processed
    BY <2>2, <2>3 DEF Source!vars, Source!dbVars
  <2>4. CASE \E l \in T!Held \ processed : processed' = processed \cup {l}
    BY <2>2, <2>4 DEF PipeInv, HandedInv, Source!Record, Source!Next
  <2> QED
    BY <2>1, <2>3, <2>4
<1>4. CASE Crash \/ Exits
  BY <1>4 DEF Crash, Exits, Source!Next
<1>5. CASE UNCHANGED vars
  BY <1>5 DEF vars, sourceVars, processorVars, rowVars, Source!vars, Source!fetcherVars,
              Source!procVars, Source!dbVars
<1> QED
  BY <1>1, <1>2, <1>3, <1>4, <1>5 DEF Next, ProcessorProceeds

(* What is proved of the scanning half is kept by every step of the whole. *)
LEMMA SourceInvStep ==
  ASSUME PipeInv, [Next]_vars
  PROVE  S!ScanInv' /\ S!StatusInv'
<1>1. [S!Next]_(S!vars)
  BY SourceStep, SameSource
<1> QED
  BY <1>1, SourceAssumptions, S!ScanInvStep, S!StatusInvStep DEF PipeInv

-----------------------------------------------------------------------------
(***************************************************************************)
(* What relates the two halves.                                            *)
(***************************************************************************)
(* What comes into the channel is marked as sent in the same step. *)
LEMMA HandedStep ==
  ASSUME PipeInv, [Next]_vars
  PROVE  HandedInv'
<1> USE DEF HandedInv
<1>1. ASSUME UNCHANGED <<channel, run_queue, pc, msg, sent>>
      PROVE  HandedInv'
  BY <1>1 DEF PipeInv, T!Held, T!LeavesIn, T!Busy
<1>2. CASE Fetches \/ Indexes \/ Scans \/ ProcessorFails \/ FindsNoSubmitter \/ UNCHANGED vars
  <2>1. UNCHANGED <<channel, run_queue, pc, msg>>
    BY <1>2 DEF Fetches, Indexes, Scans, ProcessorFails, FindsNoSubmitter, SourceQuiet,
                submitterVars, vars
  <2>2. UNCHANGED sent
    BY <1>2 DEF Fetches, Indexes, Scans, ProcessorFails, FindsNoSubmitter, vars, sourceVars,
                processorVars, Source!FetcherStep, Source!FetcherTrouble, Source!ValidatorsSign,
                Source!PutLeaf, Source!PutMessage, Source!procVars, Source!FirstCheckpoint,
                Source!Skip, Source!Work, Source!Changed, Source!Ingest, Source!ProcessorFails
  <2> QED
    BY <1>1, <2>1, <2>2
<1>3. CASE HandsOver
  <2>1. [T!Next]_(T!vars) /\ sent'[Inbox] = sent[Inbox] \cup {message_leaf_index[Inbox]}
    BY <1>3, HandsOverStep, SameSubmitter
  <2>2. T!Held' \subseteq T!Held \cup {message_leaf_index[Inbox]}
    BY <2>1, SubmitterAssumptions, T!HeldEffect DEF PipeInv
  <2> QED
    BY <2>1, <2>2 DEF PipeInv
<1>4. CASE Submits \/ CallFails \/ Mines \/ OthersDeliver
  BY <1>4, DeliveryEffect DEF PipeInv, sourceVars, processorVars
<1>5. CASE Crash \/ Exits
  <2>1. Submitter!StartProcess
    BY <1>5 DEF Crash, Exits, StartsAgain
  <2>2. T!Held' = {}
    BY <2>1 DEF Submitter!StartProcess, Submitter!Finish, T!Held, T!LeavesIn, T!Busy
  <2> QED
    BY <2>2
<1> QED
  BY <1>2, <1>3, <1>4, <1>5 DEF Next, ProcessorProceeds

(* An error of a task uses up a fault, and so does every way the whole ends. *)
LEMMA BoundsStep ==
  ASSUME PipeInv, [Next]_vars
  PROVE  BoundsInv'
<1>0. /\ ppc \in [{Inbox} -> {"first", "scan", "await", "ingest", "stopped", "panicked"}]
      /\ faults \in Nat /\ crashes \in Nat
      /\ MaxFaults \in Nat /\ MaxCalls \in Nat /\ MaxCrashes \in Nat
      /\ BoundsInv
  BY Types DEF PipeInv
<1> USE <1>0 DEF BoundsInv, Running, PipelineJoined
<1>1. CASE Fetches
  <2>1. UNCHANGED <<ppc, crashes, pc, calls, stops, ends>>
    BY <1>1 DEF Fetches, SourceQuiet, submitterVars, Source!FetcherStep, Source!FetcherTrouble,
                Source!ValidatorsSign, Source!procVars
  <2>2. UNCHANGED ProcessorTask
    BY <2>1 DEF ProcessorTask
  <2>3. faults' = faults \/ (faults' = faults + 1 /\ faults' <= MaxFaults)
    BY <1>1 DEF Fetches, WithinFaults, Source!FetcherStep, Source!FetcherTrouble,
                Source!ValidatorsSign, Source!Poll, Source!FetchSends, Source!FetchFindsNoQuorum,
                Source!FetcherFails, Source!Sign, Source!Fault
  <2>4. fpc' = "stopped" => \/ fpc = "stopped"
                            \/ faults' = faults + 1
                            \/ ~ Running
    BY <1>1 DEF Fetches, Source!FetcherStep, Source!FetcherTrouble, Source!ValidatorsSign,
                Source!Poll, Source!FetchSends, Source!FetchFindsNoQuorum, Source!FetcherFails,
                Source!Sign, Source!Fault, Source!fetcherVars, Source!Listening, Source!Running,
                ProcessorTask
  <2> HIDE DEF ProcessorTask
  <2> QED
    BY <2>1, <2>2, <2>3, <2>4
<1>2. CASE Indexes \/ Scans \/ HandsOver \/ UNCHANGED vars
  <2>1. UNCHANGED <<fpc, crashes, faults, calls, stops, ends, pc>>
    BY <1>2 DEF Indexes, Scans, HandsOver, vars, sourceVars, submitterVars, SourceQuiet,
                Source!PutLeaf, Source!PutMessage, Source!fetcherVars, Source!FirstCheckpoint,
                Source!Skip, Source!Work, Source!Changed, Source!Ingest, Source!ProveAndSend
  <2>2. UNCHANGED ProcessorTask
    <3>1. CASE HandsOver
      BY <3>1, HandsOverStep
    <3>2. CASE Indexes \/ Scans \/ UNCHANGED vars
      BY <3>2, <1>0
      DEF Indexes, Scans, vars, sourceVars, processorVars, Source!PutLeaf, Source!PutMessage,
          Source!procVars, Source!FirstCheckpoint, Source!Skip, Source!Work, Source!Changed,
          Source!Ingest, Source!TakeCheckpoint, Source!Goto, ProcessorTask
    <3> QED
      BY <1>2, <3>1, <3>2
  <2> QED
    BY <2>1, <2>2
<1>3. CASE ProcessorFails
  <2>1. /\ UNCHANGED <<fpc, crashes, pc, calls, ends>> /\ stops' = stops + 1
        /\ Running /\ ~ Running'
    BY <1>3 DEF ProcessorFails, Source!ProcessorFails, Source!Running, Source!Goto, submitterVars,
                Source!fetcherVars, ProcessorTask
  <2>2. \/ faults' = faults + 1 /\ faults' <= MaxFaults
        \/ faults' = faults /\ fpc = "stopped"
    BY <1>3 DEF ProcessorFails, Source!ProcessorFails, Source!Fault, WithinFaults
  <2> QED
    BY <2>1, <2>2
<1>4. CASE FindsNoSubmitter
  <2>1. /\ UNCHANGED <<fpc, crashes, pc, calls, stops, ends>> /\ faults' = faults + 1
        /\ pc = "stopped" /\ Running /\ ~ Running' /\ PipelineJoined'
    BY <1>4 DEF FindsNoSubmitter, SourceQuiet, submitterVars, ProcessorTask
  <2> QED
    BY <2>1
<1>5. CASE Submits \/ CallFails \/ Mines \/ OthersDeliver
  <2>1. UNCHANGED <<ppc, fpc, crashes, faults, stops, ends>>
    BY <1>5 DEF Submits, CallFails, Mines, OthersDeliver, SubmitterQuiet, sourceVars, processorVars
  <2>2. UNCHANGED ProcessorTask
    BY <2>1 DEF ProcessorTask
  <2>3. calls' = calls \/ (calls' = calls + 1 /\ calls < MaxCalls)
    BY <1>5 DEF Submits, CallFails, Mines, OthersDeliver
  <2>4. pc = "stopped" => pc' = "stopped"
    BY <1>5 DEF Submits, CallFails, Mines, OthersDeliver, Submitter!SubmitterStep,
                Submitter!TickDisconnected, Submitter!TickPick, Submitter!StatusProcessed,
                Submitter!StatusNone, Submitter!EstimateOk, Submitter!EstimateReverts,
                Submitter!SendOk, Submitter!ReceiptArrives, Submitter!ReceiptDropped,
                Submitter!StatusFails, Submitter!EstimateFails, Submitter!SendFails,
                Submitter!ReceiptFails, Submitter!DropAwaited, Submitter!MineAwaited,
                Submitter!OrphanResolved, Submitter!RivalDelivers
  <2>5. pc' = "stopped" => pc = "stopped" \/ ~ Running \/ calls' = calls + 1
    BY <1>5 DEF Submits, CallFails, Mines, OthersDeliver, Submitter!SubmitterStep,
                Submitter!TickDisconnected, Submitter!TickPick, Submitter!StatusProcessed,
                Submitter!StatusNone, Submitter!EstimateOk, Submitter!EstimateReverts,
                Submitter!SendOk, Submitter!ReceiptArrives, Submitter!ReceiptDropped,
                Submitter!Finish, Submitter!RecordProcessSuccess, Submitter!ProcessingFailed,
                Submitter!MineAwaited, Submitter!OrphanResolved, Submitter!RivalDelivers
  <2> QED
    BY <2>1, <2>2, <2>3, <2>4, <2>5
<1>6. CASE Crash \/ Exits
  <2>1. /\ UNCHANGED <<faults, calls, stops>> /\ fpc' = "poll" /\ pc' = "idle"
        /\ ppc' = [p \in {Inbox} |-> "first"]
    BY <1>6 DEF Crash, Exits, StartsAgain, Submitter!StartProcess, Submitter!Finish, Source!Crash,
                Source!RestartAfterExit, Source!StartProcess, Source!FetcherStarts
  <2>2. Running'
    BY <2>1 DEF ProcessorTask
  <2>3. CASE Crash
    <3>1. ends' = ends + 1 /\ crashes' = crashes + 1
      BY <2>3 DEF Crash, Source!Crash
    <3> QED
      BY <2>1, <2>2, <3>1
  <2>4. CASE Exits
    <3>1. crashes' = crashes /\ ends' = IF PipelineJoined THEN ends ELSE ends + 1
      BY <2>4 DEF Exits, Source!RestartAfterExit
    <3>2. fpc = "stopped" \/ PipelineJoined
      BY <2>4 DEF Exits
    <3> QED
      BY <2>1, <2>2, <3>1, <3>2
  <2> QED
    BY <1>6, <2>3, <2>4
<1> QED
  BY <1>1, <1>2, <1>3, <1>4, <1>5, <1>6 DEF Next, ProcessorProceeds

(* All parts together. *)
LEMMA PipeInvStep == PipeInv /\ [Next]_vars => PipeInv'
BY SubmitterInvStep, SourceInvStep, HandedStep, BoundsStep DEF PipeInv

-----------------------------------------------------------------------------
(***************************************************************************)
(* The theorems.                                                           *)
(***************************************************************************)
(* The invariant of the pipeline holds through errors, crashes and restarts. *)
THEOREM PipelineInvariant == Spec => []PipeInv
BY PipeInvInit, PipeInvStep, PTL DEF Spec

(* The submitter records only what the processor sent it, as the scanning    *)
(* half assumes of it: the joined tasks of run_inbox are a MessageProcessor. *)
THEOREM SubmitterIsAsAssumedHolds == Spec => SubmitterIsAsAssumed
<1>1. Init => Source!Init
  BY DEF Init
<1>2. PipeInv /\ [Next]_vars => [Source!Next]_(Source!vars)
  BY SourceStep
<1> QED
  BY <1>1, <1>2, PipelineInvariant, PTL DEF Spec, SubmitterIsAsAssumed

(* The processor sends each leaf once, in order, and none that is recorded, *)
(* as the delivering half assumes of it: the joined tasks are a             *)
(* SerialSubmitter, the loss of a running pipeline being one of its crashes. *)
THEOREM ProcessorIsAsAssumedHolds == Spec => ProcessorIsAsAssumed
<1>1. Init => Submitter!Init
  BY PipeInvInit, SameSource DEF Init, Submitter!Init, Source!Init, ProcessorTask
<1>2. PipeInv /\ [Next]_vars => [Submitter!Next]_(Submitter!vars)
  BY SubmitterStep
<1> QED
  BY <1>1, <1>2, PipelineInvariant, PTL DEF Spec, ProcessorIsAsAssumed

(* The pipeline is a behaviour of either module. *)
LEMMA ViewsAreModules == Spec => S!Spec /\ T!Spec
<1>1. Init => S!Init
  BY SameSource DEF Init
<1>2. Init => T!Init
  BY PipeInvInit, SameSubmitter DEF Init, Submitter!Init, Source!Init, ProcessorTask
<1>3. PipeInv /\ [Next]_vars => [S!Next]_(S!vars) /\ [T!Next]_(T!vars)
  BY SourceStep, SubmitterStep, SameSource, SameSubmitter
<1> QED
  BY <1>1, <1>2, <1>3, PipelineInvariant, PTL DEF Spec, S!Spec, T!Spec

(* The whole of run_inbox, from the signed checkpoint to the recorded        *)
(* delivery, implements Delivery: a message is accepted once, recorded only  *)
(* on evidence of its delivery, and forgotten only with the whole pipeline.  *)
THEOREM PipelineImplementsDelivery == Spec => T!ImplementsDelivery
<1>1. T!Spec => T!ImplementsDelivery
  BY SubmitterAssumptions, T!SubmitterImplementsDelivery
<1> QED
  BY <1>1, ViewsAreModules, PTL

(* With the real submitter recording behind it, the scan passes no message    *)
(* that is neither sent nor recorded, and the assertion of the prover, on a   *)
(* checkpoint read before the awaits, never fails.                            *)
THEOREM PipelinePassesNothing == Spec => [](S!NothingPassed /\ S!AssertionHolds)
<1>1. S!Spec => []S!NothingPassed /\ []S!AssertionHolds
  BY SourceAssumptions, S!NothingPassedHolds, S!AssertionHoldsAlways
<1> QED
  BY <1>1, ViewsAreModules, PTL
=============================================================================
