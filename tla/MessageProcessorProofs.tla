----------------------- MODULE MessageProcessorProofs -----------------------
(***************************************************************************)
(* Proofs about the scanning half of the pipelines, for any number of      *)
(* messages and inboxes and any bounds on faults and crashes: the types,   *)
(* and that the assertion on the size of the prover's tree never fails.    *)
(***************************************************************************)
EXTENDS MessageProcessor, TLAPS

(***************************************************************************)
(* Why the assertion holds.  The fetcher publishes only indices greater    *)
(* than the one it published before, the first of which is compared with   *)
(* 0, so index 0 is never published and the published index never falls.   *)
(* A tree built for an earlier checkpoint is therefore never ahead of the  *)
(* checkpoint a processor takes later.                                     *)
(***************************************************************************)
PublishedInv ==
  /\ ckpt_rx # 0
  /\ ckpt_rx = None \/ ckpt_rx = latest
  /\ fpc = "fetch" => target > latest

TreeOK(p) ==
  /\ ppc[p] # "panicked"
  /\ count[p] <= ckpt_rx + 1
  /\ ppc[p] = "ingest" =>
       /\ message_leaf_index[p] <= ckpt[p]
       /\ 0 < ckpt[p]
       /\ ckpt[p] <= ckpt_rx
       /\ count[p] <= ckpt[p] + 1

TreeInv == \A p \in Inboxes : TreeOK(p)

ScanInv == TypeOK /\ PublishedInv /\ TreeInv

(* The initial states: no task has begun. *)
LEMMA ScanInvInit == Init => ScanInv
BY FetcherAssumption, ProcessorAssumption
DEF Init, FetcherInit, ScanInv, TypeOK, FetcherTypeOK, PublishedInv, TreeInv, TreeOK,
    Leaves, None

(* A message being worked on is a dispatched one, covered by the checkpoint, *)
(* and once the tree is up to date it has the size the assertion demands.    *)
LEMMA ReadyToSend ==
  ASSUME ScanInv, NEW p \in Inboxes, ppc[p] = "ingest"
  PROVE  /\ message_leaf_index[p] \in Leaves
         /\ ckpt[p] \in Leaves
         /\ UpToDate(p) => ckpt[p] + 1 = count[p]
<1>1. /\ ckpt[p] \in Leaves
      /\ message_leaf_index[p] \in 0 .. NumLeaves
      /\ count[p] \in 0 .. NumLeaves
  BY DEF ScanInv, TypeOK, TreeInv, TreeOK, Leaves, None
<1>2. message_leaf_index[p] <= ckpt[p] /\ 0 < ckpt[p] /\ count[p] <= ckpt[p] + 1
  BY DEF ScanInv, TreeInv, TreeOK
<1> QED
  BY <1>1, <1>2, FetcherAssumption DEF Leaves, UpToDate

(* Every step keeps the types. *)
LEMMA TypeStep == ScanInv /\ [Next]_vars => TypeOK'
<1> SUFFICES ASSUME ScanInv, [Next]_vars
             PROVE  TypeOK'
  OBVIOUS
<1> USE FetcherAssumption
    DEF TypeOK, FetcherTypeOK, procVars, dbVars, fetcherVars, None, Fault
<1>0. TypeOK /\ MaxCrashes \in Nat /\ 0 \in Leaves
  BY ProcessorAssumption DEF ScanInv, Leaves
<1>1. CASE ValidatorsSign
  BY <1>0, <1>1 DEF ValidatorsSign, Sign
<1>2. CASE Poll /\ UNCHANGED <<procVars, dbVars, crashes>>
  <2>1. target' \in Leaves
    BY <1>0, <1>2 DEF Poll, Leaves
  <2> QED
    BY <1>0, <1>2, <2>1 DEF Poll
<1>3. CASE FetchSends(Listening) /\ UNCHANGED <<procVars, dbVars, crashes>>
  BY <1>0, <1>3 DEF FetchSends, Listening
<1>4. CASE FetchFindsNoQuorum /\ UNCHANGED <<procVars, dbVars, crashes>>
  BY <1>0, <1>4 DEF FetchFindsNoQuorum, LatestWithoutQuorum
<1>5. CASE FetcherFails(Listening) /\ UNCHANGED <<procVars, dbVars, crashes>>
  BY <1>0, <1>5 DEF FetcherFails
<1>6. ASSUME NEW p \in Inboxes, ProcessorStep(p)
      PROVE  TypeOK'
  <2>1. CASE FirstCheckpoint(p)
    BY <1>0, <2>1 DEF FirstCheckpoint, Goto
  <2>2. CASE Skip(p)
    <3>1. message_leaf_index[p] + 1 \in 0 .. NumLeaves
      BY <1>0, <2>2 DEF Skip, At, Leaves
    <3> QED
      BY <1>0, <2>2, <3>1 DEF Skip, Advance
  <2>3. CASE Work(p)
    BY <1>0, <2>3 DEF Work, TakeCheckpoint, Goto
  <2>4. CASE Changed(p)
    BY <1>0, <2>4 DEF Changed, TakeCheckpoint, Goto
  <2>5. CASE Ingest(p)
    <3>1. count[p] + 1 \in 0 .. NumLeaves
      BY <1>0, <2>5 DEF Ingest
    <3> QED
      BY <1>0, <2>5, <3>1 DEF Ingest
  <2>6. CASE ProveAndSend(p)
    <3>1. message_leaf_index[p] \in Leaves /\ ckpt[p] + 1 = count[p]
      BY <2>6, ReadyToSend DEF ProveAndSend
    <3>2. message_leaf_index[p] + 1 \in 0 .. NumLeaves
      BY <3>1 DEF Leaves
    <3> QED
      BY <1>0, <2>6, <3>1, <3>2 DEF ProveAndSend, Send, Advance, Goto, At
  <2> QED
    BY <1>6, <2>1, <2>2, <2>3, <2>4, <2>5, <2>6 DEF ProcessorStep
<1>7. ASSUME NEW p \in Inboxes, ProcessorFails(p)
      PROVE  TypeOK'
  BY <1>0, <1>7 DEF ProcessorFails, Goto
<1>8. ASSUME NEW p \in Inboxes, Record(p)
      PROVE  TypeOK'
  BY <1>0, <1>8 DEF Record
<1>9. CASE PutLeaf
  BY <1>0, <1>9 DEF PutLeaf
<1>10. CASE PutMessage
  <2>1. leafRows - 1 \in Leaves
    BY <1>0, <1>10 DEF PutMessage, Leaves
  <2> QED
    BY <1>0, <1>10, <2>1 DEF PutMessage
<1>11. CASE Crash
  <2>1. torn' \in SUBSET Leaves
    <3>1. PICK lost \in SUBSET (({leafRows - 1} \cap Leaves) \ messageRow) : torn' = torn \cup lost
      BY <1>11 DEF Crash
    <3> QED
      BY <1>0, <3>1, Zenon
  <2>2. crashes' \in 0 .. MaxCrashes
    BY <1>0, <1>11 DEF Crash
  <2> QED
    BY <1>0, <1>11, <2>1, <2>2 DEF Crash, StartProcess, FetcherStarts
<1>12. CASE RestartAfterExit
  BY <1>0, <1>12 DEF RestartAfterExit, StartProcess, FetcherStarts
<1>13. CASE UNCHANGED vars
  BY <1>0, <1>13 DEF vars
<1> QED
  BY <1>1, <1>2, <1>3, <1>4, <1>5, <1>6, <1>7, <1>8, <1>9, <1>10, <1>11, <1>12, <1>13
  DEF Next, FetcherStep, FetcherTrouble

(***************************************************************************)
(* What a step does to the published index: it starts anew, it publishes a *)
(* greater one, or it leaves it alone.                                     *)
(***************************************************************************)
Publishes ==
  /\ ckpt_rx' > ckpt_rx
  /\ ckpt_rx' > 0
  /\ ckpt_rx' = latest'
  /\ fpc' = "poll"
  /\ UNCHANGED procVars

LeavesPublished ==
  /\ UNCHANGED <<ckpt_rx, latest>>
  /\ fpc' = "fetch" => target' > latest'

(* Every step has one of the three effects. *)
LEMMA PublishEffect ==
  ASSUME ScanInv, [Next]_vars
  PROVE  StartProcess \/ Publishes \/ LeavesPublished
<1> USE DEF LeavesPublished, fetcherVars
<1>1. CASE ValidatorsSign
  BY <1>1 DEF ValidatorsSign, Sign, ScanInv, PublishedInv
<1>2. CASE Poll
  BY <1>2 DEF Poll, IsNewer
<1>3. CASE FetchSends(Listening) /\ UNCHANGED procVars
  BY <1>3, FetcherAssumption
  DEF FetchSends, Publishes, ScanInv, PublishedInv, TypeOK, FetcherTypeOK, Leaves, None
<1>4. CASE FetchFindsNoQuorum
  BY <1>4 DEF FetchFindsNoQuorum, LatestWithoutQuorum
<1>5. CASE FetcherFails(Listening)
  BY <1>5 DEF FetcherFails
<1>6. ASSUME NEW p \in Inboxes, ProcessorStep(p) \/ ProcessorFails(p) \/ Record(p)
      PROVE  LeavesPublished
  BY <1>6 DEF ProcessorStep, FirstCheckpoint, Skip, Work, Changed, Ingest, ProveAndSend,
              ProcessorFails, Record, ScanInv, PublishedInv
<1>7. CASE PutLeaf \/ PutMessage
  BY <1>7 DEF PutLeaf, PutMessage, ScanInv, PublishedInv
<1>8. CASE UNCHANGED vars
  BY <1>8 DEF vars, ScanInv, PublishedInv
<1> QED
  BY <1>1, <1>2, <1>3, <1>4, <1>5, <1>6, <1>7, <1>8
  DEF Next, FetcherStep, FetcherTrouble, Crash, RestartAfterExit

(* Every step keeps what is known of the published index. *)
LEMMA PublishedStep == ScanInv /\ [Next]_vars => PublishedInv'
<1> SUFFICES ASSUME ScanInv, [Next]_vars
             PROVE  PublishedInv'
  OBVIOUS
<1>1. CASE StartProcess
  BY <1>1 DEF StartProcess, FetcherStarts, PublishedInv, None
<1>2. CASE Publishes
  BY <1>2 DEF Publishes, PublishedInv
<1>3. CASE LeavesPublished
  BY <1>3 DEF LeavesPublished, PublishedInv, ScanInv
<1> QED
  BY <1>1, <1>2, <1>3, PublishEffect

(* A step of the processor p keeps its tree in step with its checkpoint. *)
LEMMA OwnTreeStep ==
  ASSUME ScanInv, NEW p \in Inboxes, ProcessorStep(p) \/ ProcessorFails(p)
  PROVE  TreeOK(p)'
<1> USE FetcherAssumption DEF procVars, fetcherVars, Goto, Advance, TreeOK
<1>0. /\ TreeOK(p)
      /\ ppc \in [Inboxes -> {"first", "scan", "await", "ingest", "stopped", "panicked"}]
      /\ message_leaf_index \in [Inboxes -> 0 .. NumLeaves]
      /\ ckpt \in [Inboxes -> Leaves \cup {None}]
      /\ count \in [Inboxes -> 0 .. NumLeaves]
      /\ ckpt_rx \in Leaves \cup {None}
      /\ ckpt_rx # 0
  BY DEF ScanInv, TypeOK, FetcherTypeOK, TreeInv, PublishedInv
<1>1. CASE FirstCheckpoint(p)
  BY <1>0, <1>1 DEF FirstCheckpoint
<1>2. CASE Skip(p)
  BY <1>0, <1>2 DEF Skip
<1>3. ASSUME TakeCheckpoint(p), UNCHANGED <<ckpt_rx, message_leaf_index, count>>,
             ppc[p] # "ingest"
      PROVE  TreeOK(p)'
  BY <1>0, <1>3 DEF TakeCheckpoint, At, Leaves, None
<1>4. CASE Work(p) \/ Changed(p)
  BY <1>3, <1>4 DEF Work, Changed
<1>5. CASE Ingest(p)
  BY <1>0, <1>5 DEF Ingest, UpToDate, Leaves, None
<1>6. CASE ProveAndSend(p)
  <2>1. ckpt[p] + 1 = count[p]
    BY <1>6, ReadyToSend DEF ProveAndSend
  <2> QED
    BY <1>0, <1>6, <2>1 DEF ProveAndSend, Send
<1>7. CASE ProcessorFails(p)
  BY <1>0, <1>7 DEF ProcessorFails
<1> QED
  BY <1>1, <1>2, <1>4, <1>5, <1>6, <1>7 DEF ProcessorStep

(* Every step keeps every tree in step with its checkpoint. *)
LEMMA TreeStep == ScanInv /\ [Next]_vars => TreeInv'
<1> SUFFICES ASSUME ScanInv, [Next]_vars, NEW q \in Inboxes
             PROVE  TreeOK(q)'
  BY DEF TreeInv
<1>0. TreeOK(q)
  BY DEF ScanInv, TreeInv
<1>1. CASE StartProcess
  BY <1>1 DEF StartProcess, FetcherStarts, TreeOK, None
<1>2. CASE Publishes
  <2>1. /\ ckpt_rx \in Int /\ ckpt_rx' \in Int
        /\ count[q] \in Int /\ ckpt[q] \in Int
    BY TypeStep DEF ScanInv, TypeOK, FetcherTypeOK, Leaves, None
  <2> QED
    BY <1>0, <1>2, <2>1 DEF Publishes, procVars, TreeOK
<1>3. ASSUME UNCHANGED <<ckpt_rx, ppc[q], message_leaf_index[q], ckpt[q], count[q]>>
      PROVE  TreeOK(q)'
  BY <1>0, <1>3 DEF TreeOK
<1>4. ASSUME NEW p \in Inboxes, p # q, ProcessorStep(p) \/ ProcessorFails(p)
      PROVE  TreeOK(q)'
  <2>1. /\ ppc \in [Inboxes -> {"first", "scan", "await", "ingest", "stopped", "panicked"}]
        /\ message_leaf_index \in [Inboxes -> 0 .. NumLeaves]
        /\ ckpt \in [Inboxes -> Leaves \cup {None}]
        /\ count \in [Inboxes -> 0 .. NumLeaves]
    BY DEF ScanInv, TypeOK
  <2>2. UNCHANGED <<ckpt_rx, ppc[q], message_leaf_index[q], ckpt[q], count[q]>>
    BY <1>4, <2>1 DEF ProcessorStep, FirstCheckpoint, Skip, Work, Changed, TakeCheckpoint,
                      Ingest, ProveAndSend, Send, Panic, ProcessorFails, Goto, Advance,
                      fetcherVars
  <2> QED
    BY <1>3, <2>2
<1>5. ASSUME NEW p \in Inboxes, Record(p)
      PROVE  TreeOK(q)'
  BY <1>3, <1>5 DEF Record, procVars, fetcherVars
<1>6. CASE PutLeaf \/ PutMessage
  BY <1>3, <1>6 DEF PutLeaf, PutMessage, procVars, fetcherVars
<1>7. CASE UNCHANGED vars
  BY <1>3, <1>7 DEF vars, procVars, fetcherVars
<1>8. CASE (ValidatorsSign \/ FetcherStep \/ FetcherTrouble) /\ LeavesPublished
  BY <1>3, <1>8 DEF ValidatorsSign, FetcherStep, FetcherTrouble, LeavesPublished, procVars
<1> QED
  BY <1>1, <1>2, <1>4, <1>5, <1>6, <1>7, <1>8, OwnTreeStep, PublishEffect
  DEF Next, Crash, RestartAfterExit

(* Every step keeps the invariant. *)
LEMMA ScanInvStep == ScanInv /\ [Next]_vars => ScanInv'
BY TypeStep, PublishedStep, TreeStep DEF ScanInv

(* The inductive invariant holds of every reachable state. *)
THEOREM ScanInvariant == Spec => []ScanInv
BY ScanInvInit, ScanInvStep, PTL DEF Spec

(* Type correctness of the fetcher, the processors and the rows they share. *)
THEOREM ProcessorTypeCorrect == Spec => []TypeOK
<1>1. ScanInv => TypeOK
  BY DEF ScanInv
<1> QED
  BY <1>1, ScanInvariant, PTL

(* The processor's assertion on the size of its tree never fails. *)
THEOREM AssertionHoldsAlways == Spec => []AssertionHolds
<1>1. ScanInv => AssertionHolds
  BY DEF ScanInv, TreeInv, TreeOK, AssertionHolds
<1> QED
  BY <1>1, ScanInvariant, PTL

(* A step from a state of the invariant publishes a greater index, or none.  *)
LEMMA PublishStep == ScanInv /\ [Next]_vars =>
                       (ckpt_rx' # ckpt_rx => ckpt_rx' > ckpt_rx \/ ckpt_rx' = None)
BY PublishEffect DEF Publishes, LeavesPublished, StartProcess, FetcherStarts

(* The receivers of the watch channel never see the checkpoint index fall.   *)
THEOREM CheckpointNeverGoesBackHolds == Spec => CheckpointNeverGoesBack
<1>1. ScanInv /\ [Next]_vars => [ckpt_rx' # ckpt_rx => ckpt_rx' > ckpt_rx \/ ckpt_rx' = None]_vars
  BY PublishStep
<1> QED
  BY <1>1, ScanInvariant, PTL DEF Spec, CheckpointNeverGoesBack

(***************************************************************************)
(* Why no stale status is acted on.  The status of a leaf is read once,    *)
(* before the awaits.  It can change only by the submitter of the inbox    *)
(* the leaf was sent to; what p sent lies before the leaf p works on, and  *)
(* what the others sent is not for p.                                      *)
(***************************************************************************)
ScanOK(p) ==
  /\ \A l \in sent[p] : l < message_leaf_index[p] /\ Destination[l] = p
  /\ ppc[p] \in {"await", "ingest"} =>
       /\ Destination[message_leaf_index[p]] = p
       /\ message_leaf_index[p] \notin processed
  /\ \A l \in Leaves :
       l < message_leaf_index[p] /\ Destination[l] = p /\ l \in Admitted
         => l \in sent[p] \cup processed

StatusInv == \A p \in Inboxes : ScanOK(p)

(* A step of the processor p, from a state of the invariant. *)
LEMMA OwnScanStep ==
  ASSUME ScanInv, StatusInv, NEW p \in Inboxes, ProcessorStep(p) \/ ProcessorFails(p)
  PROVE  ScanOK(p)'
<1> USE DEF dbVars, Goto, Advance, At, ScanOK
<1>0. /\ ScanOK(p)
      /\ ppc \in [Inboxes -> {"first", "scan", "await", "ingest", "stopped", "panicked"}]
      /\ message_leaf_index \in [Inboxes -> 0 .. NumLeaves]
      /\ sent \in [Inboxes -> SUBSET Leaves]
      /\ Leaves \subseteq Int
  BY FetcherAssumption DEF ScanInv, TypeOK, StatusInv, Leaves
<1>1. CASE FirstCheckpoint(p)
  BY <1>0, <1>1 DEF FirstCheckpoint
<1>2. CASE Skip(p)
  BY <1>0, <1>2 DEF Skip, Skippable, IsProcessed, NotForInbox
<1>3. CASE Work(p)
  BY <1>0, <1>3 DEF Work, TakeCheckpoint, IsProcessed, NotForInbox
<1>4. CASE Changed(p)
  BY <1>0, <1>4 DEF Changed, TakeCheckpoint
<1>5. CASE Ingest(p)
  BY <1>0, <1>5 DEF Ingest
<1>6. CASE ProveAndSend(p)
  <2>1. ckpt[p] + 1 = count[p]
    BY <1>6, ReadyToSend DEF ProveAndSend
  <2>2. /\ sent'[p] = sent[p] \cup {message_leaf_index[p]}
        /\ message_leaf_index'[p] = message_leaf_index[p] + 1
        /\ ppc'[p] = "scan"
        /\ processed' = processed
    BY <1>0, <1>6, <2>1 DEF ProveAndSend, Send
  <2>3. message_leaf_index[p] \in Int /\ Destination[message_leaf_index[p]] = p
    BY <1>0, <1>6 DEF ProveAndSend
  <2>4. sent[p] \subseteq Int
    BY <1>0
  <2>5. \A l \in sent'[p] : l < message_leaf_index'[p] /\ Destination[l] = p
    BY <1>0, <2>2, <2>3, <2>4
  <2>6. ASSUME NEW l \in Leaves, l < message_leaf_index'[p], Destination[l] = p, l \in Admitted
        PROVE  l \in sent'[p] \cup processed'
    BY <1>0, <2>2, <2>3, <2>6
  <2> QED
    BY <2>2, <2>5, <2>6
<1>7. CASE ProcessorFails(p)
  BY <1>0, <1>7 DEF ProcessorFails
<1> QED
  BY <1>1, <1>2, <1>3, <1>4, <1>5, <1>6, <1>7 DEF ProcessorStep

(* The submitter of the inbox q records a message it was sent. *)
LEMMA RecordScanStep ==
  ASSUME ScanInv, StatusInv, NEW p \in Inboxes, NEW q \in Inboxes, Record(q)
  PROVE  ScanOK(p)'
<1>1. PICK l \in sent[q] \ processed : processed' = processed \cup {l}
  BY DEF Record
<1>2. UNCHANGED <<sent, message_leaf_index, ppc>>
  BY DEF Record, procVars
<1>3. l < message_leaf_index[q] /\ Destination[l] = q
  BY <1>1 DEF StatusInv, ScanOK
<1>4. ASSUME ppc[p] \in {"await", "ingest"}
      PROVE  l # message_leaf_index[p]
  <2>1. Destination[message_leaf_index[p]] = p
    BY <1>4 DEF StatusInv, ScanOK
  <2>2. message_leaf_index[p] \in Int
    BY FetcherAssumption DEF ScanInv, TypeOK
  <2> QED
    BY <1>3, <2>1, <2>2
<1>5. ScanOK(p)
  BY DEF StatusInv
<1> QED
  BY <1>1, <1>2, <1>4, <1>5 DEF ScanOK

(* Every step keeps the invariant. *)
LEMMA StatusInvStep == ScanInv /\ StatusInv /\ [Next]_vars => StatusInv'
<1> SUFFICES ASSUME ScanInv, StatusInv, [Next]_vars, NEW p \in Inboxes
             PROVE  ScanOK(p)'
  BY DEF StatusInv
<1>0. ScanOK(p)
  BY DEF StatusInv
<1>1. CASE StartProcess
  BY <1>1, FetcherAssumption DEF StartProcess, ScanOK, Leaves
<1>2. ASSUME UNCHANGED <<sent[p], ppc[p], message_leaf_index[p], processed>>
      PROVE  ScanOK(p)'
  BY <1>0, <1>2 DEF ScanOK
<1>3. ASSUME NEW q \in Inboxes, q # p, ProcessorStep(q) \/ ProcessorFails(q)
      PROVE  ScanOK(p)'
  <2>1. /\ ppc \in [Inboxes -> {"first", "scan", "await", "ingest", "stopped", "panicked"}]
        /\ message_leaf_index \in [Inboxes -> 0 .. NumLeaves]
        /\ sent \in [Inboxes -> SUBSET Leaves]
    BY DEF ScanInv, TypeOK
  <2>2. UNCHANGED <<sent[p], ppc[p], message_leaf_index[p], processed>>
    BY <1>3, <2>1 DEF ProcessorStep, FirstCheckpoint, Skip, Work, Changed, TakeCheckpoint,
                      Ingest, ProveAndSend, Send, Panic, ProcessorFails, Goto, Advance, dbVars
  <2> QED
    BY <1>2, <2>2
<1>4. CASE PutLeaf \/ PutMessage \/ UNCHANGED vars
  BY <1>2, <1>4 DEF PutLeaf, PutMessage, vars, procVars, dbVars
<1>5. CASE ValidatorsSign \/ FetcherStep \/ FetcherTrouble
  BY <1>2, <1>5 DEF ValidatorsSign, FetcherStep, FetcherTrouble, procVars, dbVars
<1> QED
  BY <1>1, <1>3, <1>4, <1>5, OwnScanStep, RecordScanStep DEF Next, Crash, RestartAfterExit

(* Initially nothing was scanned. *)
LEMMA StatusInvInit == Init => StatusInv
BY FetcherAssumption DEF Init, StatusInv, ScanOK, Leaves

(* The invariant of the scan holds of every reachable state. *)
THEOREM StatusInvariant == Spec => []StatusInv
BY StatusInvInit, ScanInvariant, StatusInvStep, PTL DEF Spec

(* The scan passes no admitted message of its inbox that is neither sent nor *)
(* recorded.                                                                 *)
THEOREM NothingPassedHolds == Spec => []NothingPassed
<1>1. StatusInv => NothingPassed
  BY DEF StatusInv, ScanOK, NothingPassed, At
<1> QED
  BY <1>1, StatusInvariant, PTL

(* What a step hands over was not recorded before it. *)
LEMMA SendStep == ScanInv /\ StatusInv /\ [Next]_vars =>
                    \A p \in Inboxes : (sent'[p] \ sent[p]) \cap processed = {}
<1> SUFFICES ASSUME ScanInv, StatusInv, [Next]_vars, NEW p \in Inboxes
             PROVE  (sent'[p] \ sent[p]) \cap processed = {}
  OBVIOUS
<1>0. sent \in [Inboxes -> SUBSET Leaves]
  BY DEF ScanInv, TypeOK
<1>1. ASSUME NEW q \in Inboxes, ProveAndSend(q)
      PROVE  (sent'[p] \ sent[p]) \cap processed = {}
  <2>1. message_leaf_index[q] \notin processed
    BY <1>1 DEF StatusInv, ScanOK, ProveAndSend
  <2> QED
    BY <1>0, <1>1, <2>1 DEF ProveAndSend, Send, Panic, At
<1>2. ASSUME NEW q \in Inboxes, ProcessorStep(q) \/ ProcessorFails(q) \/ Record(q),
             ~ ProveAndSend(q)
      PROVE  UNCHANGED sent
  BY <1>2 DEF ProcessorStep, FirstCheckpoint, Skip, Work, Changed, Ingest, ProcessorFails,
              Record, procVars
<1>3. CASE ValidatorsSign \/ FetcherStep \/ FetcherTrouble \/ PutLeaf \/ PutMessage
           \/ UNCHANGED vars
  BY <1>3 DEF ValidatorsSign, FetcherStep, FetcherTrouble, PutLeaf, PutMessage, vars, procVars
<1>4. CASE StartProcess
  BY <1>4 DEF StartProcess
<1> QED
  BY <1>1, <1>2, <1>3, <1>4 DEF Next, Crash, RestartAfterExit

(* The status a processor read before its awaits is never stale when it sends. *)
THEOREM NeverSentAfterRecordedHolds == Spec => NeverSentAfterRecorded
<1>1. ScanInv /\ StatusInv /\ [Next]_vars =>
        [\A p \in Inboxes : (sent'[p] \ sent[p]) \cap processed = {}]_vars
  BY SendStep
<1> QED
  BY <1>1, ScanInvariant, StatusInvariant, PTL DEF Spec, NeverSentAfterRecorded
=============================================================================
