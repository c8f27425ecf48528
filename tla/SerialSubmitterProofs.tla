----------------------- MODULE SerialSubmitterProofs -----------------------
(***************************************************************************)
(* Proofs about SerialSubmitter for every number of messages, faults,      *)
(* crashes and re-orgs.                                                    *)
(***************************************************************************)
EXTENDS SerialSubmitter, Integers, TLAPS

(***************************************************************************)
(* What requeueing and picking do to the types of the queues.              *)
(***************************************************************************)

(* A failed message stays a message when its retry count grows. *)
LEMMA RetryIsMessage ==
  ASSUME NEW m \in Message
  PROVE  [m EXCEPT !.num_retries = @ + 1] \in Message
BY DEF Message

(* The message the processor makes for a leaf is well formed. *)
LEMMA FreshIsMessage ==
  ASSUME NEW l \in Leaves
  PROVE  Fresh(l) \in Message
BY DEF Message, Fresh

(* There is a leaf 0, which the idle submitter's placeholder names. *)
LEMMA ZeroIsLeaf == 0 \in Leaves
BY SubmitterAssumption DEF Leaves

(* Every step of the submitter, the processor and the chain keeps the types. *)
LEMMA TypeStep == TypeOK /\ [Next]_vars => TypeOK'
<1> SUFFICES ASSUME TypeOK, [Next]_vars PROVE TypeOK'
  OBVIOUS
<1> USE SubmitterAssumption
<1>f. Fresh(0) \in Message
  BY ZeroIsLeaf, FreshIsMessage
<1>r. Requeue(run_queue, msg) \in Seq(Message)
  BY RetryIsMessage DEF TypeOK, Requeue
<1>1. CASE ProcessorSkip
  BY <1>1 DEF ProcessorSkip, TypeOK, queueVars, chainVars, bounds
<1>2. CASE ProcessorSend
  <2>1. nextLeaf \in Leaves
    BY <1>2 DEF ProcessorSend, TypeOK, Leaves
  <2> QED
    BY <1>2, <2>1, FreshIsMessage DEF ProcessorSend, TypeOK, chainVars, bounds
<1>3. CASE ProcessorSendFails
  BY <1>3 DEF ProcessorSendFails, TypeOK, queueVars, chainVars, bounds
<1>4. CASE ProcessorStops
  BY <1>4 DEF ProcessorStops, Fault, TypeOK, queueVars, chainVars
<1>5. CASE TickDisconnected
  BY <1>5, <1>f DEF TickDisconnected, StopTask, TypeOK, procVars, chainVars, bounds
<1>6. CASE TickPick
  <2> DEFINE queue == Promote(run_queue, channel)
  <2>1. queue \in Seq(Message)
    BY DEF TypeOK, Promote
  <2>2. queue # <<>>
    BY <1>6 DEF TickPick
  <2>3. Head(queue) \in Message /\ Tail(queue) \in Seq(Message)
    BY <2>1, <2>2
  <2> QED
    BY <1>6, <2>3 DEF TickPick, TypeOK, procVars, chainVars, bounds
<1>7. CASE StatusProcessed
  BY <1>7, <1>f
  DEF StatusProcessed, RecordProcessSuccess, Finish, TypeOK, Message, procVars,
      queueVars, chainVars, bounds
<1>8. CASE StatusNone
  BY <1>8 DEF StatusNone, TypeOK, procVars, queueVars, chainVars, bounds
<1>9. CASE StatusFails
  BY <1>9, <1>f DEF StatusFails, StopTask, Fault, TypeOK, procVars, chainVars
<1>10. CASE EstimateOk
  BY <1>10 DEF EstimateOk, TypeOK, procVars, queueVars, chainVars, bounds
<1>11. CASE EstimateReverts
  BY <1>11, <1>f, <1>r
  DEF EstimateReverts, ProcessingFailed, Finish, TypeOK, procVars, chainVars, bounds
<1>12. CASE EstimateFails
  BY <1>12, <1>f, <1>r
  DEF EstimateFails, ProcessingFailed, Finish, Fault, TypeOK, procVars, chainVars
<1>13. CASE SendOk
  BY <1>13 DEF SendOk, TypeOK, procVars, queueVars, chainVars, bounds
<1>14. CASE SendFails
  BY <1>14, <1>f, <1>r
  DEF SendFails, ProcessingFailed, Finish, Fault, TypeOK, Message, procVars
<1>15. CASE ReceiptArrives
  BY <1>15, <1>f
  DEF ReceiptArrives, RecordProcessSuccess, Finish, TypeOK, Message, procVars,
      queueVars, bounds
<1>16. CASE ReceiptDropped
  BY <1>16, <1>f, <1>r
  DEF ReceiptDropped, ProcessingFailed, Finish, TypeOK, procVars, chainVars, bounds
<1>17. CASE ReceiptFails
  BY <1>17, <1>f, <1>r
  DEF ReceiptFails, ProcessingFailed, Finish, Fault, TypeOK, Message, procVars
<1>18. CASE MineAwaited
  BY <1>18 DEF MineAwaited, TypeOK, Message, procVars, queueVars, bounds
<1>19. CASE DropAwaited
  BY <1>19 DEF DropAwaited, Fault, TypeOK, procVars, queueVars, chainVars
<1>20. CASE \E l \in Leaves : OrphanResolved(l) \/ Reorg(l)
  <2>1. PICK l \in Leaves : OrphanResolved(l) \/ Reorg(l)
    BY <1>20
  <2>2. CASE OrphanResolved(l)
    BY <2>2 DEF OrphanResolved, TypeOK, procVars, queueVars, bounds
  <2>3. CASE Reorg(l)
    BY <2>3 DEF Reorg, TypeOK, procVars, queueVars
  <2> QED
    BY <2>1, <2>2, <2>3
<1>21. CASE \E l \in Contested : RivalDelivers(l)
  BY <1>21 DEF RivalDelivers, TypeOK, procVars, queueVars, bounds
<1>22. CASE Crash
  BY <1>22, <1>f DEF Crash, StartProcess, Finish, TypeOK, Message
<1>23. CASE RestartAfterExit
  BY <1>23, <1>f DEF RestartAfterExit, StartProcess, Finish, TypeOK, Message
<1>24. CASE UNCHANGED vars
  BY <1>24 DEF vars, TypeOK, procVars, queueVars, chainVars, bounds
<1> QED
  BY <1>1, <1>2, <1>3, <1>4, <1>5, <1>6, <1>7, <1>8, <1>9, <1>10, <1>11, <1>12,
     <1>13, <1>14, <1>15, <1>16, <1>17, <1>18, <1>19, <1>20, <1>21, <1>22, <1>23,
     <1>24
  DEF Next, ProcessorStep, SubmitterStep, CallFails, Chain

(* Type correctness: every reachable state has the declared types. *)
THEOREM TypeCorrect == Spec => []TypeOK
<1>1. Init => TypeOK
  BY SubmitterAssumption, ZeroIsLeaf, FreshIsMessage DEF Init, TypeOK
<1> QED
  BY <1>1, TypeStep, PTL DEF Spec
-----------------------------------------------------------------------------
(***************************************************************************)
(* What the operations on queues do to the leaves in them.                 *)
(***************************************************************************)

(* The elements of a concatenation, by position. *)
LEMMA ConcatAt ==
  ASSUME NEW s \in Seq(Message), NEW t \in Seq(Message)
  PROVE  /\ Len(s) \in Nat /\ Len(t) \in Nat
         /\ s \o t \in Seq(Message)
         /\ Len(s \o t) = Len(s) + Len(t)
         /\ \A i \in 1 .. Len(s) : (s \o t)[i] = s[i]
         /\ \A i \in 1 .. Len(t) : (s \o t)[Len(s) + i] = t[i]
         /\ \A i \in 1 .. Len(s \o t) : i > Len(s) =>
              i - Len(s) \in 1 .. Len(t) /\ (s \o t)[i] = t[i - Len(s)]
OBVIOUS

(* A queue of messages holds leaves. *)
LEMMA LeavesAreLeaves ==
  ASSUME NEW q \in Seq(Message)
  PROVE  LeavesIn(q) \subseteq Leaves
<1>1. \A i \in 1 .. Len(q) : q[i] \in Message
  OBVIOUS
<1> QED
  BY <1>1 DEF LeavesIn, Message

(* Promotion joins the leaves of the batch and of the queue. *)
LEMMA ConcatLeaves ==
  ASSUME NEW s \in Seq(Message), NEW t \in Seq(Message)
  PROVE  LeavesIn(s \o t) = LeavesIn(s) \cup LeavesIn(t)
<1>1. LeavesIn(s) \subseteq LeavesIn(s \o t)
  BY ConcatAt DEF LeavesIn
<1>2. LeavesIn(t) \subseteq LeavesIn(s \o t)
  <2> SUFFICES ASSUME NEW i \in 1 .. Len(t) PROVE t[i].leaf \in LeavesIn(s \o t)
    BY DEF LeavesIn
  <2>1. Len(s) + i \in 1 .. Len(s \o t) /\ (s \o t)[Len(s) + i] = t[i]
    BY ConcatAt
  <2> QED
    BY <2>1 DEF LeavesIn
<1>3. LeavesIn(s \o t) \subseteq LeavesIn(s) \cup LeavesIn(t)
  <2> SUFFICES ASSUME NEW i \in 1 .. Len(s \o t)
               PROVE  (s \o t)[i].leaf \in LeavesIn(s) \cup LeavesIn(t)
    BY DEF LeavesIn
  <2>1. CASE i \in 1 .. Len(s)
    BY <2>1, ConcatAt DEF LeavesIn
  <2>2. CASE i > Len(s)
    BY <2>2, ConcatAt DEF LeavesIn
  <2> QED
    BY <2>1, <2>2, ConcatAt
<1> QED
  BY <1>1, <1>2, <1>3

(* Two queues without repeated leaves, and none in common, concatenate to one. *)
LEMMA ConcatDistinct ==
  ASSUME NEW s \in Seq(Message), NEW t \in Seq(Message),
         Distinct(s), Distinct(t), LeavesIn(s) \cap LeavesIn(t) = {}
  PROVE  Distinct(s \o t)
<1> SUFFICES ASSUME NEW i \in 1 .. Len(s \o t), NEW j \in 1 .. Len(s \o t),
                    (s \o t)[i].leaf = (s \o t)[j].leaf
             PROVE  i = j
  BY DEF Distinct
<1>1. CASE i \in 1 .. Len(s) /\ j \in 1 .. Len(s)
  BY <1>1, ConcatAt DEF Distinct
<1>2. CASE i > Len(s) /\ j > Len(s)
  <2>1. t[i - Len(s)].leaf = t[j - Len(s)].leaf
    BY <1>2, ConcatAt
  <2>2. i - Len(s) = j - Len(s)
    BY <1>2, <2>1, ConcatAt DEF Distinct
  <2> QED
    BY <2>2, ConcatAt
<1>3. ASSUME NEW k \in 1 .. Len(s), NEW m \in 1 .. Len(t)
      PROVE  s[k].leaf # t[m].leaf
  BY DEF LeavesIn
<1>4. CASE i \in 1 .. Len(s) /\ j > Len(s)
  BY <1>3, <1>4, ConcatAt
<1>5. CASE j \in 1 .. Len(s) /\ i > Len(s)
  BY <1>3, <1>5, ConcatAt
<1> QED
  BY <1>1, <1>2, <1>4, <1>5, ConcatAt

(* Popping the front removes exactly its leaf. *)
LEMMA PopLeaves ==
  ASSUME NEW q \in Seq(Message), q # <<>>, Distinct(q)
  PROVE  /\ LeavesIn(Tail(q)) = LeavesIn(q) \ {Head(q).leaf}
         /\ Head(q).leaf \in LeavesIn(q)
         /\ Distinct(Tail(q))
<1>1. /\ Len(Tail(q)) = Len(q) - 1
      /\ \A i \in 1 .. Len(Tail(q)) : Tail(q)[i] = q[i + 1]
      /\ Head(q) = q[1]
      /\ Len(q) \in Nat \ {0}
  OBVIOUS
<1>2. Head(q).leaf \in LeavesIn(q)
  BY <1>1 DEF LeavesIn
<1>3. Distinct(Tail(q))
  BY <1>1 DEF Distinct
<1>4. LeavesIn(Tail(q)) \subseteq LeavesIn(q) \ {Head(q).leaf}
  BY <1>1 DEF LeavesIn, Distinct
<1>5. LeavesIn(q) \ {Head(q).leaf} \subseteq LeavesIn(Tail(q))
  <2> SUFFICES ASSUME NEW i \in 1 .. Len(q), q[i].leaf # Head(q).leaf
               PROVE  q[i].leaf \in LeavesIn(Tail(q))
    BY DEF LeavesIn
  <2>1. i - 1 \in 1 .. Len(Tail(q)) /\ Tail(q)[i - 1] = q[i]
    BY <1>1
  <2> QED
    BY <2>1 DEF LeavesIn
<1> QED
  BY <1>2, <1>3, <1>4, <1>5

(* Pushing at the back adds exactly the message's leaf. *)
LEMMA PushLeaves ==
  ASSUME NEW q \in Seq(Message), NEW m \in Message
  PROVE  /\ LeavesIn(Append(q, m)) = LeavesIn(q) \cup {m.leaf}
         /\ Distinct(q) /\ m.leaf \notin LeavesIn(q) => Distinct(Append(q, m))
BY DEF LeavesIn, Distinct

(* A batch of fresh messages may go before anything, and a retried one last. *)
LEMMA FreshFirstKept ==
  ASSUME NEW s \in Seq(Message), NEW q \in Seq(Message), FreshFirst(q)
  PROVE  /\ (\A i \in 1 .. Len(s) : s[i].num_retries = 0) => FreshFirst(s \o q)
         /\ \A m \in Message : m.num_retries > 0 => FreshFirst(Append(q, m))
         /\ q # <<>> => FreshFirst(Tail(q))
<1>1. (\A i \in 1 .. Len(s) : s[i].num_retries = 0) => FreshFirst(s \o q)
  BY DEF FreshFirst
<1>0. Len(q) \in Nat /\ \A m \in Message : Len(Append(q, m)) = Len(q) + 1
  OBVIOUS
<1>2. \A m \in Message : m.num_retries > 0 => FreshFirst(Append(q, m))
  <2> SUFFICES ASSUME NEW m \in Message, m.num_retries > 0,
                      NEW i \in 1 .. (Len(q) + 1), NEW j \in 1 .. (Len(q) + 1),
                      i < j, Append(q, m)[i].num_retries > 0
               PROVE  Append(q, m)[j].num_retries > 0
    BY <1>0 DEF FreshFirst
  <2>1. i \in 1 .. Len(q)
    BY <1>0
  <2>2. CASE j = Len(q) + 1
    <3>1. Append(q, m)[Len(q) + 1] = m
      OBVIOUS
    <3> QED
      BY <2>2, <3>1
  <2>3. CASE j \in 1 .. Len(q)
    BY <2>1, <2>3 DEF FreshFirst
  <2> QED
    BY <2>1, <2>2, <2>3
<1>3. q # <<>> => FreshFirst(Tail(q))
  BY DEF FreshFirst
<1> QED
  BY <1>1, <1>2, <1>3
-----------------------------------------------------------------------------
(***************************************************************************)
(* What a step does to the messages the pipeline holds, whatever else it   *)
(* does: every action has one of these effects.                            *)
(***************************************************************************)
Stopped == pc = "stopped"

Keeps ==
  /\ UNCHANGED <<nextLeaf, channel, run_queue, processed, Busy, Stopped>>
  /\ Busy => msg' = msg

Skips ==
  /\ nextLeaf \in processed
  /\ nextLeaf' = nextLeaf + 1
  /\ UNCHANGED <<channel, run_queue, processed, pc, msg>>

Sends ==
  /\ nextLeaf \in Leaves \ processed
  /\ nextLeaf' = nextLeaf + 1
  /\ channel' = Append(channel, Fresh(nextLeaf))
  /\ UNCHANGED <<run_queue, processed, pc, msg>>

Stops == StopTask /\ UNCHANGED <<nextLeaf, processed>>

Picks == TickPick

Records == Busy /\ RecordProcessSuccess /\ UNCHANGED <<nextLeaf, channel, run_queue>>

Fails == Busy /\ ProcessingFailed /\ UNCHANGED <<nextLeaf, channel, processed>>

Restarts ==
  /\ nextLeaf' = 0 /\ channel' = <<>> /\ run_queue' = <<>> /\ pc' = "idle"
  /\ UNCHANGED processed

(* Every step of Next has one of the eight effects. *)
LEMMA StepEffect ==
  ASSUME TypeOK, [Next]_vars
  PROVE  Keeps \/ Skips \/ Sends \/ Stops \/ Picks \/ Records \/ Fails \/ Restarts
<1> USE DEF queueVars, procVars, chainVars, bounds
<1>1. ProcessorSkip => Skips
  BY DEF ProcessorSkip, SkipProcessed, Skips
<1>2. ProcessorSend => Sends
  BY SubmitterAssumption DEF ProcessorSend, SkipProcessed, Sends, TypeOK, Leaves
<1>3. ProcessorSendFails \/ ProcessorStops => Keeps
  BY DEF ProcessorSendFails, ProcessorStops, Keeps, Busy, Stopped
<1>4. TickDisconnected \/ StatusFails => Stops
  BY DEF TickDisconnected, StatusFails, Stops
<1>5. StatusNone \/ EstimateOk \/ SendOk => Keeps
  BY DEF StatusNone, EstimateOk, SendOk, Keeps, Busy, Stopped
<1>6. StatusProcessed \/ ReceiptArrives => Records
  BY DEF StatusProcessed, ReceiptArrives, Records, Busy
<1>7. EstimateReverts \/ EstimateFails \/ SendFails \/ ReceiptDropped \/ ReceiptFails
        => Fails
  BY DEF EstimateReverts, EstimateFails, SendFails, ReceiptDropped, ReceiptFails,
         Fails, Busy
<1>8. Chain => Keeps
  BY DEF Chain, MineAwaited, DropAwaited, OrphanResolved, RivalDelivers, Reorg, Keeps,
         Busy, Stopped
<1>9. Crash \/ RestartAfterExit => Restarts
  BY DEF Crash, RestartAfterExit, StartProcess, Finish, Restarts
<1>10. UNCHANGED vars => Keeps
  BY DEF vars, Keeps, Busy, Stopped
<1> QED
  BY <1>1, <1>2, <1>3, <1>4, <1>5, <1>6, <1>7, <1>8, <1>9, <1>10
  DEF Next, ProcessorStep, SubmitterStep, CallFails, Picks

(***************************************************************************)
(* The inductive invariant.  HeldOnce needs HeldBelow (the next leaf to be *)
(* sent is not held yet), FreshBeforeRetried needs ChannelFresh (a batch   *)
(* promoted to the front holds no retried message).                        *)
(***************************************************************************)
HeldBelow == \A l \in Held : l < nextLeaf
ChannelFresh == \A i \in 1 .. Len(channel) : channel[i].num_retries = 0

PipelineInv ==
  TypeOK /\ HeldOnce /\ HeldBelow /\ NothingForgotten /\ ChannelFresh
    /\ FreshBeforeRetried

(* The initial queues are empty. *)
LEMMA PipelineInvInit == Init => PipelineInv
<1> SUFFICES ASSUME Init PROVE PipelineInv
  OBVIOUS
<1>1. TypeOK
  BY SubmitterAssumption, ZeroIsLeaf, FreshIsMessage DEF Init, TypeOK
<1>2. LeavesIn(channel) = {} /\ LeavesIn(run_queue) = {} /\ Held = {} /\ ~ Busy
  BY DEF Init, LeavesIn, Held, Busy
<1>3. HeldOnce /\ HeldBelow
  BY <1>2 DEF Init, HeldOnce, HeldBelow, Distinct
<1>4. NothingForgotten
  BY DEF Init, NothingForgotten, Leaves
<1>5. ChannelFresh /\ FreshBeforeRetried
  BY DEF Init, ChannelFresh, FreshBeforeRetried, FreshFirst
<1> QED
  BY <1>1, <1>3, <1>4, <1>5 DEF PipelineInv

(* Each of the eight effects keeps the invariant. *)
LEMMA PipelineInvStep ==
  ASSUME PipelineInv, [Next]_vars
  PROVE  PipelineInv'
<1> USE DEF PipelineInv
<1>t. TypeOK'
  BY TypeStep
<1>q. /\ channel \in Seq(Message) /\ run_queue \in Seq(Message) /\ msg \in Message
      /\ nextLeaf \in Nat
  BY SubmitterAssumption DEF TypeOK
<1>n. \A l \in Held : l \in Nat
  <2>1. Held \subseteq Leaves
    BY <1>q, LeavesAreLeaves DEF Held, Message
  <2> QED
    BY <2>1 DEF Leaves
<1>1. CASE Keeps
  <2>1. Held' = Held
    BY <1>1 DEF Keeps, Held, LeavesIn
  <2>2. HeldOnce'
    <3>1. LeavesIn(channel)' = LeavesIn(channel) /\ LeavesIn(run_queue)' = LeavesIn(run_queue)
      BY <1>1 DEF Keeps, LeavesIn
    <3>2. Distinct(channel)' /\ Distinct(run_queue)'
      BY <1>1 DEF Keeps, HeldOnce, Distinct
    <3> QED
      BY <1>1, <2>1, <3>1, <3>2 DEF Keeps, HeldOnce
  <2>5. HeldBelow'
    BY <1>1, <2>1 DEF Keeps, HeldBelow
  <2>3. NothingForgotten'
    BY <1>1, <2>1 DEF Keeps, NothingForgotten, Stopped
  <2>4. ChannelFresh' /\ FreshBeforeRetried'
    BY <1>1 DEF Keeps, ChannelFresh, FreshBeforeRetried, FreshFirst
  <2> QED
    BY <1>t, <2>2, <2>3, <2>4, <2>5
<1>2. CASE Skips
  <2>1. Held' = Held /\ Busy' = Busy
    BY <1>2 DEF Skips, Held, LeavesIn, Busy
  <2>2. HeldOnce'
    <3>1. LeavesIn(channel)' = LeavesIn(channel) /\ LeavesIn(run_queue)' = LeavesIn(run_queue)
      BY <1>2 DEF Skips, LeavesIn
    <3>2. Distinct(channel)' /\ Distinct(run_queue)'
      BY <1>2 DEF Skips, HeldOnce, Distinct
    <3> QED
      BY <1>2, <2>1, <3>1, <3>2 DEF Skips, HeldOnce
  <2>3. HeldBelow'
    BY <1>2, <1>q, <1>n, <2>1 DEF Skips, HeldBelow
  <2>4. NothingForgotten'
    BY <1>2, <1>q, <2>1 DEF Skips, NothingForgotten, Leaves
  <2>5. ChannelFresh' /\ FreshBeforeRetried'
    BY <1>2 DEF Skips, ChannelFresh, FreshBeforeRetried, FreshFirst
  <2> QED
    BY <1>t, <2>2, <2>3, <2>4, <2>5
<1>3. CASE Sends
  <2> DEFINE m == Fresh(nextLeaf)
  <2>1. m \in Message /\ m.leaf = nextLeaf /\ m.num_retries = 0
    BY <1>3, FreshIsMessage DEF Sends, Fresh
  <2>2. nextLeaf \notin Held
    BY <1>q DEF HeldBelow
  <2>3. LeavesIn(channel') = LeavesIn(channel) \cup {nextLeaf}
    BY <1>3, <1>q, <2>1, PushLeaves DEF Sends
  <2>4. LeavesIn(run_queue') = LeavesIn(run_queue) /\ Busy' = Busy /\ msg' = msg
    BY <1>3 DEF Sends, Busy
  <2>5. Held' = Held \cup {nextLeaf}
    BY <2>3, <2>4 DEF Held, LeavesIn
  <2>6. Distinct(channel')
    BY <1>3, <1>q, <2>1, <2>2, PushLeaves DEF Sends, HeldOnce, Held
  <2>7. HeldOnce'
    <3>1. Distinct(channel)' /\ Distinct(run_queue)'
      BY <1>3, <2>6 DEF Sends, HeldOnce, Distinct
    <3>2. LeavesIn(channel)' \cap LeavesIn(run_queue)' = {}
      BY <2>2, <2>3, <2>4 DEF HeldOnce, Held, LeavesIn
    <3>3. (Busy => msg.leaf \notin LeavesIn(channel) \cup LeavesIn(run_queue))'
      BY <2>2, <2>3, <2>4 DEF HeldOnce, Held, LeavesIn
    <3>4. (Held \cap processed = {})'
      BY <1>3, <2>5 DEF HeldOnce, Sends
    <3> QED
      BY <3>1, <3>2, <3>3, <3>4 DEF HeldOnce
  <2>8. HeldBelow'
    BY <1>3, <1>q, <1>n, <2>5 DEF HeldBelow, Sends
  <2>9. NothingForgotten'
    BY <1>3, <1>q, <2>5 DEF Sends, NothingForgotten, Leaves
  <2>10. ChannelFresh'
    BY <1>3, <1>q, <2>1 DEF ChannelFresh, Sends
  <2>11. FreshBeforeRetried'
    BY <1>3 DEF Sends, FreshBeforeRetried, FreshFirst
  <2> QED
    BY <1>t, <2>7, <2>8, <2>9, <2>10, <2>11
<1>4. CASE Stops \/ Restarts
  <2>1. LeavesIn(channel') = {} /\ LeavesIn(run_queue') = {} /\ ~ Busy'
    BY <1>4 DEF Stops, StopTask, Restarts, LeavesIn, Busy
  <2>2. Held' = {}
    BY <2>1 DEF Held, LeavesIn
  <2>3. HeldOnce' /\ HeldBelow'
    BY <1>4, <2>1, <2>2 DEF HeldOnce, HeldBelow, Distinct, Stops, StopTask, Restarts
  <2>4. NothingForgotten'
    BY <1>4 DEF NothingForgotten, Stops, StopTask, Restarts, Leaves
  <2>5. ChannelFresh' /\ FreshBeforeRetried'
    BY <1>4 DEF ChannelFresh, FreshBeforeRetried, FreshFirst, Stops, StopTask, Restarts
  <2> QED
    BY <1>t, <2>3, <2>4, <2>5
<1>5. CASE Picks
  <2> DEFINE queue == Promote(run_queue, channel)
  <2>1. /\ queue \in Seq(Message) /\ queue # <<>> /\ channel' = <<>>
        /\ msg' = Head(queue) /\ run_queue' = Tail(queue) /\ pc = "idle" /\ pc' = "status"
        /\ UNCHANGED <<nextLeaf, processed>>
    BY <1>5, <1>q DEF Picks, TickPick, procVars, Promote
  <2>2. LeavesIn(queue) = LeavesIn(channel) \cup LeavesIn(run_queue)
    BY <1>q, ConcatLeaves DEF Promote
  <2>3. Distinct(queue)
    BY <1>q, ConcatDistinct DEF Promote, HeldOnce
  <2>4. FreshFirst(queue)
    BY <1>q, FreshFirstKept DEF Promote, ChannelFresh, FreshBeforeRetried
  <2> HIDE DEF queue
  <2>5. /\ LeavesIn(run_queue') = LeavesIn(queue) \ {msg'.leaf}
        /\ msg'.leaf \in LeavesIn(queue) /\ Distinct(run_queue')
    BY <2>1, <2>3, PopLeaves
  <2>6. LeavesIn(channel') = {}
    BY <2>1 DEF LeavesIn
  <2>7. Held' = Held
    BY <2>1, <2>2, <2>5, <2>6 DEF Held, Busy, LeavesIn
  <2>8. HeldOnce'
    <3>1. Distinct(channel)' /\ Distinct(run_queue)'
      BY <2>1, <2>5 DEF Distinct
    <3>2. LeavesIn(channel)' \cap LeavesIn(run_queue)' = {}
      BY <2>6 DEF LeavesIn
    <3>3. (Busy => msg.leaf \notin LeavesIn(channel) \cup LeavesIn(run_queue))'
      BY <2>5, <2>6 DEF LeavesIn
    <3>4. (Held \cap processed = {})'
      BY <2>1, <2>7 DEF HeldOnce
    <3> QED
      BY <3>1, <3>2, <3>3, <3>4 DEF HeldOnce
  <2>9. HeldBelow' /\ NothingForgotten'
    BY <2>1, <2>7 DEF HeldBelow, NothingForgotten
  <2>10. ChannelFresh'
    BY <2>1 DEF ChannelFresh
  <2>11. FreshBeforeRetried'
    <3>1. FreshFirst(run_queue')
      BY <2>1, <2>4, FreshFirstKept
    <3> QED
      BY <3>1 DEF FreshBeforeRetried, FreshFirst
  <2> QED
    BY <1>t, <2>8, <2>9, <2>10, <2>11
<1>6. CASE Records
  <2>1. /\ processed' = processed \cup {msg.leaf} /\ ~ Busy' /\ Busy /\ pc # "stopped"
        /\ UNCHANGED <<nextLeaf, channel, run_queue>>
    BY <1>6 DEF Records, RecordProcessSuccess, Finish, Busy
  <2>2. Held = Held' \cup {msg.leaf} /\ msg.leaf \notin Held'
    BY <2>1 DEF Held, HeldOnce, LeavesIn
  <2>3. HeldOnce'
    <3>1. LeavesIn(channel)' = LeavesIn(channel) /\ LeavesIn(run_queue)' = LeavesIn(run_queue)
      BY <2>1 DEF LeavesIn
    <3>2. Distinct(channel)' /\ Distinct(run_queue)'
      BY <2>1 DEF HeldOnce, Distinct
    <3> QED
      BY <2>1, <2>2, <3>1, <3>2 DEF HeldOnce
  <2>4. HeldBelow' /\ NothingForgotten'
    BY <2>1, <2>2 DEF HeldBelow, NothingForgotten
  <2>5. ChannelFresh' /\ FreshBeforeRetried'
    BY <2>1 DEF ChannelFresh, FreshBeforeRetried, FreshFirst
  <2> QED
    BY <1>t, <2>3, <2>4, <2>5
<1>7. CASE Fails
  <2> DEFINE m == [msg EXCEPT !.num_retries = @ + 1]
  <2>1. m \in Message /\ m.leaf = msg.leaf /\ m.num_retries > 0
    BY <1>q, RetryIsMessage DEF Message
  <2>2. /\ run_queue' = Append(run_queue, m) /\ ~ Busy' /\ Busy /\ pc # "stopped"
        /\ UNCHANGED <<nextLeaf, channel, processed>>
    BY <1>7 DEF Fails, ProcessingFailed, Requeue, Finish, Busy
  <2> HIDE DEF m
  <2>3. LeavesIn(run_queue') = LeavesIn(run_queue) \cup {msg.leaf}
    BY <1>q, <2>1, <2>2, PushLeaves
  <2>4. Distinct(run_queue')
    BY <1>q, <2>1, <2>2, PushLeaves DEF HeldOnce
  <2>5. Held' = Held
    BY <2>2, <2>3 DEF Held, LeavesIn
  <2>6. HeldOnce'
    <3>1. Distinct(channel)' /\ Distinct(run_queue)'
      BY <2>2, <2>4 DEF HeldOnce, Distinct
    <3>2. LeavesIn(channel)' \cap LeavesIn(run_queue)' = {}
      BY <2>2, <2>3 DEF HeldOnce, LeavesIn
    <3>4. (Held \cap processed = {})'
      BY <2>2, <2>5 DEF HeldOnce
    <3> QED
      BY <2>2, <3>1, <3>2, <3>4 DEF HeldOnce
  <2>7. HeldBelow' /\ NothingForgotten'
    BY <2>2, <2>5 DEF HeldBelow, NothingForgotten
  <2>8. ChannelFresh'
    BY <2>2 DEF ChannelFresh
  <2>9. FreshBeforeRetried'
    <3>1. FreshFirst(run_queue')
      BY <1>q, <2>1, <2>2, FreshFirstKept DEF FreshBeforeRetried
    <3> QED
      BY <3>1 DEF FreshBeforeRetried, FreshFirst
  <2> QED
    BY <1>t, <2>6, <2>7, <2>8, <2>9
<1> QED
  BY <1>1, <1>2, <1>3, <1>4, <1>5, <1>6, <1>7, StepEffect

(* The inductive invariant holds of every reachable state. *)
THEOREM PipelineInvariant == Spec => []PipelineInv
BY PipelineInvInit, PipelineInvStep, PTL DEF Spec

(* No message is held twice, or held after it is recorded. *)
THEOREM HeldOnceHolds == Spec => []HeldOnce
<1>1. PipelineInv => HeldOnce
  BY DEF PipelineInv
<1> QED
  BY <1>1, PipelineInvariant, PTL

(* No message the processor has moved past is lost while the submitter lives. *)
THEOREM NothingForgottenHolds == Spec => []NothingForgotten
<1>1. PipelineInv => NothingForgotten
  BY DEF PipelineInv
<1> QED
  BY <1>1, PipelineInvariant, PTL

(* A failed message never stands before one that was never tried. *)
THEOREM FreshBeforeRetriedHolds == Spec => []FreshBeforeRetried
<1>1. PipelineInv => FreshBeforeRetried
  BY DEF PipelineInv
<1> QED
  BY <1>1, PipelineInvariant, PTL

(* A step from a state of the invariant that picks a message picks one that   *)
(* is not recorded, and no step forgets that a leaf is recorded.              *)
LEMMA CommitStep ==
  ASSUME PipelineInv, [Next]_vars
  PROVE  /\ processed \subseteq processed'
         /\ pc = "idle" /\ pc' = "status" => msg'.leaf \notin processed
<1>1. CASE Keeps
  BY <1>1 DEF Keeps, Busy
<1>2. CASE Skips \/ Sends
  BY <1>2 DEF Skips, Sends
<1>3. CASE Stops \/ Restarts
  BY <1>3 DEF Stops, StopTask, Restarts
<1>4. CASE Picks
  <2> DEFINE queue == Promote(run_queue, channel)
  <2>1. channel \in Seq(Message) /\ run_queue \in Seq(Message)
    BY DEF PipelineInv, TypeOK
  <2>2. queue \in Seq(Message) /\ queue # <<>> /\ msg' = Head(queue)
        /\ processed' = processed
    BY <1>4, <2>1 DEF Picks, TickPick, Promote
  <2>3. LeavesIn(queue) = LeavesIn(channel) \cup LeavesIn(run_queue) /\ Distinct(queue)
    BY <2>1, ConcatLeaves, ConcatDistinct DEF Promote, PipelineInv, HeldOnce
  <2>4. msg'.leaf \in LeavesIn(queue)
    BY <2>2, <2>3, PopLeaves
  <2>5. msg'.leaf \in Held
    BY <2>3, <2>4 DEF Held
  <2> QED
    BY <2>2, <2>5 DEF PipelineInv, HeldOnce
<1>5. CASE Records
  BY <1>5 DEF Records, Busy, RecordProcessSuccess
<1>6. CASE Fails
  BY <1>6 DEF Fails, Busy
<1> QED
  BY <1>1, <1>2, <1>3, <1>4, <1>5, <1>6, StepEffect DEF PipelineInv

(* Recording is final: no later incarnation of the process picks the message. *)
THEOREM CommitIsFinalHolds == Spec => CommitIsFinal
<1>1. PipelineInv /\ [Next]_vars
        => [processed \subseteq processed'
            /\ (pc = "idle" /\ pc' = "status" => msg'.leaf \notin processed)]_vars
  BY CommitStep
<1> QED
  BY <1>1, PipelineInvariant, PTL DEF Spec, CommitIsFinal

-----------------------------------------------------------------------------
(***************************************************************************)
(* Retries are served in order: what stands before a retried message stood *)
(* before it already.                                                      *)
(***************************************************************************)
AheadIn(q, l) ==
  {q[i].leaf : i \in {k \in 1 .. Len(q) :
     /\ q[k].num_retries > 0
     /\ \E j \in (k + 1) .. Len(q) : q[j].leaf = l /\ q[j].num_retries > 0}}

(* A queue whose retried messages were, in the same order, in another one. *)
LEMMA AheadKept ==
  ASSUME NEW q \in Seq(Message), NEW r \in Seq(Message), NEW l, NEW d \in Int,
         \A i \in 1 .. Len(r) : r[i].num_retries > 0 /\ (r[i].leaf = l \/ i < Len(r)) =>
           i + d \in 1 .. Len(q) /\ q[i + d] = r[i]
  PROVE  AheadIn(r, l) \subseteq AheadIn(q, l)
<1>1. Len(q) \in Nat /\ Len(r) \in Nat
  OBVIOUS
<1>2. ASSUME NEW i \in 1 .. Len(r), NEW j \in (i + 1) .. Len(r),
             r[i].num_retries > 0, r[j].leaf = l, r[j].num_retries > 0
      PROVE  r[i].leaf \in AheadIn(q, l)
  <2>1. i + d \in 1 .. Len(q) /\ q[i + d] = r[i]
    BY <1>1, <1>2
  <2>2. j + d \in 1 .. Len(q) /\ q[j + d] = r[j]
    BY <1>1, <1>2
  <2>3. j + d \in ((i + d) + 1) .. Len(q)
    BY <1>1, <2>2
  <2> QED
    BY <1>2, <2>1, <2>2, <2>3 DEF AheadIn
<1> QED
  BY <1>2 DEF AheadIn

(* Tail drops the front, a failure pushes the message itself: neither reorders. *)
LEMMA RetriesStep ==
  ASSUME PipelineInv, [Next]_vars, NEW l \in LeavesIn(run_queue) \cap LeavesIn(run_queue')
  PROVE  AheadIn(run_queue', l) \subseteq AheadIn(run_queue, l)
<1>q. /\ channel \in Seq(Message) /\ run_queue \in Seq(Message) /\ msg \in Message
  BY DEF PipelineInv, TypeOK
<1>1. CASE Keeps \/ Skips \/ Sends \/ Records
  BY <1>1 DEF Keeps, Skips, Sends, Records
<1>2. CASE Stops \/ Restarts
  BY <1>2 DEF Stops, StopTask, Restarts, LeavesIn
<1>3. CASE Picks
  <2> DEFINE queue == channel \o run_queue
  <2>1. queue # <<>> /\ run_queue' = Tail(queue)
    BY <1>3 DEF Picks, TickPick, Promote
  <2>2. Len(channel) \in Nat /\ 1 - Len(channel) \in Int
    BY <1>q
  <2>3. Tail(queue) \in Seq(Message)
    BY <1>q, <2>1
  <2>4. ASSUME NEW i \in 1 .. Len(Tail(queue)), Tail(queue)[i].num_retries > 0
        PROVE  /\ i + (1 - Len(channel)) \in 1 .. Len(run_queue)
               /\ run_queue[i + (1 - Len(channel))] = Tail(queue)[i]
    <3>1. i + 1 \in 1 .. Len(queue) /\ Tail(queue)[i] = queue[i + 1]
      BY <1>q, <2>1
    <3>2. i + 1 > Len(channel)
      <4> SUFFICES ASSUME i + 1 \in 1 .. Len(channel)
                   PROVE  FALSE
        BY <2>2, <3>1
      <4>1. queue[i + 1] = channel[i + 1]
        BY <1>q, ConcatAt
      <4> QED
        BY <2>4, <3>1, <4>1 DEF PipelineInv, ChannelFresh
    <3>3. /\ (i + 1) - Len(channel) \in 1 .. Len(run_queue)
          /\ queue[i + 1] = run_queue[(i + 1) - Len(channel)]
      BY <1>q, <3>1, <3>2, ConcatAt
    <3>4. (i + 1) - Len(channel) = i + (1 - Len(channel))
      BY <2>2
    <3> QED
      BY <3>1, <3>3, <3>4
  <2> HIDE DEF queue
  <2> QED
    BY <1>q, <2>1, <2>2, <2>3, <2>4, AheadKept
<1>4. CASE Fails
  <2> DEFINE m == [msg EXCEPT !.num_retries = @ + 1]
  <2>1. m \in Message /\ m.leaf = msg.leaf
    BY <1>q, RetryIsMessage DEF Message
  <2>2. run_queue' = Append(run_queue, m) /\ Busy
    BY <1>4 DEF Fails, ProcessingFailed, Requeue
  <2> HIDE DEF m
  <2>3. m.leaf # l
    BY <2>1, <2>2 DEF PipelineInv, HeldOnce
  <2>4. /\ Append(run_queue, m) \in Seq(Message)
        /\ Len(Append(run_queue, m)) = Len(run_queue) + 1 /\ Len(run_queue) \in Nat
        /\ \A i \in 1 .. Len(run_queue) : Append(run_queue, m)[i] = run_queue[i]
        /\ Append(run_queue, m)[Len(run_queue) + 1] = m
    BY <1>q, <2>1
  <2>0. PICK d \in Int : d = 0
    OBVIOUS
  <2>5. PICK r \in Seq(Message) : r = Append(run_queue, m)
    BY <2>4
  <2>6. ASSUME NEW i \in 1 .. Len(r), r[i].leaf = l \/ i < Len(r)
        PROVE  i + d \in 1 .. Len(run_queue) /\ run_queue[i + d] = r[i]
    <3>1. i # Len(run_queue) + 1
      BY <2>3, <2>4, <2>5, <2>6
    <3>2. i \in 1 .. Len(run_queue) /\ i + d = i
      BY <2>0, <2>4, <2>5, <3>1
    <3> QED
      BY <2>4, <2>5, <3>2
  <2>7. AheadIn(r, l) \subseteq AheadIn(run_queue, l)
    BY <1>q, <2>6, AheadKept
  <2> QED
    BY <2>2, <2>5, <2>7
<1> QED
  BY <1>1, <1>2, <1>3, <1>4, StepEffect DEF PipelineInv

(* tick() retries messages in the order they failed: while a message waits in *)
(* the run queue, no retried message gets in front of it.                     *)
THEOREM RetriesAreFifoHolds == Spec => RetriesAreFifo
<1>1. PipelineInv /\ [Next]_vars
        => [\A l \in LeavesIn(run_queue) \cap LeavesIn(run_queue') :
              RetriedAhead(l)' \subseteq RetriedAhead(l)]_vars
  BY RetriesStep DEF RetriedAhead, AheadIn
<1> QED
  BY <1>1, PipelineInvariant, PTL DEF Spec, RetriesAreFifo

-----------------------------------------------------------------------------
(***************************************************************************)
(* Only what the inbox has processed is recorded.  The invariant adds what *)
(* is known of the awaited transaction: there is one only while the        *)
(* submitter waits, and if it executed then its leaf was delivered.        *)
(***************************************************************************)
AwaitedInv ==
  /\ awaited # "none" => pc = "receipt"
  /\ awaited = "executed" => msg.leaf \in inbox \cup undone

DeliveryInv == TypeOK /\ AwaitedInv /\ RecordedIsDelivered

(* Each action keeps the delivery invariant. *)
LEMMA DeliveryInvStep ==
  ASSUME DeliveryInv, [Next]_vars
  PROVE  DeliveryInv'
<1> USE DEF DeliveryInv, AwaitedInv, RecordedIsDelivered, procVars, queueVars, chainVars,
            bounds
<1>t. TypeOK'
  BY TypeStep
<1>1. CASE ProcessorStep \/ ProcessorStops
  BY <1>1, <1>t
  DEF ProcessorStep, ProcessorSkip, ProcessorSend, ProcessorSendFails, ProcessorStops
<1>2. CASE TickDisconnected \/ StatusFails
  BY <1>2, <1>t DEF TickDisconnected, StatusFails, StopTask
<1>3. CASE TickPick \/ StatusNone \/ EstimateOk
  BY <1>3, <1>t DEF TickPick, StatusNone, EstimateOk
<1>4. CASE SendOk
  BY <1>4, <1>t DEF SendOk
<1>5. CASE StatusProcessed
  BY <1>5, <1>t DEF StatusProcessed, RecordProcessSuccess, Finish
<1>6. CASE ReceiptArrives
  BY <1>6, <1>t DEF ReceiptArrives, ReceiptRecorded, RecordProcessSuccess, Finish
<1>7. CASE EstimateReverts \/ EstimateFails \/ SendFails \/ ReceiptDropped \/ ReceiptFails
  BY <1>7, <1>t
  DEF EstimateReverts, EstimateFails, SendFails, ReceiptDropped, ReceiptFails,
      ProcessingFailed, Finish
<1>8. CASE MineAwaited
  BY <1>8, <1>t DEF MineAwaited
<1>9. CASE DropAwaited
  BY <1>9, <1>t DEF DropAwaited
<1>10. CASE \E l \in Leaves : OrphanResolved(l) \/ Reorg(l)
  <2>1. PICK l \in Leaves : OrphanResolved(l) \/ Reorg(l)
    BY <1>10
  <2>2. CASE OrphanResolved(l)
    BY <2>2, <1>t DEF OrphanResolved
  <2>3. CASE Reorg(l)
    BY <2>3, <1>t DEF Reorg
  <2> QED
    BY <2>1, <2>2, <2>3
<1>11. CASE \E l \in Contested : RivalDelivers(l)
  BY <1>11, <1>t DEF RivalDelivers
<1>12. CASE Crash \/ RestartAfterExit
  BY <1>12, <1>t DEF Crash, RestartAfterExit, StartProcess, Finish
<1>13. CASE UNCHANGED vars
  BY <1>13, <1>t DEF vars
<1> QED
  BY <1>1, <1>2, <1>3, <1>4, <1>5, <1>6, <1>7, <1>8, <1>9, <1>10, <1>11, <1>12, <1>13
  DEF Next, SubmitterStep, CallFails, Chain

(* The delivery invariant holds of every reachable state. *)
THEOREM DeliveryInvariant == Spec => []DeliveryInv
<1>1. Init => DeliveryInv
  BY PipelineInvInit DEF Init, DeliveryInv, AwaitedInv, RecordedIsDelivered, PipelineInv
<1> QED
  BY <1>1, DeliveryInvStep, PTL DEF Spec

(* A recorded leaf was delivered, up to re-orgs and reverted transactions. *)
THEOREM RecordedIsDeliveredHolds == Spec => []RecordedIsDelivered
<1>1. DeliveryInv => RecordedIsDelivered
  BY DEF DeliveryInv
<1> QED
  BY <1>1, DeliveryInvariant, PTL

-----------------------------------------------------------------------------
(***************************************************************************)
(* The pipeline implements Delivery.  Each effect of a step is one of the  *)
(* abstract actions on the leaves held.                                    *)
(***************************************************************************)
Evidence == inbox \cup undone \cup reverted

(* What a step does to the set of leaves the pipeline holds. *)
LEMMA HeldEffect ==
  ASSUME PipelineInv, [Next]_vars
  PROVE  \/ Held' = Held /\ processed' = processed
         \/ Held' = {} /\ processed' = processed
         \/ /\ nextLeaf \in Leaves \ (Held \cup processed)
            /\ Held' = Held \cup {nextLeaf} /\ processed' = processed
         \/ /\ msg.leaf \in Held
            /\ Held' = Held \ {msg.leaf} /\ processed' = processed \cup {msg.leaf}
<1>q. /\ channel \in Seq(Message) /\ run_queue \in Seq(Message) /\ msg \in Message
      /\ nextLeaf \in Nat
  BY SubmitterAssumption DEF PipelineInv, TypeOK
<1>1. CASE Keeps
  BY <1>1 DEF Keeps, Held, LeavesIn
<1>2. CASE Skips
  BY <1>2 DEF Skips, Held, LeavesIn, Busy
<1>3. CASE Sends
  <2>1. Fresh(nextLeaf) \in Message /\ Fresh(nextLeaf).leaf = nextLeaf
    BY <1>3, FreshIsMessage DEF Sends, Fresh
  <2>2. LeavesIn(channel') = LeavesIn(channel) \cup {nextLeaf}
    BY <1>3, <1>q, <2>1, PushLeaves DEF Sends
  <2>3. Held' = Held \cup {nextLeaf}
    BY <1>3, <2>2 DEF Sends, Busy, Held, LeavesIn
  <2>4. nextLeaf \notin Held
    BY <1>q DEF PipelineInv, HeldBelow
  <2> QED
    BY <1>3, <2>3, <2>4 DEF Sends
<1>4. CASE Stops \/ Restarts
  BY <1>4 DEF Stops, StopTask, Restarts, Held, LeavesIn, Busy
<1>5. CASE Picks
  <2> DEFINE queue == Promote(run_queue, channel)
  <2>1. /\ queue \in Seq(Message) /\ queue # <<>> /\ channel' = <<>>
        /\ msg' = Head(queue) /\ run_queue' = Tail(queue) /\ pc = "idle" /\ pc' = "status"
        /\ processed' = processed
    BY <1>5, <1>q DEF Picks, TickPick, Promote
  <2>2. LeavesIn(queue) = LeavesIn(channel) \cup LeavesIn(run_queue)
    BY <1>q, ConcatLeaves DEF Promote
  <2>3. Distinct(queue)
    BY <1>q, ConcatDistinct DEF Promote, PipelineInv, HeldOnce
  <2> HIDE DEF queue
  <2>4. /\ LeavesIn(run_queue') = LeavesIn(queue) \ {msg'.leaf}
        /\ msg'.leaf \in LeavesIn(queue)
    BY <2>1, <2>3, PopLeaves
  <2>5. LeavesIn(channel') = {}
    BY <2>1 DEF LeavesIn
  <2> QED
    BY <2>1, <2>2, <2>4, <2>5 DEF Held, Busy, LeavesIn
<1>6. CASE Records
  BY <1>6 DEF Records, RecordProcessSuccess, Finish, Busy, Held, PipelineInv, HeldOnce,
              LeavesIn
<1>7. CASE Fails
  <2> DEFINE m == [msg EXCEPT !.num_retries = @ + 1]
  <2>1. m \in Message /\ m.leaf = msg.leaf
    BY <1>q, RetryIsMessage DEF Message
  <2>2. /\ run_queue' = Append(run_queue, m) /\ ~ Busy' /\ Busy
        /\ UNCHANGED <<channel, processed>>
    BY <1>7 DEF Fails, ProcessingFailed, Requeue, Finish, Busy
  <2> HIDE DEF m
  <2>3. LeavesIn(run_queue') = LeavesIn(run_queue) \cup {msg.leaf}
    BY <1>q, <2>1, <2>2, PushLeaves
  <2> QED
    BY <2>2, <2>3 DEF Held, LeavesIn
<1> QED
  BY <1>1, <1>2, <1>3, <1>4, <1>5, <1>6, <1>7, StepEffect DEF PipelineInv

(* Evidence about a delivery is never lost, a re-org included. *)
LEMMA EvidenceGrows ==
  ASSUME [Next]_vars
  PROVE  Evidence \subseteq Evidence'
<1> USE DEF Evidence, chainVars
<1>1. CASE ProcessorStep \/ ProcessorStops
  BY <1>1 DEF ProcessorStep, ProcessorSkip, ProcessorSend, ProcessorSendFails, ProcessorStops
<1>2. CASE SubmitterStep
  BY <1>2 DEF SubmitterStep, TickDisconnected, TickPick, StatusProcessed, StatusNone,
              EstimateOk, EstimateReverts, SendOk, ReceiptArrives, ReceiptDropped
<1>3. CASE StatusFails \/ EstimateFails \/ SendFails \/ ReceiptFails
  BY <1>3 DEF StatusFails, EstimateFails, SendFails, ReceiptFails
<1>4. CASE Chain
  BY <1>4 DEF Chain, MineAwaited, DropAwaited, OrphanResolved, RivalDelivers, Reorg
<1>5. CASE Crash \/ RestartAfterExit \/ UNCHANGED vars
  BY <1>5 DEF Crash, RestartAfterExit, StartProcess, vars
<1> QED
  BY <1>1, <1>2, <1>3, <1>4, <1>5 DEF Next, CallFails

(* The detailed pipeline implements the abstract one. *)
THEOREM SubmitterImplementsDelivery == Spec => ImplementsDelivery
<1>1. Init => Promise!Init
  BY DEF Init, Promise!Init, Held, LeavesIn, Busy
<1>2. PipelineInv /\ DeliveryInv /\ DeliveryInv' /\ [Next]_vars => [Promise!Next]_(Promise!vars)
  <2> SUFFICES ASSUME PipelineInv, DeliveryInv', [Next]_vars
               PROVE  Promise!Next
    OBVIOUS
  <2>1. Promise!MoreEvidence
    BY EvidenceGrows DEF Promise!MoreEvidence, Evidence
  <2>2. CASE Held' = Held /\ processed' = processed
    BY <2>1, <2>2 DEF Promise!Next, Promise!Observe
  <2>3. CASE Held' = {} /\ processed' = processed
    BY <2>1, <2>3 DEF Promise!Next, Promise!Forget
  <2>4. CASE /\ nextLeaf \in Leaves \ (Held \cup processed)
             /\ Held' = Held \cup {nextLeaf} /\ processed' = processed
    BY <2>1, <2>4 DEF Promise!Next, Promise!Accept
  <2>5. CASE /\ msg.leaf \in Held
             /\ Held' = Held \ {msg.leaf} /\ processed' = processed \cup {msg.leaf}
    <3>1. msg.leaf \in (inbox \cup undone \cup reverted)'
      BY <2>5 DEF DeliveryInv, RecordedIsDelivered
    <3> QED
      BY <2>1, <2>5, <3>1 DEF Promise!Next, Promise!Record
  <2> QED
    BY <2>2, <2>3, <2>4, <2>5, HeldEffect
<1> QED
  BY <1>1, <1>2, PipelineInvariant, DeliveryInvariant, PTL
  DEF Spec, ImplementsDelivery, Promise!Spec
=============================================================================
