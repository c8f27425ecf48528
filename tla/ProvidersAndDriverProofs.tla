---------------------- MODULE ProvidersAndDriverProofs ----------------------
(***************************************************************************)
(* Proofs about two components that share nothing: the stack of providers, *)
(* for any clients, trackers, operations and number of retries (the counts *)
(* of sends add up), and the test driver, for any number of rounds and     *)
(* messages, any number of faults and SIGINT at any time (what a reported  *)
(* success means, and that the driver leaves no child behind).             *)
(***************************************************************************)
EXTENDS PrometheusMiddleware, RunLocally, FiniteSetTheorems, TLAPS

-----------------------------------------------------------------------------
(***************************************************************************)
(* The stack of providers.                                                 *)
(***************************************************************************)
(* The clients with a counted send in flight. *)
Sending(t) == pc[t] = "request" /\ Head(todo[t]) = "eth_sendTransaction"
Senders == {t \in Clients : Sending(t)}

Counts == [dispatched : Nat, completed : Nat, failed : Nat]

(* A client that waits for the name of the chain is about to send. *)
SendInv ==
  /\ pc = [t \in Tasks |-> pc[t]]
  /\ todo = [t \in Clients |-> todo[t]]
  /\ count \in Counts /\ aborted \in Nat
  /\ \A t \in Clients : pc[t] = "name" => Head(todo[t]) = "eth_sendTransaction"
  /\ EverySendAccounted

-----------------------------------------------------------------------------
(***************************************************************************)
(* The number of senders.                                                  *)
(***************************************************************************)
LEMMA SendersAreFinite ==
  /\ IsFiniteSet(Senders) /\ Cardinality(Senders) \in Nat
<1>1. IsFiniteSet(Clients)
  BY PrometheusMiddlewareAssumption
<1>2. Senders \in SUBSET Clients
  BY DEF Senders
<1>3. IsFiniteSet(Senders)
  BY <1>1, <1>2, FS_Subset
<1> QED
  BY <1>3, FS_CardinalityType

LEMMA InSenders ==
  EverySendAccounted <=> count.dispatched = count.completed + count.failed + aborted + Cardinality(Senders)
BY DEF EverySendAccounted, Senders, Sending

(* Nothing about sends changes. *)
LEMMA NoSendChanges ==
  ASSUME SendInv, \A t \in Clients : Sending(t)' <=> Sending(t), UNCHANGED <<count, aborted>>
  PROVE  EverySendAccounted'
<1>1. Senders' = Senders
  BY DEF Senders
<1> QED
  BY <1>1, InSenders DEF SendInv, EverySendAccounted, Senders, Sending

(* One client begins to send, and is counted. *)
LEMMA SendBegins ==
  ASSUME SendInv, NEW t \in Clients, ~ Sending(t), Sending(t)',
         \A u \in Clients \ {t} : Sending(u)' <=> Sending(u),
         count' = [count EXCEPT !.dispatched = @ + 1], UNCHANGED aborted
  PROVE  EverySendAccounted'
<1>1. Senders' = Senders \cup {t} /\ t \notin Senders
  BY DEF Senders
<1>2. Cardinality(Senders') = Cardinality(Senders) + 1
  BY <1>1, SendersAreFinite, FS_AddElement
<1>3. EverySendAccounted' <=>
        count'.dispatched = count'.completed + count'.failed + aborted' + Cardinality(Senders')
  BY DEF EverySendAccounted, Senders, Sending
<1>4. count.dispatched = count.completed + count.failed + aborted + Cardinality(Senders)
  BY InSenders DEF SendInv
<1>5. count \in Counts /\ aborted \in Nat /\ Cardinality(Senders) \in Nat
  BY SendersAreFinite DEF SendInv
<1> QED
  BY <1>2, <1>3, <1>4, <1>5 DEF Counts

(* One client ends its send, which is counted or aborted. *)
LEMMA SendEnds ==
  ASSUME SendInv, NEW t \in Clients, Sending(t), ~ Sending(t)',
         \A u \in Clients \ {t} : Sending(u)' <=> Sending(u),
         \/ /\ count' \in {[count EXCEPT !.completed = @ + 1], [count EXCEPT !.failed = @ + 1]}
            /\ UNCHANGED aborted
         \/ aborted' = aborted + 1 /\ UNCHANGED count
  PROVE  EverySendAccounted'
<1>1. Senders' = Senders \ {t} /\ t \in Senders
  BY DEF Senders
<1>2. Cardinality(Senders') = Cardinality(Senders) - 1
  BY <1>1, SendersAreFinite, FS_RemoveElement
<1>3. EverySendAccounted' <=>
        count'.dispatched = count'.completed + count'.failed + aborted' + Cardinality(Senders')
  BY DEF EverySendAccounted, Senders, Sending
<1>4. count.dispatched = count.completed + count.failed + aborted + Cardinality(Senders)
  BY InSenders DEF SendInv
<1>5. count \in Counts /\ aborted \in Nat /\ Cardinality(Senders) \in Nat
  BY SendersAreFinite DEF SendInv
<1> QED
  BY <1>2, <1>3, <1>4, <1>5 DEF Counts

-----------------------------------------------------------------------------
(***************************************************************************)
(* Each step keeps it.                                                     *)
(***************************************************************************)
LEMMA SendInvInit == Init => SendInv
<1> SUFFICES ASSUME Init
             PROVE  SendInv
  OBVIOUS
<1>1. \A t \in Clients : t \in Tasks /\ t # Updater
  BY PrometheusMiddlewareAssumption DEF Tasks
<1>2. \A t \in Clients : pc[t] = "idle"
  BY <1>1 DEF Init
<1>3. Senders = {}
  BY <1>2 DEF Senders, Sending
<1>4. count = [dispatched |-> 0, completed |-> 0, failed |-> 0] /\ aborted = 0
  BY DEF Init
<1>5. EverySendAccounted
  BY <1>3, <1>4, InSenders, FS_EmptySet
<1>6. pc = [t \in Tasks |-> pc[t]] /\ todo = [t \in Clients |-> todo[t]]
  BY DEF Init
<1> QED
  BY <1>2, <1>4, <1>5, <1>6 DEF SendInv, Counts

(* A task that is no client, or is not at a send, moves on. *)
LEMMA OthersMove ==
  ASSUME SendInv, NEW t \in Tasks, t \notin Clients, NEW where,
         pc' = [pc EXCEPT ![t] = where], UNCHANGED <<todo, count, aborted>>
  PROVE  SendInv'
<1>1. \A u \in Clients : pc'[u] = pc[u] /\ todo'[u] = todo[u]
  BY DEF SendInv, Tasks
<1>2. EverySendAccounted'
  BY <1>1, NoSendChanges DEF Sending
<1> QED
  BY <1>1, <1>2 DEF SendInv

LEMMA ClientMoves ==
  ASSUME SendInv, NEW t \in Clients, NEW where, NEW methods,
         pc' = [pc EXCEPT ![t] = where], todo' = [todo EXCEPT ![t] = methods],
         where = "name" => Head(methods) = "eth_sendTransaction"
  PROVE  /\ pc'[t] = where /\ todo'[t] = methods
         /\ \A u \in Clients \ {t} : pc'[u] = pc[u] /\ todo'[u] = todo[u]
         /\ pc' = [u \in Tasks |-> pc'[u]] /\ todo' = [u \in Clients |-> todo'[u]]
         /\ \A u \in Clients : pc'[u] = "name" => Head(todo'[u]) = "eth_sendTransaction"
BY DEF SendInv, Tasks

(* A client that is not at a send goes on to what is not one. *)
LEMMA ClientGoesOn ==
  ASSUME SendInv, NEW t \in Clients, NEW where, NEW methods,
         pc' = [pc EXCEPT ![t] = where], todo' = [todo EXCEPT ![t] = methods],
         where = "name" => Head(methods) = "eth_sendTransaction",
         ~ Sending(t), ~ (where = "request" /\ Head(methods) = "eth_sendTransaction"),
         UNCHANGED <<count, aborted>>
  PROVE  SendInv'
<1>1. /\ pc'[t] = where /\ todo'[t] = methods
      /\ \A u \in Clients \ {t} : pc'[u] = pc[u] /\ todo'[u] = todo[u]
      /\ pc' = [u \in Tasks |-> pc'[u]] /\ todo' = [u \in Clients |-> todo'[u]]
      /\ \A u \in Clients : pc'[u] = "name" => Head(todo'[u]) = "eth_sendTransaction"
  BY ClientMoves
<1>2. \A u \in Clients : Sending(u)' <=> Sending(u)
  BY <1>1 DEF Sending
<1>3. EverySendAccounted'
  BY <1>2, NoSendChanges
<1> QED
  BY <1>1, <1>3 DEF SendInv

(* A request begins: a send asks for the name of the chain first. *)
LEMMA LaunchStep ==
  ASSUME SendInv, NEW t \in Clients, NEW methods, Launch(t, methods),
         todo' = [todo EXCEPT ![t] = methods], ~ Sending(t), UNCHANGED <<count, aborted>>
  PROVE  SendInv'
<1>1. CASE methods = <<>>
  BY <1>1, ClientGoesOn DEF Launch
<1>2. CASE methods # <<>> /\ Head(methods) = "eth_sendTransaction"
  BY <1>2, ClientGoesOn DEF Launch
<1>3. CASE methods # <<>> /\ Head(methods) # "eth_sendTransaction"
  BY <1>3, ClientGoesOn DEF Launch
<1> QED
  BY <1>1, <1>2, <1>3

LEMMA BeginStep ==
  ASSUME SendInv, NEW t \in Clients, Begin(t)
  PROVE  SendInv'
<1>1. PICK op \in Used : todo' = [todo EXCEPT ![t] = Requests(op)] /\ Launch(t, Requests(op))
  BY DEF Begin
<1>2. ~ Sending(t) /\ UNCHANGED <<count, aborted>>
  BY DEF Begin, Sending
<1> QED
  BY <1>1, <1>2, LaunchStep

LEMMA SendTransactionStep ==
  ASSUME SendInv, NEW t \in Clients, SendTransaction(t)
  PROVE  SendInv'
<1>1. pc[t] = "name" /\ pc' = [pc EXCEPT ![t] = "request"] /\ UNCHANGED <<todo, aborted>>
      /\ count' = [count EXCEPT !.dispatched = @ + 1]
  BY DEF SendTransaction
<1>2. /\ pc'[t] = "request" /\ \A u \in Clients \ {t} : pc'[u] = pc[u]
      /\ pc' = [u \in Tasks |-> pc'[u]]
  BY <1>1 DEF SendInv, Tasks
<1>3. Head(todo[t]) = "eth_sendTransaction"
  BY <1>1 DEF SendInv
<1>4. ~ Sending(t) /\ Sending(t)' /\ \A u \in Clients \ {t} : Sending(u)' <=> Sending(u)
  BY <1>1, <1>2, <1>3 DEF Sending
<1>5. EverySendAccounted'
  BY <1>1, <1>4, SendBegins
<1>6. count' \in Counts
  BY <1>1 DEF SendInv, Counts
<1> QED
  BY <1>1, <1>2, <1>5, <1>6 DEF SendInv

(* A send that ends takes its client out of the senders. *)
LEMMA SendEndsStep ==
  ASSUME SendInv, NEW t \in Clients, Sending(t), NEW where, where \notin {"name", "request"},
         pc' = [pc EXCEPT ![t] = where], todo' = [todo EXCEPT ![t] = <<>>],
         \/ /\ count' \in {[count EXCEPT !.completed = @ + 1], [count EXCEPT !.failed = @ + 1]}
            /\ UNCHANGED aborted
         \/ aborted' = aborted + 1 /\ UNCHANGED count
  PROVE  SendInv'
<1>1. /\ pc'[t] = where
      /\ \A u \in Clients \ {t} : pc'[u] = pc[u] /\ todo'[u] = todo[u]
      /\ pc' = [u \in Tasks |-> pc'[u]] /\ todo' = [u \in Clients |-> todo'[u]]
      /\ \A u \in Clients : pc'[u] = "name" => Head(todo'[u]) = "eth_sendTransaction"
  BY ClientMoves
<1>2. ~ Sending(t)' /\ \A u \in Clients \ {t} : Sending(u)' <=> Sending(u)
  BY <1>1 DEF Sending
<1>3. EverySendAccounted'
  BY <1>2, SendEnds
<1>4. count' \in Counts /\ aborted' \in Nat
  BY DEF SendInv, Counts
<1> QED
  BY <1>1, <1>3, <1>4 DEF SendInv

LEMMA ReceiveStep ==
  ASSUME SendInv, NEW t \in Clients, Receive(t)
  PROVE  SendInv'
<1>1. PICK result \in {"ok", "error", "more"} :
        LET rest == IF result = "ok" THEN Tail(todo[t]) ELSE <<>> IN
        CASE result = "more" ->
               /\ NextAttempt(t, result)
               /\ UNCHANGED <<pc, todo, queue, count>>
          [] result # "more" /\ Head(todo[t]) = "eth_call" ->
               /\ NextAttempt(t, result)
               /\ pc' = [pc EXCEPT ![t] = "label"]
               /\ queue' = Append(queue, t)
               /\ todo' = [todo EXCEPT ![t] = rest]
               /\ UNCHANGED count
          [] result # "more" /\ Head(todo[t]) = "eth_sendTransaction" ->
               /\ count' = Settled(result = "ok")
               /\ NextAttempt(t, result)
               /\ pc' = [pc EXCEPT ![t] = "idle"]
               /\ todo' = [todo EXCEPT ![t] = <<>>]
               /\ UNCHANGED queue
          [] OTHER ->
               /\ todo' = [todo EXCEPT ![t] = rest]
               /\ IF rest = <<>>
                  THEN /\ pc' = [pc EXCEPT ![t] = "idle"] /\ NextAttempt(t, result) /\ UNCHANGED queue
                  ELSE Launch(t, rest)
               /\ UNCHANGED count
  BY DEF Receive
<1>2. pc[t] = "request" /\ UNCHANGED aborted
  BY DEF Receive
<1> DEFINE rest == IF result = "ok" THEN Tail(todo[t]) ELSE <<>>
<1>3. CASE result = "more"
  <2>1. UNCHANGED <<pc, todo, count, aborted>>
    BY <1>1, <1>2, <1>3
  <2>2. EverySendAccounted'
    BY <2>1, NoSendChanges DEF Sending
  <2> QED
    BY <2>1, <2>2 DEF SendInv
<1>4. CASE result # "more" /\ Head(todo[t]) = "eth_call"
  <2>1. pc' = [pc EXCEPT ![t] = "label"] /\ todo' = [todo EXCEPT ![t] = rest] /\ UNCHANGED count
    BY <1>1, <1>4
  <2> HIDE DEF rest
  <2>2. ~ Sending(t)
    BY <1>4 DEF Sending
  <2> QED
    BY <1>2, <2>1, <2>2, ClientGoesOn
<1>5. CASE result # "more" /\ Head(todo[t]) = "eth_sendTransaction"
  <2>1. pc' = [pc EXCEPT ![t] = "idle"] /\ todo' = [todo EXCEPT ![t] = <<>>]
        /\ count' = Settled(result = "ok")
    BY <1>1, <1>5
  <2>2. count' \in {[count EXCEPT !.completed = @ + 1], [count EXCEPT !.failed = @ + 1]}
    BY <2>1 DEF Settled
  <2>3. Sending(t)
    BY <1>2, <1>5 DEF Sending
  <2> QED
    BY <1>2, <2>1, <2>2, <2>3, SendEndsStep
<1>6. CASE result # "more" /\ Head(todo[t]) \notin {"eth_call", "eth_sendTransaction"}
  <2>1. /\ todo' = [todo EXCEPT ![t] = rest] /\ UNCHANGED count
        /\ IF rest = <<>> THEN pc' = [pc EXCEPT ![t] = "idle"] ELSE Launch(t, rest)
    BY <1>1, <1>6
  <2> HIDE DEF rest
  <2>2. ~ Sending(t)
    BY <1>6 DEF Sending
  <2>3. CASE rest = <<>>
    BY <1>2, <2>1, <2>2, <2>3, ClientGoesOn
  <2>4. CASE rest # <<>>
    BY <1>2, <2>1, <2>2, <2>4, LaunchStep
  <2> QED
    BY <2>3, <2>4
<1> QED
  BY <1>3, <1>4, <1>5, <1>6

LEMMA LabelCallStep ==
  ASSUME SendInv, NEW t \in Clients, LabelCall(t)
  PROVE  SendInv'
<1>1. pc[t] = "label" /\ pc' = [pc EXCEPT ![t] = "idle"] /\ UNCHANGED <<todo, count, aborted>>
  BY DEF LabelCall
<1>2. todo' = [todo EXCEPT ![t] = todo[t]]
  BY <1>1 DEF SendInv
<1> QED
  BY <1>1, <1>2, ClientGoesOn DEF Sending

LEMMA AbortStep ==
  ASSUME SendInv, NEW t \in Clients, Abort(t)
  PROVE  SendInv'
<1>1. pc' = [pc EXCEPT ![t] = "aborted"] /\ todo' = [todo EXCEPT ![t] = <<>>] /\ UNCHANGED count
      /\ aborted' = IF Sending(t) THEN aborted + 1 ELSE aborted
  BY DEF Abort, Sending
<1>2. CASE Sending(t)
  BY <1>1, <1>2, SendEndsStep
<1>3. CASE ~ Sending(t)
  BY <1>1, <1>3, ClientGoesOn
<1> QED
  BY <1>2, <1>3

(* Trackers and the updater do not send. *)
LEMMA TrackersStep ==
  ASSUME SendInv, NEW t \in Trackers, Track(t) \/ Insert(t)
  PROVE  SendInv'
<1>1. t \in Tasks /\ t \notin Clients
  BY PrometheusMiddlewareAssumption DEF Tasks
<1> QED
  BY <1>1, OthersMove DEF Track, Insert

LEMMA UnchangedStep ==
  ASSUME SendInv, UNCHANGED <<pc, todo, count, aborted>>
  PROVE  SendInv'
<1>1. EverySendAccounted'
  BY NoSendChanges DEF Sending
<1> QED
  BY <1>1 DEF SendInv

LEMMA UpdaterStep ==
  ASSUME SendInv, UpdaterProceeds
  PROVE  SendInv'
<1>1. Updater \in Tasks /\ Updater \notin Clients
  BY PrometheusMiddlewareAssumption DEF Tasks
<1>2. UNCHANGED <<todo, count, aborted>>
  BY DEF UpdaterProceeds, Tick, UpdateStarts, UpdateBlockDetails, UpdateWalletBalances
<1>3. UNCHANGED pc \/ \E where \in {"ended", "read", "block", "balance", "tick"} : pc' = [pc EXCEPT ![Updater] = where]
  BY DEF UpdaterProceeds, Tick, UpdateStarts, UpdateBlockDetails, UpdateWalletBalances, UpdateEnds
<1> QED
  BY <1>1, <1>2, <1>3, OthersMove, UnchangedStep

LEMMA SendInvStep == SendInv /\ [Next]_vars => SendInv'
<1> SUFFICES ASSUME SendInv, [Next]_vars
             PROVE  SendInv'
  OBVIOUS
<1>1. CASE \E t \in Clients : Begin(t) \/ ClientProceeds(t) \/ Abort(t)
  BY <1>1, BeginStep, SendTransactionStep, ReceiveStep, LabelCallStep, AbortStep DEF ClientProceeds
<1>2. CASE \E t \in Trackers : Track(t) \/ Insert(t)
  BY <1>2, TrackersStep
<1>3. CASE UpdaterProceeds
  BY <1>3, UpdaterStep
<1>4. CASE Drop \/ UNCHANGED vars
  BY <1>4, UnchangedStep DEF Drop, vars
<1> QED
  BY <1>1, <1>2, <1>3, <1>4 DEF Next

-----------------------------------------------------------------------------
(* PrometheusMiddleware::send_transaction counts every send it dispatches    *)
(* once more when it settles, however requests are retried, wait for the     *)
(* lock or are aborted.                                                      *)
THEOREM EverySendAccountedHolds == Spec => []EverySendAccounted
<1>1. SendInv => EverySendAccounted
  BY DEF SendInv
<1> QED
  BY <1>1, SendInvInit, SendInvStep, PTL DEF Spec

-----------------------------------------------------------------------------
(***************************************************************************)
(* The test driver.                                                        *)
(***************************************************************************)
Processed == In({"processed"})
Places == {"none", "dispatched", "channel", "run", "processed"}
ChildStates == {"none", "up", "signalled", "ok", "failed"}
Ending == {"drop", "join", "exited"}

(* What the two results need of the types: the domains of the functions, and   *)
(* that the number of rounds is known in CI mode.                              *)
DriverShape ==
  /\ ci_mode \in BOOLEAN /\ RUNNING \in BOOLEAN /\ interrupted \in BOOLEAN
  /\ kathy_rounds \in Nat \cup {NotGiven} /\ (ci_mode => kathy_rounds # NotGiven)
  /\ at \in [0 .. Limit - 1 -> Places]
  /\ child \in [Children -> ChildStates]
  /\ to_stop \in Seq(Children)

(* Only SIGINT makes the flag false before drop has stopped the children.      *)
FlagInv == ~ interrupted /\ main \notin {"join", "exited"} => RUNNING

(* From the count on, success is on its way only if everything was processed.  *)
CountedInv ==
  ci_mode /\ ~ interrupted /\ (main = "payments?" \/ (main \in Ending /\ code = 0))
    => Processed = Messages

SuccessInv == DriverShape /\ FlagInv /\ CountedInv

(* Nothing is started before the build, and what still lives is on the list of *)
(* the children that drop goes through.                                        *)
InLeft(c) == \E i \in 1 .. Len(to_stop) : to_stop[i] = c
StopInv ==
  /\ main = "build" => \A c \in Children : ~ Alive(c)
  /\ main = "drop" => \A c \in Children : Alive(c) => InLeft(c)
  /\ main \in {"join", "exited"} => \A c \in Children : ~ Alive(c)

(* The driver waits for its reader threads, and exits, without a child that    *)
(* still runs, whichever fault made it stop: the safety half of HarnessEnds,   *)
(* about State::drop and the statements of main after it.                      *)
NoChildLeft == main \in {"join", "exited"} => \A c \in Children : ~ Alive(c)

-----------------------------------------------------------------------------
(***************************************************************************)
(* Messages, and how they move.                                            *)
(***************************************************************************)
LEMMA MessagesAre ==
  ASSUME DriverShape
  PROVE  /\ Limit \in Nat
         /\ Messages = 0 .. Limit - 1
         /\ IsFiniteSet(Messages) /\ Cardinality(Messages) = Limit
<1>1. Limit \in Nat
  BY RunLocallyAssumption DEF DriverShape, Limit
<1>2. Messages = 0 .. Limit - 1
  BY DEF DriverShape, Messages
<1>3. IsFiniteSet(0 .. Limit - 1) /\ Cardinality(0 .. Limit - 1) = IF 0 > Limit - 1 THEN 0 ELSE (Limit - 1) - 0 + 1
  BY <1>1, FS_Interval
<1> QED
  BY <1>1, <1>2, <1>3

(* The count of processed messages settles it: no other set has that size.     *)
LEMMA CountSuffices ==
  ASSUME DriverShape, kathy_rounds # NotGiven, CountIsExpected
  PROVE  Processed = Messages
<1>1. IsFiniteSet(Messages) /\ Cardinality(Messages) = Expected
  BY MessagesAre DEF Limit, Expected
<1>2. Processed \in SUBSET Messages
  BY DEF Processed, In
<1>3. Cardinality(Processed) = Cardinality(Messages)
  BY <1>1 DEF CountIsExpected, Processed
<1> QED
  BY <1>1, <1>2, <1>3, FS_Subset

(* What the relayer and kathy do moves messages on, and none out of processed. *)
LEMMA TrafficEffect ==
  ASSUME DriverShape, Traffic
  PROVE  /\ at' \in [Messages -> Places]
         /\ \A m \in Messages : at[m] = "processed" => at'[m] = "processed"
         /\ UNCHANGED <<driver, interrupted, child>>
<1>1. at \in [Messages -> Places]
  BY DEF DriverShape, Messages
<1>2. ASSUME NEW m \in Messages, NEW from \in Places \ {"processed"}, NEW to \in Places, Moves(m, from, to)
      PROVE  /\ at' \in [Messages -> Places]
             /\ \A n \in Messages : at[n] = "processed" => at'[n] = "processed"
  BY <1>1, <1>2 DEF Moves
<1>3. CASE KathySends
  BY <1>2, <1>3 DEF KathySends, Places, Traffic
<1>4. CASE SubmittersStart \/ SyncGasPayments
  BY <1>1, <1>4 DEF SubmittersStart, SyncGasPayments, Traffic
<1>5. CASE Forward
  BY <1>2, <1>5 DEF Forward, Places, Traffic
<1>6. CASE SubmitterTick
  BY <1>1, <1>6 DEF SubmitterTick, Places, Traffic
<1>7. CASE RecordSuccess
  BY <1>2, <1>7 DEF RecordSuccess, Places, Traffic
<1> QED
  BY <1>3, <1>4, <1>5, <1>6, <1>7 DEF Traffic

-----------------------------------------------------------------------------
(***************************************************************************)
(* The steps, each with the part of the state that the results look at.    *)
(***************************************************************************)
Watched == <<ci_mode, kathy_rounds, main, RUNNING, to_stop, code, at, interrupted, child>>
Kept == <<ci_mode, kathy_rounds, RUNNING, at, interrupted>>

(* A step of main that goes on, without deciding anything.                     *)
GoesOn ==
  /\ main \notin Ending /\ main' \notin Ending \cup {"build", "payments?"}
  /\ UNCHANGED <<Kept, child, to_stop, code>>

(* One that leaves for drop.                                                   *)
Leaves(exit) ==
  /\ main \notin Ending /\ Leave(exit)
  /\ UNCHANGED <<Kept, child>>

(* A child that main has spawned.                                              *)
Spawns == \E c \in Children :
  /\ main \notin Ending /\ main' \notin Ending \cup {"build", "payments?"}
  /\ child' = [child EXCEPT ![c] = "up"]
  /\ UNCHANGED <<Kept, to_stop, code>>

(* A child that is told to stop, or has stopped.                               *)
Stops == \E c \in Children, state \in ChildStates :
  /\ Alive(c) /\ child' = [child EXCEPT ![c] = state]
  /\ UNCHANGED <<Kept, main, to_stop, code>>

(* The decisions of main: 0 is the code only for one of three reasons.         *)
Succeeds ==
  /\ Leaves(0)
  /\ \/ main = "loop" /\ ~ RUNNING
     \/ main = "kathy?" /\ ~ ci_mode
     \/ main = "payments?"

(* The count is asked for, and is as expected.                                 *)
CountsAll ==
  /\ main = "count?" /\ main' = "payments?" /\ CountIsExpected
  /\ UNCHANGED <<Kept, child, to_stop, code>>

MainDecides == GoesOn \/ Spawns \/ Leaves(1) \/ Leaves(101) \/ Succeeds \/ CountsAll

LEMMA SetupEffect ==
  ASSUME Setup
  PROVE  \/ MainDecides
         \/ main = "build" /\ main' = "exited" /\ code' = 101 /\ UNCHANGED <<Kept, child, to_stop>>
<1> USE DEF MainDecides, Kept, relayer, Ending
<1>1. CASE Build
  BY <1>1 DEF Build, GoesOn
<1>2. ASSUME NEW c \in Children, NEW next \in {"deploy", "validator", "kathy", "loop"},
             main \notin Ending, Spawn(c, next)
      PROVE  Spawns \/ Leaves(101)
  BY <1>2 DEF Spawn, Spawns, Leaves, Panic
<1>3. CASE Deploy
  BY <1>3 DEF Deploy, GoesOn, Leaves, Panic
<1> QED
  BY <1>1, <1>2, <1>3 DEF Setup, Children

LEMMA LoopEffect ==
  ASSUME Loop \/ CheckKathy \/ RetryQueuesEmpty \/ AssertTerminationInvariants \/ CheckTime
  PROVE  MainDecides
<1> USE DEF MainDecides, Kept, relayer, Ending, Looking
<1>1. CASE Loop
  BY <1>1 DEF Loop, Goto, GoesOn, Leaves, Succeeds
<1>2. CASE CheckKathy
  BY <1>2 DEF CheckKathy, Goto, GoesOn, Leaves, Succeeds
<1>3. CASE RetryQueuesEmpty
  BY <1>3 DEF RetryQueuesEmpty, Metric, Goto, GoesOn, Leaves, Panic
<1>4. CASE Metric("max?", MaxIndexIsExpected, Goto("count?"), Panic)
  BY <1>4 DEF Metric, Goto, GoesOn, Leaves, Panic
<1>5. CASE Metric("count?", CountIsExpected, Goto("payments?"), Panic)
  BY <1>5 DEF Metric, Goto, CountsAll, Leaves, Panic
<1>6. CASE Metric("payments?", PaymentsAreExpected, Leave(0), Panic)
  BY <1>6 DEF Metric, Succeeds, Leaves, Panic
<1>7. CASE CheckTime
  BY <1>7 DEF CheckTime, Goto, GoesOn, Leaves
<1> QED
  BY <1>1, <1>2, <1>3, <1>4, <1>5, <1>6, <1>7 DEF AssertTerminationInvariants

(* The steps of drop and after it.                                             *)
LEMMA EndEffect ==
  ASSUME WaitChild \/ StopWatchers \/ JoinWatchers
  PROVE  /\ main \in {"drop", "join"} /\ main' \in Ending
         /\ main' = "drop" => main = "drop" /\ UNCHANGED RUNNING
         /\ code' = code \/ code' = 101
         /\ RUNNING' \in {RUNNING, FALSE}
         /\ to_stop' = to_stop \/ (to_stop # <<>> /\ to_stop' = Tail(to_stop))
         /\ UNCHANGED <<ci_mode, kathy_rounds, at, interrupted, child>>
<1> USE DEF Ending, relayer
<1>1. CASE WaitChild
  BY <1>1 DEF WaitChild
<1>2. CASE StopWatchers
  BY <1>2 DEF StopWatchers
<1>3. CASE JoinWatchers
  BY <1>3 DEF JoinWatchers
<1> QED
  BY <1>1, <1>2, <1>3

(* Every step, as the results see it.                                          *)
LEMMA StepIs ==
  ASSUME DriverShape, [HarnessNext]_harness_vars
  PROVE  \/ MainDecides
         \/ main = "build" /\ main' = "exited" /\ code' = 101 /\ UNCHANGED <<Kept, child, to_stop>>
         \/ Stops
         \/ WaitChild
         \/ StopWatchers
         \/ JoinWatchers
         \/ Interrupt
         \/ Traffic
         \/ UNCHANGED Watched
<1> USE DEF Watched, Kept, driver, relayer
<1>1. CASE Setup
  BY <1>1, SetupEffect
<1>2. CASE Loop \/ CheckKathy \/ RetryQueuesEmpty \/ AssertTerminationInvariants \/ CheckTime
  BY <1>2, LoopEffect
<1>3. CASE StopChild
  <2>1. Head(to_stop) \in Children /\ Alive(Head(to_stop))
    BY <1>3 DEF StopChild, DriverShape, Alive
  <2> QED
    BY <1>3, <2>1 DEF StopChild, Stops, ChildStates
<1>4. CASE TimePasses
  BY <1>4 DEF TimePasses
<1>5. CASE KathyFinishes
  BY <1>5 DEF KathyFinishes, ChildBecomes, Stops, Children, ChildStates, Alive
<1>6. CASE \E c \in Children : Stopped(c) \/ ChildFails(c)
  BY <1>6 DEF Stopped, ChildFails, ChildBecomes, Stops, ChildStates, Alive
<1>7. CASE \E i \in Watchers : WatcherEnds(i) \/ WatcherFails(i)
  BY <1>7 DEF WatcherEnds, WatcherFails, WatcherBecomes
<1>8. CASE UNCHANGED harness_vars
  BY <1>8 DEF harness_vars
<1> QED
  BY <1>1, <1>2, <1>3, <1>4, <1>5, <1>6, <1>7, <1>8 DEF HarnessNext, Main

-----------------------------------------------------------------------------
(***************************************************************************)
(* The shape of the state.                                                 *)
(***************************************************************************)
LEMMA ShapeInit == HarnessInit => DriverShape
<1> SUFFICES ASSUME HarnessInit PROVE DriverShape
  OBVIOUS
<1>1. kathy_rounds \in Nat \cup {NotGiven} /\ (ci_mode => kathy_rounds # NotGiven)
  BY RunLocallyAssumption DEF HarnessInit
<1>2. at \in [0 .. Limit - 1 -> Places]
  BY DEF HarnessInit, Places
<1>3. child \in [Children -> ChildStates] /\ to_stop \in Seq(Children)
  BY DEF HarnessInit, ChildStates
<1> QED
  BY <1>1, <1>2, <1>3 DEF HarnessInit, DriverShape

LEMMA ShapeStep ==
  ASSUME DriverShape, [HarnessNext]_harness_vars
  PROVE  DriverShape'
<1>0. <<"kathy", "relayer", "validator", "node">> \in Seq(Children)
  BY DEF Children
<1> USE DEF DriverShape, Limit, Kept
<1>1. CASE MainDecides
  <2>1. CASE GoesOn \/ CountsAll
    BY <2>1 DEF GoesOn, CountsAll
  <2>2. CASE Spawns
    BY <2>2 DEF Spawns, ChildStates
  <2>3. ASSUME NEW exit, Leaves(exit)
        PROVE  DriverShape'
    BY <1>0, <2>3 DEF Leaves, Leave
  <2> QED
    BY <1>1, <2>1, <2>2, <2>3 DEF MainDecides, Succeeds
<1>2. CASE UNCHANGED <<Kept, child, to_stop>>
  BY <1>2
<1>3. CASE Stops
  BY <1>3 DEF Stops
<1>4. CASE WaitChild \/ StopWatchers \/ JoinWatchers
  <2>1. /\ RUNNING' \in {RUNNING, FALSE}
        /\ to_stop' = to_stop \/ (to_stop # <<>> /\ to_stop' = Tail(to_stop))
        /\ UNCHANGED <<ci_mode, kathy_rounds, at, interrupted, child>>
    BY <1>4, EndEffect, Zenon
  <2>2. to_stop' \in Seq(Children)
    BY <2>1
  <2> QED
    BY <2>1, <2>2
<1>7. CASE Interrupt
  BY <1>7 DEF Interrupt, relayer
<1>5. CASE Traffic
  <2>1. at' \in [0 .. Limit - 1 -> Places]
    BY <1>5, TrafficEffect, MessagesAre
  <2> QED
    BY <1>5, <2>1, TrafficEffect DEF driver
<1>6. CASE UNCHANGED Watched
  BY <1>6 DEF Watched
<1> QED
  BY <1>1, <1>2, <1>3, <1>4, <1>5, <1>6, <1>7, StepIs

-----------------------------------------------------------------------------
(***************************************************************************)
(* Success.                                                                *)
(***************************************************************************)
LEMMA FlagStep ==
  ASSUME DriverShape, FlagInv, [HarnessNext]_harness_vars
  PROVE  FlagInv'
<1> USE DEF FlagInv, Kept, Ending
<1>1. CASE MainDecides
  BY <1>1 DEF MainDecides, GoesOn, Spawns, Leaves, Leave, Succeeds, CountsAll
<1>2. CASE main' = "exited"
  BY <1>2
<1>3. CASE Stops
  BY <1>3 DEF Stops
<1>4. CASE WaitChild \/ StopWatchers \/ JoinWatchers
  BY <1>4, EndEffect
<1>7. CASE Interrupt
  BY <1>7 DEF Interrupt
<1>5. CASE Traffic
  BY <1>5, TrafficEffect DEF driver
<1>6. CASE UNCHANGED Watched
  BY <1>6 DEF Watched
<1> QED
  BY <1>1, <1>2, <1>3, <1>4, <1>5, <1>6, <1>7, StepIs

(* Once everything was processed it stays so, whatever else the relayer does.  *)
LEMMA ProcessedStays ==
  ASSUME DriverShape, Processed = Messages,
         \/ UNCHANGED at
         \/ at' \in [Messages -> Places] /\ \A m \in Messages : at[m] = "processed" => at'[m] = "processed"
  PROVE  Processed' = Messages'
BY DEF Processed, In, Messages

LEMMA CountedStep ==
  ASSUME SuccessInv, [HarnessNext]_harness_vars
  PROVE  CountedInv'
<1> SUFFICES ASSUME ci_mode', ~ interrupted', main' = "payments?" \/ (main' \in Ending /\ code' = 0)
             PROVE  Processed' = Messages'
  BY DEF CountedInv
<1>0. DriverShape /\ FlagInv /\ CountedInv
  BY DEF SuccessInv
<1> USE DEF Kept, Ending
<1>1. CASE MainDecides
  <2>1. ~ GoesOn /\ ~ Spawns /\ ~ Leaves(1) /\ ~ Leaves(101)
    <3>1. ~ GoesOn /\ ~ Spawns
      BY DEF GoesOn, Spawns
    <3>2. ASSUME NEW exit, Leaves(exit)
          PROVE  exit = 0
      BY <3>2 DEF Leaves, Leave
    <3> QED
      BY <3>1, <3>2
  <2>2. CASE CountsAll
    <3>1. kathy_rounds # NotGiven /\ CountIsExpected
      BY <1>0, <2>2 DEF CountsAll, DriverShape
    <3>2. Processed = Messages
      BY <1>0, <3>1, CountSuffices
    <3> QED
      BY <1>0, <2>2, <3>2, ProcessedStays DEF CountsAll
  <2>3. CASE Succeeds
    <3>1. main = "payments?"
      BY <1>0, <2>3 DEF Succeeds, Leaves, FlagInv
    <3> QED
      BY <1>0, <2>3, <3>1, ProcessedStays DEF Succeeds, Leaves, CountedInv
  <2> QED
    BY <1>1, <2>1, <2>2, <2>3 DEF MainDecides
<1>2. CASE main' = "exited" /\ code' = 101
  BY <1>2
<1>3. CASE Stops
  BY <1>0, <1>3, ProcessedStays DEF Stops, CountedInv
<1>4. CASE WaitChild \/ StopWatchers \/ JoinWatchers
  <2>3. /\ main \in {"drop", "join"} /\ main' \in Ending
        /\ code' = code \/ code' = 101
        /\ UNCHANGED <<ci_mode, at, interrupted>>
    BY <1>4, EndEffect, Zenon
  <2>1. /\ ci_mode /\ ~ interrupted /\ main \in Ending /\ code = 0
        /\ UNCHANGED at
    BY <2>3
  <2>2. Processed = Messages
    BY <1>0, <2>1 DEF CountedInv
  <2> QED
    BY <1>0, <2>1, <2>2, ProcessedStays
<1>7. CASE Interrupt
  BY <1>7 DEF Interrupt
<1>5. CASE Traffic
  BY <1>0, <1>5, TrafficEffect, ProcessedStays DEF CountedInv, driver
<1>6. CASE UNCHANGED Watched
  BY <1>0, <1>6, ProcessedStays DEF Watched, CountedInv
<1> QED
  BY <1>0, <1>1, <1>2, <1>3, <1>4, <1>5, <1>6, <1>7, StepIs

LEMMA SuccessInvariant == HarnessSpec => []SuccessInv
<1>1. HarnessInit => SuccessInv
  <2> SUFFICES ASSUME HarnessInit PROVE SuccessInv
    OBVIOUS
  <2>1. FlagInv /\ CountedInv
    BY DEF HarnessInit, FlagInv, CountedInv, Ending
  <2> QED
    BY <2>1, ShapeInit DEF SuccessInv
<1>2. SuccessInv /\ [HarnessNext]_harness_vars => SuccessInv'
  BY ShapeStep, FlagStep, CountedStep DEF SuccessInv
<1> QED
  BY <1>1, <1>2, PTL DEF HarnessSpec

(* A CI run that was not interrupted exits with 0 only when the relayer has    *)
(* processed every message, whatever the number of rounds: the assertions of   *)
(* assert_termination_invariants, each about a number asked for separately.    *)
THEOREM SuccessMeansProcessedHolds == HarnessSpec => []SuccessMeansProcessed
<1>1. SuccessInv => SuccessMeansProcessed
  BY DEF SuccessInv, CountedInv, Processed, SuccessMeansProcessed, Ending
<1> QED
  BY <1>1, SuccessInvariant, PTL

-----------------------------------------------------------------------------
(***************************************************************************)
(* Nothing is to_stop behind.                                                 *)
(***************************************************************************)
LEMMA AllInLeft ==
  ASSUME NEW exit, Leave(exit)
  PROVE  main' = "drop" /\ \A c \in Children : InLeft(c)'
<1>1. to_stop' = <<"kathy", "relayer", "validator", "node">>
  BY DEF Leave
<1>2. /\ to_stop'[1] = "kathy" /\ to_stop'[2] = "relayer" /\ to_stop'[3] = "validator" /\ to_stop'[4] = "node"
      /\ Len(to_stop') = 4
  BY <1>1
<1> QED
  BY <1>2 DEF Leave, InLeft, Children

(* The head is taken off the list only when it has ended.                      *)
LEMMA InTail ==
  ASSUME DriverShape, to_stop # <<>>, to_stop' = Tail(to_stop),
         NEW c \in Children, c # Head(to_stop), InLeft(c)
  PROVE  InLeft(c)'
<1>1. PICK i \in 1 .. Len(to_stop) : to_stop[i] = c
  BY DEF InLeft
<1>2. i # 1 /\ i - 1 \in 1 .. Len(Tail(to_stop)) /\ Tail(to_stop)[i - 1] = c
  BY <1>1 DEF DriverShape
<1> QED
  BY <1>2 DEF InLeft

LEMMA StopStep ==
  ASSUME DriverShape, StopInv, [HarnessNext]_harness_vars
  PROVE  StopInv'
<1> USE DEF Kept, Ending
<1>1. CASE MainDecides
  <2>1. CASE GoesOn \/ Spawns \/ CountsAll
    BY <2>1 DEF GoesOn, Spawns, CountsAll, StopInv
  <2>2. ASSUME NEW exit, Leaves(exit)
        PROVE  StopInv'
    BY <2>2, AllInLeft DEF Leaves, StopInv
  <2> QED
    BY <1>1, <2>1, <2>2 DEF MainDecides, Succeeds
<1>2. CASE main = "build" /\ main' = "exited" /\ UNCHANGED child
  BY <1>2 DEF StopInv, Alive
<1>3. CASE Stops
  <2>1. PICK c \in Children, state \in ChildStates :
          /\ Alive(c) /\ child' = [child EXCEPT ![c] = state] /\ UNCHANGED <<main, to_stop>>
    BY <1>3 DEF Stops
  <2>2. \A d \in Children : Alive(d)' => Alive(d)
    BY <2>1 DEF Alive, DriverShape
  <2>3. \A d \in Children : InLeft(d)' <=> InLeft(d)
    BY <2>1 DEF InLeft
  <2> QED
    BY <2>1, <2>2, <2>3 DEF StopInv
<1>4. CASE WaitChild
  <2>1. /\ main = "drop" /\ to_stop # <<>> /\ ~ Alive(Head(to_stop)) /\ to_stop' = Tail(to_stop)
        /\ UNCHANGED <<main, child>>
    BY <1>4 DEF WaitChild
  <2>2. \A c \in Children : Alive(c) => InLeft(c)'
    BY <2>1, InTail DEF StopInv
  <2> QED
    BY <2>1, <2>2 DEF StopInv, Alive
<1>5. CASE StopWatchers
  BY <1>5 DEF StopWatchers, StopInv, InLeft, Alive
<1>6. CASE JoinWatchers
  BY <1>6 DEF JoinWatchers, StopInv, Alive
<1>7. CASE UNCHANGED <<main, to_stop, child>>
  BY <1>7 DEF StopInv, Alive, InLeft
<1>8. Interrupt => UNCHANGED <<main, to_stop, child>>
  BY DEF Interrupt
<1>9. Traffic \/ UNCHANGED Watched => UNCHANGED <<main, to_stop, child>>
  BY TrafficEffect DEF Watched, driver
<1> QED
  BY <1>1, <1>2, <1>3, <1>4, <1>5, <1>6, <1>7, <1>8, <1>9, StepIs

(* Whatever fails and whenever SIGINT arrives, no child runs any more when the *)
(* driver joins its reader threads and exits: State::drop stops each one that  *)
(* was started, in every way out of main (NoChildLeft).                        *)
THEOREM NoChildLeftHolds == HarnessSpec => []NoChildLeft
<1> DEFINE Inv == DriverShape /\ StopInv
<1>1. HarnessInit => Inv
  <2> SUFFICES ASSUME HarnessInit PROVE Inv
    OBVIOUS
  <2> QED
    BY ShapeInit DEF HarnessInit, StopInv, Alive
<1>2. Inv /\ [HarnessNext]_harness_vars => Inv'
  BY ShapeStep, StopStep
<1>3. Inv => NoChildLeft
  BY DEF StopInv, NoChildLeft
<1> QED
  BY <1>1, <1>2, <1>3, PTL DEF HarnessSpec

=============================================================================
