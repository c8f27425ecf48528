----------------------------- MODULE RunLocally -----------------------------
(***************************************************************************)
(* The end-to-end test driver, utils/run-locally/src/main.rs: the main     *)
(* thread, the SIGINT handler, the threads that read the children's        *)
(* output, the children, and what the relayer's metrics show of the        *)
(* messages that kathy dispatches.                                         *)
(*                                                                         *)
(* Every look at the flag RUNNING, at a child or at the metrics is a step. *)
(* A pipe ends when its child has ended.                                   *)
(***************************************************************************)
EXTENDS Integers, Sequences, FiniteSets, FiniteSetsExt

CONSTANTS
  GivenRounds,    \* values of E2E_KATHY_ROUNDS, NotGiven for unset
  NotGiven,
  DefaultRounds,  \* 4 in the code
  PerRound,       \* 10 in the code
  AgentStreams,   \* pipes of an agent that are read: 2 in the code, stdout and stderr
  MaxMessages,    \* bound on messages when kathy runs without --rounds
  MaxFaults       \* bound on failing children, spawns and watchers

ASSUME RunLocallyAssumption ==
  /\ NotGiven \notin Nat /\ GivenRounds \subseteq Nat \cup {NotGiven}
  /\ {DefaultRounds, PerRound, AgentStreams, MaxMessages, MaxFaults} \subseteq Nat

VARIABLES
  ci_mode, kathy_rounds,
  main,         \* where the main thread is
  RUNNING,
  interrupted,  \* history: SIGINT was received
  child,        \* "none", "up", "signalled", "ok" or "failed"
  to_stop,      \* children that drop has still to stop
  watchers,     \* in the order they were spawned: the child it reads, its state
  kathy_done,
  late,         \* the CI timeout has passed
  code,         \* exit code, -1 before it is known
  at,           \* each message: "none", "dispatched", "channel", "run" or "processed"
  queue_length, \* the gauge, NotGiven before the submitters have set it up
  payments,     \* the gauge of gas payments, counted up to Limit
  faults

driver == <<ci_mode, kathy_rounds, main, RUNNING, to_stop, watchers, kathy_done, code>>
relayer == <<at, queue_length, payments>>
harness_vars == <<driver, relayer, interrupted, child, late, faults>>

Children == {"kathy", "relayer", "validator", "node"}
Limit == IF kathy_rounds = NotGiven THEN MaxMessages ELSE kathy_rounds * PerRound
Expected == kathy_rounds * PerRound
Messages == DOMAIN at
In(places) == {m \in Messages : at[m] \in places}
Alive(c) == child[c] \in {"up", "signalled"}

-----------------------------------------------------------------------------
(***************************************************************************)
(* Plausible mistakes, each in place of the definition it names.           *)
(***************************************************************************)
JoinsWhileRunning ==                                              \* StopWatchers
  /\ main = "drop" /\ to_stop = <<>>
  /\ main' = "join"
  /\ UNCHANGED <<ci_mode, kathy_rounds, RUNNING, to_stop, watchers, kathy_done, code>>
  /\ UNCHANGED <<relayer, interrupted, child, late, faults>>
MaxIndexSuffices == TRUE                                          \* CountIsExpected

-----------------------------------------------------------------------------
HarnessInit ==
  /\ ci_mode \in BOOLEAN
  /\ kathy_rounds \in {IF ci_mode /\ r = NotGiven THEN DefaultRounds ELSE r : r \in GivenRounds}
  /\ main = "build"
  /\ RUNNING = TRUE /\ interrupted = FALSE
  /\ child = [c \in Children |-> "none"]
  /\ to_stop = <<>>
  /\ watchers = <<>>
  /\ kathy_done = FALSE /\ late = FALSE
  /\ code = -1
  /\ at = [m \in 0 .. Limit - 1 |-> "none"]
  /\ queue_length = NotGiven /\ payments = 0
  /\ faults = 0

(* A return or a panic of main drops the State; the temporary directories are  *)
(* declared before it and dropped after it.                                    *)
Leave(exit) == main' = "drop" /\ code' = exit /\ to_stop' = <<"kathy", "relayer", "validator", "node">>
Panic == Leave(101)

Fault == faults < MaxFaults /\ faults' = faults + 1

(* build_cmd: there is no State yet that a panic would drop. *)
Build ==
  /\ main = "build"
  /\ \/ main' = "launch" /\ UNCHANGED <<code, faults>>
     \/ Fault /\ main' = "exited" /\ code' = 101
  /\ UNCHANGED <<ci_mode, kathy_rounds, RUNNING, to_stop, watchers, kathy_done, relayer, interrupted, child, late>>

Streams(c) == IF c = "kathy" THEN 1 ELSE IF c = "node" THEN 0 ELSE AgentStreams
Watchers == 1 .. 2 * AgentStreams + 1

Spawn(c, next) ==
  /\ \/ /\ child' = [child EXCEPT ![c] = "up"]
        /\ watchers' = watchers \o [i \in 1 .. Streams(c) |-> [of |-> c, state |-> "reading"]]
        /\ main' = next
        /\ UNCHANGED <<code, to_stop, faults>>
     \/ Fault /\ Panic /\ UNCHANGED <<child, watchers>>
  /\ UNCHANGED <<ci_mode, kathy_rounds, RUNNING, kathy_done, relayer, interrupted, late>>

(* Deploys the contracts; asserts that it succeeded. *)
Deploy ==
  /\ main = "deploy"
  /\ \/ child["node"] = "up" /\ main' = "relayer" /\ UNCHANGED <<code, to_stop, faults>>
     \/ child["node"] = "up" /\ Fault /\ Panic
     \/ child["node"] # "up" /\ Panic /\ UNCHANGED faults
  /\ UNCHANGED <<ci_mode, kathy_rounds, RUNNING, watchers, kathy_done, relayer, interrupted, child, late>>

Setup ==
  \/ Build
  \/ main = "launch" /\ Spawn("node", "deploy")
  \/ Deploy
  \/ main = "relayer" /\ Spawn("relayer", "validator")
  \/ main = "validator" /\ Spawn("validator", "kathy")
  \/ main = "kathy" /\ Spawn("kathy", "loop")

-----------------------------------------------------------------------------
(***************************************************************************)
(* The main loop.                                                          *)
(***************************************************************************)
Looking == UNCHANGED <<ci_mode, kathy_rounds, RUNNING, watchers, relayer, interrupted, child, late, faults>>
Goto(label) == main' = label /\ UNCHANGED <<code, to_stop>>

Loop ==
  /\ main = "loop"
  /\ IF RUNNING THEN Goto("kathy?") ELSE Leave(0)
  /\ UNCHANGED kathy_done /\ Looking

CheckKathy ==
  /\ main = "kathy?"
  /\ kathy_done' = (kathy_done \/ child["kathy"] = "ok")
  /\ IF ~ kathy_done /\ child["kathy"] = "failed" THEN Leave(1)
     ELSE IF ci_mode THEN Goto(IF kathy_done' THEN "queues?" ELSE "time?")
     ELSE IF kathy_done' THEN Leave(0) ELSE Goto("loop")
  /\ Looking

(* Each metric is asked for in a call of its own, unwrapped. *)
Metric(label, Test, then, otherwise) ==
  /\ main = label
  /\ IF ~ Alive("relayer") \/ queue_length = NotGiven THEN Panic
     ELSE IF Test THEN then ELSE otherwise
  /\ UNCHANGED kathy_done /\ Looking

RetryQueuesEmpty == Metric("queues?", queue_length = 0, Goto("max?"), Goto("time?"))

(* assert_termination_invariants; in u32, 0 - 1 panics or is no index.  *)
MaxIndexIsExpected == Expected > 0 /\ Max({0} \cup In({"processed"})) = Expected - 1
CountIsExpected == Cardinality(In({"processed"})) = Expected
PaymentsAreExpected == payments >= Expected

AssertTerminationInvariants ==
  \/ Metric("max?", MaxIndexIsExpected, Goto("count?"), Panic)
  \/ Metric("count?", CountIsExpected, Goto("payments?"), Panic)
  \/ Metric("payments?", PaymentsAreExpected, Leave(0), Panic)

CheckTime ==
  /\ main = "time?"
  /\ IF late THEN Leave(1) ELSE Goto("loop")
  /\ UNCHANGED kathy_done /\ Looking

-----------------------------------------------------------------------------
(***************************************************************************)
(* State::drop: each child in turn is signalled and waited for.            *)
(***************************************************************************)
StopChild ==
  /\ main = "drop" /\ to_stop # <<>> /\ child[Head(to_stop)] = "up"
  /\ child' = [child EXCEPT ![Head(to_stop)] = "signalled"]
  /\ UNCHANGED <<driver, relayer, interrupted, late, faults>>

WaitChild ==
  /\ main = "drop" /\ to_stop # <<>> /\ ~ Alive(Head(to_stop))
  /\ to_stop' = Tail(to_stop)
  /\ UNCHANGED <<ci_mode, kathy_rounds, main, RUNNING, watchers, kathy_done, code>>
  /\ UNCHANGED <<relayer, interrupted, child, late, faults>>

StopWatchers ==
  /\ main = "drop" /\ to_stop = <<>>
  /\ RUNNING' = FALSE
  /\ main' = "join"
  /\ UNCHANGED <<ci_mode, kathy_rounds, to_stop, watchers, kathy_done, code>>
  /\ UNCHANGED <<relayer, interrupted, child, late, faults>>

(* A watcher that panicked makes join().unwrap() panic. *)
JoinWatchers ==
  /\ main = "join"
  /\ watchers # <<>> => Head(watchers).state # "reading"
  /\ IF watchers = <<>> THEN main' = "exited" /\ UNCHANGED <<watchers, code>>
     ELSE IF Head(watchers).state = "panicked" THEN main' = "exited" /\ code' = 101 /\ UNCHANGED watchers
     ELSE watchers' = Tail(watchers) /\ UNCHANGED <<main, code>>
  /\ UNCHANGED <<ci_mode, kathy_rounds, RUNNING, to_stop, kathy_done, relayer, interrupted, child, late, faults>>

Main ==
  \/ Setup
  \/ Loop \/ CheckKathy \/ RetryQueuesEmpty \/ AssertTerminationInvariants \/ CheckTime
  \/ StopChild \/ WaitChild \/ StopWatchers \/ JoinWatchers

-----------------------------------------------------------------------------
(***************************************************************************)
(* The other threads and processes.                                        *)
(***************************************************************************)
Interrupt ==
  /\ main # "exited" /\ ~ interrupted
  /\ RUNNING' = FALSE /\ interrupted' = TRUE
  /\ UNCHANGED <<ci_mode, kathy_rounds, main, to_stop, watchers, kathy_done, code, relayer, child, late, faults>>

(* prefix_log, inspect_and_write_to_file: at the end of the stream the flag is *)
(* looked at; a line that is not UTF-8 ends the loop, a failed write panics.   *)
WatcherBecomes(i, state) ==
  /\ i \in DOMAIN watchers /\ watchers[i].state = "reading"
  /\ watchers' = [watchers EXCEPT ![i].state = state]
  /\ UNCHANGED <<ci_mode, kathy_rounds, main, RUNNING, to_stop, kathy_done, code, relayer, interrupted, child, late>>

WatcherEnds(i) ==
  /\ WatcherBecomes(i, "ended") /\ UNCHANGED faults
  /\ ~ Alive(watchers[i].of) /\ ~ RUNNING

WatcherFails(i) == Fault /\ \E state \in {"ended", "panicked"} : WatcherBecomes(i, state)

ChildBecomes(c, state) ==
  /\ child' = [child EXCEPT ![c] = state]
  /\ UNCHANGED <<driver, relayer, interrupted, late>>

Stopped(c) == child[c] = "signalled" /\ ChildBecomes(c, "failed") /\ UNCHANGED faults
ChildFails(c) == child[c] = "up" /\ Fault /\ ChildBecomes(c, "failed")

KathyFinishes ==
  /\ child["kathy"] = "up" /\ kathy_rounds # NotGiven /\ In({"none"}) = {}
  /\ ChildBecomes("kathy", "ok") /\ UNCHANGED faults

TimePasses ==
  /\ main \in {"loop", "kathy?", "queues?", "time?"} /\ ~ late
  /\ late' = TRUE
  /\ UNCHANGED <<driver, relayer, interrupted, child, faults>>

Moves(m, from, to) == at[m] = from /\ at' = [at EXCEPT ![m] = to]

(* The messages pass through the relayer on two inboxes, in any order.         *)
KathySends == Alive("kathy") /\ (\E m \in Messages :
  Moves(m, "none", "dispatched") /\ \A n \in 0 .. m - 1 : at[n] # "none") /\ UNCHANGED <<queue_length, payments>>
SubmittersStart ==
  Alive("relayer") /\ queue_length = NotGiven /\ queue_length' = 0 /\ UNCHANGED <<at, payments>>
Forward ==
  /\ Alive("relayer") /\ queue_length # NotGiven
  /\ \E m \in Messages : Moves(m, "dispatched", "channel")
  /\ UNCHANGED <<queue_length, payments>>
SubmitterTick ==
  /\ Alive("relayer") /\ queue_length # NotGiven
  /\ at' = [m \in Messages |-> IF at[m] = "channel" THEN "run" ELSE at[m]]
  /\ queue_length' = Cardinality(In({"channel", "run"}))
  /\ UNCHANGED payments
RecordSuccess ==
  /\ Alive("relayer") /\ \E m \in Messages : Moves(m, "run", "processed")
  /\ UNCHANGED <<queue_length, payments>>
(* The gauge grows by what a query returns; the look-back returns a payment    *)
(* again and again.                                                            *)
SyncGasPayments ==
  /\ Alive("relayer")
  /\ \E n \in 1 .. Cardinality(Messages \ In({"none"})) : payments' = Min({payments + n, Limit})
  /\ UNCHANGED <<at, queue_length>>

Traffic ==
  /\ KathySends \/ SubmittersStart \/ Forward \/ SubmitterTick \/ RecordSuccess \/ SyncGasPayments
  /\ UNCHANGED <<driver, interrupted, child, late, faults>>

HarnessNext ==
  \/ Main \/ Interrupt \/ TimePasses \/ KathyFinishes \/ Traffic
  \/ \E c \in Children : Stopped(c) \/ ChildFails(c)
  \/ \E i \in Watchers : WatcherEnds(i) \/ WatcherFails(i)

(* The scheduler runs the driver's threads, a command it waits for returns, a  *)
(* child that gets SIGTERM ends, and time passes.  Nothing is asked of kathy,  *)
(* the relayer or the validator.                                               *)
HarnessFairness ==
  /\ WF_harness_vars(Main) /\ WF_harness_vars(TimePasses)
  /\ \A c \in Children : WF_harness_vars(Stopped(c))
  /\ \A i \in Watchers : WF_harness_vars(WatcherEnds(i))

HarnessSpec == HarnessInit /\ [][HarnessNext]_harness_vars /\ HarnessFairness

-----------------------------------------------------------------------------
(***************************************************************************)
(* Properties.                                                             *)
(***************************************************************************)

(* A CI run that was not interrupted reports success only when the relayer has *)
(* processed every message, though it is asked for each number separately, two *)
(* inboxes overtake each other, and the queues may have been empty before the  *)
(* last message got into them.                                                 *)
SuccessMeansProcessed ==
  main = "exited" /\ code = 0 /\ ci_mode /\ ~ interrupted => In({"processed"}) = Messages

(* The driver comes to an end, and leaves no child behind, whenever a child or *)
(* a watcher fails, on SIGINT, when kathy has finished, and in CI mode within  *)
(* the timeout even if kathy hangs.                                            *)
HarnessEnds ==
  (\/ main \in {"drop", "join"} \/ interrupted
   \/ main = "loop" /\ (ci_mode \/ ~ Alive("kathy")))
  ~> (main = "exited" /\ \A c \in Children : ~ Alive(c))

=============================================================================
