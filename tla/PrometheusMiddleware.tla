------------------------ MODULE PrometheusMiddleware ------------------------
(***************************************************************************)
(* A provider as the agents stack it up (abacus-ethereum trait_builder.rs):*)
(* contract operations, over PrometheusMiddleware (ethers-prometheus),     *)
(* over RetryingProvider (abacus-ethereum retrying.rs), over a node.       *)
(*                                                                         *)
(* Client tasks run contract operations, tracker tasks add wallets and     *)
(* tokens to the middleware's configuration, and the updater task that     *)
(* wrap_with_metrics spawns refreshes the gauges.  They share one RwLock   *)
(* over the configuration: tokio grants it in the order of the requests,   *)
(* so a reader behind a waiting writer waits too.  The updater keeps its   *)
(* read guard across all the requests of an update.                        *)
(*                                                                         *)
(* A task runs from one await to the next in one step.                     *)
(***************************************************************************)
EXTENDS Integers, Sequences, FiniteSets, SequencesExt

CONSTANTS
  Clients, Trackers,
  Updater,      \* the updater task
  Connection,   \* "http" or "ws"
  HttpRequests, \* max_requests of RetryingProvider: 6
  Used,         \* operations the clients use
  MaxOps        \* bound on the operations of a client

ASSUME PrometheusMiddlewareAssumption ==
  /\ IsFiniteSet(Clients)
  /\ Updater \notin Clients \cup Trackers /\ Clients \cap Trackers = {}
  /\ Connection \in {"http", "ws"}
  /\ HttpRequests \in Nat \ {0}
  /\ MaxOps \in Nat

VARIABLES
  pc,        \* where each task is
  signer,    \* whether the stack has a SignerMiddleware on top
  todo,      \* [Clients -> the RPC methods the operation has still to request]
  attempt,   \* [tasks -> the attempt of the request in flight, 0 for none]
  queue,     \* tasks waiting for the configuration lock, in order
  held,      \* the updater holds its read guard
  tracked,   \* [wallets |-> , tokens |-> ]: how many of each are tracked
  left,      \* balance requests left in the update
  count,     \* transaction_send_total by txn_status
  aborted,   \* sends whose task was aborted while in flight
  ops,       \* [Clients -> operations begun]
  dropped    \* the contract objects, and the provider they own, are dropped

vars == <<pc, signer, todo, attempt, queue, held, tracked, left, count, aborted, ops, dropped>>

Tasks == Clients \cup Trackers \cup {Updater}

-----------------------------------------------------------------------------
(***************************************************************************)
(* The contract operations, by the requests they make.                     *)
(***************************************************************************)
OutboxOps(op, sign) ==
  CASE op \in {"state", "count", "latest_cached_root", "latest_cached_checkpoint",
               "latest_checkpoint", "validator_manager"} -> <<"eth_call">>
    [] op = "latest_checkpoint with lag" -> <<"eth_blockNumber", "eth_call">>
    [] op = "status" -> <<"eth_getTransactionReceipt">>
    [] op \in {"dispatch", "cache_checkpoint"} -> <<sign>>
    [] OTHER -> <<>>

InboxOps(op) ==
  CASE op \in {"remote_domain", "message_status"} -> <<"eth_call">>
    [] OTHER -> <<>>

ManagerOps(op, sign) == IF op = "process" THEN <<"eth_estimateGas", sign>> ELSE <<>>

IndexerOps(op) ==
  CASE op = "get_finalized_block_number" -> <<"eth_blockNumber">>
    [] op = "fetch_sorted_messages" -> <<"eth_getLogs">>
    [] op = "fetch_sorted_cached_checkpoints" -> <<"eth_getLogs", "eth_call">>
    [] OTHER -> <<>>

GasIndexerOps(op) == IF op = "fetch_gas_payments" THEN <<"eth_getLogs">> ELSE <<>>

(* The caching wrappers of abacus-base hand each operation on to the enum over *)
(* the kinds of chain, and that to the client of the chain.                    *)
OutboxVariantsOps(op, sign) == OutboxOps(op, sign)
CachingOutboxOps(op, sign) == OutboxVariantsOps(op, sign)
InboxVariantsOps(op) == InboxOps(op)
CachingInboxOps(op) == InboxVariantsOps(op)
ManagerVariantsOps(op, sign) == ManagerOps(op, sign)
IndexersOps(op) == IndexerOps(op) \o GasIndexerOps(op)

(* With a SignerMiddleware on top a transaction arrives signed, and is sent raw. *)
Sign == IF signer THEN "eth_sendRawTransaction" ELSE "eth_sendTransaction"

Requests(op) ==
  CachingOutboxOps(op, Sign) \o CachingInboxOps(op) \o ManagerVariantsOps(op, Sign) \o IndexersOps(op)

-----------------------------------------------------------------------------
(***************************************************************************)
(* Plausible mistakes, each in place of the definition it names.           *)
(***************************************************************************)
CountsOnlySuccess(ok) == IF ok THEN [count EXCEPT !.completed = @ + 1] ELSE count  \* Settled
GuardOutlivesUpdate == TRUE                      \* GuardAtTick: the guard is not let go
StrongReference == FALSE                         \* ProviderGone: the updater keeps the provider

-----------------------------------------------------------------------------
Init ==
  /\ signer \in BOOLEAN
  /\ pc = [t \in Tasks |-> IF t = Updater THEN "tick" ELSE "idle"]
  /\ todo = [t \in Clients |-> <<>>]
  /\ attempt = [t \in Tasks |-> 0]
  /\ queue = <<>>
  /\ held = FALSE
  /\ tracked = [wallets |-> 1, tokens |-> 0]
  /\ left = 0
  /\ count = [dispatched |-> 0, completed |-> 0, failed |-> 0]
  /\ aborted = 0
  /\ ops = [t \in Clients |-> 0]
  /\ dropped = FALSE

(* Whether the lock is granted to a task: it is first in the queue, and a      *)
(* writer also waits for the guard to be released.                             *)
Granted(t) == queue # <<>> /\ Head(queue) = t /\ (t \in Trackers => ~ held)

(* RetryingProvider::request.  Only Http is wrapped in it.                     *)
MaxRequests == IF Connection = "http" THEN HttpRequests ELSE 1
METHODS_TO_NOT_RETRY == {"eth_estimateGas", "eth_sendTransaction", "eth_sendRawTransaction"}
Errors == {"ReqwestError", "JsonRpcError", "SerdeJson"}
Retried(t, method, error) ==
  /\ attempt[t] < MaxRequests
  /\ error = "JsonRpcError" => method \notin METHODS_TO_NOT_RETRY

(* An answer of the node to a request in flight: "more" is the next attempt,   *)
(* after the backoff; the request returns ok or with the last error.           *)
Answer(t, method, result) ==
  /\ attempt[t] > 0
  /\ \E answer \in {"Ok"} \cup Errors :
       IF answer = "Ok" THEN result = "ok"
       ELSE result = (IF Retried(t, method, answer) THEN "more" ELSE "error")

NextAttempt(t, result) ==
  attempt' = [attempt EXCEPT ![t] = IF result = "more" THEN @ + 1 ELSE 0]

-----------------------------------------------------------------------------
(***************************************************************************)
(* A client runs an operation, request by request.                         *)
(***************************************************************************)
(* Begin the next request: send_transaction first reads the configuration for  *)
(* the chain's name; any other request goes to the node at once.               *)
Launch(t, methods) ==
  IF methods = <<>>
  THEN /\ pc' = [pc EXCEPT ![t] = "idle"] /\ UNCHANGED <<attempt, queue>>
  ELSE IF Head(methods) = "eth_sendTransaction"
  THEN /\ pc' = [pc EXCEPT ![t] = "name"] /\ queue' = Append(queue, t)
       /\ attempt' = [attempt EXCEPT ![t] = 0]
  ELSE /\ pc' = [pc EXCEPT ![t] = "request"] /\ attempt' = [attempt EXCEPT ![t] = 1] /\ UNCHANGED queue

Begin(t) ==
  /\ pc[t] = "idle" /\ ops[t] < MaxOps /\ ~ dropped
  /\ ops' = [ops EXCEPT ![t] = @ + 1]
  /\ \E op \in Used : todo' = [todo EXCEPT ![t] = Requests(op)] /\ Launch(t, Requests(op))
  /\ UNCHANGED <<signer, held, tracked, left, count, aborted, dropped>>

(* PrometheusMiddleware::send_transaction, up to the inner send. *)
SendTransaction(t) ==
  /\ pc[t] = "name" /\ Granted(t)
  /\ queue' = Tail(queue)
  /\ count' = [count EXCEPT !.dispatched = @ + 1]
  /\ pc' = [pc EXCEPT ![t] = "request"]
  /\ attempt' = [attempt EXCEPT ![t] = 1]
  /\ UNCHANGED <<signer, todo, held, tracked, left, aborted, ops, dropped>>

Settled(ok) == IF ok THEN [count EXCEPT !.completed = @ + 1] ELSE [count EXCEPT !.failed = @ + 1]

(* The request returns.  An error ends the operation; a call is labelled in    *)
(* either case, for which it reads the configuration.                          *)
Receive(t) ==
  /\ pc[t] = "request"
  /\ \E result \in {"ok", "error", "more"} :
       /\ Answer(t, Head(todo[t]), result)
       /\ LET rest == IF result = "ok" THEN Tail(todo[t]) ELSE <<>> IN
          CASE result = "more" ->
                 /\ NextAttempt(t, result)
                 /\ UNCHANGED <<pc, todo, queue, count>>
            [] result # "more" /\ Head(todo[t]) = "eth_call" ->
                 /\ NextAttempt(t, result)
                 /\ pc' = [pc EXCEPT ![t] = "label"]
                 /\ queue' = Append(queue, t)
                 /\ todo' = [todo EXCEPT ![t] = rest]
                 /\ UNCHANGED count
            [] result # "more" /\ Head(todo[t]) = "eth_sendTransaction" ->
                 /\ count' = Settled(result = "ok")
                 /\ NextAttempt(t, result)
                 /\ pc' = [pc EXCEPT ![t] = "idle"]   \* a send is the last request of an operation
                 /\ todo' = [todo EXCEPT ![t] = <<>>]
                 /\ UNCHANGED queue
            [] OTHER ->
                 /\ todo' = [todo EXCEPT ![t] = rest]
                 /\ IF rest = <<>>
                    THEN /\ pc' = [pc EXCEPT ![t] = "idle"] /\ NextAttempt(t, result) /\ UNCHANGED queue
                    ELSE Launch(t, rest)
                 /\ UNCHANGED count
  /\ UNCHANGED <<signer, held, tracked, left, aborted, ops, dropped>>

(* The labels and the counts of a call, then the next request or the end. *)
LabelCall(t) ==
  /\ pc[t] = "label" /\ Granted(t)
  /\ todo[t] = <<>>
  /\ queue' = Tail(queue)
  /\ pc' = [pc EXCEPT ![t] = "idle"]
  /\ UNCHANGED <<signer, todo, attempt, held, tracked, left, count, aborted, ops, dropped>>

(* The task of a client is aborted at an await: its place in the queue goes,   *)
(* and a send in flight is never counted as completed or failed.               *)
Abort(t) ==
  /\ pc[t] # "aborted" /\ ~ dropped
  /\ pc' = [pc EXCEPT ![t] = "aborted"]
  /\ todo' = [todo EXCEPT ![t] = <<>>]
  /\ attempt' = [attempt EXCEPT ![t] = 0]
  /\ queue' = SelectSeq(queue, LAMBDA u : u # t)
  /\ aborted' = IF pc[t] = "request" /\ Head(todo[t]) = "eth_sendTransaction" THEN aborted + 1 ELSE aborted
  /\ UNCHANGED <<signer, held, tracked, left, count, ops, dropped>>

(* The last of the contract objects is dropped, and with it the provider. *)
Drop ==
  /\ ~ dropped
  /\ \A t \in Clients : pc[t] \in {"idle", "aborted"}
  /\ \A t \in Trackers : pc[t] # "write"
  /\ dropped' = TRUE
  /\ UNCHANGED <<pc, signer, todo, attempt, queue, held, tracked, left, count, aborted, ops>>

-----------------------------------------------------------------------------
(***************************************************************************)
(* track_new_wallet(s) and track_new_token(s).                             *)
(***************************************************************************)
Track(t) ==
  /\ pc[t] = "idle" /\ ~ dropped
  /\ pc' = [pc EXCEPT ![t] = "write"]
  /\ queue' = Append(queue, t)
  /\ UNCHANGED <<signer, todo, attempt, held, tracked, left, count, aborted, ops, dropped>>

Insert(t) ==
  /\ pc[t] = "write" /\ Granted(t)
  /\ queue' = Tail(queue)
  /\ pc' = [pc EXCEPT ![t] = "done"]
  /\ \E what \in {"wallets", "tokens"} : tracked' = [tracked EXCEPT ![what] = @ + 1]
  /\ UNCHANGED <<signer, todo, attempt, held, left, count, aborted, ops, dropped>>

-----------------------------------------------------------------------------
(***************************************************************************)
(* start_updating_on_interval.                                             *)
(***************************************************************************)
ProviderGone == dropped
GuardAtTick == FALSE

(* Weak::upgrade at a tick of the interval, and the call of update. *)
Tick ==
  /\ pc[Updater] = "tick"
  /\ IF ProviderGone
     THEN pc' = [pc EXCEPT ![Updater] = "ended"] /\ UNCHANGED queue
     ELSE pc' = [pc EXCEPT ![Updater] = "read"] /\ queue' = Append(queue, Updater)
  /\ UNCHANGED <<signer, todo, attempt, held, tracked, left, count, aborted, ops, dropped>>

UpdateStarts ==
  /\ pc[Updater] = "read" /\ Granted(Updater)
  /\ queue' = Tail(queue)
  /\ held' = TRUE
  /\ pc' = [pc EXCEPT ![Updater] = "block"]
  /\ attempt' = [attempt EXCEPT ![Updater] = 1]
  /\ UNCHANGED <<signer, todo, tracked, left, count, aborted, ops, dropped>>

UpdateEnds == pc' = [pc EXCEPT ![Updater] = "tick"] /\ held' = GuardAtTick

(* update_block_details: get_block; an error only leaves the gauges alone.     *)
UpdateBlockDetails ==
  /\ pc[Updater] = "block"
  /\ \E result \in {"ok", "error", "more"} :
       /\ Answer(Updater, "eth_getBlockByNumber", result)
       /\ IF result = "more"
          THEN NextAttempt(Updater, result) /\ UNCHANGED <<pc, held, left>>
          ELSE /\ left' = tracked.wallets * (1 + tracked.tokens)
               /\ IF left' = 0
                  THEN UpdateEnds /\ attempt' = [attempt EXCEPT ![Updater] = 0]
                  ELSE /\ pc' = [pc EXCEPT ![Updater] = "balance"]
                       /\ attempt' = [attempt EXCEPT ![Updater] = 1]
                       /\ UNCHANGED held
  /\ UNCHANGED <<signer, todo, queue, tracked, count, aborted, ops, dropped>>

(* update_wallet_balances: for each wallet its native balance and that of each *)
(* token; an error skips one of them.                                          *)
UpdateWalletBalances ==
  /\ pc[Updater] = "balance"
  /\ \E result \in {"ok", "error", "more"} :
       /\ Answer(Updater, "eth_getBalance", result)
       /\ IF result = "more"
          THEN NextAttempt(Updater, result) /\ UNCHANGED <<pc, held, left>>
          ELSE /\ left' = left - 1
               /\ IF left' = 0
                  THEN UpdateEnds /\ attempt' = [attempt EXCEPT ![Updater] = 0]
                  ELSE attempt' = [attempt EXCEPT ![Updater] = 1] /\ UNCHANGED <<pc, held>>
  /\ UNCHANGED <<signer, todo, queue, tracked, count, aborted, ops, dropped>>

-----------------------------------------------------------------------------
ClientProceeds(t) == SendTransaction(t) \/ Receive(t) \/ LabelCall(t)
UpdaterProceeds == Tick \/ UpdateStarts \/ UpdateBlockDetails \/ UpdateWalletBalances

Next ==
  \/ \E t \in Clients : Begin(t) \/ ClientProceeds(t) \/ Abort(t)
  \/ \E t \in Trackers : Track(t) \/ Insert(t)
  \/ UpdaterProceeds
  \/ Drop

(* The runtime polls every task that can go on, and a request that is sent     *)
(* comes back in the end, if only as an error of the HTTP client.              *)
Fairness ==
  /\ \A t \in Clients : WF_vars(ClientProceeds(t))
  /\ \A t \in Trackers : WF_vars(Insert(t))
  /\ WF_vars(UpdaterProceeds)

Spec == Init /\ [][Next]_vars /\ Fairness

-----------------------------------------------------------------------------
(***************************************************************************)
(* Properties.                                                             *)
(***************************************************************************)

(* transaction_send_total adds up: every send counted as dispatched is counted *)
(* as completed or as failed, or is in flight, or was aborted in flight - also *)
(* when retries, waits for the lock and aborts fall between the two counts.    *)
EverySendAccounted ==
  count.dispatched = count.completed + count.failed + aborted
    + Cardinality({t \in Clients : pc[t] = "request" /\ Head(todo[t]) = "eth_sendTransaction"})

(* However many updates, writers and other clients want the configuration, and *)
(* although an update holds it while it waits for the node, no task waits for  *)
(* ever: an operation returns, and a wallet or token is tracked.               *)
EveryRequestReturns ==
  /\ \A t \in Clients : pc[t] \in {"name", "request", "label"} ~> pc[t] \in {"idle", "aborted"}
  /\ \A t \in Trackers : pc[t] = "write" ~> pc[t] = "done"

(* The updater is spawned and never joined: it ends by itself once the         *)
(* provider is dropped, an update in progress notwithstanding.                 *)
UpdaterEnds == dropped ~> pc[Updater] = "ended"

=============================================================================
