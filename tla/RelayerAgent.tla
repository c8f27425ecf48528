---------------------------- MODULE RelayerAgent ----------------------------
(***************************************************************************)
(* The relayer process from its settings to its exit code: _main and       *)
(* Relayer::run (agents/relayer/src), try_into_abacus_core (abacus-base/   *)
(* src/settings/mod.rs), and how the tasks are joined, selected, cancelled *)
(* and dropped (abacus-base/src/agent.rs).                                 *)
(*                                                                         *)
(* What a task does until it ends is the subject of the other modules.     *)
(* Here it fails at any time, by an Err or by a panic, within a bound, and *)
(* every step between two awaits is one action.                            *)
(***************************************************************************)
EXTENDS RelayerSettings

CONSTANTS
  SourceLists,  \* the lists of sources a process may start with
  Messages,     \* messages of the outbox
  MaxFailures   \* bound on failures of the environment and of tasks

ASSUME RelayerAgentAssumption ==
  /\ MaxFailures \in Nat
  /\ \A m \in Messages : m = [origin |-> m.origin, sender |-> m.sender,
                              destination |-> m.destination, recipient |-> m.recipient]
  /\ \A list \in SourceLists : list \in Seq({list[i] : i \in DOMAIN list})
  /\ \A list \in SourceLists : \A i \in DOMAIN list :
       \A key \in {<<"base", "whitelist">>, <<"base", "blacklist">>} \cap DOMAIN list[i] :
         list[i][key] \in DOMAIN Lists

VARIABLES
  sources,    \* base file, partial file, ABC_BASE and ABC_RELAYER environment
  phase,      \* "settings", "connect", "spawn", "running", "cancelling", "ended"
  exit,       \* exit code, -1 before
  registry,   \* names registered with prometheus
  cell,       \* whether CoreMetrics::provider_metrics is set
  todo,       \* connections still to be made
  contracts,  \* the contract objects made: <<scope, kind, signer>>
  st,         \* state of each task
  order,      \* running: the tasks of run_all; cancelling: those still to be cancelled
  first,      \* the result of the task select_all returned
  detached,   \* the running tasks whose handle nobody awaits
  failures

vars == <<sources, phase, exit, registry, cell, todo, contracts, st, order, first, detached, failures>>

Settings == NewSettings(sources)

(* Tasks.  run_all holds the handles of the inbox tasks, the fetcher and the   *)
(* two sync tasks; an inbox task holds those of its submitter and processor, a *)
(* sync task that of its loop.                                                 *)
Inbox(k) == <<k, "inbox">>
Submitter(k) == <<k, "submitter">>
Processor(k) == <<k, "processor">>
Fetcher == <<"relayer", "checkpoint fetcher">>
Syncs == {"messages", "gas payments"}
Sync(data) == <<data, "sync">>
SyncLoop(data) == <<data, "loop">>
Workers == {Submitter(k) : k \in InboxKeys} \cup {Processor(k) : k \in InboxKeys}
             \cup {Fetcher} \cup {SyncLoop(data) : data \in Syncs}
Tasks == Workers \cup {Inbox(k) : k \in InboxKeys} \cup {Sync(data) : data \in Syncs}

(* Tasks that are spawned and never joined: the updater of each connection, the *)
(* metrics server, and the loop a processor starts, and aborts when it returns. *)
Updater(connection) == <<"updater", connection>>
HttpServer == <<"relayer", "metrics server">>
MetricsLoop(k) == <<k, "metrics loop">>

Running(t) == st[t] = "running"
Ended(t) == st[t] \in {"ok", "error", "panic"}

CoreNames ==
  {"span_duration_seconds", "span_events_total", "last_known_message_leaf_index",
   "submitter_queue_length", "submitter_queue_duration_seconds", "outbox_state",
   "latest_checkpoint", "messages_processed_count"}
ProviderNames ==
  {"block_height", "gas_price_gwei", "contract_call_duration_seconds", "contract_call_count",
   "transaction_send_duration_seconds", "transaction_send_total", "wallet_balance"}
SyncNames == {"contract_sync_block_height", "contract_sync_stored_events", "contract_sync_missed_events"}

-----------------------------------------------------------------------------
(***************************************************************************)
(* Plausible mistakes, each in place of the definition it names.           *)
(***************************************************************************)
CreatedEachTime == FALSE                                                \* Initialized
JoinsBothAlways(k) ==                                                   \* JoinInbox
  /\ Running(Inbox(k)) /\ Ended(Submitter(k)) /\ Ended(Processor(k))
  /\ st' = [st EXCEPT ![Inbox(k)] =
              IF "panic" \in {st[Submitter(k)], st[Processor(k)]} THEN "error" ELSE "ok"]
  /\ UNCHANGED <<sources, phase, exit, registry, cell, todo, contracts, order, first, detached, failures>>

-----------------------------------------------------------------------------
Init ==
  /\ sources \in SourceLists
  /\ phase = "settings"
  /\ exit = -1
  /\ registry = {}
  /\ cell = FALSE
  /\ todo = <<>>
  /\ contracts = {}
  /\ st = [t \in Tasks |-> "none"]
  /\ order = <<>>
  /\ first = "none"
  /\ detached = {}
  /\ failures = 0

(* block_on returns and the runtime is dropped, with every task it still has. *)
Exit(code) ==
  /\ phase' = "ended"
  /\ exit' = code
  /\ st' = [t \in Tasks |-> IF Running(t) THEN "dropped" ELSE st[t]]
  /\ detached' = {}

Fails(outcome) == Exit(IF outcome = "panic" THEN 101 ELSE 1)

(* from_settings up to the database: the syncer, the matching lists, the core  *)
(* metrics.  The first of them that fails ends the process.                    *)
FromSettings ==
  /\ phase = "settings"
  /\ LET outcomes == <<MultisigCheckpointSyncer(Settings), MatchingLists(Settings), MetricsPort(Settings)>>
         Failing == {i \in DOMAIN outcomes : outcomes[i] # "ok"}
     IN IF Failing # {}
        THEN Fails(outcomes[CHOOSE i \in Failing : \A j \in Failing : i <= j]) /\ UNCHANGED <<registry, todo>>
        ELSE /\ phase' = "connect"
             /\ registry' = CoreNames
             /\ \E keys \in SetToSeqs({k \in InboxKeys : ~ Disabled(Settings, k)}) :
                  todo' = OutboxConnections(Settings) \o InboxConnections(keys)
             /\ UNCHANGED <<exit, st, detached>>
  /\ UNCHANGED <<sources, cell, contracts, order, first, failures>>

(* The database, a node or the tracing exporter fails to start. *)
EnvironmentFails ==
  /\ phase \in {"connect", "spawn"} /\ failures < MaxFailures
  /\ failures' = failures + 1
  /\ Exit(1)
  /\ UNCHANGED <<sources, registry, cell, todo, contracts, order, first>>

Initialized == cell

(* The inboxes map that is built goes by the names, not by the keys.  *)
ContractName(c) == IF c[2] = "inbox" THEN InboxName(Settings, c[1]) ELSE c[1]

(* One connection: the signer, the locator, provider_metrics (get_or_init); the *)
(* provider's updater is spawned and let go.                                    *)
Connect ==
  /\ phase = "connect" /\ todo # <<>>
  /\ LET outcome == Connection(Settings, Head(todo)) IN
     IF outcome # "ok"
     THEN Fails(outcome) /\ UNCHANGED <<registry, cell, todo, contracts>>
     ELSE IF ~ Initialized /\ ProviderNames \cap registry # {}
     THEN Fails("panic") /\ UNCHANGED <<registry, cell, todo, contracts>>
     ELSE /\ registry' = registry \cup ProviderNames
          /\ cell' = TRUE
          /\ \E signer \in GetSigner(Settings, Head(todo)[1]) :
               contracts' = contracts \cup {<<ContractName(Head(todo)), Head(todo)[2], signer>>}
          /\ detached' = detached \cup {Updater(Head(todo))}
          /\ todo' = Tail(todo)
          /\ phase' = IF Len(todo) = 1 THEN "spawn" ELSE phase
          /\ UNCHANGED <<exit, st>>
  /\ UNCHANGED <<sources, order, first, failures>>

(* _main after from_settings, and Relayer::run.  The inbox tasks come first, in *)
(* any order; the settings of each are looked up by its name, which panics      *)
(* without them.                                                                *)
Made(scope, kind) == \E c \in contracts : c[1] = scope /\ c[2] = kind

Run ==
  /\ phase = "spawn"
  /\ LET keys == {c[1] : c \in {d \in contracts : d[2] = "inbox"}}
         data == {"messages"} \cup IF Made("outbox", "paymaster") THEN {"gas payments"} ELSE {}
     IN IF ~ (keys \subseteq InboxKeys) \/ SyncNames \cap registry # {}
        THEN Fails("panic") /\ UNCHANGED <<registry, order>>
        ELSE /\ registry' = registry \cup SyncNames
             /\ phase' = "running"
             /\ st' = [t \in Tasks |->
                         IF \/ t \in {Inbox(k) : k \in keys} \cup {Submitter(k) : k \in keys}
                            \/ t \in {Processor(k) : k \in keys} \cup {Fetcher}
                            \/ t \in {Sync(d) : d \in data} \cup {SyncLoop(d) : d \in data}
                         THEN "running" ELSE "none"]
             /\ detached' = detached \cup {MetricsLoop(k) : k \in keys}
                              \cup IF Given(Settings, "base", "metrics") THEN {HttpServer} ELSE {}
             /\ \E perm \in SetToSeqs(keys) :
                  order' = [i \in DOMAIN perm |-> Inbox(perm[i])] \o <<Fetcher, Sync("messages")>>
                             \o IF "gas payments" \in data THEN <<Sync("gas payments")>> ELSE <<>>
             /\ UNCHANGED exit
  /\ UNCHANGED <<sources, cell, todo, contracts, first, failures>>

-----------------------------------------------------------------------------
(***************************************************************************)
(* The tasks.                                                              *)
(***************************************************************************)
(* A processor that returns aborts its metrics loop; one that panics does not. *)
Becomes(t, result) ==
  /\ st' = [st EXCEPT ![t] = result]
  /\ detached' = detached \ {MetricsLoop(k) : k \in {k \in InboxKeys : t = Processor(k) /\ result # "panic"}}
  /\ UNCHANGED <<sources, phase, exit, registry, cell, todo, contracts, order, first>>

Alive == phase \in {"running", "cancelling"}

(* A worker ends with an Err (not a sync loop's, nor any Ok), or panics. *)
WorkerFails(t) ==
  /\ Alive /\ Running(t) /\ failures < MaxFailures
  /\ failures' = failures + 1
  /\ \E result \in {"error", "panic"} : Becomes(t, result)

(* A detached task panics: the server cannot bind its port, the updater gets a  *)
(* block without a number.  Nobody learns of it.                                *)
DetachedFails(t) ==
  /\ t \in detached /\ failures < MaxFailures
  /\ failures' = failures + 1
  /\ detached' = detached \ {t}
  /\ UNCHANGED <<sources, phase, exit, registry, cell, todo, contracts, st, order, first>>

(* GelatoSubmitter::tick is unimplemented!(). *)
GelatoTick(k) ==
  /\ Alive /\ Running(Submitter(k)) /\ GelatoEnabled(Settings, k)
  /\ Becomes(Submitter(k), "panic") /\ UNCHANGED failures

(* SerialSubmitter::tick finds the channel closed: the processor has ended. *)
SubmitterDisconnected(k) ==
  /\ Alive /\ Running(Submitter(k)) /\ ~ GelatoEnabled(Settings, k) /\ ~ Running(Processor(k))
  /\ Becomes(Submitter(k), "error") /\ UNCHANGED failures

(* MessageProcessor::tick sends a message: the submitter has ended. *)
ProcessorSendFails(k) ==
  /\ Alive /\ Running(Processor(k)) /\ ~ Running(Submitter(k))
  /\ Becomes(Processor(k), "error") /\ UNCHANGED failures

(* try_join! over two JoinHandles: a panic of either ends it, an Err does not. *)
JoinInbox(k) ==
  /\ Alive /\ Running(Inbox(k))
  /\ LET results == {st[Submitter(k)], st[Processor(k)]} IN
     /\ "panic" \in results \/ "running" \notin results
     /\ Becomes(Inbox(k), IF "panic" \in results THEN "error" ELSE "ok")
  /\ UNCHANGED failures

(* CachingOutbox::sync and CachingInterchainGasPaymaster::sync drop the result. *)
SyncEnds(data) ==
  /\ Alive /\ Running(Sync(data)) /\ Ended(SyncLoop(data))
  /\ Becomes(Sync(data), "ok") /\ UNCHANGED failures

(* Vec::swap_remove: the last element takes the place of the one removed. *)
SwapRemove(s, i) == SubSeq([s EXCEPT ![i] = s[Len(s)]], 1, Len(s) - 1)

(* run_all: select_all returns the first task of the list that has ended. *)
Select ==
  /\ phase = "running"
  /\ \E i \in DOMAIN order :
       /\ ~ Running(order[i]) /\ \A j \in 1 .. i - 1 : Running(order[j])
       /\ first' = st[order[i]]
       /\ order' = SwapRemove(order, i)
  /\ phase' = "cancelling"
  /\ UNCHANGED <<sources, exit, registry, cell, todo, contracts, st, detached, failures>>

(* cancel_task!: abort and await.  The tasks of an aborted one run on.         *)
Cancel ==
  /\ phase = "cancelling" /\ order # <<>>
  /\ st' = [st EXCEPT ![Head(order)] = IF @ = "running" THEN "aborted" ELSE @]
  /\ order' = Tail(order)
  /\ UNCHANGED <<sources, phase, exit, registry, cell, todo, contracts, first, detached, failures>>

(* agent.run().await?? : the JoinError of a panic and an Err both end _main.   *)
Return ==
  /\ phase = "cancelling" /\ order = <<>>
  /\ Exit(IF first = "ok" THEN 0 ELSE 1)
  /\ UNCHANGED <<sources, registry, cell, todo, contracts, order, first, failures>>

Startup == FromSettings \/ Connect \/ Run

Next ==
  \/ Startup \/ EnvironmentFails
  \/ \E t \in Workers : WorkerFails(t)
  \/ \E t \in detached : DetachedFails(t)
  \/ \E k \in InboxKeys : GelatoTick(k) \/ SubmitterDisconnected(k) \/ ProcessorSendFails(k) \/ JoinInbox(k)
  \/ \E data \in Syncs : SyncEnds(data)
  \/ Select \/ Cancel \/ Return

(* The runtime polls every task that is woken.  A task need not fail, and a    *)
(* processor need not have a message to send.                                  *)
Fairness ==
  /\ WF_vars(Startup) /\ WF_vars(Select) /\ WF_vars(Cancel) /\ WF_vars(Return)
  /\ \A k \in InboxKeys : WF_vars(GelatoTick(k)) /\ WF_vars(SubmitterDisconnected(k)) /\ WF_vars(JoinInbox(k))
  /\ \A data \in Syncs : WF_vars(SyncEnds(data))

Spec == Init /\ [][Next]_vars /\ Fairness

-----------------------------------------------------------------------------
(***************************************************************************)
(* Properties.                                                             *)
(***************************************************************************)

(* None of the tasks that run_all holds, nor of those that they wait for, stays *)
(* dead while the others run on: whichever fails, the process ends, also if a   *)
(* detached task has died before.  The one exception among them is a submitter  *)
(* that ended with an Err while its processor has nothing to send.  Of the      *)
(* detached tasks (updaters, metrics server, metrics loops) it says nothing:    *)
(* they may stay dead for as long as the relayer runs.                          *)
FailureEndsAgent ==
  \A t \in Tasks :
    (Alive /\ Ended(t) /\ ~ (\E k \in InboxKeys : t = Submitter(k) /\ st[t] = "error")) ~> phase = "ended"

(* An inbox that any source disables has no pipeline, whatever value a more    *)
(* specific source gives; every other inbox has one, and there is a gas        *)
(* payment task if and only if some source gives a paymaster.                  *)
PipelinesAsConfigured ==
  phase = "running" =>
    /\ {k \in InboxKeys : st[Inbox(k)] # "none"}
         = {k \in InboxKeys : \A i \in DOMAIN sources : <<k, "disabled">> \notin DOMAIN sources[i]}
    /\ (st[Sync("gas payments")] # "none")
         = (\E i \in DOMAIN sources : <<"outbox", "interchainGasPaymaster">> \in DOMAIN sources[i])

(* A process whose settings are well formed starts, unless the environment      *)
(* fails: no metric is registered twice, however many connections share the     *)
(* registry.  An inbox whose name is not its key is found out before its        *)
(* settings are looked up by that name: it is an error and never a panic.       *)
StartupNeedsOnlySettings ==
  phase = "ended" /\ (\A t \in Tasks : st[t] = "none") =>
    \/ \E key \in DOMAIN Settings : Settings[key] \in {"bad", "unparsable"}
    \/ exit = 1 /\ failures > 0
    \/ exit = 1 /\ \E k \in InboxKeys : <<k, "name">> \in DOMAIN Settings /\ Settings[<<k, "name">>] # k

(* The relayer forwards what some whitelist rule names (all, without a list)   *)
(* and no blacklist rule names.                                                *)
AdmittedByLists ==
  phase = "spawn" =>
    LET Of(part) == {m[part] : m \in Messages}
        Domains == Of("origin") \cup Of("destination")
        Addresses == Of("sender") \cup Of("recipient")
        white == ListText(Settings, "whitelist")
        black == ListText(Settings, "blacklist")
    IN {m \in Messages : Relays(Settings, m)} =
         (IF white = {} THEN Messages ELSE Messages \cap NamedBy(white, Domains, Addresses))
           \ NamedBy(black, Domains, Addresses)

=============================================================================
