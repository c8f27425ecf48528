-------------------------- MODULE RelayerSettings --------------------------
(***************************************************************************)
(* The settings of a relayer: how the sources are layered                  *)
(* (abacus-base/src/macros.rs), and what each conversion of a setting into *)
(* an object does (abacus-base/src/settings, relayer.rs).                  *)
(*                                                                         *)
(* A setting is named <<scope, name>>; the scope is an inbox key, "outbox" *)
(* or "base".  A source is a function from the settings it gives to their  *)
(* values.  "bad" stands for a value that the code fails to parse.         *)
(*                                                                         *)
(* A conversion returns "ok", "error" (an Err, which ends _main and makes  *)
(* the process exit with 1) or "panic" (exit code 101).                    *)
(***************************************************************************)
EXTENDS MatchingList, FiniteSets

CONSTANTS
  InboxKeys,    \* keys of the inboxes map
  Lists         \* texts of matching lists by name

(* A list goes by the name "unparsable" if it fails to parse. *)
ASSUME RelayerSettingsAssumption ==
  /\ IsFiniteSet(InboxKeys)
  /\ \A name \in DOMAIN Lists \ {"unparsable"} : ParseMatchingList({Lists[name]}) # {}

(***************************************************************************)
(* A plausible mistake, in place of the definition it names.               *)
(***************************************************************************)
DisabledIfTrue(s, k) == <<k, "disabled">> \in DOMAIN s /\ s[<<k, "disabled">>] = "true"  \* Disabled

-----------------------------------------------------------------------------
(* Config::builder: the sources in order, a later one over the ones before. *)
NewSettings(sources) ==
  LET Giving(key) == {i \in DOMAIN sources : key \in DOMAIN sources[i]} IN
  [key \in UNION {DOMAIN sources[i] : i \in DOMAIN sources} |->
     sources[CHOOSE i \in Giving(key) : \A j \in Giving(key) : j <= i][key]]

Given(s, scope, name) == <<scope, name>> \in DOMAIN s
Setting(s, scope, name) == s[<<scope, name>>]
Bad(s, scope, name) == Given(s, scope, name) /\ Setting(s, scope, name) = "bad"

(* The key is set to something, whatever it is. *)
Disabled(s, k) == Given(s, k, "disabled")

(* get_signer: None where there is no signer of that name, where it is the     *)
(* node's, and where making it fails; an AWS signer is made over the network.  *)
GetSigner(s, name) ==
  IF ~ Given(s, name, "signer") THEN {"none"}
  ELSE CASE Setting(s, name, "signer") = "hexKey" -> {"signer"}
         [] Setting(s, name, "signer") = "aws" -> {"signer", "none"}
         [] OTHER -> {"none"}

(* Every validator's syncer is made; the address is checked, the region panics. *)
MultisigCheckpointSyncer(s) ==
  IF Bad(s, "base", "syncer address") THEN "error"
  ELSE IF Bad(s, "base", "syncer region") THEN "panic" ELSE "ok"

ListText(s, name) == IF Given(s, "base", name) THEN {Lists[Setting(s, "base", name)]} ELSE {}
MatchingLists(s) ==
  IF ParseMatchingList(ListText(s, "whitelist")) = {} \/ ParseMatchingList(ListText(s, "blacklist")) = {}
  THEN "panic" ELSE "ok"
Relays(s, m) ==
  \E w \in ParseMatchingList(ListText(s, "whitelist")), b \in ParseMatchingList(ListText(s, "blacklist")) :
    Admits(w, b, m)

MetricsPort(s) == IF Bad(s, "base", "metrics") THEN "panic" ELSE "ok"

(* ContractLocator: the domain panics, the address is an Err.  In try_into_    *)
(* inbox_validator_manager the inbox's address is looked at before the domain. *)
Locator(s, scope, address) ==
  IF Bad(s, scope, "domain") THEN "panic" ELSE IF Bad(s, scope, address) THEN "error" ELSE "ok"

TryIntoOutbox(s) == Locator(s, "outbox", "outbox")
FinalityBlocks(s) == IF Bad(s, "outbox", "finalityBlocks") THEN "panic" ELSE "ok"
TryOutboxIndexer(s) ==
  IF FinalityBlocks(s) = "panic" THEN "panic" ELSE Locator(s, "outbox", "outbox")
TryIntoPaymaster(s) == Locator(s, "outbox", "interchainGasPaymaster")
TryPaymasterIndexer(s) ==
  IF Bad(s, "outbox", "outbox") THEN "error"
  ELSE IF FinalityBlocks(s) = "panic" THEN "panic" ELSE Locator(s, "outbox", "interchainGasPaymaster")
TryIntoInbox(s, k) == Locator(s, k, "inbox")
TryIntoValidatorManager(s, k) ==
  IF Bad(s, k, "inbox") THEN "error" ELSE Locator(s, k, "validatorManager")

(* try_inbox_contracts: the name of an inbox must be its key. *)
InboxName(s, k) == IF Given(s, k, "name") THEN Setting(s, k, "name") ELSE k
NameMatches(s, k) == InboxName(s, k) = k

GelatoEnabled(s, k) == Given(s, k, "gelato") /\ Setting(s, k, "gelato") = "enabled"

(* The connections try_into_abacus_core makes, in order; the inboxes follow in *)
(* the order of a HashMap.                                                     *)
OutboxConnections(s) ==
  << <<"outbox", "outbox">>, <<"outbox", "outbox indexer">> >>
    \o IF Given(s, "outbox", "interchainGasPaymaster")
       THEN << <<"outbox", "paymaster">>, <<"outbox", "paymaster indexer">> >> ELSE <<>>
InboxConnections(keys) ==
  [i \in 1 .. 2 * Len(keys) |->
     <<keys[(i + 1) \div 2], IF i % 2 = 1 THEN "inbox" ELSE "validator manager">>]

Connection(s, c) ==
  CASE c[2] = "outbox" -> TryIntoOutbox(s)
    [] c[2] = "outbox indexer" -> TryOutboxIndexer(s)
    [] c[2] = "paymaster" -> TryIntoPaymaster(s)
    [] c[2] = "paymaster indexer" -> TryPaymasterIndexer(s)
    [] c[2] = "inbox" -> IF NameMatches(s, c[1]) THEN TryIntoInbox(s, c[1]) ELSE "error"
    [] c[2] = "validator manager" -> TryIntoValidatorManager(s, c[1])

=============================================================================
