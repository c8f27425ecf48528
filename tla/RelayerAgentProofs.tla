------------------------- MODULE RelayerAgentProofs -------------------------
(***************************************************************************)
(* Proofs about the relayer's process and its settings, for any inboxes,   *)
(* any sources of settings, any matching lists and any number of failures: *)
(* which pipelines there are, what a failed start means, and which         *)
(* messages the lists admit.                                               *)
(***************************************************************************)
EXTENDS RelayerAgent, FiniteSetTheorems, TLAPS

IsMessage(m) ==
  m = [origin |-> m.origin, sender |-> m.sender, destination |-> m.destination, recipient |-> m.recipient]

-----------------------------------------------------------------------------
(***************************************************************************)
(* Matching lists: what parsing makes of a list admits what the list names.*)
(***************************************************************************)
LEMMA DomainVisited ==
  ASSUME NEW json, NEW filter \in VisitDomain(json), NEW universe, NEW v \in universe
  PROVE  Matches(filter, v) <=> v \in Named(json, universe)
<1>1. CASE json.kind = "wildcard"
  <2>1. filter = Wildcard
    BY <1>1 DEF VisitDomain, Visit
  <2> QED
    BY <1>1, <2>1 DEF Wildcard, Matches, Named
<1>2. CASE json.kind # "wildcard" /\ json.kind # "list"
  <2>1. PICK w \in StrOrInt(json) : filter = Enumerated({w})
    BY <1>2 DEF VisitDomain, Visit
  <2>2. w = json.value
    BY DEF StrOrInt
  <2> QED
    BY <1>2, <2>1, <2>2 DEF Enumerated, Matches, Named
<1>3. CASE json.kind = "list"
  <2>1. /\ \A i \in DOMAIN json.value : StrOrInt(json.value[i]) # {}
        /\ filter = Enumerated(UNION {StrOrInt(json.value[i]) : i \in DOMAIN json.value})
    BY <1>3 DEF VisitDomain, Visit
  <2>2. \A i \in DOMAIN json.value : StrOrInt(json.value[i]) = {json.value[i].value}
    BY <2>1 DEF StrOrInt
  <2>3. UNION {StrOrInt(json.value[i]) : i \in DOMAIN json.value} = {json.value[i].value : i \in DOMAIN json.value}
    BY <2>2
  <2> QED
    BY <1>3, <2>1, <2>3 DEF Enumerated, Matches, Named
<1> QED
  BY <1>1, <1>2, <1>3

LEMMA AddressVisited ==
  ASSUME NEW json, NEW filter \in VisitAddress(json), NEW universe, NEW v \in universe
  PROVE  Matches(filter, v) <=> v \in Named(json, universe)
<1>1. CASE json.kind = "wildcard"
  <2>1. filter = Wildcard
    BY <1>1 DEF VisitAddress, Visit
  <2> QED
    BY <1>1, <2>1 DEF Wildcard, Matches, Named
<1>2. CASE json.kind # "wildcard" /\ json.kind # "list"
  <2>1. PICK w \in ParseAddr(json) : filter = Enumerated({w})
    BY <1>2 DEF VisitAddress, Visit
  <2>2. w = json.value
    BY DEF ParseAddr
  <2> QED
    BY <1>2, <2>1, <2>2 DEF Enumerated, Matches, Named
<1>3. CASE json.kind = "list"
  <2>1. /\ \A i \in DOMAIN json.value : ParseAddr(json.value[i]) # {}
        /\ filter = Enumerated(UNION {ParseAddr(json.value[i]) : i \in DOMAIN json.value})
    BY <1>3 DEF VisitAddress, Visit
  <2>2. \A i \in DOMAIN json.value : ParseAddr(json.value[i]) = {json.value[i].value}
    BY <2>1 DEF ParseAddr
  <2>3. UNION {ParseAddr(json.value[i]) : i \in DOMAIN json.value} = {json.value[i].value : i \in DOMAIN json.value}
    BY <2>2
  <2> QED
    BY <1>3, <2>1, <2>3 DEF Enumerated, Matches, Named
<1> QED
  BY <1>1, <1>2, <1>3

(* A rule, parsed from an object, and the product of four sets it stands for.  *)
LEMMA RuleNames ==
  ASSUME NEW object, NEW rule \in ListElement(object), NEW m, IsMessage(m),
         NEW domains, m.origin \in domains, m.destination \in domains,
         NEW addresses, m.sender \in addresses, m.recipient \in addresses
  PROVE  (/\ Matches(rule.src_domain, m.origin) /\ Matches(rule.src_address, m.sender)
          /\ Matches(rule.dst_domain, m.destination) /\ Matches(rule.dst_address, m.recipient))
           <=> m \in Product(object, domains, addresses)
<1>1. /\ rule.src_domain \in VisitDomain(Field(object, "sourceDomain"))
      /\ rule.src_address \in VisitAddress(Field(object, "sourceAddress"))
      /\ rule.dst_domain \in VisitDomain(Field(object, "destinationDomain"))
      /\ rule.dst_address \in VisitAddress(Field(object, "destinationAddress"))
  BY DEF ListElement
<1>2. Matches(rule.src_domain, m.origin) <=> m.origin \in Named(Field(object, "sourceDomain"), domains)
  BY <1>1, DomainVisited
<1>3. Matches(rule.src_address, m.sender) <=> m.sender \in Named(Field(object, "sourceAddress"), addresses)
  BY <1>1, AddressVisited
<1>4. Matches(rule.dst_domain, m.destination)
        <=> m.destination \in Named(Field(object, "destinationDomain"), domains)
  BY <1>1, DomainVisited
<1>5. Matches(rule.dst_address, m.recipient)
        <=> m.recipient \in Named(Field(object, "destinationAddress"), addresses)
  BY <1>1, AddressVisited
<1>6. m \in Product(object, domains, addresses)
        <=> /\ m.origin \in Named(Field(object, "sourceDomain"), domains)
            /\ m.sender \in Named(Field(object, "sourceAddress"), addresses)
            /\ m.destination \in Named(Field(object, "destinationDomain"), domains)
            /\ m.recipient \in Named(Field(object, "destinationAddress"), addresses)
  BY DEF Product, IsMessage
<1> QED
  BY <1>2, <1>3, <1>4, <1>5, <1>6

(* The text of a setting: no list, or one.                                     *)
LEMMA ListNames ==
  ASSUME NEW text, text = {} \/ (\E json : text = {json}),
         NEW list \in ParseMatchingList(text), NEW m, IsMessage(m), NEW default \in BOOLEAN,
         NEW domains, m.origin \in domains, m.destination \in domains,
         NEW addresses, m.sender \in addresses, m.recipient \in addresses
  PROVE  MsgMatches(list, m, default) <=> IF text = {} THEN default ELSE m \in NamedBy(text, domains, addresses)
<1>1. CASE text = {}
  BY <1>1 DEF ParseMatchingList, MsgMatches
<1>2. CASE text # {}
  <2>1. PICK json : text = {json}
    BY <1>2
  <2> DEFINE rules == [i \in DOMAIN json |-> CHOOSE e \in ListElement(json[i]) : TRUE]
  <2>2. list = {rules} /\ \A i \in DOMAIN json : ListElement(json[i]) # {}
    <3>1. PICK r \in UNION {IF \E i \in DOMAIN j : ListElement(j[i]) = {} THEN {}
                             ELSE {[i \in DOMAIN j |-> CHOOSE e \in ListElement(j[i]) : TRUE]} : j \in text} :
              list = {r}
      BY <1>2 DEF ParseMatchingList
    <3>2. r \in IF \E i \in DOMAIN json : ListElement(json[i]) = {} THEN {} ELSE {rules}
      BY <2>1, <3>1
    <3> QED
      BY <3>1, <3>2
  <2>3. \A i \in DOMAIN json : rules[i] \in ListElement(json[i])
    BY <2>2
  <2>4. DOMAIN rules = DOMAIN json
    OBVIOUS
  <2> HIDE DEF rules
  <2>5. MatchesAnyRule(rules, MatchInfo(m)) <=> \E i \in DOMAIN json : m \in Product(json[i], domains, addresses)
    <3>1. MatchInfo(m) = [src_domain |-> m.origin, src_addr |-> m.sender,
                          dst_domain |-> m.destination, dst_addr |-> m.recipient]
      BY DEF MatchInfo
    <3>2. ASSUME NEW i \in DOMAIN json
          PROVE  (/\ Matches(rules[i].src_domain, MatchInfo(m).src_domain)
                  /\ Matches(rules[i].src_address, MatchInfo(m).src_addr)
                  /\ Matches(rules[i].dst_domain, MatchInfo(m).dst_domain)
                  /\ Matches(rules[i].dst_address, MatchInfo(m).dst_addr))
                   <=> m \in Product(json[i], domains, addresses)
      BY <2>3, <3>1, RuleNames
    <3> QED
      BY <2>4, <3>2 DEF MatchesAnyRule
  <2>6. m \in NamedBy(text, domains, addresses) <=> \E i \in DOMAIN json : m \in Product(json[i], domains, addresses)
    BY <2>1 DEF NamedBy
  <2>7. MsgMatches(list, m, default) <=> MatchesAnyRule(rules, MatchInfo(m))
    BY <2>2 DEF MsgMatches
  <2> QED
    BY <1>2, <2>5, <2>6, <2>7
<1> QED
  BY <1>1, <1>2

-----------------------------------------------------------------------------
(***************************************************************************)
(* What the settings ask for.                                              *)
(***************************************************************************)
Enabled == {k \in InboxKeys : ~ Disabled(Settings, k)}
PaymasterGiven == Given(Settings, "outbox", "interchainGasPaymaster")

(* The contract objects to be made, and the tasks there will be.               *)
OutboxKinds ==
  {"outbox", "outbox indexer"} \cup IF PaymasterGiven THEN {"paymaster", "paymaster indexer"} ELSE {}
InboxKinds == {"inbox", "validator manager"}
Wanted == ({"outbox"} \X OutboxKinds) \cup (Enabled \X InboxKinds)
Started ==
  {Inbox(k) : k \in Enabled} \cup {Submitter(k) : k \in Enabled} \cup {Processor(k) : k \in Enabled}
    \cup {Fetcher, Sync("messages"), SyncLoop("messages")}
    \cup IF PaymasterGiven THEN {Sync("gas payments"), SyncLoop("gas payments")} ELSE {}

(* A setting that is not well formed.                                          *)
SettingsWrong ==
  \E key \in DOMAIN Settings : Settings[key] \in {"bad", "unparsable"}

(* An inbox whose name is not its key.                                         *)
NameDiffers ==
  \E k \in InboxKeys : <<k, "name">> \in DOMAIN Settings /\ Settings[<<k, "name">>] # k

(* Why a process ends with this code before any task was started.              *)
Reason(code) == SettingsWrong \/ (code = 1 /\ (failures > 0 \/ NameDiffers))

ListsParse ==
  \A name \in {"whitelist", "blacklist"} : ParseMatchingList(ListText(Settings, name)) # {}

(* A value is one that some source gives: of the sources that give the setting *)
(* there is a last one.                                                        *)
LEMMA LastOne ==
  ASSUME NEW n \in Nat, NEW S \in SUBSET (1 .. n), S # {}
  PROVE  \E i \in S : \A j \in S : j <= i
<1> DEFINE T == {n - i : i \in S}
<1>0. \A i \in S : n - i \in Nat
  OBVIOUS
<1>1. T \subseteq Nat /\ T # {}
  <2>1. \A t \in T : t \in Nat
    BY <1>0
  <2> QED
    BY <2>1
<1>2. PICK t \in T : \A u \in T : ~ (<<u, t>> \in OpToRel(<, Nat))
  <2> HIDE DEF T
  <2> QED
    BY <1>1, NatLessThanWellFounded, WFMin
<1>3. \A u \in T : ~ (u < t)
  BY <1>1, <1>2 DEF OpToRel
<1>4. PICK i \in S : t = n - i
  OBVIOUS
<1>5. ASSUME NEW j \in S PROVE j <= i
  <2>1. n - j \in T
    OBVIOUS
  <2> QED
    BY <1>3, <1>4, <2>1
<1> QED
  BY <1>5

LEMMA ValueIsGiven ==
  ASSUME sources \in SourceLists, NEW key \in DOMAIN Settings
  PROVE  \E i \in DOMAIN sources : key \in DOMAIN sources[i] /\ Settings[key] = sources[i][key]
<1> DEFINE Giving == {i \in DOMAIN sources : key \in DOMAIN sources[i]}
           last == CHOOSE i \in Giving : \A j \in Giving : j <= i
<1>1. key \in UNION {DOMAIN sources[i] : i \in DOMAIN sources} /\ Settings[key] = sources[last][key]
  BY Zenon DEF Settings, NewSettings
<1>2. Giving # {}
  BY <1>1
<1>3. sources \in Seq({sources[i] : i \in DOMAIN sources})
  BY RelayerAgentAssumption
<1>4. Len(sources) \in Nat /\ DOMAIN sources = 1 .. Len(sources)
  BY <1>3
<1>5. \E i \in Giving : \A j \in Giving : j <= i
  BY <1>2, <1>4, LastOne
<1>6. last \in Giving
  BY <1>5
<1> QED
  BY <1>1, <1>6

(* A setting is given if and only if some source gives it.                     *)
LEMMA GivenBySome ==
  ASSUME NEW scope, NEW name
  PROVE  Given(Settings, scope, name) <=> \E i \in DOMAIN sources : <<scope, name>> \in DOMAIN sources[i]
BY DEF Given, Settings, NewSettings

-----------------------------------------------------------------------------
(***************************************************************************)
(* A conversion fails only for a setting that is not well formed.          *)
(***************************************************************************)
LEMMA BadIsWrong ==
  ASSUME NEW scope, NEW name, Bad(Settings, scope, name)
  PROVE  SettingsWrong
BY DEF Bad, Given, Setting, SettingsWrong

LEMMA LocatorFails ==
  ASSUME NEW scope, NEW address, Locator(Settings, scope, address) # "ok"
  PROVE  SettingsWrong
BY BadIsWrong DEF Locator

LEMMA ConnectionFails ==
  ASSUME NEW c \in Wanted, Connection(Settings, c) # "ok"
  PROVE  SettingsWrong \/ (Connection(Settings, c) = "error" /\ NameDiffers)
<1>1. CASE c[2] = "outbox"
  BY <1>1, LocatorFails DEF Connection, TryIntoOutbox
<1>2. CASE c[2] = "outbox indexer"
  BY <1>2, LocatorFails, BadIsWrong DEF Connection, TryOutboxIndexer, FinalityBlocks
<1>3. CASE c[2] = "paymaster"
  BY <1>3, LocatorFails DEF Connection, TryIntoPaymaster
<1>4. CASE c[2] = "paymaster indexer"
  BY <1>4, LocatorFails, BadIsWrong DEF Connection, TryPaymasterIndexer, FinalityBlocks
<1>5. CASE c[2] = "inbox"
  <2>1. CASE NameMatches(Settings, c[1])
    BY <1>5, <2>1, LocatorFails DEF Connection, TryIntoInbox
  <2>2. CASE ~ NameMatches(Settings, c[1])
    <3>1. <<c[1], "name">> \in DOMAIN Settings /\ Settings[<<c[1], "name">>] # c[1]
      BY <2>2 DEF NameMatches, InboxName, Given, Setting
    <3>2. c[1] \in InboxKeys
      BY <1>5 DEF Wanted, Enabled, OutboxKinds
    <3>3. Connection(Settings, c) = "error"
      BY <1>5, <2>2 DEF Connection
    <3> QED
      BY <3>1, <3>2, <3>3 DEF NameDiffers
  <2> QED
    BY <2>1, <2>2
<1>6. CASE c[2] = "validator manager"
  BY <1>6, LocatorFails, BadIsWrong DEF Connection, TryIntoValidatorManager
<1> QED
  BY <1>1, <1>2, <1>3, <1>4, <1>5, <1>6 DEF Wanted, OutboxKinds, InboxKinds

LEMMA ListFails ==
  ASSUME sources \in SourceLists, NEW name \in {"whitelist", "blacklist"},
         ParseMatchingList(ListText(Settings, name)) = {}
  PROVE  SettingsWrong
<1> DEFINE key == <<"base", name>>
<1>1. key \in DOMAIN Settings /\ ListText(Settings, name) = {Lists[Settings[key]]}
  BY DEF ListText, ParseMatchingList, Given, Setting
<1>2. Settings[key] \in DOMAIN Lists
  <2>1. PICK i \in DOMAIN sources : key \in DOMAIN sources[i] /\ Settings[key] = sources[i][key]
    BY <1>1, ValueIsGiven
  <2> QED
    BY <2>1, RelayerAgentAssumption
<1>3. Settings[key] = "unparsable"
  BY <1>1, <1>2, RelayerSettingsAssumption
<1> QED
  BY <1>1, <1>3 DEF SettingsWrong

-----------------------------------------------------------------------------
(***************************************************************************)
(* The invariant.                                                          *)
(***************************************************************************)
Elements(s) == {s[i] : i \in DOMAIN s}
Connected == {<<c[1], c[2]>> : c \in contracts}

(* While connections are made, those made and those to be made are what the    *)
(* settings ask for, and the names in the registry are told by the cell.       *)
ConnectInv ==
  /\ phase = "settings" => contracts = {} /\ cell = FALSE
  /\ phase \in {"connect", "spawn"} => ListsParse
  /\ phase = "connect" =>
       /\ todo \in Seq(Wanted) /\ todo # <<>> /\ Elements(todo) \cup Connected = Wanted
       /\ cell \in BOOLEAN /\ registry = CoreNames \cup IF cell THEN ProviderNames ELSE {}
  /\ phase = "spawn" => Connected = Wanted /\ registry = CoreNames \cup ProviderNames

(* The tasks there are, or were, are those of the settings.                    *)
TasksInv ==
  /\ st = [t \in Tasks |-> st[t]]
  /\ phase \in {"settings", "connect", "spawn"} => \A t \in Tasks : st[t] = "none"
  /\ phase \in {"running", "cancelling"} => \A t \in Tasks : st[t] # "none" <=> t \in Started

AgentInv ==
  /\ sources \in SourceLists /\ failures \in Nat
  /\ phase \in {"settings", "connect", "spawn", "running", "cancelling", "ended"}
  /\ ConnectInv
  /\ TasksInv
  /\ phase = "ended" /\ (\A t \in Tasks : st[t] = "none") => Reason(exit)

(* What is read off the settings stays, since the sources stay.                *)
LEMMA SettingsStay ==
  ASSUME UNCHANGED sources
  PROVE  /\ UNCHANGED <<Enabled, Wanted, Started>>
         /\ ListsParse' <=> ListsParse
         /\ SettingsWrong' <=> SettingsWrong
         /\ NameDiffers' <=> NameDiffers
<1>1. Settings' = Settings
  BY DEF Settings
<1>2. UNCHANGED Enabled
  BY <1>1 DEF Enabled
<1>3. PaymasterGiven' <=> PaymasterGiven
  BY <1>1 DEF PaymasterGiven
<1>4. UNCHANGED <<Wanted, Started>>
  BY <1>2, <1>3 DEF Wanted, Started, OutboxKinds
<1>5. ListsParse' <=> ListsParse
  BY <1>1 DEF ListsParse
<1>6. SettingsWrong' <=> SettingsWrong
  BY <1>1 DEF SettingsWrong
<1>7. NameDiffers' <=> NameDiffers
  BY <1>1 DEF NameDiffers
<1> QED
  BY <1>2, <1>4, <1>5, <1>6, <1>7

LEMMA AgentInit == Init => AgentInv
<1> SUFFICES ASSUME Init PROVE AgentInv
  OBVIOUS
<1>1. ConnectInv
  BY DEF Init, ConnectInv
<1>2. TasksInv
  BY DEF Init, TasksInv
<1> QED
  BY <1>1, <1>2 DEF Init, AgentInv

-----------------------------------------------------------------------------
(***************************************************************************)
(* The connections that try_into_abacus_core makes.                        *)
(***************************************************************************)

LEMMA ElementsOfPair ==
  ASSUME NEW S, NEW a \in S, NEW b \in S
  PROVE  <<a, b>> \in Seq(S) /\ Elements(<<a, b>>) = {a, b} /\ <<a, b>> # <<>>
<1>1. DOMAIN <<a, b>> = {1, 2} /\ <<a, b>>[1] = a /\ <<a, b>>[2] = b
  OBVIOUS
<1> QED
  BY <1>1 DEF Elements

LEMMA ConcatIs ==
  ASSUME NEW S, NEW s \in Seq(S), NEW t \in Seq(S), s # <<>>
  PROVE  s \o t \in Seq(S) /\ s \o t # <<>> /\ s \o <<>> = s
<1>1. s \o t \in Seq(S)
  OBVIOUS
<1>2. Len(s) # 0
  OBVIOUS
<1>3. Len(s \o t) = Len(s) + Len(t) /\ Len(s) \in Nat /\ Len(t) \in Nat
  OBVIOUS
<1>4. Len(s \o t) # 0
  BY <1>2, <1>3
<1>5. s \o t # <<>>
  BY <1>4
<1>6. s \o <<>> = s
  OBVIOUS
<1> QED
  BY <1>1, <1>5, <1>6

LEMMA ElementsOfConcat ==
  ASSUME NEW S, NEW s \in Seq(S), NEW t \in Seq(S)
  PROVE  Elements(s \o t) = Elements(s) \cup Elements(t)
<1>1. DOMAIN s = 1 .. Len(s) /\ DOMAIN t = 1 .. Len(t) /\ DOMAIN (s \o t) = 1 .. Len(s) + Len(t)
  OBVIOUS
<1>2. \A i \in 1 .. Len(s) : i \in 1 .. Len(s) + Len(t) /\ (s \o t)[i] = s[i]
  OBVIOUS
<1>3. \A i \in 1 .. Len(t) : Len(s) + i \in 1 .. Len(s) + Len(t) /\ (s \o t)[Len(s) + i] = t[i]
  OBVIOUS
<1>4. \A i \in 1 .. Len(s) + Len(t) :
        \/ i \in 1 .. Len(s) /\ (s \o t)[i] = s[i]
        \/ i - Len(s) \in 1 .. Len(t) /\ (s \o t)[i] = t[i - Len(s)]
  OBVIOUS
<1>5. ASSUME NEW x \in Elements(s \o t) PROVE x \in Elements(s) \cup Elements(t)
  BY <1>1, <1>4 DEF Elements
<1>6. ASSUME NEW x \in Elements(s) PROVE x \in Elements(s \o t)
  BY <1>1, <1>2 DEF Elements
<1>7. ASSUME NEW x \in Elements(t) PROVE x \in Elements(s \o t)
  <2>1. PICK i \in 1 .. Len(t) : x = t[i]
    BY <1>1 DEF Elements
  <2>2. PICK j \in 1 .. Len(s) + Len(t) : (s \o t)[j] = x
    BY <1>3, <2>1
  <2> QED
    BY <1>1, <2>2 DEF Elements
<1> QED
  BY <1>5, <1>6, <1>7

LEMMA ElementsOfTail ==
  ASSUME NEW S, NEW s \in Seq(S), s # <<>>
  PROVE  /\ Head(s) \in S /\ Tail(s) \in Seq(S)
         /\ Elements(s) = {Head(s)} \cup Elements(Tail(s))
         /\ Len(s) \in Nat /\ Len(Tail(s)) = Len(s) - 1
<1>1. Head(s) \in S /\ Tail(s) \in Seq(S) /\ 1 \in DOMAIN s /\ s[1] = Head(s)
  OBVIOUS
<1>7. Len(Tail(s)) = Len(s) - 1 /\ Len(s) \in Nat
  OBVIOUS
<1>2. \A i \in DOMAIN s : i # 1 => i - 1 \in DOMAIN Tail(s) /\ Tail(s)[i - 1] = s[i]
  OBVIOUS
<1>3. \A i \in DOMAIN Tail(s) : i + 1 \in DOMAIN s /\ Tail(s)[i] = s[i + 1]
  OBVIOUS
<1>4. ASSUME NEW x \in Elements(s) PROVE x \in {Head(s)} \cup Elements(Tail(s))
  <2>1. PICK i \in DOMAIN s : x = s[i]
    BY DEF Elements
  <2> QED
    BY <1>1, <1>2, <2>1 DEF Elements
<1>5. ASSUME NEW x \in Elements(Tail(s)) PROVE x \in Elements(s)
  <2>1. PICK i \in DOMAIN Tail(s) : x = Tail(s)[i]
    BY DEF Elements
  <2>2. PICK j \in DOMAIN s : x = s[j]
    BY <1>3, <2>1
  <2> QED
    BY <2>2 DEF Elements
<1>6. Head(s) \in Elements(s)
  BY <1>1 DEF Elements
<1> QED
  BY <1>1, <1>4, <1>5, <1>6, <1>7

(* In any order of the inboxes, the sequence has the two connections of each.  *)
LEMMA InboxConnectionsAre ==
  ASSUME NEW keys \in SetToSeqs(Enabled)
  PROVE  /\ InboxConnections(keys) \in Seq(Wanted)
         /\ Elements(InboxConnections(keys)) = Enabled \X InboxKinds
<1> DEFINE n == Cardinality(Enabled)
           kind(i) == IF i % 2 = 1 THEN "inbox" ELSE "validator manager"
           connections == [i \in 1 .. 2 * n |-> <<keys[(i + 1) \div 2], kind(i)>>]
<1>1. IsFiniteSet(Enabled)
  BY RelayerSettingsAssumption, FS_Subset DEF Enabled
<1>2. n \in Nat
  BY <1>1, FS_CardinalityType
<1>3. keys \in [1 .. n -> Enabled] /\ \A i, j \in 1 .. n : i # j => keys[i] # keys[j]
  BY DEF SetToSeqs
<1>4. \A k \in Enabled : \E j \in 1 .. n : keys[j] = k
  <2>1. IsFiniteSet(1 .. n) /\ Cardinality(1 .. n) = n
    BY <1>2, FS_Interval
  <2>2. keys \in Injection(1 .. n, Enabled)
    BY <1>3 DEF Injection, IsInjective
  <2>3. keys \in Surjection(1 .. n, Enabled)
    BY <1>1, <2>1, <2>2, FS_Injection
  <2> QED
    BY <2>3 DEF Surjection
<1>5. Len(keys) = n
  BY <1>2, <1>3
<1>6. InboxConnections(keys) = connections
  BY <1>5 DEF InboxConnections
<1>7. \A i \in 1 .. 2 * n : (i + 1) \div 2 \in 1 .. n
  BY <1>2
<1>8. connections \in [1 .. 2 * n -> Enabled \X InboxKinds]
  BY <1>3, <1>7 DEF InboxKinds
<1>9. ASSUME NEW k \in Enabled, NEW x \in InboxKinds
      PROVE  \E i \in 1 .. 2 * n : connections[i] = <<k, x>>
  <2>1. PICK j \in 1 .. n : keys[j] = k
    BY <1>4
  <2>2. CASE x = "inbox"
    <3>1. PICK i \in 1 .. 2 * n : i % 2 = 1 /\ (i + 1) \div 2 = j
      <4>1. 2 * j - 1 \in 1 .. 2 * n /\ (2 * j - 1) % 2 = 1 /\ ((2 * j - 1) + 1) \div 2 = j
        BY <1>2
      <4> QED
        BY <4>1
    <3> QED
      BY <2>1, <2>2, <3>1
  <2>3. CASE x = "validator manager"
    <3>1. PICK i \in 1 .. 2 * n : i % 2 # 1 /\ (i + 1) \div 2 = j
      <4>1. 2 * j \in 1 .. 2 * n /\ (2 * j) % 2 # 1 /\ ((2 * j) + 1) \div 2 = j
        BY <1>2
      <4> QED
        BY <4>1
    <3> QED
      BY <2>1, <2>3, <3>1
  <2> QED
    BY <2>2, <2>3 DEF InboxKinds
<1> HIDE DEF connections
<1>10. DOMAIN connections = 1 .. 2 * n /\ 2 * n \in Nat /\ \A i \in 1 .. 2 * n : connections[i] \in Enabled \X InboxKinds
  BY <1>2, <1>8
<1>11. connections \in Seq(Wanted)
  BY <1>8, <1>10 DEF Wanted
<1>12. Elements(connections) = Enabled \X InboxKinds
  <2>1. ASSUME NEW p \in Enabled \X InboxKinds
        PROVE  \E i \in 1 .. 2 * n : connections[i] = p
    BY <1>9
  <2> QED
    BY <1>10, <2>1 DEF Elements
<1> QED
  BY <1>6, <1>11, <1>12

LEMMA OutboxConnectionsAre ==
  /\ OutboxConnections(Settings) \in Seq(Wanted) /\ OutboxConnections(Settings) # <<>>
  /\ Elements(OutboxConnections(Settings)) = {"outbox"} \X OutboxKinds
<1> DEFINE Of(kind) == <<"outbox", kind>>
           always == <<Of("outbox"), Of("outbox indexer")>>
           paymaster == <<Of("paymaster"), Of("paymaster indexer")>>
<1>1. OutboxConnections(Settings) = always \o IF PaymasterGiven THEN paymaster ELSE <<>>
  BY DEF OutboxConnections, PaymasterGiven
<1>2. {"outbox"} \X OutboxKinds = {Of(kind) : kind \in OutboxKinds}
  OBVIOUS
<1>3. \A kind \in OutboxKinds : Of(kind) \in Wanted
  BY DEF Wanted
<1> HIDE DEF Of
<1>4. always \in Seq(Wanted) /\ Elements(always) = {Of("outbox"), Of("outbox indexer")} /\ always # <<>>
  BY <1>3, ElementsOfPair DEF OutboxKinds
<1>5. CASE PaymasterGiven
  <2>1. paymaster \in Seq(Wanted) /\ Elements(paymaster) = {Of("paymaster"), Of("paymaster indexer")}
    BY <1>3, <1>5, ElementsOfPair DEF OutboxKinds
  <2>2. {Of(kind) : kind \in OutboxKinds} = Elements(always) \cup Elements(paymaster)
    BY <1>4, <1>5, <2>1 DEF OutboxKinds
  <2> HIDE DEF always, paymaster
  <2>3. always \o paymaster \in Seq(Wanted) /\ always \o paymaster # <<>>
    BY <1>4, <2>1, ConcatIs
  <2>4. OutboxConnections(Settings) = always \o paymaster
    BY <1>1, <1>5
  <2>5. Elements(always \o paymaster) = Elements(always) \cup Elements(paymaster)
    <3>1. \A s, t \in Seq(Wanted) : Elements(s \o t) = Elements(s) \cup Elements(t)
      BY ElementsOfConcat
    <3> QED
      BY <1>4, <2>1, <3>1
  <2> QED
    BY <1>2, <2>2, <2>3, <2>4, <2>5
<1>6. CASE ~ PaymasterGiven
  <2>1. {Of(kind) : kind \in OutboxKinds} = Elements(always)
    BY <1>4, <1>6 DEF OutboxKinds
  <2> HIDE DEF always, paymaster
  <2>2. always \o <<>> = always
    BY <1>4, ConcatIs
  <2>3. OutboxConnections(Settings) = always
    BY <1>1, <1>6, <2>2
  <2> QED
    BY <1>2, <1>4, <2>1, <2>3
<1> QED
  BY <1>5, <1>6

-----------------------------------------------------------------------------
(***************************************************************************)
(* One step.                                                               *)
(***************************************************************************)
Phases == {"settings", "connect", "spawn", "running", "cancelling", "ended"}

(* A step of the tasks, of select_all or of cancel_task!: what has been started*)
(* stays started, whatever becomes of it.                                      *)
Works ==
  /\ phase \in {"running", "cancelling"} /\ phase' \in {"running", "cancelling"}
  /\ DOMAIN st' = DOMAIN st /\ st' = [t \in DOMAIN st |-> st'[t]]
  /\ \A t \in DOMAIN st : st'[t] = "none" <=> st[t] = "none"
  /\ failures' \in {failures, failures + 1}
  /\ UNCHANGED sources

LEMMA BecomesWorks ==
  ASSUME NEW t, NEW result \in {"ok", "error", "panic"}, Alive, Running(t), Becomes(t, result),
         failures' \in {failures, failures + 1}
  PROVE  Works
BY DEF Becomes, Alive, Running, Works

LEMMA TaskStep ==
  ASSUME st = [t \in DOMAIN st |-> st[t]],
         \/ \E t \in Workers : WorkerFails(t)
         \/ \E k \in InboxKeys : GelatoTick(k) \/ SubmitterDisconnected(k) \/ ProcessorSendFails(k) \/ JoinInbox(k)
         \/ \E data \in Syncs : SyncEnds(data)
         \/ Select \/ Cancel
  PROVE  Works
<1>1. CASE \E t \in Workers : WorkerFails(t)
  BY <1>1, BecomesWorks DEF WorkerFails
<1>2. CASE \E k \in InboxKeys : GelatoTick(k)
  BY <1>2, BecomesWorks DEF GelatoTick
<1>3. CASE \E k \in InboxKeys : SubmitterDisconnected(k)
  BY <1>3, BecomesWorks DEF SubmitterDisconnected
<1>4. CASE \E k \in InboxKeys : ProcessorSendFails(k)
  BY <1>4, BecomesWorks DEF ProcessorSendFails
<1>5. CASE \E k \in InboxKeys : JoinInbox(k)
  BY <1>5, BecomesWorks DEF JoinInbox
<1>6. CASE \E data \in Syncs : SyncEnds(data)
  BY <1>6, BecomesWorks DEF SyncEnds
<1>7. CASE Select
  BY <1>7 DEF Select, Works
<1>8. CASE Cancel
  BY <1>8 DEF Cancel, Works
<1> QED
  BY <1>1, <1>2, <1>3, <1>4, <1>5, <1>6, <1>7, <1>8

(* The process ends: with a failure counted or a setting wrong, or late enough *)
(* for some task to have been started.                                         *)
LEMMA ExitStep ==
  ASSUME AgentInv, NEW code, Exit(code), UNCHANGED sources,
         failures' \in {failures, failures + 1},
         \/ SettingsWrong \/ (\E t \in Tasks : st[t] # "none")
         \/ code = 1 /\ (failures' = failures + 1 \/ NameDiffers)
  PROVE  AgentInv'
<1>1. sources' \in SourceLists /\ failures' \in Nat /\ phase' = "ended" /\ exit' = code
  BY DEF AgentInv, Exit
<1>2. st' = [t \in Tasks |-> st'[t]] /\ \A t \in Tasks : st'[t] = "none" => st[t] = "none"
  BY DEF Exit, Running
<1>3. ConnectInv' /\ TasksInv'
  BY <1>1, <1>2 DEF ConnectInv, TasksInv
<1>4. ASSUME \A t \in Tasks : st'[t] = "none" PROVE Reason(exit)'
  <2>1. SettingsWrong \/ (code = 1 /\ (failures' > 0 \/ NameDiffers))
    BY <1>2, <1>4 DEF AgentInv
  <2> QED
    BY <1>1, <2>1, SettingsStay DEF Reason
<1> QED
  BY <1>1, <1>3, <1>4 DEF AgentInv

LEMMA FromSettingsStep ==
  ASSUME AgentInv, FromSettings
  PROVE  AgentInv'
<1> DEFINE outcomes == <<MultisigCheckpointSyncer(Settings), MatchingLists(Settings), MetricsPort(Settings)>>
           Failing == {i \in DOMAIN outcomes : outcomes[i] # "ok"}
<1>0. phase = "settings" /\ UNCHANGED <<sources, cell, contracts, order, first, failures>>
  BY DEF FromSettings
<1>1. CASE Failing # {}
  <2>1. \E code : Exit(code)
    BY <1>1 DEF FromSettings, Fails
  <2>2. \/ MultisigCheckpointSyncer(Settings) # "ok" \/ MatchingLists(Settings) # "ok"
        \/ MetricsPort(Settings) # "ok"
    BY <1>1
  <2>3. MultisigCheckpointSyncer(Settings) # "ok" => SettingsWrong
    BY BadIsWrong DEF MultisigCheckpointSyncer
  <2>4. MatchingLists(Settings) # "ok" => SettingsWrong
    BY ListFails DEF MatchingLists, AgentInv
  <2>5. MetricsPort(Settings) # "ok" => SettingsWrong
    BY BadIsWrong DEF MetricsPort
  <2> QED
    BY <1>0, <2>1, <2>2, <2>3, <2>4, <2>5, ExitStep
<1>2. CASE Failing = {}
  <2>1. PICK keys \in SetToSeqs(Enabled) : todo' = OutboxConnections(Settings) \o InboxConnections(keys)
    BY <1>2 DEF FromSettings, Enabled
  <2>2. phase' = "connect" /\ registry' = CoreNames /\ st' = st
    BY <1>2 DEF FromSettings
  <2>3. MatchingLists(Settings) = "ok"
    BY <1>2
  <2>4. ListsParse
    BY <2>3 DEF MatchingLists, ListsParse
  <2>5. todo' \in Seq(Wanted) /\ todo' # <<>> /\ Elements(todo') = Wanted
    <3>1. Elements(todo') = ({"outbox"} \X OutboxKinds) \cup (Enabled \X InboxKinds)
      BY <2>1, OutboxConnectionsAre, InboxConnectionsAre, ElementsOfConcat
    <3> QED
      BY <2>1, <3>1, OutboxConnectionsAre, InboxConnectionsAre, ConcatIs DEF Wanted
  <2>6. Elements(todo)' = Elements(todo') /\ Connected' = {}
    BY <1>0 DEF Elements, Connected, AgentInv, ConnectInv
  <2>7. ConnectInv'
    BY <1>0, <2>2, <2>4, <2>5, <2>6, SettingsStay DEF ConnectInv, AgentInv
  <2>8. TasksInv'
    BY <1>0, <2>2 DEF TasksInv, AgentInv
  <2> QED
    BY <1>0, <2>2, <2>7, <2>8 DEF AgentInv
<1> QED
  BY <1>1, <1>2

(* No connection finds a name taken: the metrics are made once.                *)
LEMMA ConnectStep ==
  ASSUME AgentInv, Connect
  PROVE  AgentInv'
<1>0. /\ phase = "connect" /\ todo \in Seq(Wanted) /\ todo # <<>> /\ UNCHANGED <<sources, order, first, failures>>
      /\ Elements(todo) \cup Connected = Wanted /\ ListsParse
      /\ cell \in BOOLEAN /\ registry = CoreNames \cup IF cell THEN ProviderNames ELSE {}
  BY DEF Connect, AgentInv, ConnectInv
<1>1. /\ Head(todo) \in Wanted /\ Tail(todo) \in Seq(Wanted)
      /\ Elements(todo) = {Head(todo)} \cup Elements(Tail(todo))
      /\ Len(todo) \in Nat /\ Len(Tail(todo)) = Len(todo) - 1
  BY <1>0, ElementsOfTail
<1>2. CoreNames \cap ProviderNames = {}
  BY DEF CoreNames, ProviderNames
<1>3. CASE Connection(Settings, Head(todo)) # "ok"
  <2>1. CASE Connection(Settings, Head(todo)) = "error"
    <3>1. Exit(1)
      BY <1>3, <2>1 DEF Connect, Fails
    <3>2. SettingsWrong \/ NameDiffers
      BY <1>1, <1>3, ConnectionFails
    <3> QED
      BY <1>0, <3>1, <3>2, ExitStep
  <2>2. CASE Connection(Settings, Head(todo)) # "error"
    <3>1. \E code : Exit(code)
      BY <1>3 DEF Connect, Fails
    <3>2. SettingsWrong
      BY <1>1, <1>3, <2>2, ConnectionFails
    <3> QED
      BY <1>0, <3>1, <3>2, ExitStep
  <2> QED
    BY <2>1, <2>2
<1>4. CASE Connection(Settings, Head(todo)) = "ok"
  <2>1. Initialized \/ ProviderNames \cap registry = {}
    BY <1>0, <1>2 DEF Initialized
  <2>2. /\ registry' = registry \cup ProviderNames /\ cell' = TRUE /\ todo' = Tail(todo)
        /\ phase' = IF Len(todo) = 1 THEN "spawn" ELSE phase
        /\ st' = st
    BY <1>4, <2>1 DEF Connect
  <2>9. ContractName(Head(todo)) = Head(todo)[1]
    <3>1. CASE Head(todo)[2] = "inbox"
      <4>1. NameMatches(Settings, Head(todo)[1])
        BY <1>4, <3>1 DEF Connection
      <4> QED
        BY <3>1, <4>1 DEF NameMatches, ContractName
    <3>2. CASE Head(todo)[2] # "inbox"
      BY <3>2 DEF ContractName
    <3> QED
      BY <3>1, <3>2
  <2>3. PICK signer : contracts' = contracts \cup {<<Head(todo)[1], Head(todo)[2], signer>>}
    BY <1>4, <2>1, <2>9 DEF Connect
  <2>4. Connected' = Connected \cup {Head(todo)}
    <3>1. Connected' = Connected \cup {<<Head(todo)[1], Head(todo)[2]>>}
      <4> DEFINE made == <<Head(todo)[1], Head(todo)[2], signer>>
      <4>1. made[1] = Head(todo)[1] /\ made[2] = Head(todo)[2]
        OBVIOUS
      <4> HIDE DEF made
      <4>2. contracts' = contracts \cup {made}
        BY <2>3 DEF made
      <4>3. Connected' = Connected \cup {<<made[1], made[2]>>}
        BY <4>2 DEF Connected
      <4> QED
        BY <4>1, <4>3
    <3>2. <<Head(todo)[1], Head(todo)[2]>> = Head(todo)
      BY <1>1 DEF Wanted
    <3> QED
      BY <3>1, <3>2
  <2>5. Elements(todo)' \cup Connected' = Wanted
    BY <1>0, <1>1, <2>2, <2>4 DEF Elements
  <2>6. registry' = CoreNames \cup ProviderNames
    BY <1>0, <2>2
  <2>7. CASE Len(todo) = 1
    <3>1. Elements(todo)' = {}
      BY <1>1, <2>2, <2>7 DEF Elements
    <3>2. ConnectInv'
      BY <1>0, <2>2, <2>5, <2>6, <2>7, <3>1, SettingsStay DEF ConnectInv
    <3>3. TasksInv'
      BY <1>0, <2>2, <2>7 DEF TasksInv, AgentInv
    <3> QED
      BY <1>0, <2>2, <2>7, <3>2, <3>3 DEF AgentInv
  <2>8. CASE Len(todo) # 1
    <3>1. todo' # <<>>
      <4>1. todo' \in Seq(Wanted) /\ Len(todo') # 0
        BY <1>1, <2>2, <2>8
      <4> QED
        BY <4>1
    <3>2. ConnectInv'
      BY <1>0, <1>1, <2>2, <2>5, <2>6, <2>8, <3>1, SettingsStay DEF ConnectInv
    <3>3. TasksInv'
      BY <1>0, <2>2, <2>8 DEF TasksInv, AgentInv
    <3> QED
      BY <1>0, <2>2, <2>8, <3>2, <3>3 DEF AgentInv
  <2> QED
    BY <2>7, <2>8
<1> QED
  BY <1>3, <1>4

(* Once all is connected, each task that the settings ask for is started.      *)
LEMMA RunStep ==
  ASSUME AgentInv, Run
  PROVE  AgentInv'
<1> DEFINE keys == {c[1] : c \in {d \in contracts : d[2] = "inbox"}}
           data == {"messages"} \cup IF Made("outbox", "paymaster") THEN {"gas payments"} ELSE {}
           Spawned(t) ==
             \/ t \in {Inbox(k) : k \in keys} \cup {Submitter(k) : k \in keys}
             \/ t \in {Processor(k) : k \in keys} \cup {Fetcher}
             \/ t \in {Sync(d) : d \in data} \cup {SyncLoop(d) : d \in data}
<1>0. /\ phase = "spawn" /\ Connected = Wanted /\ registry = CoreNames \cup ProviderNames
      /\ UNCHANGED <<sources, cell, todo, contracts, first, failures>>
  BY DEF Run, AgentInv, ConnectInv
<1>1. \A scope, kind : Made(scope, kind) <=> <<scope, kind>> \in Connected
  BY DEF Made, Connected
<1>2. keys = Enabled
  <2>1. \A k : <<k, "inbox">> \in Wanted <=> k \in Enabled
    BY DEF Wanted, OutboxKinds, InboxKinds
  <2>2. \A k : k \in keys <=> Made(k, "inbox")
    BY DEF Made
  <2> QED
    BY <1>0, <1>1, <2>1, <2>2
<1>3. Made("outbox", "paymaster") <=> PaymasterGiven
  <2>1. <<"outbox", "paymaster">> \in Wanted <=> PaymasterGiven
    BY DEF Wanted, OutboxKinds, InboxKinds
  <2> QED
    BY <1>0, <1>1, <2>1
<1>4. keys \subseteq InboxKeys /\ SyncNames \cap registry = {}
  BY <1>0, <1>2 DEF SyncNames, CoreNames, ProviderNames, Enabled
<1>5. phase' = "running" /\ st' = [t \in Tasks |-> IF Spawned(t) THEN "running" ELSE "none"]
  BY <1>4 DEF Run
<1>6. \A t \in Tasks : Spawned(t) <=> t \in Started
  <2>1. {Sync(d) : d \in data} \cup {SyncLoop(d) : d \in data}
          = {Sync("messages"), SyncLoop("messages")}
              \cup IF PaymasterGiven THEN {Sync("gas payments"), SyncLoop("gas payments")} ELSE {}
    BY <1>3
  <2> QED
    BY <1>2, <2>1 DEF Started
<1> HIDE DEF Spawned
<1>7. TasksInv'
  <2>1. \A t \in Tasks : st'[t] # "none" <=> t \in Started'
    BY <1>0, <1>5, <1>6, SettingsStay
  <2> QED
    BY <1>5, <2>1 DEF TasksInv
<1>8. ConnectInv'
  BY <1>5 DEF ConnectInv
<1>9. \A t \in Tasks : st'[t] # "none" <=> Spawned(t)
  BY <1>5
<1> QED
  BY <1>0, <1>5, <1>7, <1>8 DEF AgentInv

LEMMA WorksStep ==
  ASSUME AgentInv, Works
  PROVE  AgentInv'
<1>1. DOMAIN st = Tasks
  BY DEF AgentInv, TasksInv
<1>2. UNCHANGED <<Started>>
  BY SettingsStay DEF Works
<1>3. TasksInv'
  BY <1>1, <1>2 DEF Works, AgentInv, TasksInv
<1>4. ConnectInv'
  BY DEF Works, ConnectInv
<1> QED
  BY <1>3, <1>4 DEF Works, AgentInv

LEMMA AgentStep ==
  ASSUME AgentInv, [Next]_vars
  PROVE  AgentInv'
<1>1. CASE FromSettings
  BY <1>1, FromSettingsStep
<1>2. CASE Connect
  BY <1>2, ConnectStep
<1>3. CASE Run
  BY <1>3, RunStep
<1>4. CASE EnvironmentFails
  <2>1. Exit(1) /\ failures' = failures + 1 /\ UNCHANGED sources
    BY <1>4 DEF EnvironmentFails
  <2> QED
    BY <2>1, ExitStep
<1>5. CASE Return
  <2>1. phase = "cancelling" /\ UNCHANGED <<sources, failures>> /\ \E code : Exit(code)
    BY <1>5 DEF Return
  <2>2. st[Fetcher] # "none" /\ Fetcher \in Tasks
    BY <2>1 DEF AgentInv, TasksInv, Started, Tasks, Workers
  <2> QED
    BY <2>1, <2>2, ExitStep
<1>6. CASE UNCHANGED vars
  <2>1. UNCHANGED vars
    BY <1>6
  <2>2. UNCHANGED <<Elements(todo), Connected>>
    BY <2>1 DEF vars, Elements, Connected
  <2>3. ConnectInv' /\ TasksInv'
    BY <2>1, <2>2, SettingsStay DEF vars, AgentInv, ConnectInv, TasksInv
  <2> QED
    BY <2>1, <2>3, SettingsStay DEF vars, AgentInv, Reason
<1>8. CASE \E t \in detached : DetachedFails(t)
  <2>1. /\ UNCHANGED <<sources, phase, exit, registry, cell, todo, contracts, st>>
        /\ failures' = failures + 1
    BY <1>8 DEF DetachedFails
  <2>2. UNCHANGED <<Elements(todo), Connected>>
    BY <2>1 DEF Elements, Connected
  <2>3. ConnectInv' /\ TasksInv'
    BY <2>1, <2>2, SettingsStay DEF AgentInv, ConnectInv, TasksInv
  <2>4. failures' \in Nat /\ (failures > 0 => failures' > 0)
    BY <2>1 DEF AgentInv
  <2>5. Reason(exit) => Reason(exit)'
    BY <2>1, <2>4, SettingsStay DEF Reason
  <2> QED
    BY <2>1, <2>3, <2>4, <2>5 DEF AgentInv
<1>7. CASE /\ ~ FromSettings /\ ~ Connect /\ ~ Run /\ ~ EnvironmentFails /\ ~ Return
           /\ ~ (\E t \in detached : DetachedFails(t)) /\ Next
  <2>1. st = [t \in DOMAIN st |-> st[t]]
    BY DEF AgentInv, TasksInv
  <2>2. Works
    BY <1>7, <2>1, TaskStep DEF Next, Startup
  <2> QED
    BY <2>2, WorksStep
<1> QED
  BY <1>1, <1>2, <1>3, <1>4, <1>5, <1>6, <1>7, <1>8

LEMMA AgentInvariant == Spec => []AgentInv
<1>1. AgentInv /\ [Next]_vars => AgentInv'
  BY AgentStep
<1> QED
  BY <1>1, AgentInit, PTL DEF Spec

-----------------------------------------------------------------------------
(***************************************************************************)
(* The theorems.                                                           *)
(***************************************************************************)

(* An inbox that any source disables has no pipeline, every other has one, and *)
(* there is a gas payment task if and only if some source gives a paymaster,   *)
(* however many sources and inboxes there are.                                 *)
THEOREM PipelinesAsConfiguredHolds == Spec => []PipelinesAsConfigured
<1>1. AgentInv => PipelinesAsConfigured
  <2> SUFFICES ASSUME AgentInv, phase = "running"
               PROVE  PipelinesAsConfigured
    BY DEF PipelinesAsConfigured
  <2>1. \A t \in Tasks : st[t] # "none" <=> t \in Started
    BY DEF AgentInv, TasksInv
  <2>2. \A k \in InboxKeys : Inbox(k) \in Tasks /\ (Inbox(k) \in Started <=> k \in Enabled)
    BY DEF Tasks, Started, Inbox, Submitter, Processor, Fetcher, Sync, SyncLoop
  <2>3. Sync("gas payments") \in Tasks /\ (Sync("gas payments") \in Started <=> PaymasterGiven)
    BY DEF Tasks, Syncs, Started, Inbox, Submitter, Processor, Fetcher, Sync, SyncLoop
  <2>4. \A k \in InboxKeys :
          k \in Enabled <=> \A i \in DOMAIN sources : <<k, "disabled">> \notin DOMAIN sources[i]
    BY GivenBySome DEF Enabled, Disabled
  <2>5. PaymasterGiven <=> \E i \in DOMAIN sources : <<"outbox", "interchainGasPaymaster">> \in DOMAIN sources[i]
    BY GivenBySome DEF PaymasterGiven
  <2>6. {k \in InboxKeys : st[Inbox(k)] # "none"}
          = {k \in InboxKeys : \A i \in DOMAIN sources : <<k, "disabled">> \notin DOMAIN sources[i]}
    BY <2>1, <2>2, <2>4
  <2>7. (st[Sync("gas payments")] # "none")
          = (\E i \in DOMAIN sources : <<"outbox", "interchainGasPaymaster">> \in DOMAIN sources[i])
    BY <2>1, <2>3, <2>5
  <2> QED
    BY <2>6, <2>7 DEF PipelinesAsConfigured
<1> QED
  BY <1>1, AgentInvariant, PTL

(* A process that ended before any task was started had a setting that is not  *)
(* well formed, or ended with an error, for its environment or for an inbox    *)
(* whose name is not its key: whatever is configured, no metric is registered  *)
(* twice and no settings are looked up by a name they do not have.             *)
THEOREM StartupNeedsOnlySettingsHolds == Spec => []StartupNeedsOnlySettings
<1>1. AgentInv => StartupNeedsOnlySettings
  BY DEF AgentInv, StartupNeedsOnlySettings, Reason, SettingsWrong, NameDiffers
<1> QED
  BY <1>1, AgentInvariant, PTL

(* What the relayer relays is what some rule of the whitelist names (all,      *)
(* without a list) and no rule of the blacklist names, for any two lists that  *)
(* parse: each field of each rule, parsed alone, admits what it names.         *)
THEOREM AdmittedByListsHolds == Spec => []AdmittedByLists
<1>1. AgentInv => AdmittedByLists
  <2> SUFFICES ASSUME AgentInv, phase = "spawn"
               PROVE  AdmittedByLists
    BY DEF AdmittedByLists
  <2> DEFINE Of(part) == {m[part] : m \in Messages}
             Domains == Of("origin") \cup Of("destination")
             Addresses == Of("sender") \cup Of("recipient")
             white == ListText(Settings, "whitelist")
             black == ListText(Settings, "blacklist")
  <2>1. ParseMatchingList(white) # {} /\ ParseMatchingList(black) # {}
    BY DEF AgentInv, ConnectInv, ListsParse
  <2>2. /\ white = {} \/ \E json : white = {json}
        /\ black = {} \/ \E json : black = {json}
    BY DEF ListText
  <2>3. ASSUME NEW m \in Messages
        PROVE  Relays(Settings, m) <=>
                 /\ white = {} \/ m \in NamedBy(white, Domains, Addresses)
                 /\ m \notin NamedBy(black, Domains, Addresses)
    <3>1. IsMessage(m)
      BY RelayerAgentAssumption DEF IsMessage
    <3>2. m.origin \in Domains /\ m.destination \in Domains /\ m.sender \in Addresses /\ m.recipient \in Addresses
      OBVIOUS
    <3> HIDE DEF Domains, Addresses, white, black
    <3>3. ASSUME NEW w \in ParseMatchingList(white)
          PROVE  MsgMatches(w, m, TRUE) <=> IF white = {} THEN TRUE ELSE m \in NamedBy(white, Domains, Addresses)
      BY <2>2, <3>1, <3>2, ListNames
    <3>4. ASSUME NEW b \in ParseMatchingList(black)
          PROVE  MsgMatches(b, m, FALSE) <=> IF black = {} THEN FALSE ELSE m \in NamedBy(black, Domains, Addresses)
      BY <2>2, <3>1, <3>2, ListNames
    <3>5. black = {} => m \notin NamedBy(black, Domains, Addresses)
      BY DEF NamedBy
    <3>6. Relays(Settings, m) <=>
            \E w \in ParseMatchingList(white), b \in ParseMatchingList(black) : Admits(w, b, m)
      BY DEF Relays, white, black
    <3> QED
      BY <2>1, <3>3, <3>4, <3>5, <3>6 DEF Admits
  <2> HIDE DEF Domains, Addresses, white, black
  <2>4. {m \in Messages : Relays(Settings, m)} =
          (IF white = {} THEN Messages ELSE Messages \cap NamedBy(white, Domains, Addresses))
            \ NamedBy(black, Domains, Addresses)
    BY <2>3
  <2> QED
    BY <2>4 DEF AdmittedByLists, Domains, Addresses, white, black
<1> QED
  BY <1>1, AgentInvariant, PTL

=============================================================================
