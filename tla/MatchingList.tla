---------------------------- MODULE MatchingList ----------------------------
(***************************************************************************)
(* The whitelist and the blacklist of a relayer                            *)
(* (agents/relayer/src/settings/matching_list.rs).                         *)
(*                                                                         *)
(* A JSON value is a record [kind, value]: kind "string" holds "*", a      *)
(* numeral or an address; a numeral is [base, number].  A list that fails  *)
(* to parse gives no value, so a parser returns a set of at most one.      *)
(***************************************************************************)
EXTENDS Integers, Sequences, SequencesExt

Wild == [kind |-> "wildcard"]
Num(n) == [kind |-> "int", value |-> n]
Dec(n) == [kind |-> "decimal string", value |-> n]
Hex(n) == [kind |-> "hex string", value |-> n]
Addr(a) == [kind |-> "address string", value |-> a]
List(s) == [kind |-> "list", value |-> s]

Wildcard == [all |-> TRUE, of |-> {}]
Enumerated(values) == [all |-> FALSE, of |-> values]
Matches(filter, v) == filter.all \/ v \in filter.of

(* u32: an int or a decimal string; a hex string does not parse.            *)
StrOrInt(json) == IF json.kind \in {"int", "decimal string"} THEN {json.value} ELSE {}
ParseAddr(json) == IF json.kind = "address string" THEN {json.value} ELSE {}

Visit(json, Scalar(_)) ==
  IF json.kind = "wildcard" THEN {Wildcard}
  ELSE IF json.kind # "list" THEN {Enumerated({v}) : v \in Scalar(json)}
  ELSE IF \E i \in DOMAIN json.value : Scalar(json.value[i]) = {} THEN {}
  ELSE {Enumerated(UNION {Scalar(json.value[i]) : i \in DOMAIN json.value})}

VisitDomain(json) == Visit(json, StrOrInt)
VisitAddress(json) == Visit(json, ParseAddr)

(* A field that is left out is a wildcard. *)
Field(object, name) == IF name \in DOMAIN object THEN object[name] ELSE Wild

ListElement(object) ==
  {[src_domain |-> sd, src_address |-> sa, dst_domain |-> dd, dst_address |-> da] :
     sd \in VisitDomain(Field(object, "sourceDomain")),
     sa \in VisitAddress(Field(object, "sourceAddress")),
     dd \in VisitDomain(Field(object, "destinationDomain")),
     da \in VisitAddress(Field(object, "destinationAddress"))}

(* A matching list is {} when the setting is absent, else the set that holds   *)
(* its rules.  parse_matching_list panics where this gives no value.           *)
ParseMatchingList(text) ==
  IF text = {} THEN {{}}
  ELSE {{rules} : rules \in
         UNION {IF \E i \in DOMAIN json : ListElement(json[i]) = {} THEN {}
                ELSE {[i \in DOMAIN json |-> CHOOSE e \in ListElement(json[i]) : TRUE]} : json \in text}}

MatchInfo(m) == [src_domain |-> m.origin, src_addr |-> m.sender,
                 dst_domain |-> m.destination, dst_addr |-> m.recipient]

MatchesAnyRule(rules, info) ==
  \E i \in DOMAIN rules :
    /\ Matches(rules[i].src_domain, info.src_domain) /\ Matches(rules[i].src_address, info.src_addr)
    /\ Matches(rules[i].dst_domain, info.dst_domain) /\ Matches(rules[i].dst_address, info.dst_addr)

(* A plausible mistake, in place of MsgMatches. *)
EmptyIsDefault(list, m, default) ==
  IF \A rules \in list : rules = <<>> THEN default ELSE \A rules \in list : MatchesAnyRule(rules, MatchInfo(m))

MsgMatches(list, m, default) ==
  IF list = {} THEN default ELSE \A rules \in list : MatchesAnyRule(rules, MatchInfo(m))

(* The processor skips what is not on the whitelist, then what is blacklisted. *)
Admits(whitelist, blacklist, m) == MsgMatches(whitelist, m, TRUE) /\ ~ MsgMatches(blacklist, m, FALSE)

-----------------------------------------------------------------------------
(***************************************************************************)
(* What a list means, read off the setting: the messages it names, one     *)
(* product of four sets for each rule.                                     *)
(***************************************************************************)
Named(json, universe) ==
  IF json.kind = "wildcard" THEN universe
  ELSE IF json.kind = "list" THEN {json.value[i].value : i \in DOMAIN json.value}
  ELSE {json.value}

Product(object, domains, addresses) ==
  [origin : Named(Field(object, "sourceDomain"), domains),
   sender : Named(Field(object, "sourceAddress"), addresses),
   destination : Named(Field(object, "destinationDomain"), domains),
   recipient : Named(Field(object, "destinationAddress"), addresses)]

NamedBy(text, domains, addresses) ==
  UNION {UNION {Product(json[i], domains, addresses) : i \in DOMAIN json} : json \in text}

=============================================================================
