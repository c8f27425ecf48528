------------------------------ MODULE AbacusDB ------------------------------
(***************************************************************************)
(* The database of an agent: the operations of AbacusDB                    *)
(* (abacus-core/src/db/abacus_db.rs) and of contract_sync/schema.rs, down  *)
(* to the keys and values they put into rocksdb (db/typed_db.rs,           *)
(* db/mod.rs).                                                             *)
(*                                                                         *)
(* An operation runs to its end without an await, and the agent runs on    *)
(* one thread, so no other operation falls between its puts; rocksdb makes *)
(* each put durable by itself, so a crash may.  A put of the operation in  *)
(* progress waits in "pending"; Flush does the first.                      *)
(***************************************************************************)
EXTENDS Encodings, FiniteSets

CONSTANTS
  Entities,      \* outbox names, the first word of every key
  NumIndices,    \* messages dispatched by each outbox
  Destinations,  \* domains of destination chains
  Payments,      \* gas payments: records [meta, leaf_index, amount]
  MaxOps,        \* bound on operations
  MaxCrashes     \* bound on crashes of the agent

LeafIndices == 0 .. (NumIndices - 1)
Domain == 1                      \* domain of the outbox's own chain
Address(a) == <<"address", a>>

ASSUME AbacusDBAssumption ==
  /\ NumIndices \in 1 .. Power[4]
  /\ Destinations \subseteq U32
  /\ \A p \in Payments : p \in [meta : {p.meta}, leaf_index : U32, amount : U256]
  /\ \A p \in Payments : p.meta \in [transaction_hash : {p.meta.transaction_hash}, log_index : U256]
  /\ \A p, q \in Payments : p.meta = q.meta => p = q      \* one log, one payment
  /\ MaxOps \in Nat /\ MaxCrashes \in Nat

VARIABLES
  kv,          \* rocksdb: a function from the keys present to their values
  pending,     \* puts of the operation in progress, <<key, value>> each
  batch,       \* store_messages: messages after the one in progress
  dispatched,  \* the messages of an outbox, as raw messages in leaf order (the same for each)
  ops, crashes

database_vars == <<kv, pending, batch, dispatched, ops, crashes>>

-----------------------------------------------------------------------------
(***************************************************************************)
(* Keys.  The words of a prefix are kept apart: "leaf_" is a prefix of     *)
(* "leaf_process_status_".                                                 *)
(***************************************************************************)
LEAF == Text("leaf")
MESSAGE == Text("message")
LATEST_LEAF_INDEX == Text("latest") \o Text("known") \o LEAF \o Text("index")
LATEST_LEAF_INDEX_FOR_DESTINATION == LATEST_LEAF_INDEX \o Text("for") \o Text("destination")
LEAF_PROCESS_STATUS == LEAF \o Text("process") \o Text("status")
GAS_PAYMENT_FOR_LEAF == Text("gas") \o Text("payment") \o Text("for") \o LEAF
GAS_PAYMENT_META_PROCESSED == Text("gas") \o Text("payment") \o Text("meta") \o Text("processed")
LATEST_VALID_MESSAGE_RANGE_START_BLOCK == Text("latest") \o Text("valid") \o Text("range")
LATEST_INDEXED_GAS_PAYMENT_BLOCK == Text("latest") \o Text("indexed") \o Text("payment")

(***************************************************************************)
(* Plausible mistakes, each in place of the definition it names.           *)
(***************************************************************************)
SharedPrefix(e, prefix) == prefix                                           \* FullPrefix
PutDestinationFirst(leaf, all, destination) == destination \o leaf \o all  \* LeafPuts

FullPrefix(e, prefix) == Text(e) \o prefix
Key(e, prefix, key) == FullPrefix(e, prefix) \o key

Retrieve(key) == {kv[k] : k \in {key} \cap DOMAIN kv}

(* What a reader of a row finds: {} if it is absent, otherwise one element,  *)
(* the set that holds the decoded value, or holds nothing if it does not     *)
(* decode.                                                                   *)
RetrieveDecodable(key, Decode(_)) == {Decode(v) : v \in Retrieve(key)}
Readable(row) == {} \notin row
ValueOr(row, default) == IF UNION row = {} THEN default ELSE CHOOSE v \in UNION row : TRUE

-----------------------------------------------------------------------------
(***************************************************************************)
(* The retrieving operations.                                              *)
(***************************************************************************)
NoIndex == -1

LatestLeafIndex(e) == RetrieveDecodable(Key(e, <<>>, LATEST_LEAF_INDEX), DecodeU32)
LatestLeafIndexForDestination(e, d) ==
  RetrieveDecodable(Key(e, LATEST_LEAF_INDEX_FOR_DESTINATION, EncodeU32(d)), DecodeU32)
LeafByLeafIndex(e, i) == RetrieveDecodable(Key(e, LEAF, EncodeU32(i)), DecodeH256)
MessageByLeaf(e, leaf) == RetrieveDecodable(Key(e, MESSAGE, EncodeH256(leaf)), DecodeRaw)
MessageByLeafIndex(e, i) == UNION {MessageByLeaf(e, leaf) : leaf \in UNION LeafByLeafIndex(e, i)}
StatusRow(e, i) == RetrieveDecodable(Key(e, LEAF_PROCESS_STATUS, EncodeU32(i)), DecodeU32)
MetaProcessed(e, meta) ==
  RetrieveDecodable(Key(e, GAS_PAYMENT_META_PROCESSED, EncodeMeta(meta)), DecodeBool)
GasPaymentForLeaf(e, i) ==
  RetrieveDecodable(Key(e, GAS_PAYMENT_FOR_LEAF, EncodeU32(i)), DecodeU256)
RangeStartBlock(e) == RetrieveDecodable(Key(e, <<>>, LATEST_VALID_MESSAGE_RANGE_START_BLOCK), DecodeU32)
GasPaymentBlock(e) == RetrieveDecodable(Key(e, <<>>, LATEST_INDEXED_GAS_PAYMENT_BLOCK), DecodeU32)

-----------------------------------------------------------------------------
(***************************************************************************)
(* The storing operations, as the puts they do.                            *)
(***************************************************************************)
Put(key, value) == << <<key, value>> >>

UpdateLatestLeafIndex(e, i) ==
  IF i <= ValueOr(LatestLeafIndex(e), NoIndex) THEN <<>>
  ELSE Put(Key(e, <<>>, LATEST_LEAF_INDEX), EncodeU32(i))

UpdateLatestLeafIndexForDestination(e, d, i) ==
  IF i <= ValueOr(LatestLeafIndexForDestination(e, d), NoIndex) THEN <<>>
  ELSE Put(Key(e, LATEST_LEAF_INDEX_FOR_DESTINATION, EncodeU32(d)), EncodeU32(i))

LeafPuts(leaf, all, destination) == leaf \o all \o destination

StoreLeaf(e, i, d, leaf) ==
  LeafPuts(Put(Key(e, LEAF, EncodeU32(i)), EncodeH256(leaf)),
           UpdateLatestLeafIndex(e, i),
           UpdateLatestLeafIndexForDestination(e, d, i))

StoreRawCommittedMessage(e, raw) ==
  LET parsed == CHOOSE m \in DecodeMessage(raw.message) : TRUE IN
  StoreLeaf(e, raw.leaf_index, parsed.destination, RawLeaf(raw))
    \o Put(Key(e, MESSAGE, EncodeH256(RawLeaf(raw))), EncodeRaw(raw))

MarkLeafAsProcessed(e, i) == Put(Key(e, LEAF_PROCESS_STATUS, EncodeU32(i)), EncodeU32(1))

StoreMetaProcessed(e, meta) == Put(Key(e, GAS_PAYMENT_META_PROCESSED, EncodeMeta(meta)), EncodeBool(TRUE))
(* A sum that is no U256 panics: nothing is put. *)
UpdateGasPaymentForLeaf(e, i, amount) ==
  LET total == ValueOr(GasPaymentForLeaf(e, i), 0) + amount IN
  IF total \in U256 THEN Put(Key(e, GAS_PAYMENT_FOR_LEAF, EncodeU32(i)), EncodeU256(total)) ELSE <<>>
ProcessGasPayment(e, p) ==
  IF ValueOr(MetaProcessed(e, p.meta), FALSE) THEN <<>>
  ELSE StoreMetaProcessed(e, p.meta) \o UpdateGasPaymentForLeaf(e, p.leaf_index, p.amount)

StoreRangeStartBlock(e, b) == Put(Key(e, <<>>, LATEST_VALID_MESSAGE_RANGE_START_BLOCK), EncodeU32(b))
StoreGasPaymentBlock(e, b) == Put(Key(e, <<>>, LATEST_INDEXED_GAS_PAYMENT_BLOCK), EncodeU32(b))

-----------------------------------------------------------------------------
(***************************************************************************)
(* The tasks of the agent, and the crash.                                  *)
(***************************************************************************)
Raw(i, d) ==
  [leaf_index |-> i,
   message |-> EncodeMessage([origin |-> Domain, sender |-> Address("app"), destination |-> d,
                              recipient |-> Address("app"), body |-> Text("hello")])]

DatabaseInit ==
  /\ kv = <<>>
  /\ pending = <<>>
  /\ batch = <<>>
  /\ \E to \in [1 .. NumIndices -> Destinations] :
       dispatched = [k \in 1 .. NumIndices |-> Raw(k - 1, to[k])]
  /\ ops = 0
  /\ crashes = 0

Idle == pending = <<>> /\ batch = <<>> /\ ops < MaxOps

(* An operation is called: it reads what it needs, and its puts are to be done. *)
Call(puts) ==
  /\ Idle
  /\ pending' = puts
  /\ ops' = ops + 1
  /\ UNCHANGED <<kv, batch, dispatched, crashes>>

(* The indexer calls store_messages with messages above the latest index. *)
StoreMessages(e) ==
  /\ Idle
  /\ \E last \in ValueOr(LatestLeafIndex(e), NoIndex) + 1 .. NumIndices - 1 :
       batch' = [k \in 1 .. last - ValueOr(LatestLeafIndex(e), NoIndex) |->
                   <<e, dispatched[ValueOr(LatestLeafIndex(e), NoIndex) + 1 + k]>>]
  /\ ops' = ops + 1
  /\ UNCHANGED <<kv, pending, dispatched, crashes>>

StoreLatestMessage ==
  /\ pending = <<>> /\ batch # <<>>
  /\ pending' = StoreRawCommittedMessage(batch[1][1], batch[1][2])
  /\ batch' = Tail(batch)
  /\ UNCHANGED <<kv, dispatched, ops, crashes>>

(* A processor or a submitter records a message that it has read. *)
MarkProcessed(e, i) ==
  /\ UNION MessageByLeafIndex(e, i) # {}
  /\ Call(MarkLeafAsProcessed(e, i))

(* The gas payment indexer meets a payment, perhaps not for the first time. *)
Pay(e, p) == Call(ProcessGasPayment(e, p))

SaveCursor(e, b) == Call(StoreRangeStartBlock(e, b)) \/ Call(StoreGasPaymentBlock(e, b))

(* DB::_store: the next put is durable. *)
Flush ==
  /\ pending # <<>>
  /\ kv' = [key \in DOMAIN kv \cup {pending[1][1]} |->
              IF key = pending[1][1] THEN pending[1][2] ELSE kv[key]]
  /\ pending' = Tail(pending)
  /\ UNCHANGED <<batch, dispatched, ops, crashes>>

Crash ==
  /\ pending # <<>>
  /\ crashes < MaxCrashes
  /\ crashes' = crashes + 1
  /\ pending' = <<>>
  /\ batch' = <<>>
  /\ UNCHANGED <<kv, dispatched, ops>>

DatabaseNext ==
  \/ \E e \in Entities :
       \/ StoreMessages(e)
       \/ \E i \in LeafIndices : MarkProcessed(e, i) \/ SaveCursor(e, i)
       \/ \E p \in Payments : Pay(e, p)
  \/ StoreLatestMessage
  \/ Flush
  \/ Crash

DatabaseSpec == DatabaseInit /\ [][DatabaseNext]_database_vars

-----------------------------------------------------------------------------
(***************************************************************************)
(* Properties.                                                             *)
(***************************************************************************)

(* Every row that is present decodes, so no reader ends in "db failure" or a  *)
(* decoding error, and a message read by its index is the one dispatched at   *)
(* that index, also when two messages differ in nothing but the index.        *)
ReadsBack ==
  \A e \in Entities :
    /\ Readable(LatestLeafIndex(e)) /\ Readable(RangeStartBlock(e)) /\ Readable(GasPaymentBlock(e))
    /\ \A d \in Destinations : Readable(LatestLeafIndexForDestination(e, d))
    /\ \A p \in Payments : Readable(MetaProcessed(e, p.meta))
    /\ \A i \in LeafIndices :
         /\ Readable(StatusRow(e, i)) /\ Readable(GasPaymentForLeaf(e, i))
         /\ Readable(LeafByLeafIndex(e, i))
         /\ MessageByLeafIndex(e, i) \subseteq {{dispatched[i + 1]}}

(* Wherever a crash falls, the latest index of a destination never passes the *)
(* latest index of the outbox it is a part of, and the leaf both count is     *)
(* there: a crash between the puts of store_leaf leaves them behind, never    *)
(* ahead.                                                                     *)
LatestNeverAhead ==
  \A e \in Entities :
    LET latest == ValueOr(LatestLeafIndex(e), NoIndex) IN
    /\ \A i \in LeafIndices : i <= latest => LeafByLeafIndex(e, i) # {}
    /\ \A d \in Destinations : ValueOr(LatestLeafIndexForDestination(e, d), NoIndex) <= latest

(* For the values of a message that is about to be stored: what is written is *)
(* what is read back, in each encoded type; and the signature on a checkpoint *)
(* binds its domain, its root and its index: over another checkpoint it does  *)
(* not recover to the signer.                                                 *)
EncodingsAreCanonical ==
  batch # <<>> =>
    LET addresses == {Address("app"), Address("user")}
        numbers == {batch[1][2].leaf_index} \cup Destinations
        signed == SignWith([outbox_domain |-> Domain, root |-> Address("app"),
                            index |-> batch[1][2].leaf_index], Address("user"))
    IN /\ RoundTrips(numbers, addresses, {batch[1][2].message})
       /\ \A a \in addresses : IsEthereumAddress(IdentifierOf(a)) /\ AsEthereumAddress(IdentifierOf(a)) = a
       /\ \A other \in [outbox_domain : numbers, root : addresses, index : numbers] :
            (Recover([signed EXCEPT !.checkpoint = other]) = Address("user")) = (other = signed.checkpoint)

-----------------------------------------------------------------------------
(***************************************************************************)
(* The rows that are read implement the tables of TypedRows.               *)
(***************************************************************************)
RowKeys ==
  Entities \X ( { <<"latest", 0>>, <<"message cursor", 0>>, <<"payment cursor", 0>> }
                \cup {"message", "processed leaf"} \X LeafIndices
                \cup {"total"} \X {p.leaf_index : p \in Payments}
                \cup {"latest for destination"} \X Destinations
                \cup {"processed payment"} \X Payments )

RowAt(e, table, key) ==
  CASE table = "latest" -> LatestLeafIndex(e)
    [] table = "message cursor" -> RangeStartBlock(e)
    [] table = "payment cursor" -> GasPaymentBlock(e)
    [] table = "message" -> MessageByLeafIndex(e, key)
    [] table = "processed leaf" -> StatusRow(e, key)
    [] table = "total" -> GasPaymentForLeaf(e, key)
    [] table = "latest for destination" -> LatestLeafIndexForDestination(e, key)
    [] table = "processed payment" -> MetaProcessed(e, key.meta)

Rows == INSTANCE TypedRows WITH
  rows <- UNION {{<<k[1], k[2][1], k[2][2], v>> : v \in UNION RowAt(k[1], k[2][1], k[2][2])} : k \in RowKeys}

(* The keys and values put into rocksdb are tables of typed rows, one set for *)
(* each outbox: every put changes one row of one outbox, whatever the other   *)
(* rows hold and wherever a crash cuts an operation.                          *)
ImplementsRows == Rows!Spec

=============================================================================
