----------------------------- MODULE Encodings -----------------------------
(***************************************************************************)
(* The canonical encodings of abacus-core: Encode and Decode of            *)
(* src/rust/abacus-core/src/traits/encode.rs and of the types built from   *)
(* them, and the hashes taken over encoded values.                         *)
(*                                                                         *)
(* An encoding is a sequence.  An integer is written out byte by byte;     *)
(* what the code treats as one opaque block (a 32-byte hash, a 65-byte     *)
(* signature, a run of zeros, a word of a key) is one element.  Every      *)
(* element is a pair <<kind, value>>, so a byte never equals a block.      *)
(*                                                                         *)
(* A decoder reads from the front and ignores what follows the value.  It  *)
(* returns the set of what it reads: one value, or none where read_exact   *)
(* or a check of the code fails.                                           *)
(***************************************************************************)
EXTENDS Integers, Sequences

CONSTANTS
  ByteBase,   \* values of a byte: 256
  WideBytes   \* bytes of a U256: 32

ASSUME EncodingsAssumption ==
  /\ ByteBase \in Nat /\ ByteBase >= 2
  /\ WideBytes \in Nat /\ WideBytes >= 4     \* a U256 is wider than a u32

(* The numbers of n bytes are those below Power[n]. *)
Power[n \in Nat] == IF n = 0 THEN 1 ELSE ByteBase * Power[n - 1]
U32 == 0 .. (Power[4] - 1)
U256 == 0 .. (Power[WideBytes] - 1)

Byte(b) == <<"byte", b>>
Text(word) == << <<"text", word>> >>
Zeros(n) == << <<"zeros", n>> >>
From(s, i) == SubSeq(s, i, Len(s))

ReadBlock(kind, s) == IF s # <<>> /\ s[1][1] = kind THEN {s[1][2]} ELSE {}
HasBytes(s, width) == Len(s) >= width /\ \A i \in 1 .. width : s[i][1] = "byte"

(* H256, and Keccak256, which stands for exactly what was hashed. *)
EncodeH256(v) == << <<"h256", v>> >>
DecodeH256(s) == ReadBlock("h256", s)
Keccak(s) == <<"keccak", s>>

-----------------------------------------------------------------------------
(***************************************************************************)
(* Plausible mistakes, each in place of the definition it names.           *)
(***************************************************************************)
LeafWithoutIndex(raw) == Keccak(raw.message \o Zeros(32))           \* RawLeaf
UnboundDomain(c) ==                                                \* SigningHash
  Keccak(EncodeH256(c.root) \o Zeros(28) \o [i \in 1 .. 4 |-> Byte((c.index \div Power[4 - i]) % ByteBase)])

-----------------------------------------------------------------------------
(***************************************************************************)
(* Integers and bool.                                                      *)
(***************************************************************************)
BigEndian(n, width) == [i \in 1 .. width |-> Byte((n \div Power[width - i]) % ByteBase)]
LittleEndian(n, width) == [i \in 1 .. width |-> Byte((n \div Power[i - 1]) % ByteBase)]

BigEndianRead(s, width) == SubSeq(s, 1, width)
LittleEndianRead(s, width) == [i \in 1 .. width |-> s[width + 1 - i]]

(* The number a sequence of bytes spells, first byte highest. *)
Number(s) ==
  LET upTo[k \in 0 .. Len(s)] == IF k = 0 THEN 0 ELSE upTo[k - 1] * ByteBase + s[k][2]
  IN upTo[Len(s)]

EncodeU32(n) == BigEndian(n, 4)
DecodeU32(s) == IF HasBytes(s, 4) THEN {Number(BigEndianRead(s, 4))} ELSE {}
EncodeU64(n) == BigEndian(n, 8)
DecodeU64(s) == IF HasBytes(s, 8) THEN {Number(BigEndianRead(s, 8))} ELSE {}
EncodeU256(n) == LittleEndian(n, WideBytes)
DecodeU256(s) ==
  IF HasBytes(s, WideBytes) THEN {Number(LittleEndianRead(s, WideBytes))} ELSE {}

EncodeBool(b) == << Byte(IF b THEN 1 ELSE 0) >>
DecodeBool(s) == IF HasBytes(s, 1) /\ s[1][2] \in {0, 1} THEN {s[1][2] = 1} ELSE {}

EncodeSignature(sig) == << <<"signature", sig>> >>
DecodeSignature(s) == ReadBlock("signature", s)

-----------------------------------------------------------------------------
(***************************************************************************)
(* Messages.  The body of an AbacusMessage is what is left over.           *)
(***************************************************************************)
EncodeMessage(m) ==
  EncodeU32(m.origin) \o EncodeH256(m.sender) \o EncodeU32(m.destination)
    \o EncodeH256(m.recipient) \o m.body

DecodeMessage(s) ==
  {[origin |-> o, sender |-> a, destination |-> d, recipient |-> r, body |-> From(s, 11)] :
     o \in DecodeU32(s), a \in DecodeH256(From(s, 5)),
     d \in DecodeU32(From(s, 6)), r \in DecodeH256(From(s, 10))}

(* RawCommittedMessage: the index and the encoded message. *)
EncodeRaw(raw) == EncodeU32(raw.leaf_index) \o raw.message
DecodeRaw(s) == {[leaf_index |-> i, message |-> From(s, 5)] : i \in DecodeU32(s)}

(* RawCommittedMessage::leaf, and AbacusMessage::to_leaf on the parsed message. *)
RawLeaf(raw) == Keccak(raw.message \o Zeros(28) \o EncodeU32(raw.leaf_index))
ToLeaf(m, index) == Keccak(EncodeMessage(m) \o Zeros(28) \o EncodeU32(index))

-----------------------------------------------------------------------------
(***************************************************************************)
(* Gas payments, identifiers, merkle proofs and checkpoints.               *)
(***************************************************************************)
EncodeMeta(meta) == EncodeH256(meta.transaction_hash) \o EncodeU256(meta.log_index)
DecodeMeta(s) ==
  {[transaction_hash |-> h, log_index |-> i] : h \in DecodeH256(s), i \in DecodeU256(From(s, 2))}

(* An identifier is a 32-byte hash seen as its first 12 bytes and the other 20. *)
IdentifierOf(address) == [first12 |-> "zeros", last20 |-> address]
IsEthereumAddress(id) == id.first12 = "zeros"
AsEthereumAddress(id) == id.last20

EncodeProof(p) ==
  EncodeH256(p.leaf) \o EncodeU64(p.index) \o [i \in DOMAIN p.path |-> EncodeH256(p.path[i])[1]]
DecodeProof(s, depth) ==
  {[leaf |-> l, index |-> i, path |-> [k \in 1 .. depth |-> s[9 + k][2]]] :
     l \in DecodeH256(s),
     i \in {i \in DecodeU64(From(s, 2)) : \A k \in 1 .. depth : DecodeH256(From(s, 9 + k)) # {}}}

EncodeCheckpoint(c) == EncodeU32(c.outbox_domain) \o EncodeH256(c.root) \o EncodeU32(c.index)
DecodeCheckpoint(s) ==
  {[outbox_domain |-> d, root |-> r, index |-> i] :
     d \in DecodeU32(s), r \in DecodeH256(From(s, 5)), i \in DecodeU32(From(s, 6))}

EncodeSigned(sc) == EncodeCheckpoint(sc.checkpoint) \o EncodeSignature(sc.signature)
DecodeSigned(s) ==
  {[checkpoint |-> c, signature |-> sig] : c \in DecodeCheckpoint(s), sig \in DecodeSignature(From(s, 10))}

DomainHash(domain) == Keccak(EncodeU32(domain) \o Text("ABACUS"))
SigningHash(c) ==
  Keccak(EncodeH256(DomainHash(c.outbox_domain)) \o EncodeH256(c.root) \o Zeros(28) \o EncodeU32(c.index))
PrependedHash(c) == <<"eip191", SigningHash(c)>>

(* A signature stands for its signer and the hash that was signed; recovered   *)
(* over another hash it yields some other address.                             *)
SignWith(c, signer) == [checkpoint |-> c, signature |-> [by |-> signer, over |-> PrependedHash(c)]]
Recover(sc) ==
  IF sc.signature.over = PrependedHash(sc.checkpoint) THEN sc.signature.by ELSE <<"other than", sc.signature.by>>

-----------------------------------------------------------------------------
(***************************************************************************)
(* What the encodings promise, over samples of each type.                  *)
(***************************************************************************)
RoundTrips(numbers, hashes, bodies) ==
  /\ \A n \in numbers :
       /\ DecodeU32(EncodeU32(n)) = {n} /\ DecodeU64(EncodeU64(n)) = {n}
       /\ DecodeU256(EncodeU256(n)) = {n}
  /\ \A b \in BOOLEAN : DecodeBool(EncodeBool(b)) = {b}
  /\ \A n, d \in numbers, a, r \in hashes, body \in bodies :
       LET m == [origin |-> d, sender |-> a, destination |-> n, recipient |-> r, body |-> body]
           raw == [leaf_index |-> n, message |-> EncodeMessage(m)]
           p == [leaf |-> a, index |-> n, path |-> <<r, a>>]
           c == [outbox_domain |-> d, root |-> r, index |-> n]
       IN /\ DecodeMessage(EncodeMessage(m)) = {m}
          /\ DecodeRaw(EncodeRaw(raw)) = {raw}
          /\ RawLeaf(raw) = ToLeaf(m, n)
          /\ DecodeProof(EncodeProof(p), 2) = {p}
          /\ DecodeSigned(EncodeSigned(SignWith(c, a))) = {SignWith(c, a)}
          /\ DecodeMeta(EncodeMeta([transaction_hash |-> a, log_index |-> n]))
               = {[transaction_hash |-> a, log_index |-> n]}

=============================================================================
