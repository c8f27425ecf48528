---------------------------- MODULE StoresProofs ----------------------------
(***************************************************************************)
(* Proofs about the two stores that outlive an agent.                      *)
(*                                                                         *)
(* The database of an agent, for any outboxes, messages, destinations and  *)
(* payments, any base of a byte and any number of operations and crashes:  *)
(* its encodings are read back, no two rows share a key, every row holds   *)
(* what was put there, and the puts implement the rows of TypedRows.       *)
(*                                                                         *)
(* The checkpoint storages and the quorum search over them, for any        *)
(* validators, any quorum and any number of checkpoints, wrong files and   *)
(* faults: the types, that an index that is answered was signed by a       *)
(* quorum, and that what is published has one.                             *)
(***************************************************************************)
EXTENDS AbacusDB, MultisigCheckpointSyncer, SequenceTheorems, FiniteSetTheorems, WellFoundedInduction, TLAPS

-----------------------------------------------------------------------------
(*****************************************************************************)
(* Numbers: the powers of the base, division, and big-endian bytes.         *)
(*****************************************************************************)

(* A set of naturals that is not empty has a least element.                  *)
LEMMA LeastNumber ==
  ASSUME NEW bad \in SUBSET Nat, bad # {}
  PROVE  \E n \in bad : \A m \in bad : n <= m
<1> DEFINE Less == {ss \in Nat \X Nat : ss[1] < ss[2]}
<1>1. IsWellFoundedOn(Less, Nat)
  BY NatLessThanWellFounded DEF OpToRel
<1>2. PICK n \in bad : \A m \in bad : ~ (<<m, n>> \in Less)
  <2> HIDE DEF Less
  <2> QED
    BY <1>1, WFMin
<1>3. ASSUME NEW m \in bad
      PROVE  n <= m
  <2>1. m \in Nat /\ n \in Nat /\ ~ (m < n)
    BY <1>2
  <2> QED
    BY <2>1
<1> QED
  BY <1>3

(* Dividing a multiple of a base, and a rest below it, gives the multiple    *)
(* back.                                                                     *)
LEMMA QuotientIs ==
  ASSUME NEW n \in Nat, NEW d \in Nat \ {0}, NEW q \in Nat, NEW r \in 0 .. d - 1, n = q * d + r
  PROVE  n \div d = q
OBVIOUS

(* The same for any base.                                                    *)
LEMMA Quotients ==
  ASSUME NEW n \in Nat, NEW p \in Nat \ {0}, NEW b \in Nat \ {0}
  PROVE  (n \div p) \div b = n \div (b * p)
OBVIOUS

(* Power is defined by its recursion: the powers of the base, all positive.  *)
LEMMA PowerIs ==
  /\ Power[0] = 1
  /\ \A n \in Nat : Power[n] \in Nat \ {0} /\ Power[n + 1] = ByteBase * Power[n]
<1> DEFINE Approximates(f, n) ==
             /\ f \in [0 .. n -> Nat \ {0}] /\ f[0] = 1
             /\ \A k \in 0 .. n : k # 0 => f[k] = ByteBase * f[k - 1]
           missing == {n \in Nat : ~ \E f : Approximates(f, n)}
           best(n) == CHOOSE f : Approximates(f, n)
           At(n) == best(n)[n]
           All == [n \in Nat |-> At(n)]
<1>1. missing = {}
  <2>1. SUFFICES ASSUME missing # {}
                 PROVE  FALSE
    OBVIOUS
  <2>2. PICK n \in missing : \A m \in missing : n <= m
    <3> HIDE DEF missing
    <3>1. missing \in SUBSET Nat
      BY DEF missing
    <3> QED
      BY <2>1, <3>1, LeastNumber
  <2>3. n # 0
    <3>1. Approximates([k \in 0 .. 0 |-> 1], 0)
      OBVIOUS
    <3> QED
      BY <2>2, <3>1
  <2>4. n \in Nat /\ n - 1 \in Nat /\ n - 1 \notin missing
    <3>1. \A m \in missing : m \in Nat
      OBVIOUS
    <3> HIDE DEF missing
    <3> QED
      BY <2>2, <2>3, <3>1
  <2>5. PICK f : Approximates(f, n - 1)
    BY <2>4
  <2>6. Approximates([k \in 0 .. n |-> IF k = n THEN ByteBase * f[n - 1] ELSE f[k]], n)
    <3> DEFINE g == [k \in 0 .. n |-> IF k = n THEN ByteBase * f[n - 1] ELSE f[k]]
    <3>1. f[n - 1] \in Nat \ {0} /\ ByteBase * f[n - 1] \in Nat \ {0}
      BY <2>3, <2>4, <2>5, EncodingsAssumption
    <3>2. g \in [0 .. n -> Nat \ {0}] /\ g[0] = 1
      BY <2>3, <2>4, <2>5, <3>1
    <3>3. ASSUME NEW k \in 0 .. n, k # 0
          PROVE  g[k] = ByteBase * g[k - 1]
      <4>1. k - 1 \in 0 .. n - 1 /\ k - 1 # n /\ (k # n => k \in 0 .. n - 1)
        BY <2>4, <3>3
      <4>2. g[k - 1] = f[k - 1]
        BY <4>1, <2>4
      <4> QED
        BY <2>5, <3>3, <4>1, <4>2
    <3> QED
      BY <3>2, <3>3
  <2> QED
    BY <2>2, <2>6
<1>2. ASSUME NEW n \in Nat, NEW m \in 0 .. n, NEW f, NEW g, Approximates(f, n), Approximates(g, m)
      PROVE  f[m] = g[m]
  <2> DEFINE differ == {k \in 0 .. m : f[k] # g[k]}
  <2>1. SUFFICES ASSUME differ # {}
                 PROVE  FALSE
    OBVIOUS
  <2>2. PICK k \in differ : \A j \in differ : k <= j
    <3>1. differ \in SUBSET Nat
      OBVIOUS
    <3> HIDE DEF differ
    <3> QED
      BY <2>1, <3>1, LeastNumber
  <2>3. k # 0 /\ k - 1 \in 0 .. m /\ k - 1 \notin differ
    BY <1>2, <2>2
  <2> QED
    BY <1>2, <2>2, <2>3
<1>3. ASSUME NEW n \in Nat
      PROVE  Approximates(best(n), n)
  <2>1. \E f : Approximates(f, n)
    BY <1>1
  <2> HIDE DEF Approximates
  <2> QED
    BY <2>1
<1>4. At(0) = 1 /\ \A n \in Nat : At(n) \in Nat \ {0}
  <2> HIDE DEF best
  <2>1. ASSUME NEW n \in Nat
        PROVE  At(n) \in Nat \ {0} /\ (n = 0 => At(n) = 1)
    BY <1>3
  <2> QED
    BY <2>1
<1>5. ASSUME NEW n \in Nat
      PROVE  At(n + 1) = ByteBase * At(n)
  <2>1. n + 1 \in Nat /\ n \in 0 .. n + 1 /\ n + 1 \in 0 .. n + 1 /\ n + 1 # 0 /\ (n + 1) - 1 = n
    OBVIOUS
  <2>2. Approximates(best(n + 1), n + 1) /\ Approximates(best(n), n)
    BY <1>3, <2>1
  <2> HIDE DEF best
  <2>3. best(n + 1)[n] = best(n)[n]
    <3> HIDE DEF Approximates
    <3> QED
      BY <1>2, <2>1, <2>2
  <2>4. best(n + 1)[n + 1] = ByteBase * best(n + 1)[(n + 1) - 1]
    BY <2>1, <2>2
  <2> QED
    BY <2>1, <2>3, <2>4
<1> HIDE DEF At
<1>6. All = [n \in Nat |-> IF n = 0 THEN 1 ELSE ByteBase * All[n - 1]]
  <2>1. ASSUME NEW n \in Nat, n # 0
        PROVE  At(n) = ByteBase * All[n - 1]
    <3>1. n - 1 \in Nat /\ n = (n - 1) + 1
      BY <2>1
    <3> QED
      BY <1>5, <3>1
  <2> QED
    BY <1>4, <2>1
<1>7. Power = [n \in Nat |-> IF n = 0 THEN 1 ELSE ByteBase * Power[n - 1]]
  <2> HIDE DEF All
  <2> QED
    BY <1>6 DEF Power
<1>8. Power[0] = 1 /\ \A n \in Nat : Power[n + 1] = ByteBase * Power[n]
  <2>1. \A n \in Nat : n + 1 \in Nat /\ n + 1 # 0 /\ (n + 1) - 1 = n
    OBVIOUS
  <2> QED
    BY <1>7, <2>1
<1>9. \A n \in Nat : Power[n] \in Nat \ {0}
  <2> DEFINE bad == {n \in Nat : Power[n] \notin Nat \ {0}}
  <2>1. SUFFICES ASSUME bad # {}
                 PROVE  FALSE
    OBVIOUS
  <2>2. PICK n \in bad : \A m \in bad : n <= m
    <3>1. bad \in SUBSET Nat
      OBVIOUS
    <3> HIDE DEF bad
    <3> QED
      BY <2>1, <3>1, LeastNumber
  <2>3. n # 0 /\ n - 1 \in Nat /\ n - 1 \notin bad /\ n = (n - 1) + 1
    BY <1>8, <2>2
  <2>4. Power[n] = ByteBase * Power[n - 1]
    BY <1>8, <2>3
  <2> QED
    BY <2>2, <2>3, <2>4, EncodingsAssumption
<1> QED
  BY <1>8, <1>9

(* The digits of a number are bytes.                                         *)
LEMMA Digit ==
  ASSUME NEW n \in Nat, NEW k \in Nat
  PROVE  /\ n \div Power[k] \in Nat
         /\ (n \div Power[k]) % ByteBase \in Nat
         /\ n \div Power[k] = (n \div Power[k + 1]) * ByteBase + ((n \div Power[k]) % ByteBase)
<1>1. Power[k] \in Nat \ {0} /\ ByteBase \in Nat \ {0} /\ Power[k + 1] = ByteBase * Power[k]
  BY PowerIs, EncodingsAssumption
<1>2. n \div Power[k] \in Nat
  BY <1>1
<1>3. \A q \in Nat : q = (q \div ByteBase) * ByteBase + (q % ByteBase) /\ q % ByteBase \in Nat
  BY <1>1
<1>4. (n \div Power[k]) \div ByteBase = n \div Power[k + 1]
  BY <1>1, Quotients
<1> QED
  BY <1>2, <1>3, <1>4

(* The big-endian bytes of a number, one byte after the other.               *)
LEMMA BigEndianIs ==
  ASSUME NEW n, NEW w \in Nat
  PROVE  /\ Len(BigEndian(n, w)) = w
         /\ DOMAIN BigEndian(n, w) = 1 .. w
         /\ BigEndian(n, w) \in Seq({Byte((n \div Power[w - i]) % ByteBase) : i \in 1 .. w})
         /\ \A i \in 1 .. w : BigEndian(n, w)[i] = Byte((n \div Power[w - i]) % ByteBase)
<1> DEFINE byte(i) == Byte((n \div Power[w - i]) % ByteBase)
           bytes == {byte(i) : i \in 1 .. w}
<1>1. BigEndian(n, w) = [i \in 1 .. w |-> byte(i)]
  BY DEF BigEndian
<1>2. \A i \in 1 .. w : byte(i) \in bytes
  OBVIOUS
<1> HIDE DEF byte, bytes
<1>3. [i \in 1 .. w |-> byte(i)] \in Seq(bytes) /\ Len([i \in 1 .. w |-> byte(i)]) = w
  BY <1>2
<1>4. DOMAIN [i \in 1 .. w |-> byte(i)] = 1 .. w /\ \A i \in 1 .. w : [j \in 1 .. w |-> byte(j)][i] = byte(i)
  OBVIOUS
<1> QED
  BY <1>1, <1>3, <1>4 DEF byte, bytes

(* The bytes of a number are read back as that number.                       *)
LEMMA NumberRead ==
  ASSUME NEW w \in Nat, NEW n \in 0 .. Power[w] - 1
  PROVE  Number(BigEndian(n, w)) = n
<1> DEFINE s == BigEndian(n, w)
           upTo[k \in 0 .. Len(s)] == IF k = 0 THEN 0 ELSE upTo[k - 1] * ByteBase + s[k][2]
           quotient == [k \in 0 .. w |-> n \div Power[w - k]]
           wrong == {k \in 0 .. w : upTo[k] # quotient[k]}
<1>1. Len(s) = w /\ \A k \in 1 .. w : s[k][2] = (n \div Power[w - k]) % ByteBase
  <2> HIDE DEF s
  <2>1. Len(s) = w /\ \A k \in 1 .. w : s[k] = Byte((n \div Power[w - k]) % ByteBase)
    BY BigEndianIs DEF s
  <2> QED
    BY <2>1 DEF Byte
<1>2. n \in Nat /\ n < Power[w] /\ Power[w] \in Nat \ {0}
  BY PowerIs
<1>3. quotient[0] = 0 /\ quotient[w] = n
  <2>1. n \div Power[w] = 0 /\ n \div 1 = n /\ w - 0 = w /\ w - w = 0
    BY <1>2
  <2> QED
    BY <2>1, PowerIs
<1>4. ASSUME NEW k \in 1 .. w
      PROVE  quotient[k] = quotient[k - 1] * ByteBase + s[k][2]
  <2>1. w - k \in Nat /\ w - (k - 1) = (w - k) + 1 /\ k - 1 \in 0 .. w /\ k \in 0 .. w
    OBVIOUS
  <2>2. n \div Power[w - k] = (n \div Power[(w - k) + 1]) * ByteBase + ((n \div Power[w - k]) % ByteBase)
    BY <1>2, <2>1, Digit
  <2> QED
    BY <1>1, <2>1, <2>2
<1> HIDE DEF s
<1>5. upTo = [k \in 0 .. Len(s) |-> IF k = 0 THEN 0 ELSE upTo[k - 1] * ByteBase + s[k][2]]
  <2>1. quotient = [k \in 0 .. Len(s) |-> IF k = 0 THEN 0 ELSE quotient[k - 1] * ByteBase + s[k][2]]
    <3>1. \A k \in 0 .. w : k # 0 => k \in 1 .. w
      OBVIOUS
    <3>2. quotient = [k \in 0 .. w |-> quotient[k]]
      OBVIOUS
    <3> HIDE DEF quotient
    <3> QED
      BY <1>1, <1>3, <1>4, <3>1, <3>2
  <2> HIDE DEF quotient
  <2> QED
    BY <2>1
<1>6. wrong = {}
  <2>1. SUFFICES ASSUME wrong # {}
                 PROVE  FALSE
    OBVIOUS
  <2> HIDE DEF upTo, quotient
  <2>2. PICK k \in wrong : \A j \in wrong : k <= j
    <3>1. wrong \in SUBSET Nat
      OBVIOUS
    <3> HIDE DEF wrong
    <3> QED
      BY <2>1, <3>1, LeastNumber
  <2>3. k # 0 /\ k \in 1 .. w /\ k - 1 \in 0 .. w /\ k - 1 \notin wrong
    BY <1>1, <1>3, <1>5, <2>2
  <2> QED
    BY <1>1, <1>4, <1>5, <2>2, <2>3
<1>7. Number(s) = upTo[Len(s)]
  BY DEF Number
<1>8. upTo[w] = quotient[w]
  <2> HIDE DEF upTo, quotient
  <2> QED
    BY <1>6
<1> QED
  <2> HIDE DEF upTo, quotient
  <2> QED
    BY <1>1, <1>3, <1>7, <1>8 DEF s

-----------------------------------------------------------------------------
(*****************************************************************************)
(* Sequences: what concatenation and parts of a sequence hold.              *)
(*****************************************************************************)

IsSeq(s) == \E S : s \in Seq(S)

(* The length and the elements of a concatenation.                           *)
LEMMA Concat ==
  ASSUME NEW s, NEW t, IsSeq(s), IsSeq(t)
  PROVE  /\ IsSeq(s \o t)
         /\ Len(s) \in Nat /\ Len(t) \in Nat /\ Len(s \o t) = Len(s) + Len(t)
         /\ \A i \in 1 .. Len(s) : (s \o t)[i] = s[i]
         /\ \A i \in 1 .. Len(t) : (s \o t)[Len(s) + i] = t[i]
         /\ s \o <<>> = s
<1>1. PICK S, T : s \in Seq(S) /\ t \in Seq(T)
  BY DEF IsSeq
<1>2. s \in Seq(S \cup T) /\ t \in Seq(S \cup T)
  BY <1>1, SeqMonotonic
<1>3. s \o t \in Seq(S \cup T) /\ Len(s \o t) = Len(s) + Len(t) /\ Len(s) \in Nat /\ Len(t) \in Nat
  BY <1>2
<1>4. \A i \in 1 .. Len(s) + Len(t) : (s \o t)[i] = IF i <= Len(s) THEN s[i] ELSE t[i - Len(s)]
  BY <1>2, ConcatProperties
<1>5. \A i \in 1 .. Len(s) : i \in 1 .. Len(s) + Len(t) /\ i <= Len(s)
  BY <1>3
<1>6. \A i \in 1 .. Len(t) :
        Len(s) + i \in 1 .. Len(s) + Len(t) /\ ~ (Len(s) + i <= Len(s)) /\ (Len(s) + i) - Len(s) = i
  BY <1>3
<1>7. s \o <<>> = s
  BY <1>1, ConcatEmptySeq
<1> QED
  BY <1>3, <1>4, <1>5, <1>6, <1>7 DEF IsSeq

(* What starts after the first of two concatenated sequences is the second.  *)
LEMMA Parts ==
  ASSUME NEW s, NEW t, IsSeq(s), IsSeq(t)
  PROVE  /\ SubSeq(s \o t, 1, Len(s)) = s
         /\ From(s \o t, Len(s) + 1) = t
<1>1. PICK S, T : s \in Seq(S) /\ t \in Seq(T)
  BY DEF IsSeq
<1> DEFINE U == S \cup T
<1>2. s \in Seq(U) /\ t \in Seq(U)
  BY <1>1, SeqMonotonic
<1> HIDE DEF U
<1>3. s \o t \in Seq(U) /\ Len(s \o t) = Len(s) + Len(t) /\ Len(s) \in Nat /\ Len(t) \in Nat
  BY <1>2
<1>4. \A i \in 1 .. Len(s) + Len(t) : (s \o t)[i] \in U
  BY <1>3, ElementOfSeq
<1>5. SubSeq(s \o t, 1, Len(s)) = s
  <2>1. /\ SubSeq(s \o t, 1, Len(s)) \in Seq(U)
        /\ Len(SubSeq(s \o t, 1, Len(s))) = Len(s)
        /\ \A i \in 1 .. Len(s) : SubSeq(s \o t, 1, Len(s))[i] = (s \o t)[i]
    BY <1>3, <1>4, SubSeqProperties
  <2>2. \A i \in 1 .. Len(s) : SubSeq(s \o t, 1, Len(s))[i] = s[i]
    BY <2>1, Concat
  <2> QED
    BY <1>2, <2>1, <2>2, SeqEqual
<1>6. SubSeq(s \o t, Len(s) + 1, Len(s) + Len(t)) = t
  <2> DEFINE rest == SubSeq(s \o t, Len(s) + 1, Len(s) + Len(t))
  <2>1. rest \in Seq(U) /\ Len(rest) = Len(t) /\ \A i \in 1 .. Len(t) : rest[i] = (s \o t)[Len(s) + i]
    <3>1. /\ rest \in Seq(U)
          /\ Len(rest) = IF Len(s) + 1 <= Len(s) + Len(t) THEN Len(s) + Len(t) - (Len(s) + 1) + 1 ELSE 0
          /\ \A i \in 1 .. Len(s) + Len(t) - (Len(s) + 1) + 1 : rest[i] = (s \o t)[Len(s) + 1 + i - 1]
      BY <1>3, <1>4, SubSeqProperties
    <3> HIDE DEF rest
    <3>2. \A i \in 1 .. Len(t) : i \in 1 .. Len(s) + Len(t) - (Len(s) + 1) + 1 /\ Len(s) + 1 + i - 1 = Len(s) + i
      BY <1>3
    <3>3. Len(rest) = Len(t)
      <4>1. Len(rest) = IF Len(s) + 1 <= Len(s) + Len(t) THEN Len(s) + Len(t) - (Len(s) + 1) + 1 ELSE 0
        BY <3>1
      <4>2. \A m, n \in Nat : (IF m + 1 <= m + n THEN m + n - (m + 1) + 1 ELSE 0) = n
        OBVIOUS
      <4> QED
        BY <1>3, <4>1, <4>2
    <3>4. \A i \in 1 .. Len(t) : rest[i] = (s \o t)[Len(s) + i]
      BY <3>1, <3>2
    <3> QED
      BY <3>1, <3>3, <3>4
  <2> HIDE DEF rest
  <2>2. \A i \in 1 .. Len(t) : rest[i] = t[i]
    BY <2>1, Concat
  <2>3. rest = t
    BY <1>2, <2>1, <2>2, SeqEqual
  <2> QED
    BY <2>3 DEF rest
<1> QED
  BY <1>3, <1>5, <1>6 DEF From

(* Concatenation is associative.                                             *)
LEMMA Assoc ==
  ASSUME NEW s, NEW t, NEW u, IsSeq(s), IsSeq(t), IsSeq(u)
  PROVE  (s \o t) \o u = s \o (t \o u)
<1>1. PICK S, T, U : s \in Seq(S) /\ t \in Seq(T) /\ u \in Seq(U)
  BY DEF IsSeq
<1>2. s \in Seq(S \cup T \cup U) /\ t \in Seq(S \cup T \cup U) /\ u \in Seq(S \cup T \cup U)
  BY <1>1, SeqMonotonic
<1> QED
  BY <1>2, ConcatAssociative

(* A sequence of one element, and the empty one.                             *)
LEMMA Single == ASSUME NEW x PROVE IsSeq(<<x>>) /\ Len(<<x>>) = 1 /\ <<x>>[1] = x /\ IsSeq(<<>>) /\ Len(<<>>) = 0
<1>1. <<x>> \in Seq({x}) /\ <<>> \in Seq({x})
  OBVIOUS
<1> QED
  BY <1>1 DEF IsSeq

(* A power is no greater than a later one.                                   *)
LEMMA PowerGrows == ASSUME NEW n \in Nat, NEW k \in Nat PROVE Power[n] <= Power[n + k]
<1> DEFINE bad == {i \in Nat : ~ (Power[n] <= Power[n + i])}
<1>1. SUFFICES ASSUME bad # {}
               PROVE  FALSE
  OBVIOUS
<1>2. PICK i \in bad : \A j \in bad : i <= j
  <2>1. bad \in SUBSET Nat
    OBVIOUS
  <2> HIDE DEF bad
  <2> QED
    BY <1>1, <2>1, LeastNumber
<1>3. Power[n] \in Nat /\ i \in Nat /\ i # 0
  BY <1>2, PowerIs
<1>4. i - 1 \in Nat /\ Power[n] <= Power[n + (i - 1)]
  BY <1>2, <1>3
<1>5. /\ n + (i - 1) \in Nat /\ (n + (i - 1)) + 1 = n + i
  BY <1>3
<1>6. Power[n + i] = ByteBase * Power[n + (i - 1)] /\ Power[n + (i - 1)] \in Nat
  BY <1>5, PowerIs
<1>7. ByteBase * Power[n + (i - 1)] >= Power[n + (i - 1)]
  BY <1>6, EncodingsAssumption
<1>8. Power[n] <= Power[n + i]
  <2>1. Power[n + i] \in Nat
    BY <1>3, PowerIs
  <2> QED
    BY <1>3, <1>4, <1>6, <1>7, <2>1
<1> QED
  BY <1>2, <1>8

(* The bytes in front of a longer sequence are those of the first part.      *)
LEMMA BytesInFront ==
  ASSUME NEW w \in Nat, NEW s, NEW t, IsSeq(s), IsSeq(t), Len(s) = w, \A i \in 1 .. w : s[i][1] = "byte"
  PROVE  HasBytes(s \o t, w)
<1>1. Len(s \o t) >= w /\ \A i \in 1 .. w : (s \o t)[i] = s[i]
  BY Concat
<1> QED
  BY <1>1 DEF HasBytes

(* What is read from the front of a sequence that starts with a number.        *)
LEMMA NumberInFront ==
  ASSUME NEW w \in Nat, NEW n \in 0 .. Power[w] - 1, NEW t, IsSeq(t)
  PROVE  /\ IsSeq(BigEndian(n, w)) /\ Len(BigEndian(n, w)) = w
         /\ HasBytes(BigEndian(n, w) \o t, w)
         /\ Number(BigEndianRead(BigEndian(n, w) \o t, w)) = n
         /\ From(BigEndian(n, w) \o t, w + 1) = t
<1> DEFINE s == BigEndian(n, w)
<1>1. IsSeq(s) /\ Len(s) = w
  BY BigEndianIs DEF IsSeq
<1>2. \A i \in 1 .. w : s[i][1] = "byte"
  <2>1. \A i \in 1 .. w : s[i] = Byte((n \div Power[w - i]) % ByteBase)
    BY BigEndianIs
  <2>2. \A b : Byte(b)[1] = "byte"
    BY DEF Byte
  <2> QED
    BY <2>1, <2>2
<1> HIDE DEF s
<1>3. HasBytes(s \o t, w)
  BY <1>1, <1>2, BytesInFront
<1>4. SubSeq(s \o t, 1, w) = s /\ From(s \o t, w + 1) = t
  BY <1>1, Parts
<1> QED
  BY <1>1, <1>3, <1>4, NumberRead DEF s, BigEndianRead

(* The same for the little-endian numbers.                                   *)
LEMMA LittleInFront ==
  ASSUME NEW w \in Nat, NEW n \in 0 .. Power[w] - 1, NEW t, IsSeq(t)
  PROVE  /\ IsSeq(LittleEndian(n, w)) /\ Len(LittleEndian(n, w)) = w
         /\ HasBytes(LittleEndian(n, w) \o t, w)
         /\ Number(LittleEndianRead(LittleEndian(n, w) \o t, w)) = n
         /\ From(LittleEndian(n, w) \o t, w + 1) = t
<1> DEFINE s == LittleEndian(n, w)
           digit(i) == Byte((n \div Power[i - 1]) % ByteBase)
           digits == {digit(i) : i \in 1 .. w}
<1>1. s = [i \in 1 .. w |-> digit(i)]
  BY DEF LittleEndian
<1>2. \A i \in 1 .. w : digit(i) \in digits /\ digit(i)[1] = "byte"
  BY DEF Byte
<1>3. s \in Seq(digits) /\ Len(s) = w /\ \A i \in 1 .. w : s[i] = digit(i)
  <2> HIDE DEF s, digit, digits
  <2>1. [i \in 1 .. w |-> digit(i)] \in Seq(digits) /\ Len([i \in 1 .. w |-> digit(i)]) = w
    BY <1>2
  <2> QED
    BY <1>1, <2>1
<1>4. IsSeq(s)
  BY <1>3 DEF IsSeq
<1> HIDE DEF s
<1>5. HasBytes(s \o t, w)
  <2> HIDE DEF digit
  <2>1. \A i \in 1 .. w : s[i][1] = "byte"
    BY <1>2, <1>3
  <2> QED
    BY <1>3, <1>4, <2>1, BytesInFront
<1>6. From(s \o t, w + 1) = t
  BY <1>3, <1>4, Parts
<1>7. LittleEndianRead(s \o t, w) = BigEndian(n, w)
  <2>1. ASSUME NEW i \in 1 .. w
        PROVE  (s \o t)[w + 1 - i] = Byte((n \div Power[w - i]) % ByteBase)
    <3>1. w + 1 - i \in 1 .. w /\ (w + 1 - i) - 1 = w - i
      OBVIOUS
    <3>2. (s \o t)[w + 1 - i] = digit(w + 1 - i)
      <4> HIDE DEF digit
      <4> QED
        BY <1>3, <1>4, <3>1, Concat
    <3> QED
      BY <3>1, <3>2
  <2> QED
    BY <2>1 DEF LittleEndianRead, BigEndian
<1> QED
  BY <1>3, <1>4, <1>5, <1>6, <1>7, NumberRead DEF s

-----------------------------------------------------------------------------
(*****************************************************************************)
(* Each encoded type is read back, from the front of a longer sequence      *)
(* too.                                                                     *)
(*****************************************************************************)

(* What fits into four bytes fits into eight and into a U256.                *)
LEMMA Widths == U32 \subseteq U256 /\ U32 = 0 .. Power[4] - 1 /\ U32 \subseteq 0 .. Power[8] - 1 /\ 0 \in U32 /\ 1 \in U32
<1>1. Power[4] \in Nat /\ Power[8] \in Nat /\ Power[WideBytes] \in Nat
  BY PowerIs, EncodingsAssumption
<1>2. Power[4] <= Power[8] /\ Power[4] <= Power[WideBytes] /\ Power[1] <= Power[4]
  <2>1. 4 + (WideBytes - 4) = WideBytes /\ WideBytes - 4 \in Nat
    BY EncodingsAssumption
  <2>2. Power[4] <= Power[4 + (WideBytes - 4)]
    BY <2>1, PowerGrows
  <2>3. Power[4] <= Power[4 + 4] /\ Power[1] <= Power[1 + 3]
    BY ONLY PowerGrows, 4 \in Nat, 1 \in Nat, 3 \in Nat
  <2> QED
    BY <2>1, <2>2, <2>3
<1>3. 4 + (WideBytes - 4) = WideBytes /\ 4 + 4 = 8 /\ 1 + 3 = 4 /\ 0 + 1 = 1
  BY EncodingsAssumption
<1>4. Power[1] = ByteBase
  BY <1>3, PowerIs, EncodingsAssumption
<1> QED
  BY <1>1, <1>2, <1>3, <1>4, EncodingsAssumption DEF U32, U256

(* A U32 is read back from the front of any sequence, and what follows it    *)
(* too.                                                                      *)
LEMMA ReadU32 ==
  ASSUME NEW n \in U32, NEW t, IsSeq(t)
  PROVE  /\ IsSeq(EncodeU32(n)) /\ Len(EncodeU32(n)) = 4
         /\ DecodeU32(EncodeU32(n) \o t) = {n} /\ From(EncodeU32(n) \o t, 5) = t
         /\ DecodeU32(EncodeU32(n)) = {n}
<1>1. \A u : IsSeq(u) => DecodeU32(EncodeU32(n) \o u) = {n}
  BY NumberInFront DEF U32, EncodeU32, DecodeU32
<1>2. IsSeq(EncodeU32(n)) /\ Len(EncodeU32(n)) = 4 /\ From(EncodeU32(n) \o t, 5) = t
  <2>1. /\ IsSeq(BigEndian(n, 4)) /\ Len(BigEndian(n, 4)) = 4
        /\ From(BigEndian(n, 4) \o t, 4 + 1) = t
    BY NumberInFront, 4 \in Nat DEF U32
  <2>2. 4 + 1 = 5
    OBVIOUS
  <2> QED
    BY <2>1, <2>2 DEF EncodeU32
<1>3. EncodeU32(n) \o <<>> = EncodeU32(n)
  BY <1>2, Single, Concat
<1> QED
  BY <1>1, <1>2, <1>3, Single

(* The same for a U64.                                                       *)
LEMMA ReadU64 ==
  ASSUME NEW n \in U32, NEW t, IsSeq(t)
  PROVE  /\ IsSeq(EncodeU64(n)) /\ Len(EncodeU64(n)) = 8
         /\ DecodeU64(EncodeU64(n) \o t) = {n} /\ From(EncodeU64(n) \o t, 9) = t
         /\ DecodeU64(EncodeU64(n)) = {n}
<1> n \in 0 .. Power[8] - 1
  BY Widths
<1>1. \A u : IsSeq(u) => DecodeU64(EncodeU64(n) \o u) = {n}
  BY NumberInFront DEF EncodeU64, DecodeU64
<1>2. IsSeq(EncodeU64(n)) /\ Len(EncodeU64(n)) = 8 /\ From(EncodeU64(n) \o t, 9) = t
  <2>1. /\ IsSeq(BigEndian(n, 8)) /\ Len(BigEndian(n, 8)) = 8
        /\ From(BigEndian(n, 8) \o t, 8 + 1) = t
    BY NumberInFront, 8 \in Nat DEF U32
  <2>2. 8 + 1 = 9
    OBVIOUS
  <2> QED
    BY <2>1, <2>2 DEF EncodeU64
<1>3. EncodeU64(n) \o <<>> = EncodeU64(n)
  BY <1>2, Single, Concat
<1> QED
  BY <1>1, <1>2, <1>3, Single

(* The same for a U256.                                                      *)
LEMMA ReadU256 ==
  ASSUME NEW n \in U256, NEW t, IsSeq(t)
  PROVE  /\ IsSeq(EncodeU256(n)) /\ Len(EncodeU256(n)) = WideBytes
         /\ DecodeU256(EncodeU256(n) \o t) = {n}
         /\ DecodeU256(EncodeU256(n)) = {n}
<1> n \in 0 .. Power[WideBytes] - 1 /\ WideBytes \in Nat
  BY EncodingsAssumption DEF U256
<1>1. \A u : IsSeq(u) => DecodeU256(EncodeU256(n) \o u) = {n}
  BY LittleInFront DEF EncodeU256, DecodeU256
<1>2. IsSeq(EncodeU256(n)) /\ Len(EncodeU256(n)) = WideBytes
  BY LittleInFront DEF EncodeU256
<1>3. EncodeU256(n) \o <<>> = EncodeU256(n)
  BY <1>2, Single, Concat
<1> QED
  BY <1>1, <1>2, <1>3, Single

(* The same for a hash.                                                      *)
LEMMA ReadH256 ==
  ASSUME NEW v, NEW t, IsSeq(t)
  PROVE  /\ IsSeq(EncodeH256(v)) /\ Len(EncodeH256(v)) = 1
         /\ DecodeH256(EncodeH256(v) \o t) = {v} /\ From(EncodeH256(v) \o t, 2) = t
         /\ DecodeH256(EncodeH256(v)) = {v}
<1>1. IsSeq(EncodeH256(v)) /\ Len(EncodeH256(v)) = 1 /\ EncodeH256(v)[1] = <<"h256", v>>
  BY Single DEF EncodeH256
<1>2. \A u : IsSeq(u) => DecodeH256(EncodeH256(v) \o u) = {v}
  <2>1. SUFFICES ASSUME NEW u, IsSeq(u)
                 PROVE  DecodeH256(EncodeH256(v) \o u) = {v}
    OBVIOUS
  <2> DEFINE block == EncodeH256(v)
  <2>2. (block \o u)[1] = <<"h256", v>> /\ Len(block \o u) # 0
    <3>1. IsSeq(block) /\ Len(block) = 1 /\ block[1] = <<"h256", v>>
      BY <1>1
    <3> HIDE DEF block
    <3>2. Len(block \o u) = Len(block) + Len(u) /\ Len(u) \in Nat /\ \A i \in 1 .. Len(block) : (block \o u)[i] = block[i]
      BY ONLY <2>1, <3>1, Concat
    <3>3. 1 \in 1 .. Len(block)
      BY ONLY <3>1
    <3> QED
      BY ONLY <3>1, <3>2, <3>3
  <2>3. EncodeH256(v) \o u # <<>>
    BY <2>2
  <2> QED
    BY <2>2, <2>3 DEF DecodeH256, ReadBlock
<1>3. From(EncodeH256(v) \o t, 2) = t
  BY <1>1, Parts
<1>4. EncodeH256(v) \o <<>> = EncodeH256(v)
  BY <1>1, Single, Concat
<1> QED
  BY <1>1, <1>2, <1>3, <1>4, Single

(* The same for a signature.                                                 *)
LEMMA ReadSignature ==
  ASSUME NEW v
  PROVE  IsSeq(EncodeSignature(v)) /\ DecodeSignature(EncodeSignature(v)) = {v}
<1>1. EncodeSignature(v)[1] = <<"signature", v>> /\ EncodeSignature(v) # <<>>
  BY DEF EncodeSignature
<1> QED
  BY <1>1, Single DEF EncodeSignature, DecodeSignature, ReadBlock

(* A flag is read back.                                                      *)
LEMMA ReadBool ==
  ASSUME NEW b \in BOOLEAN
  PROVE  DecodeBool(EncodeBool(b)) = {b}
<1>1. /\ Len(EncodeBool(b)) = 1 /\ EncodeBool(b)[1][1] = "byte" /\ EncodeBool(b)[1][2] = IF b THEN 1 ELSE 0
  BY DEF EncodeBool, Byte
<1>2. HasBytes(EncodeBool(b), 1)
  BY <1>1 DEF HasBytes
<1> QED
  BY <1>1, <1>2 DEF DecodeBool

-----------------------------------------------------------------------------
(*****************************************************************************)
(* Concatenations, kept from the provers: the parts of a block of known     *)
(* length.                                                                  *)
(*****************************************************************************)

(* Concatenation and a part of known length, kept from the provers. *)
Cat(s, t) == s \o t
Block(s, n) == IsSeq(s) /\ Len(s) = n

(* A concatenation of two sequences is one.                                  *)
LEMMA CatIs ==
  ASSUME NEW s, NEW t, IsSeq(s), IsSeq(t)
  PROVE  /\ IsSeq(Cat(s, t))
         /\ \A u : IsSeq(u) => Cat(Cat(s, t), u) = Cat(s, Cat(t, u))
<1>1. \A u : IsSeq(u) => (s \o t) \o u = s \o (t \o u)
  <2>1. SUFFICES ASSUME NEW u, IsSeq(u) PROVE (s \o t) \o u = s \o (t \o u)
    OBVIOUS
  <2> QED
    BY <2>1, Assoc, SMTT(30)
<1> QED
  BY <1>1, Concat DEF Cat

(* The lengths of concatenated blocks add up, and the second starts after    *)
(* the first.                                                                *)
LEMMA Blocks ==
  ASSUME NEW m \in Nat, NEW s, NEW t, Block(s, m), IsSeq(t)
  PROVE  /\ IsSeq(s) /\ IsSeq(Cat(s, t))
         /\ From(Cat(s, t), m + 1) = t
         /\ \A n \in Nat : Block(t, n) => Block(Cat(s, t), m + n)
BY Concat, Parts DEF Block, Cat

(* The parts of a concatenation of five blocks.                              *)
LEMMA FiveParts ==
  ASSUME NEW o, NEW a, NEW d, NEW r, NEW b, Block(o, 4), Block(a, 1), Block(d, 4), Block(r, 1), IsSeq(b)
  PROVE  LET s == Cat(Cat(Cat(Cat(o, a), d), r), b) IN
         /\ IsSeq(s) /\ s = Cat(o, Cat(a, Cat(d, Cat(r, b))))
         /\ IsSeq(Cat(r, b)) /\ IsSeq(Cat(d, Cat(r, b))) /\ IsSeq(Cat(a, Cat(d, Cat(r, b))))
         /\ From(s, 5) = Cat(a, Cat(d, Cat(r, b))) /\ From(s, 6) = Cat(d, Cat(r, b))
         /\ From(s, 10) = Cat(r, b) /\ From(s, 11) = b
<1> DEFINE s == Cat(Cat(Cat(Cat(o, a), d), r), b)
<1>1. IsSeq(o) /\ IsSeq(a) /\ IsSeq(d) /\ IsSeq(r)
  BY DEF Block
<1>2. Block(Cat(o, a), 5)
  BY Blocks, <1>1, 4 + 1 = 5
<1>3. Block(Cat(Cat(o, a), d), 9)
  BY <1>1, <1>2, Blocks, 5 + 4 = 9
<1>4. Block(Cat(Cat(Cat(o, a), d), r), 10)
  BY <1>1, <1>3, Blocks, 9 + 1 = 10
<1>5. IsSeq(Cat(r, b)) /\ IsSeq(Cat(d, Cat(r, b))) /\ IsSeq(Cat(a, Cat(d, Cat(r, b)))) /\ IsSeq(Cat(o, a)) /\ IsSeq(Cat(Cat(o, a), d))
  BY <1>1, CatIs
<1>7. s = Cat(Cat(Cat(o, a), d), Cat(r, b))
  BY <1>1, <1>5, CatIs
<1>8. s = Cat(Cat(o, a), Cat(d, Cat(r, b)))
  BY <1>1, <1>5, <1>7, CatIs
<1>9. s = Cat(o, Cat(a, Cat(d, Cat(r, b))))
  BY <1>1, <1>5, <1>8, CatIs
<1>10. From(s, 5) = Cat(a, Cat(d, Cat(r, b)))
  BY <1>5, <1>9, Blocks, 4 + 1 = 5
<1>11. From(s, 6) = Cat(d, Cat(r, b))
  BY <1>2, <1>5, <1>8, Blocks, 5 + 1 = 6
<1>12. From(s, 10) = Cat(r, b)
  BY <1>3, <1>5, <1>7, Blocks, 9 + 1 = 10
<1>13. From(s, 11) = b /\ IsSeq(s)
  BY <1>4, Blocks, 10 + 1 = 11
<1> QED
  BY <1>5, <1>9, <1>10, <1>11, <1>12, <1>13

(* The first element after a block.                                          *)
LEMMA ElementAfter ==
  ASSUME NEW m \in Nat, NEW n \in Nat, NEW s, NEW t, Block(s, m), Block(t, n), n >= 1
  PROVE  Cat(s, t)[m + 1] = t[1]
BY Concat DEF Block, Cat

(* The first element of a block stays first.                                 *)
LEMMA FirstElement ==
  ASSUME NEW m \in Nat, NEW s, NEW t, Block(s, m), m >= 1, IsSeq(t)
  PROVE  Cat(s, t)[1] = s[1]
BY Concat DEF Block, Cat

(* An encoded U32 is four bytes.                                             *)
LEMMA U32Block ==
  ASSUME NEW n \in U32
  PROVE  /\ Block(EncodeU32(n), 4) /\ DecodeU32(EncodeU32(n)) = {n}
         /\ \A t : IsSeq(t) => DecodeU32(Cat(EncodeU32(n), t)) = {n}
<1>1. \A t : IsSeq(t) => DecodeU32(EncodeU32(n) \o t) = {n}
  BY ReadU32
<1>2. \A t : IsSeq(t) => DecodeU32(Cat(EncodeU32(n), t)) = {n}
  BY <1>1 DEF Cat
<1> QED
  BY <1>2, ReadU32, Single DEF Block

(* An encoded U64 is eight bytes.                                            *)
LEMMA U64Block ==
  ASSUME NEW n \in U32
  PROVE  /\ Block(EncodeU64(n), 8) /\ DecodeU64(EncodeU64(n)) = {n}
         /\ \A t : IsSeq(t) => DecodeU64(Cat(EncodeU64(n), t)) = {n}
<1>1. \A t : IsSeq(t) => DecodeU64(EncodeU64(n) \o t) = {n}
  BY ReadU64
<1>2. \A t : IsSeq(t) => DecodeU64(Cat(EncodeU64(n), t)) = {n}
  BY <1>1 DEF Cat
<1> QED
  BY <1>2, ReadU64, Single DEF Block

(* An encoded U256 fills its width.                                          *)
LEMMA U256Block ==
  ASSUME NEW n \in U256
  PROVE  /\ Block(EncodeU256(n), WideBytes) /\ DecodeU256(EncodeU256(n)) = {n}
         /\ \A t : IsSeq(t) => DecodeU256(Cat(EncodeU256(n), t)) = {n}
<1>1. \A t : IsSeq(t) => DecodeU256(EncodeU256(n) \o t) = {n}
  BY ReadU256
<1>2. \A t : IsSeq(t) => DecodeU256(Cat(EncodeU256(n), t)) = {n}
  BY <1>1 DEF Cat
<1> QED
  BY <1>2, ReadU256, Single DEF Block

(* An encoded hash is one element.                                           *)
LEMMA H256Block ==
  ASSUME NEW v
  PROVE  /\ Block(EncodeH256(v), 1) /\ DecodeH256(EncodeH256(v)) = {v}
         /\ EncodeH256(v)[1] = <<"h256", v>>
         /\ \A t : IsSeq(t) => DecodeH256(Cat(EncodeH256(v), t)) = {v}
<1>1. \A t : IsSeq(t) => DecodeH256(EncodeH256(v) \o t) = {v}
  BY ReadH256
<1>2. \A t : IsSeq(t) => DecodeH256(Cat(EncodeH256(v), t)) = {v}
  BY <1>1 DEF Cat
<1>3. EncodeH256(v)[1] = <<"h256", v>>
  BY Single DEF EncodeH256
<1> QED
  BY <1>2, <1>3, ReadH256, Single DEF Block

(* A word of a prefix is one element, and so are the zeros before an index.  *)
LEMMA WordBlock ==
  ASSUME NEW n
  PROVE  Block(Text(n), 1) /\ Text(n)[1] = <<"text", n>> /\ Block(Zeros(n), 1)
BY Single DEF Text, Zeros, Block

-----------------------------------------------------------------------------
(*****************************************************************************)
(* Messages, metadata, checkpoints and proofs are read back.                *)
(*****************************************************************************)

IsMessage(m) ==
  /\ m = [origin |-> m.origin, sender |-> m.sender, destination |-> m.destination,
          recipient |-> m.recipient, body |-> m.body]
  /\ m.origin \in U32 /\ m.destination \in U32 /\ IsSeq(m.body)

(* A message is read back from its bytes.                                    *)
LEMMA ReadMessage ==
  ASSUME NEW m, IsMessage(m)
  PROVE  /\ IsSeq(EncodeMessage(m))
         /\ DecodeMessage(EncodeMessage(m)) = {m}
<1> DEFINE o == EncodeU32(m.origin)
           a == EncodeH256(m.sender)
           d == EncodeU32(m.destination)
           r == EncodeH256(m.recipient)
           s == EncodeMessage(m)
<1>1. m.origin \in U32 /\ m.destination \in U32 /\ IsSeq(m.body)
  BY DEF IsMessage
<1>2. /\ Block(o, 4) /\ Block(a, 1) /\ Block(d, 4) /\ Block(r, 1)
      /\ \A t : IsSeq(t) => /\ DecodeU32(Cat(o, t)) = {m.origin} /\ DecodeU32(Cat(d, t)) = {m.destination}
                            /\ DecodeH256(Cat(a, t)) = {m.sender} /\ DecodeH256(Cat(r, t)) = {m.recipient}
  BY <1>1, U32Block, H256Block
<1>3. s = Cat(Cat(Cat(Cat(o, a), d), r), m.body)
  BY DEF EncodeMessage, Cat
<1> HIDE DEF o, a, d, r, s
<1>4. /\ IsSeq(s) /\ s = Cat(o, Cat(a, Cat(d, Cat(r, m.body))))
      /\ IsSeq(Cat(r, m.body)) /\ IsSeq(Cat(d, Cat(r, m.body))) /\ IsSeq(Cat(a, Cat(d, Cat(r, m.body))))
      /\ From(s, 5) = Cat(a, Cat(d, Cat(r, m.body))) /\ From(s, 6) = Cat(d, Cat(r, m.body))
      /\ From(s, 10) = Cat(r, m.body) /\ From(s, 11) = m.body
  BY <1>1, <1>2, <1>3, FiveParts
<1>5. /\ DecodeU32(s) = {m.origin} /\ DecodeH256(From(s, 5)) = {m.sender}
      /\ DecodeU32(From(s, 6)) = {m.destination} /\ DecodeH256(From(s, 10)) = {m.recipient}
  BY <1>1, <1>2, <1>4
<1>6. DecodeMessage(s) = {[origin |-> m.origin, sender |-> m.sender, destination |-> m.destination,
                           recipient |-> m.recipient, body |-> m.body]}
  BY <1>4, <1>5 DEF DecodeMessage
<1> QED
  BY <1>4, <1>6 DEF s, IsMessage

(* A raw message is read back.                                               *)
LEMMA ReadRaw ==
  ASSUME NEW n \in U32, NEW t, IsSeq(t)
  PROVE  DecodeRaw(EncodeRaw([leaf_index |-> n, message |-> t])) = {[leaf_index |-> n, message |-> t]}
<1> DEFINE s == Cat(EncodeU32(n), t)
<1>1. DecodeU32(s) = {n} /\ From(s, 5) = t
  BY U32Block, Blocks, 4 + 1 = 5
<1>2. EncodeRaw([leaf_index |-> n, message |-> t]) = s
  BY DEF EncodeRaw, Cat
<1> HIDE DEF s
<1> QED
  BY <1>1, <1>2 DEF DecodeRaw

(* The metadata of a payment are read back.                                  *)
LEMMA ReadMeta ==
  ASSUME NEW h, NEW n \in U256
  PROVE  DecodeMeta(EncodeMeta([transaction_hash |-> h, log_index |-> n]))
           = {[transaction_hash |-> h, log_index |-> n]}
<1> DEFINE s == Cat(EncodeH256(h), EncodeU256(n))
<1>1. /\ Block(EncodeH256(h), 1) /\ IsSeq(EncodeU256(n))
  BY H256Block, U256Block DEF Block
<1>2. DecodeH256(s) = {h} /\ From(s, 2) = EncodeU256(n)
  BY <1>1, H256Block, Blocks, 1 + 1 = 2
<1>3. EncodeMeta([transaction_hash |-> h, log_index |-> n]) = s
  BY DEF EncodeMeta, Cat
<1>4. DecodeU256(EncodeU256(n)) = {n}
  BY U256Block
<1> HIDE DEF s
<1> QED
  BY <1>2, <1>3, <1>4 DEF DecodeMeta

(* A checkpoint is read back, with what follows it.                          *)
LEMMA ReadCheckpoint ==
  ASSUME NEW d \in U32, NEW r, NEW n \in U32, NEW t, IsSeq(t)
  PROVE  LET c == [outbox_domain |-> d, root |-> r, index |-> n] IN
         /\ Block(EncodeCheckpoint(c), 9)
         /\ DecodeCheckpoint(Cat(EncodeCheckpoint(c), t)) = {c}
<1> DEFINE c == [outbox_domain |-> d, root |-> r, index |-> n]
           x == EncodeU32(d)
           y == EncodeH256(r)
           z == EncodeU32(n)
           s == Cat(EncodeCheckpoint(c), t)
<1>1. /\ Block(x, 4) /\ Block(y, 1) /\ Block(z, 4)
      /\ \A u : IsSeq(u) => DecodeU32(Cat(x, u)) = {d} /\ DecodeH256(Cat(y, u)) = {r} /\ DecodeU32(Cat(z, u)) = {n}
  BY U32Block, H256Block
<1>2. EncodeCheckpoint(c) = Cat(Cat(x, y), z)
  BY DEF EncodeCheckpoint, Cat
<1> HIDE DEF x, y, z
<1>3. IsSeq(x) /\ IsSeq(y) /\ IsSeq(z)
  BY <1>1 DEF Block
<1>4. Block(Cat(x, y), 5)
  BY <1>1, <1>3, Blocks, 4 + 1 = 5
<1>5. Block(Cat(Cat(x, y), z), 9)
  BY <1>1, <1>3, <1>4, Blocks, 5 + 4 = 9
<1>6. IsSeq(Cat(z, t)) /\ IsSeq(Cat(y, Cat(z, t)))
  BY <1>3, CatIs
<1>7. s = Cat(Cat(x, y), Cat(z, t)) /\ s = Cat(x, Cat(y, Cat(z, t)))
  <2>1. IsSeq(Cat(x, y))
    BY <1>3, CatIs
  <2>2. Cat(Cat(Cat(x, y), z), t) = Cat(Cat(x, y), Cat(z, t))
    BY <1>3, <2>1, CatIs
  <2>3. Cat(Cat(x, y), Cat(z, t)) = Cat(x, Cat(y, Cat(z, t)))
    BY <1>3, <1>6, CatIs
  <2> QED
    BY <1>2, <2>2, <2>3
<1> HIDE DEF s
<1>8. From(s, 5) = Cat(y, Cat(z, t))
  BY <1>1, <1>6, <1>7, Blocks, 4 + 1 = 5
<1>9. From(s, 6) = Cat(z, t)
  <2>1. From(Cat(Cat(x, y), Cat(z, t)), 6) = Cat(z, t)
    BY ONLY <1>4, <1>6, Blocks, 5 + 1 = 6, 5 \in Nat
  <2> QED
    BY <1>7, <2>1
<1>10. DecodeU32(s) = {d} /\ DecodeH256(From(s, 5)) = {r} /\ DecodeU32(From(s, 6)) = {n}
  BY <1>1, <1>6, <1>7, <1>8, <1>9
<1>11. DecodeCheckpoint(s) = {c}
  BY <1>10 DEF DecodeCheckpoint
<1> QED
  BY <1>2, <1>5, <1>11 DEF s

(* A signed checkpoint is read back.                                         *)
LEMMA ReadSigned ==
  ASSUME NEW d \in U32, NEW r, NEW n \in U32, NEW sig
  PROVE  LET sc == [checkpoint |-> [outbox_domain |-> d, root |-> r, index |-> n], signature |-> sig] IN
         DecodeSigned(EncodeSigned(sc)) = {sc}
<1> DEFINE c == [outbox_domain |-> d, root |-> r, index |-> n]
           sc == [checkpoint |-> c, signature |-> sig]
           s == Cat(EncodeCheckpoint(c), EncodeSignature(sig))
<1>1. IsSeq(EncodeSignature(sig)) /\ DecodeSignature(EncodeSignature(sig)) = {sig}
  BY ReadSignature
<1>2. Block(EncodeCheckpoint(c), 9) /\ DecodeCheckpoint(s) = {c}
  BY <1>1, ReadCheckpoint
<1>3. From(s, 10) = EncodeSignature(sig)
  BY <1>1, <1>2, Blocks, 9 + 1 = 10
<1>4. EncodeSigned(sc) = s
  BY DEF EncodeSigned, Cat
<1> HIDE DEF s, c
<1>5. DecodeSigned(s) = {sc}
  BY <1>1, <1>2, <1>3 DEF DecodeSigned
<1> QED
  BY <1>4, <1>5 DEF c

(* Two elements are a pair.                                                  *)
LEMMA Pair == ASSUME NEW x, NEW y PROVE <<x>> \o <<y>> = <<x, y>>
<1>1. PICK s, t, z, S : s = <<x>> /\ t = <<y>> /\ z = <<x, y>> /\ S = {x, y}
  OBVIOUS
<1>2. /\ s \in Seq(S) /\ t \in Seq(S) /\ z \in Seq(S) /\ Len(s) = 1 /\ Len(t) = 1 /\ Len(z) = 2
      /\ s[1] = x /\ t[1] = y /\ z[1] = x /\ z[2] = y
  BY <1>1
<1>3. PICK c : c = Cat(s, t)
  OBVIOUS
<1>4. c \in Seq(S)
  BY <1>2, <1>3 DEF Cat
<1>5. Block(s, 1) /\ Block(t, 1) /\ IsSeq(t)
  BY <1>2 DEF Block, IsSeq
<1>6. Block(c, 2)
  BY <1>3, <1>5, Blocks, 1 + 1 = 2
<1>7. c[1] = x
  BY <1>2, <1>3, <1>5, FirstElement
<1>8. c[2] = y
  BY <1>2, <1>3, <1>5, ElementAfter, 1 + 1 = 2
<1>9. \A i \in 1 .. 2 : c[i] = z[i]
  <2>1. \A i \in 1 .. 2 : i = 1 \/ i = 2
    OBVIOUS
  <2> QED
    BY <1>2, <1>7, <1>8, <2>1
<1>10. c = z
  BY <1>2, <1>4, <1>6, <1>9, SeqEqual DEF Block
<1> QED
  BY <1>1, <1>3, <1>10 DEF Cat

(* A proof with a path of two is read back.                                  *)
LEMMA ReadProof ==
  ASSUME NEW l, NEW n \in U32, NEW r, NEW a
  PROVE  LET p == [leaf |-> l, index |-> n, path |-> <<r, a>>] IN
         DecodeProof(EncodeProof(p), 2) = {p}
<1> DEFINE p == [leaf |-> l, index |-> n, path |-> <<r, a>>]
           x == EncodeH256(l)
           y == EncodeU64(n)
           z == EncodeH256(r)
           w == EncodeH256(a)
           s == Cat(Cat(x, y), Cat(z, w))
<1>1. /\ Block(x, 1) /\ Block(y, 8) /\ Block(z, 1) /\ Block(w, 1)
      /\ z[1] = <<"h256", r>> /\ w[1] = <<"h256", a>>
      /\ DecodeH256(w) = {a}
      /\ \A u : IsSeq(u) => DecodeH256(Cat(x, u)) = {l} /\ DecodeU64(Cat(y, u)) = {n} /\ DecodeH256(Cat(z, u)) = {r}
  BY U64Block, H256Block
<1>2. EncodeProof(p) = s
  <2> DEFINE q == [i \in DOMAIN <<r, a>> |-> EncodeH256(<<r, a>>[i])[1]]
  <2>1. EncodeProof(p) = (x \o y) \o q
    BY DEF EncodeProof
  <2>2. z = << <<"h256", r>> >> /\ w = << <<"h256", a>> >>
    BY DEF EncodeH256
  <2>3. z \o w = << <<"h256", r>>, <<"h256", a>> >>
    <3>1. << <<"h256", r>> >> \o << <<"h256", a>> >> = << <<"h256", r>>, <<"h256", a>> >>
      BY Pair
    <3> QED
      BY <2>2, <3>1
  <2>4. q = << <<"h256", r>>, <<"h256", a>> >>
    <3>1. \A v : EncodeH256(v)[1] = <<"h256", v>>
      BY H256Block
    <3>2. q = [i \in 1 .. 2 |-> <<"h256", <<r, a>>[i]>>]
      BY ONLY <3>1
    <3> QED
      BY ONLY <3>2
  <2> QED
    BY <2>1, <2>3, <2>4 DEF Cat
<1> HIDE DEF x, y, z, w
<1>3. IsSeq(x) /\ IsSeq(y) /\ IsSeq(z) /\ IsSeq(w)
  BY <1>1 DEF Block
<1>4. IsSeq(Cat(z, w)) /\ IsSeq(Cat(y, Cat(z, w))) /\ IsSeq(Cat(x, y)) /\ IsSeq(Cat(Cat(x, y), z))
  BY <1>3, CatIs
<1>5. s = Cat(x, Cat(y, Cat(z, w))) /\ s = Cat(Cat(Cat(x, y), z), w)
  <2>1. Cat(Cat(x, y), Cat(z, w)) = Cat(x, Cat(y, Cat(z, w)))
    BY <1>3, <1>4, CatIs
  <2>2. Cat(Cat(Cat(x, y), z), w) = Cat(Cat(x, y), Cat(z, w))
    BY <1>3, <1>4, CatIs
  <2> QED
    BY <2>1, <2>2
<1>6. Block(Cat(x, y), 9)
  BY <1>1, <1>3, Blocks, 1 + 8 = 9
<1>7. Block(Cat(Cat(x, y), z), 10)
  BY <1>1, <1>3, <1>6, Blocks, 9 + 1 = 10
<1>8. Block(Cat(z, w), 2)
  BY <1>1, <1>3, Blocks, 1 + 1 = 2
<1>9. From(s, 2) = Cat(y, Cat(z, w)) /\ DecodeH256(s) = {l} /\ DecodeU64(From(s, 2)) = {n}
  <2>1. From(Cat(x, Cat(y, Cat(z, w))), 2) = Cat(y, Cat(z, w))
    BY ONLY <1>1, <1>4, Blocks, 1 + 1 = 2, 1 \in Nat
  <2>2. From(s, 2) = Cat(y, Cat(z, w))
    BY <1>5, <2>1
  <2> QED
    BY <1>1, <1>4, <1>5, <2>2
<1>10. From(s, 10) = Cat(z, w) /\ From(s, 11) = w
  <2>1. From(s, 10) = Cat(z, w)
    BY <1>4, <1>6, Blocks, 9 + 1 = 10
  <2>2. From(s, 11) = w
    BY <1>3, <1>5, <1>7, Blocks, 10 + 1 = 11
  <2> QED
    BY <2>1, <2>2
<1>11. s[10] = <<"h256", r>> /\ s[11] = <<"h256", a>>
  <2>1. s[10] = Cat(z, w)[1]
    BY <1>6, <1>8, ElementAfter, 9 + 1 = 10
  <2>2. Cat(z, w)[1] = z[1]
    BY <1>1, <1>3, FirstElement
  <2>3. s[11] = w[1]
    BY <1>1, <1>5, <1>7, ElementAfter, 10 + 1 = 11
  <2> QED
    BY <1>1, <2>1, <2>2, <2>3
<1> HIDE DEF s
<1>12. \A k \in 1 .. 2 : DecodeH256(From(s, 9 + k)) # {}
  <2>1. DecodeH256(From(s, 10)) # {} /\ DecodeH256(From(s, 11)) # {}
    BY <1>1, <1>3, <1>10
  <2>2. \A k \in 1 .. 2 : 9 + k = 10 \/ 9 + k = 11
    OBVIOUS
  <2> QED
    BY <2>1, <2>2
<1>13. [k \in 1 .. 2 |-> s[9 + k][2]] = <<r, a>>
  <2>1. s[9 + 1][2] = r /\ s[9 + 2][2] = a
    BY <1>11, 9 + 1 = 10, 9 + 2 = 11
  <2>2. \A k \in 1 .. 2 : k = 1 \/ k = 2
    OBVIOUS
  <2>3. \A k \in 1 .. 2 : s[9 + k][2] = <<r, a>>[k]
    BY <2>1, <2>2
  <2>4. [k \in 1 .. 2 |-> s[9 + k][2]] = [k \in 1 .. 2 |-> <<r, a>>[k]]
    BY <2>3
  <2>5. [k \in 1 .. 2 |-> <<r, a>>[k]] = <<r, a>>
    BY ONLY TRUE
  <2> QED
    BY <2>4, <2>5
<1>14. DecodeProof(s, 2) = {[leaf |-> l, index |-> n, path |-> <<r, a>>]}
  <2>1. {i \in DecodeU64(From(s, 2)) : \A k \in 1 .. 2 : DecodeH256(From(s, 9 + k)) # {}} = {n}
    BY <1>9, <1>12
  <2> QED
    BY <1>9, <1>13, <2>1 DEF DecodeProof
<1> QED
  BY <1>2, <1>14

-----------------------------------------------------------------------------
(*****************************************************************************)
(* A signature binds its checkpoint; the round trips.                       *)
(*****************************************************************************)

(* The signing hash is taken over the domain, the root and the index.          *)
LEMMA SigningHashBinds ==
  ASSUME NEW d \in U32, NEW r, NEW n \in U32, NEW e \in U32, NEW q, NEW k \in U32,
         SigningHash([outbox_domain |-> d, root |-> r, index |-> n])
           = SigningHash([outbox_domain |-> e, root |-> q, index |-> k])
  PROVE  d = e /\ r = q /\ n = k
<1> DEFINE rest(domain, root, number) ==
             Cat(Cat(Cat(EncodeH256(DomainHash(domain)), EncodeH256(root)), Zeros(28)), EncodeU32(number))
           x(domain) == EncodeH256(DomainHash(domain))
<1>1. ASSUME NEW domain \in U32, NEW root, NEW number \in U32
      PROVE  /\ DecodeH256(rest(domain, root, number)) = {DomainHash(domain)}
             /\ DecodeH256(From(rest(domain, root, number), 2)) = {root}
             /\ DecodeU32(From(rest(domain, root, number), 4)) = {number}
  <2> DEFINE a == EncodeH256(DomainHash(domain))
             b == EncodeH256(root)
             c == Zeros(28)
             z == EncodeU32(number)
             s == Cat(Cat(Cat(a, b), c), z)
  <2>1. /\ Block(a, 1) /\ Block(b, 1) /\ Block(c, 1) /\ Block(z, 4) /\ DecodeU32(z) = {number}
        /\ \A u : IsSeq(u) => DecodeH256(Cat(a, u)) = {DomainHash(domain)} /\ DecodeH256(Cat(b, u)) = {root}
    BY H256Block, U32Block, WordBlock
  <2> HIDE DEF a, b, c, z
  <2>2. IsSeq(a) /\ IsSeq(b) /\ IsSeq(c) /\ IsSeq(z)
    BY <2>1 DEF Block
  <2>3. IsSeq(Cat(a, b)) /\ IsSeq(Cat(c, z)) /\ IsSeq(Cat(b, Cat(c, z)))
    BY <2>2, CatIs
  <2>4. Cat(Cat(Cat(a, b), c), z) = Cat(Cat(a, b), Cat(c, z))
    BY <2>2, <2>3, CatIs
  <2>5. Cat(Cat(a, b), Cat(c, z)) = Cat(a, Cat(b, Cat(c, z)))
    BY <2>2, <2>3, CatIs
  <2>6. Block(Cat(a, b), 2)
    BY <2>1, <2>2, Blocks, 1 + 1 = 2
  <2>7. Block(Cat(Cat(a, b), c), 3)
    BY ONLY <2>1, <2>2, <2>6, Blocks, 2 + 1 = 3, 2 \in Nat, 1 \in Nat
  <2>8. From(Cat(a, Cat(b, Cat(c, z))), 2) = Cat(b, Cat(c, z))
    BY ONLY <2>1, <2>3, Blocks, 1 + 1 = 2, 1 \in Nat
  <2>9. From(Cat(Cat(Cat(a, b), c), z), 4) = z
    BY ONLY <2>2, <2>7, Blocks, 3 + 1 = 4, 3 \in Nat
  <2>10. s = Cat(a, Cat(b, Cat(c, z)))
    BY <2>4, <2>5
  <2>11. DecodeH256(s) = {DomainHash(domain)} /\ DecodeH256(From(s, 2)) = {root} /\ DecodeU32(From(s, 4)) = {number}
    BY <2>1, <2>3, <2>8, <2>9, <2>10
  <2> QED
    BY <2>11 DEF a, b, c, z
<1>2. ASSUME NEW domain, NEW root, NEW number
      PROVE  SigningHash([outbox_domain |-> domain, root |-> root, index |-> number])
               = Keccak(rest(domain, root, number))
  BY DEF SigningHash, Cat
<1>3. rest(d, r, n) = rest(e, q, k)
  <2>1. Keccak(rest(d, r, n)) = Keccak(rest(e, q, k))
    BY <1>2
  <2> HIDE DEF rest
  <2> QED
    BY <2>1 DEF Keccak
<1> HIDE DEF rest
<1>4. DomainHash(d) = DomainHash(e) /\ r = q /\ n = k
  BY <1>1, <1>3
<1>5. d = e
  <2>1. Cat(EncodeU32(d), Text("ABACUS")) = Cat(EncodeU32(e), Text("ABACUS"))
    BY <1>4 DEF DomainHash, Keccak, Cat
  <2>2. IsSeq(Text("ABACUS"))
    BY WordBlock DEF Block
  <2>3. DecodeU32(Cat(EncodeU32(d), Text("ABACUS"))) = {d} /\ DecodeU32(Cat(EncodeU32(e), Text("ABACUS"))) = {e}
    BY <2>2, U32Block
  <2> QED
    BY <2>1, <2>3
<1> QED
  BY <1>4, <1>5

(* A signature recovers to its signer over no other checkpoint.              *)
LEMMA SignatureBinds ==
  ASSUME NEW c, NEW other, NEW signer,
         c \in [outbox_domain : U32, root : {c.root}, index : U32],
         other \in [outbox_domain : U32, root : {other.root}, index : U32]
  PROVE  (Recover([SignWith(c, Address(signer)) EXCEPT !.checkpoint = other]) = Address(signer)) = (other = c)
<1> DEFINE sc == [SignWith(c, Address(signer)) EXCEPT !.checkpoint = other]
<1>1. /\ sc.checkpoint = other
      /\ sc.signature.by = Address(signer) /\ sc.signature.over = PrependedHash(c)
  BY DEF SignWith
<1> HIDE DEF sc
<1>2. /\ c = [outbox_domain |-> c.outbox_domain, root |-> c.root, index |-> c.index]
      /\ other = [outbox_domain |-> other.outbox_domain, root |-> other.root, index |-> other.index]
      /\ c.outbox_domain \in U32 /\ c.index \in U32 /\ other.outbox_domain \in U32 /\ other.index \in U32
  OBVIOUS
<1>3. PrependedHash(c) = PrependedHash(other) => other = c
  <2>1. SUFFICES ASSUME PrependedHash(c) = PrependedHash(other)
                 PROVE  other = c
    OBVIOUS
  <2>2. SigningHash(c) = SigningHash(other)
    BY <2>1 DEF PrependedHash
  <2>3. c.outbox_domain = other.outbox_domain /\ c.root = other.root /\ c.index = other.index
    <3>1. SigningHash([outbox_domain |-> c.outbox_domain, root |-> c.root, index |-> c.index])
            = SigningHash([outbox_domain |-> other.outbox_domain, root |-> other.root, index |-> other.index])
      BY <1>2, <2>2
    <3> QED
      BY <1>2, <3>1, SigningHashBinds
  <2> QED
    BY <1>2, <2>3
<1>4. Recover(sc) = IF PrependedHash(c) = PrependedHash(other) THEN Address(signer)
                    ELSE <<"other than", Address(signer)>>
  BY <1>1 DEF Recover
<1>5. <<"other than", Address(signer)>> # Address(signer)
  BY DEF Address
<1> QED
  BY <1>3, <1>4, <1>5 DEF sc

(* Every encoded type is read back, for any numbers, hashes and bodies.      *)
LEMMA RoundTripsHold ==
  ASSUME NEW numbers \in SUBSET U32, NEW hashes, NEW bodies, \A body \in bodies : IsSeq(body)
  PROVE  RoundTrips(numbers, hashes, bodies)
<1>1. ASSUME NEW n \in numbers
      PROVE  DecodeU32(EncodeU32(n)) = {n} /\ DecodeU64(EncodeU64(n)) = {n} /\ DecodeU256(EncodeU256(n)) = {n}
  <2>1. n \in U32 /\ n \in U256
    BY Widths
  <2> QED
    BY <2>1, U32Block, U64Block, U256Block
<1>2. \A b \in BOOLEAN : DecodeBool(EncodeBool(b)) = {b}
  BY ReadBool
<1>3. ASSUME NEW n \in numbers, NEW d \in numbers, NEW a \in hashes, NEW r \in hashes, NEW body \in bodies
      PROVE  LET m == [origin |-> d, sender |-> a, destination |-> n, recipient |-> r, body |-> body]
                 raw == [leaf_index |-> n, message |-> EncodeMessage(m)]
                 p == [leaf |-> a, index |-> n, path |-> <<r, a>>]
                 c == [outbox_domain |-> d, root |-> r, index |-> n]
             IN /\ DecodeMessage(EncodeMessage(m)) = {m}
                /\ DecodeRaw(EncodeRaw(raw)) = {raw}
                /\ RawLeaf(raw) = ToLeaf(m, n)
                /\ DecodeProof(EncodeProof(p), 2) = {p}
                /\ DecodeSigned(EncodeSigned(SignWith(c, a))) = {SignWith(c, a)}
                /\ DecodeMeta(EncodeMeta([transaction_hash |-> a, log_index |-> n]))
                     = {[transaction_hash |-> a, log_index |-> n]}
  <2> DEFINE m == [origin |-> d, sender |-> a, destination |-> n, recipient |-> r, body |-> body]
             raw == [leaf_index |-> n, message |-> EncodeMessage(m)]
             p == [leaf |-> a, index |-> n, path |-> <<r, a>>]
             c == [outbox_domain |-> d, root |-> r, index |-> n]
  <2>1. n \in U32 /\ d \in U32 /\ n \in U256
    BY Widths
  <2>2. IsMessage(m)
    BY <2>1 DEF IsMessage
  <2>3. IsSeq(EncodeMessage(m)) /\ DecodeMessage(EncodeMessage(m)) = {m}
    BY <2>2, ReadMessage
  <2>4. DecodeRaw(EncodeRaw(raw)) = {raw}
    BY <2>1, <2>3, ReadRaw
  <2>5. RawLeaf(raw) = ToLeaf(m, n)
    BY DEF RawLeaf, ToLeaf
  <2>6. DecodeProof(EncodeProof(p), 2) = {p}
    BY <2>1, ReadProof
  <2>7. DecodeSigned(EncodeSigned(SignWith(c, a))) = {SignWith(c, a)}
    BY <2>1, ReadSigned DEF SignWith
  <2>8. DecodeMeta(EncodeMeta([transaction_hash |-> a, log_index |-> n]))
          = {[transaction_hash |-> a, log_index |-> n]}
    BY <2>1, ReadMeta
  <2> QED
    BY <2>3, <2>4, <2>5, <2>6, <2>7, <2>8
<1> QED
  BY <1>1, <1>2, <1>3 DEF RoundTrips

-----------------------------------------------------------------------------
(*****************************************************************************)
(* Keys: no two rows of the database share one.                             *)
(*****************************************************************************)

PrefixOf(kind) ==
  CASE kind = "latest" -> LATEST_LEAF_INDEX
    [] kind = "latest for destination" -> LATEST_LEAF_INDEX_FOR_DESTINATION
    [] kind = "leaf" -> LEAF
    [] kind = "message" -> MESSAGE
    [] kind = "processed leaf" -> LEAF_PROCESS_STATUS
    [] kind = "total" -> GAS_PAYMENT_FOR_LEAF
    [] kind = "processed payment" -> GAS_PAYMENT_META_PROCESSED
    [] kind = "message cursor" -> LATEST_VALID_MESSAGE_RANGE_START_BLOCK
    [] kind = "payment cursor" -> LATEST_INDEXED_GAS_PAYMENT_BLOCK

(* A sequence that starts with these words and is this long. *)
Starts(s, n, first, second) == Block(s, n) /\ s[1] = <<"text", first>> /\ s[2] = <<"text", second>>

(* A word at the end leaves the first words where they are.                  *)
LEMMA MoreWords ==
  ASSUME NEW n \in Nat, NEW s, NEW first, NEW second, NEW w, Starts(s, n, first, second), n >= 2
  PROVE  Starts(Cat(s, Text(w)), n + 1, first, second)
<1>1. Block(s, n) /\ Block(Text(w), 1) /\ IsSeq(Text(w)) /\ s[1] = <<"text", first>> /\ s[2] = <<"text", second>>
  BY WordBlock DEF Starts, Block
<1>2. Block(Cat(s, Text(w)), n + 1)
  BY <1>1, Blocks
<1>3. Cat(s, Text(w))[1] = s[1] /\ Cat(s, Text(w))[2] = s[2]
  BY <1>1, Concat DEF Block, Cat
<1> QED
  BY <1>1, <1>2, <1>3 DEF Starts

(* Two words start a prefix.                                                 *)
LEMMA TwoWords ==
  ASSUME NEW v, NEW w
  PROVE  Starts(Cat(Text(v), Text(w)), 2, v, w)
<1>1. /\ Block(Text(v), 1) /\ Block(Text(w), 1) /\ IsSeq(Text(w))
      /\ Text(v)[1] = <<"text", v>> /\ Text(w)[1] = <<"text", w>>
  BY WordBlock DEF Block
<1>2. Block(Cat(Text(v), Text(w)), 2)
  BY <1>1, Blocks, 1 + 1 = 2
<1>3. Cat(Text(v), Text(w))[1] = Text(v)[1] /\ Cat(Text(v), Text(w))[2] = Text(w)[1]
  BY <1>1, FirstElement, ElementAfter, 1 + 1 = 2
<1> QED
  BY <1>1, <1>2, <1>3 DEF Starts

(* The length of each table's prefix and its first two words.                *)
LEMMA Prefixes ==
  /\ Starts(LATEST_LEAF_INDEX, 4, "latest", "known")
  /\ Starts(LATEST_LEAF_INDEX_FOR_DESTINATION, 6, "latest", "known")
  /\ Block(LEAF, 1) /\ LEAF[1] = <<"text", "leaf">>
  /\ Block(MESSAGE, 1) /\ MESSAGE[1] = <<"text", "message">>
  /\ Starts(LEAF_PROCESS_STATUS, 3, "leaf", "process")
  /\ Starts(GAS_PAYMENT_FOR_LEAF, 4, "gas", "payment")
  /\ Starts(GAS_PAYMENT_META_PROCESSED, 4, "gas", "payment")
  /\ Starts(LATEST_VALID_MESSAGE_RANGE_START_BLOCK, 3, "latest", "valid")
  /\ Starts(LATEST_INDEXED_GAS_PAYMENT_BLOCK, 3, "latest", "indexed")
<1>1. ASSUME NEW v, NEW w, NEW x
      PROVE  Starts(Cat(Cat(Text(v), Text(w)), Text(x)), 3, v, w)
  BY TwoWords, MoreWords, 2 + 1 = 3
<1>2. ASSUME NEW v, NEW w, NEW x, NEW y
      PROVE  Starts(Cat(Cat(Cat(Text(v), Text(w)), Text(x)), Text(y)), 4, v, w)
  BY <1>1, MoreWords, 3 + 1 = 4
<1>3. ASSUME NEW v, NEW w, NEW x, NEW y, NEW z, NEW u
      PROVE  Starts(Cat(Cat(Cat(Cat(Cat(Text(v), Text(w)), Text(x)), Text(y)), Text(z)), Text(u)), 6, v, w)
  <2>1. Starts(Cat(Cat(Cat(Cat(Text(v), Text(w)), Text(x)), Text(y)), Text(z)), 5, v, w)
    BY <1>2, MoreWords, 4 + 1 = 5
  <2> QED
    BY <2>1, MoreWords, 5 + 1 = 6
<1>4. /\ LATEST_LEAF_INDEX = Cat(Cat(Cat(Text("latest"), Text("known")), Text("leaf")), Text("index"))
      /\ LEAF_PROCESS_STATUS = Cat(Cat(Text("leaf"), Text("process")), Text("status"))
      /\ GAS_PAYMENT_FOR_LEAF = Cat(Cat(Cat(Text("gas"), Text("payment")), Text("for")), Text("leaf"))
      /\ GAS_PAYMENT_META_PROCESSED = Cat(Cat(Cat(Text("gas"), Text("payment")), Text("meta")), Text("processed"))
      /\ LATEST_VALID_MESSAGE_RANGE_START_BLOCK = Cat(Cat(Text("latest"), Text("valid")), Text("range"))
      /\ LATEST_INDEXED_GAS_PAYMENT_BLOCK = Cat(Cat(Text("latest"), Text("indexed")), Text("payment"))
  BY DEF LATEST_LEAF_INDEX, LEAF_PROCESS_STATUS, GAS_PAYMENT_FOR_LEAF, GAS_PAYMENT_META_PROCESSED,
         LATEST_VALID_MESSAGE_RANGE_START_BLOCK, LATEST_INDEXED_GAS_PAYMENT_BLOCK, LEAF, Cat
<1>5. LATEST_LEAF_INDEX_FOR_DESTINATION = Cat(Cat(LATEST_LEAF_INDEX, Text("for")), Text("destination"))
  BY DEF LATEST_LEAF_INDEX_FOR_DESTINATION, Cat
<1>6. /\ Block(LEAF, 1) /\ LEAF[1] = <<"text", "leaf">>
      /\ Block(MESSAGE, 1) /\ MESSAGE[1] = <<"text", "message">>
  BY WordBlock DEF LEAF, MESSAGE
<1>7. /\ Starts(LATEST_LEAF_INDEX, 4, "latest", "known")
      /\ Starts(GAS_PAYMENT_FOR_LEAF, 4, "gas", "payment")
      /\ Starts(GAS_PAYMENT_META_PROCESSED, 4, "gas", "payment")
  BY <1>2, <1>4
<1>8. /\ Starts(LEAF_PROCESS_STATUS, 3, "leaf", "process")
      /\ Starts(LATEST_VALID_MESSAGE_RANGE_START_BLOCK, 3, "latest", "valid")
      /\ Starts(LATEST_INDEXED_GAS_PAYMENT_BLOCK, 3, "latest", "indexed")
  BY <1>1, <1>4
<1>9. Starts(LATEST_LEAF_INDEX_FOR_DESTINATION, 6, "latest", "known")
  BY <1>3, <1>4, <1>5
<1> QED
  BY <1>6, <1>7, <1>8, <1>9

ByNothing == {"latest", "message cursor", "payment cursor"}
ByNumber == {"latest for destination", "leaf", "processed leaf", "total"}
Kinds == ByNothing \cup ByNumber \cup {"message", "processed payment"}

IsArgument(kind, x) ==
  /\ kind \in ByNothing => x = 0
  /\ kind \in ByNumber => x \in U32
  /\ kind = "processed payment" => x \in [transaction_hash : {x.transaction_hash}, log_index : U256]

Argument(kind, x) ==
  IF kind \in ByNothing THEN <<>> ELSE IF kind \in ByNumber THEN EncodeU32(x)
  ELSE IF kind = "message" THEN EncodeH256(x) ELSE EncodeMeta(x)

ReadArgument(kind, s) ==
  IF kind \in ByNothing THEN {0} ELSE IF kind \in ByNumber THEN DecodeU32(s)
  ELSE IF kind = "message" THEN DecodeH256(s) ELSE DecodeMeta(s)

KeyOf(e, kind, x) == Cat(Cat(Text(e), PrefixOf(kind)), Argument(kind, x))

(* The row that a key belongs to, from its length and its second and third words. *)
KindOfLong(length, second, third) ==
  IF length = 9 THEN "total"
  ELSE IF length = 4 THEN IF third = <<"text", "valid">> THEN "message cursor" ELSE "payment cursor"
  ELSE IF second = <<"text", "latest">> THEN "latest for destination" ELSE "processed payment"

KindBy(length, second, third) ==
  IF length = 3 THEN "message" ELSE IF length = 5 THEN "latest" ELSE IF length = 6 THEN "leaf"
  ELSE IF length = 8 THEN "processed leaf" ELSE KindOfLong(length, second, third)

KindOf(key) == KindBy(Len(key), key[2], key[3])

(* A key is the outbox, the prefix and the argument.                         *)
LEMMA ThreeParts ==
  ASSUME NEW e, NEW p, NEW a, NEW n \in Nat, n >= 1, Block(p, n), IsSeq(a)
  PROVE  LET k == Cat(Cat(Text(e), p), a) IN
         /\ k[1] = <<"text", e>> /\ k[2] = p[1] /\ (n >= 2 => k[3] = p[2])
         /\ From(k, (n + 1) + 1) = a
         /\ \A m \in Nat : Block(a, m) => Block(k, (n + 1) + m)
<1>1. Block(Text(e), 1) /\ Text(e)[1] = <<"text", e>> /\ IsSeq(p) /\ n + 1 = 1 + n
  BY WordBlock DEF Block
<1>2. PICK q : q = Cat(Text(e), p) /\ Block(q, n + 1)
  BY <1>1, Blocks
<1>3. q[1] = <<"text", e>> /\ q[2] = p[1] /\ (n >= 2 => q[3] = p[2])
  <2>1. \A i \in 1 .. n : q[1 + i] = p[i]
    BY <1>1, <1>2, Concat DEF Block, Cat
  <2>2. q[1] = Text(e)[1]
    BY <1>1, <1>2, FirstElement
  <2>3. 1 \in 1 .. n /\ (n >= 2 => 2 \in 1 .. n) /\ 1 + 1 = 2 /\ 1 + 2 = 3
    OBVIOUS
  <2> QED
    BY <1>1, <2>1, <2>2, <2>3
<1>4. PICK k : k = Cat(q, a)
  OBVIOUS
<1>5. k[1] = q[1] /\ k[2] = q[2] /\ (n >= 2 => k[3] = q[3])
  <2>1. \A i \in 1 .. (n + 1) : k[i] = q[i]
    BY <1>2, <1>4, Concat DEF Block, Cat
  <2>2. 1 \in 1 .. (n + 1) /\ 2 \in 1 .. (n + 1) /\ (n >= 2 => 3 \in 1 .. (n + 1))
    OBVIOUS
  <2> QED
    BY <2>1, <2>2
<1>6. From(k, (n + 1) + 1) = a /\ \A m \in Nat : Block(a, m) => Block(k, (n + 1) + m)
  BY <1>2, <1>4, Blocks, n + 1 \in Nat
<1> QED
  BY <1>2, <1>3, <1>4, <1>5, <1>6

ArgumentWidth(kind) ==
  IF kind \in ByNothing THEN 0 ELSE IF kind \in ByNumber THEN 4
  ELSE IF kind = "message" THEN 1 ELSE 1 + WideBytes

(* An argument has the width of its table and is read back.                  *)
LEMMA Arguments ==
  ASSUME NEW kind \in Kinds, NEW x, IsArgument(kind, x)
  PROVE  /\ IsSeq(Argument(kind, x))
         /\ ReadArgument(kind, Argument(kind, x)) = {x}
         /\ Block(Argument(kind, x), ArgumentWidth(kind))
<1>1. CASE kind \in ByNothing
  <2>1. Block(<<>>, 0)
    BY Single DEF Block
  <2>2. Argument(kind, x) = <<>> /\ ReadArgument(kind, <<>>) = {x}
    BY <1>1 DEF Argument, ReadArgument, IsArgument
  <2> QED
    BY <1>1, <2>1, <2>2 DEF Block, ArgumentWidth
<1>2. CASE kind \in ByNumber
  <2>1. kind \notin ByNothing /\ x \in U32
    BY <1>2 DEF ByNothing, ByNumber, IsArgument
  <2>2. Argument(kind, x) = EncodeU32(x) /\ ReadArgument(kind, EncodeU32(x)) = DecodeU32(EncodeU32(x))
    BY <1>2, <2>1 DEF Argument, ReadArgument
  <2>3. Block(EncodeU32(x), 4) /\ DecodeU32(EncodeU32(x)) = {x} /\ IsSeq(EncodeU32(x))
    BY <2>1, U32Block DEF Block
  <2> QED
    BY <1>2, <2>1, <2>2, <2>3 DEF ArgumentWidth
<1>3. CASE kind = "message"
  <2>1. kind \notin ByNothing /\ kind \notin ByNumber
    BY <1>3 DEF ByNothing, ByNumber
  <2>2. Argument(kind, x) = EncodeH256(x) /\ ReadArgument(kind, EncodeH256(x)) = DecodeH256(EncodeH256(x))
    BY <1>3, <2>1 DEF Argument, ReadArgument
  <2>3. Block(EncodeH256(x), 1) /\ DecodeH256(EncodeH256(x)) = {x} /\ IsSeq(EncodeH256(x))
    BY H256Block DEF Block
  <2> QED
    BY <1>3, <2>1, <2>2, <2>3 DEF ArgumentWidth
<1>4. CASE kind = "processed payment"
  <2>1. kind \notin ByNothing /\ kind \notin ByNumber /\ kind # "message"
    BY <1>4 DEF ByNothing, ByNumber
  <2>2. x \in [transaction_hash : {x.transaction_hash}, log_index : U256]
    BY <1>4 DEF IsArgument
  <2>3. x = [transaction_hash |-> x.transaction_hash, log_index |-> x.log_index] /\ x.log_index \in U256
    BY <2>2
  <2>4. DecodeMeta(EncodeMeta([transaction_hash |-> x.transaction_hash, log_index |-> x.log_index]))
          = {[transaction_hash |-> x.transaction_hash, log_index |-> x.log_index]}
    BY <2>3, ReadMeta
  <2>5. Argument(kind, x) = EncodeMeta(x) /\ ReadArgument(kind, EncodeMeta(x)) = {x}
    <3>1. DecodeMeta(EncodeMeta(x)) = {x}
      BY <2>3, <2>4
    <3> QED
      BY <2>1, <3>1 DEF Argument, ReadArgument
  <2>6. EncodeMeta(x) = Cat(EncodeH256(x.transaction_hash), EncodeU256(x.log_index))
    BY DEF EncodeMeta, Cat
  <2>7. /\ Block(EncodeH256(x.transaction_hash), 1) /\ Block(EncodeU256(x.log_index), WideBytes)
        /\ IsSeq(EncodeU256(x.log_index)) /\ WideBytes \in Nat
    BY <2>3, H256Block, U256Block, EncodingsAssumption DEF Block
  <2>8. Block(EncodeMeta(x), 1 + WideBytes)
    BY <2>6, <2>7, Blocks
  <2> QED
    BY <2>1, <2>5, <2>8 DEF Block, ArgumentWidth
<1> QED
  BY <1>1, <1>2, <1>3, <1>4 DEF Kinds

PrefixWidth(kind) ==
  IF kind \in {"leaf", "message"} THEN 1 ELSE IF kind = "latest for destination" THEN 6
  ELSE IF kind \in {"processed leaf", "message cursor", "payment cursor"} THEN 3 ELSE 4

(* A prefix has its table's width.                                           *)
LEMMA PrefixBlocks ==
  ASSUME NEW kind \in Kinds
  PROVE  Block(PrefixOf(kind), PrefixWidth(kind)) /\ PrefixWidth(kind) \in Nat /\ PrefixWidth(kind) >= 1
<1>1. PrefixWidth(kind) \in Nat /\ PrefixWidth(kind) >= 1
  BY DEF PrefixWidth
<1>2. Block(PrefixOf(kind), PrefixWidth(kind))
  BY Prefixes DEF Starts, Kinds, ByNothing, ByNumber, PrefixOf, PrefixWidth
<1> QED
  BY <1>1, <1>2

(* How long the keys of each table are.                                      *)
LEMMA KeyLengths ==
  /\ (PrefixWidth("message") + 1) + ArgumentWidth("message") = 3
  /\ (PrefixWidth("latest") + 1) + ArgumentWidth("latest") = 5
  /\ (PrefixWidth("leaf") + 1) + ArgumentWidth("leaf") = 6
  /\ (PrefixWidth("processed leaf") + 1) + ArgumentWidth("processed leaf") = 8
  /\ (PrefixWidth("total") + 1) + ArgumentWidth("total") = 9
  /\ (PrefixWidth("message cursor") + 1) + ArgumentWidth("message cursor") = 4
  /\ (PrefixWidth("payment cursor") + 1) + ArgumentWidth("payment cursor") = 4
  /\ (PrefixWidth("latest for destination") + 1) + ArgumentWidth("latest for destination") = 11
  /\ (PrefixWidth("processed payment") + 1) + ArgumentWidth("processed payment") >= 10
  /\ (PrefixWidth("processed payment") + 1) + ArgumentWidth("processed payment") \in Int
<1>1. PrefixWidth("message") = 1 /\ ArgumentWidth("message") = 1
  BY DEF PrefixWidth, ArgumentWidth, ByNothing, ByNumber
<1>2. PrefixWidth("latest") = 4 /\ ArgumentWidth("latest") = 0
  BY DEF PrefixWidth, ArgumentWidth, ByNothing, ByNumber
<1>3. PrefixWidth("leaf") = 1 /\ ArgumentWidth("leaf") = 4
  BY DEF PrefixWidth, ArgumentWidth, ByNothing, ByNumber
<1>4. PrefixWidth("processed leaf") = 3 /\ ArgumentWidth("processed leaf") = 4
  BY DEF PrefixWidth, ArgumentWidth, ByNothing, ByNumber
<1>5. PrefixWidth("total") = 4 /\ ArgumentWidth("total") = 4
  BY DEF PrefixWidth, ArgumentWidth, ByNothing, ByNumber
<1>6. PrefixWidth("message cursor") = 3 /\ ArgumentWidth("message cursor") = 0
  BY DEF PrefixWidth, ArgumentWidth, ByNothing, ByNumber
<1>7. PrefixWidth("payment cursor") = 3 /\ ArgumentWidth("payment cursor") = 0
  BY DEF PrefixWidth, ArgumentWidth, ByNothing, ByNumber
<1>8. PrefixWidth("latest for destination") = 6 /\ ArgumentWidth("latest for destination") = 4
  BY DEF PrefixWidth, ArgumentWidth, ByNothing, ByNumber
<1>9. PrefixWidth("processed payment") = 4 /\ ArgumentWidth("processed payment") = 1 + WideBytes
  BY DEF PrefixWidth, ArgumentWidth, ByNothing, ByNumber
<1>10. /\ (1 + 1) + 1 = 3 /\ (4 + 1) + 0 = 5 /\ (1 + 1) + 4 = 6 /\ (3 + 1) + 4 = 8 /\ (4 + 1) + 4 = 9
       /\ (3 + 1) + 0 = 4 /\ (6 + 1) + 4 = 11
       /\ (4 + 1) + (1 + WideBytes) >= 10 /\ (4 + 1) + (1 + WideBytes) \in Int
  BY EncodingsAssumption
<1> QED
  BY <1>1, <1>2, <1>3, <1>4, <1>5, <1>6, <1>7, <1>8, <1>9, <1>10

(* A key of this kind has this length and these words. *)
Fits(kind, length, second, third) ==
  /\ length = (PrefixWidth(kind) + 1) + ArgumentWidth(kind)
  /\ kind = "message cursor" => third = <<"text", "valid">>
  /\ kind = "payment cursor" => third = <<"text", "indexed">>
  /\ kind = "latest for destination" => second = <<"text", "latest">>
  /\ kind = "processed payment" => second = <<"text", "gas">>

(* The length and the words of a key tell its table.                         *)
LEMMA KindFound ==
  ASSUME NEW kind \in Kinds, NEW length, NEW second, NEW third, Fits(kind, length, second, third)
  PROVE  KindBy(length, second, third) = kind
<1>1. <<"text", "valid">> # <<"text", "indexed">> /\ <<"text", "latest">> # <<"text", "gas">>
  OBVIOUS
<1>2. CASE kind = "message"
  <2>1. length = 3
    BY <1>2, KeyLengths DEF Fits
  <2>2. KindBy(length, second, third) = "message"
    BY ONLY <2>1 DEF KindBy
  <2> QED
    BY <1>2, <2>2
<1>3. CASE kind = "latest"
  <2>1. length = 5
    BY <1>3, KeyLengths DEF Fits
  <2>2. KindBy(length, second, third) = "latest"
    BY ONLY <2>1 DEF KindBy
  <2> QED
    BY <1>3, <2>2
<1>4. CASE kind = "leaf"
  <2>1. length = 6
    BY <1>4, KeyLengths DEF Fits
  <2>2. KindBy(length, second, third) = "leaf"
    BY ONLY <2>1 DEF KindBy
  <2> QED
    BY <1>4, <2>2
<1>5. CASE kind = "processed leaf"
  <2>1. length = 8
    BY <1>5, KeyLengths DEF Fits
  <2>2. KindBy(length, second, third) = "processed leaf"
    BY ONLY <2>1 DEF KindBy
  <2> QED
    BY <1>5, <2>2
<1>6. CASE kind \in {"total", "message cursor", "payment cursor", "latest for destination", "processed payment"}
  <2>1. KindOfLong(length, second, third) = kind
    <3>1. CASE kind = "total"
      <4>1. length = 9
        BY <3>1, KeyLengths DEF Fits
      <4>3. KindOfLong(length, second, third) = "total"
        BY ONLY <4>1 DEF KindOfLong
      <4> QED
        BY <3>1, <4>3
    <3>2. CASE kind = "message cursor"
      <4>1. length = 4 /\ third = <<"text", "valid">>
        BY <3>2, KeyLengths DEF Fits
      <4>3. KindOfLong(length, second, third) = "message cursor"
        BY ONLY <4>1 DEF KindOfLong
      <4> QED
        BY <3>2, <4>3
    <3>3. CASE kind = "payment cursor"
      <4>1. length = 4 /\ third # <<"text", "valid">>
        BY <1>1, <3>3, KeyLengths DEF Fits
      <4>3. KindOfLong(length, second, third) = "payment cursor"
        BY ONLY <4>1 DEF KindOfLong
      <4> QED
        BY <3>3, <4>3
    <3>4. CASE kind = "latest for destination"
      <4>1. length = 11 /\ second = <<"text", "latest">>
        BY <3>4, KeyLengths DEF Fits
      <4>3. KindOfLong(length, second, third) = "latest for destination"
        BY ONLY <4>1 DEF KindOfLong
      <4> QED
        BY <3>4, <4>3
    <3>5. CASE kind = "processed payment"
      <4>1. length \in Int /\ length >= 10 /\ second # <<"text", "latest">>
        BY <1>1, <3>5, KeyLengths DEF Fits
      <4>2. length # 9 /\ length # 4
        BY ONLY <4>1
      <4>3. KindOfLong(length, second, third) = "processed payment"
        BY ONLY <4>1, <4>2 DEF KindOfLong
      <4> QED
        BY <3>5, <4>3
    <3> QED
      BY <1>6, <3>1, <3>2, <3>3, <3>4, <3>5
  <2>2. length \notin {3, 5, 6, 8}
    <3>1. length \in {4, 9, 11} \/ (length \in Int /\ length >= 10)
      BY <1>6, KeyLengths DEF Fits
    <3> QED
      BY ONLY <3>1
  <2> QED
    BY ONLY <2>1, <2>2 DEF KindBy
<1> QED
  BY <1>2, <1>3, <1>4, <1>5, <1>6 DEF Kinds, ByNothing, ByNumber

(* The outbox, the table and the argument of a key are read back from it.    *)
LEMMA KeyParts ==
  ASSUME NEW e, NEW kind \in Kinds, NEW x, IsArgument(kind, x)
  PROVE  /\ KeyOf(e, kind, x)[1] = <<"text", e>>
         /\ From(KeyOf(e, kind, x), (PrefixWidth(kind) + 1) + 1) = Argument(kind, x)
         /\ KindOf(KeyOf(e, kind, x)) = kind
<1> DEFINE n == PrefixWidth(kind)
           p == PrefixOf(kind)
           a == Argument(kind, x)
           m == ArgumentWidth(kind)
           k == KeyOf(e, kind, x)
<1>1. Block(p, n) /\ n \in Nat /\ n >= 1
  BY PrefixBlocks
<1>2. IsSeq(a) /\ Block(a, m) /\ m \in Nat
  BY Arguments, EncodingsAssumption DEF ArgumentWidth
<1>3. k = Cat(Cat(Text(e), p), a)
  BY DEF KeyOf
<1>4. k[1] = <<"text", e>> /\ k[2] = p[1] /\ (n >= 2 => k[3] = p[2]) /\ From(k, (n + 1) + 1) = a
  <2> HIDE DEF n, p, a, m, k
  <2> QED
    BY <1>1, <1>2, <1>3, ThreeParts
<1>5. Len(k) = (n + 1) + m
  <2> HIDE DEF n, p, a, m, k
  <2>1. Block(Cat(Cat(Text(e), p), a), (n + 1) + m)
    BY ONLY <1>1, <1>2, ThreeParts
  <2> QED
    BY ONLY <1>3, <2>1 DEF Block
<1>6. kind = "message cursor" => p[2] = <<"text", "valid">>
  BY Prefixes DEF Starts, PrefixOf
<1>7. kind = "payment cursor" => p[2] = <<"text", "indexed">>
  BY Prefixes DEF Starts, PrefixOf
<1>8. /\ kind = "latest for destination" => p[1] = <<"text", "latest">>
      /\ kind = "processed payment" => p[1] = <<"text", "gas">>
  BY Prefixes DEF Starts, PrefixOf
<1>9. kind \in {"message cursor", "payment cursor"} => n = 3
  BY DEF PrefixWidth
<1>10. KindOf(k) = kind
  <2>1. Len(k) = (PrefixWidth(kind) + 1) + ArgumentWidth(kind)
    BY <1>5
  <2> HIDE DEF k, p, n, m, a
  <2>2. 3 >= 2
    OBVIOUS
  <2>3. kind = "message cursor" => k[3] = <<"text", "valid">>
    BY <1>4, <1>6, <1>9, <2>2
  <2>4. kind = "payment cursor" => k[3] = <<"text", "indexed">>
    BY <1>4, <1>7, <1>9, <2>2
  <2>5. /\ kind = "latest for destination" => k[2] = <<"text", "latest">>
        /\ kind = "processed payment" => k[2] = <<"text", "gas">>
    BY <1>4, <1>8
  <2>6. PICK length, second, third : length = Len(k) /\ second = k[2] /\ third = k[3]
    OBVIOUS
  <2>7. Fits(kind, length, second, third)
    BY <2>1, <2>3, <2>4, <2>5, <2>6 DEF Fits
  <2>8. KindBy(length, second, third) = kind
    BY <2>7, KindFound
  <2> QED
    BY <2>6, <2>8 DEF KindOf
<1> QED
  BY <1>4, <1>10

(* Rows of two outboxes, of two tables or with two arguments have different  *)
(* keys.                                                                     *)
LEMMA KeysApart ==
  ASSUME NEW e, NEW kind \in Kinds, NEW x, IsArgument(kind, x),
         NEW f, NEW other \in Kinds, NEW y, IsArgument(other, y),
         KeyOf(e, kind, x) = KeyOf(f, other, y)
  PROVE  e = f /\ kind = other /\ x = y
<1>1. KeyOf(e, kind, x)[1] = <<"text", e>> /\ KeyOf(f, other, y)[1] = <<"text", f>>
  BY KeyParts
<1>2. e = f
  BY <1>1
<1>3. kind = other
  BY KeyParts
<1>4. Argument(kind, x) = Argument(kind, y)
  BY <1>3, KeyParts
<1>5. ReadArgument(kind, Argument(kind, x)) = {x} /\ ReadArgument(kind, Argument(kind, y)) = {y}
  BY <1>3, Arguments
<1> QED
  BY <1>2, <1>3, <1>4, <1>5

-----------------------------------------------------------------------------
(*****************************************************************************)
(* Rows: a put changes the row it is for, and no other.                     *)
(*****************************************************************************)

HoldsU32 == {"latest", "latest for destination", "processed leaf", "message cursor", "payment cursor"}

EncodeAs(kind, v) ==
  IF kind \in HoldsU32 THEN EncodeU32(v) ELSE IF kind = "leaf" THEN EncodeH256(v)
  ELSE IF kind = "message" THEN EncodeRaw(v) ELSE IF kind = "total" THEN EncodeU256(v) ELSE EncodeBool(v)

DecodeAs(kind, s) ==
  IF kind \in HoldsU32 THEN DecodeU32(s) ELSE IF kind = "leaf" THEN DecodeH256(s)
  ELSE IF kind = "message" THEN DecodeRaw(s) ELSE IF kind = "total" THEN DecodeU256(s) ELSE DecodeBool(s)

IsRaw(raw) ==
  raw = [leaf_index |-> raw.leaf_index, message |-> raw.message] /\ raw.leaf_index \in U32 /\ IsSeq(raw.message)

IsValue(kind, v) ==
  /\ kind \in HoldsU32 => v \in U32
  /\ kind = "message" => IsRaw(v)
  /\ kind = "total" => v \in U256
  /\ kind = "processed payment" => v \in BOOLEAN

(* The row of a table, and the put that writes a value there. *)
Row(e, kind, x) == {DecodeAs(kind, s) : s \in Retrieve(KeyOf(e, kind, x))}
PutOf(e, kind, x, v) == <<KeyOf(e, kind, x), EncodeAs(kind, v)>>

(* A value is read back in the encoding of its table.                        *)
LEMMA ValuesRead ==
  ASSUME NEW kind \in Kinds, NEW v, IsValue(kind, v)
  PROVE  DecodeAs(kind, EncodeAs(kind, v)) = {v}
<1>1. CASE kind \in HoldsU32
  <2>1. DecodeU32(EncodeU32(v)) = {v}
    BY <1>1, U32Block DEF IsValue
  <2> QED
    BY <1>1, <2>1 DEF EncodeAs, DecodeAs
<1>2. CASE kind = "leaf"
  <2>1. kind \notin HoldsU32
    BY <1>2 DEF HoldsU32
  <2> QED
    BY <1>2, <2>1, H256Block DEF EncodeAs, DecodeAs
<1>3. CASE kind = "message"
  <2>1. kind \notin HoldsU32 /\ kind # "leaf"
    BY <1>3 DEF HoldsU32
  <2>2. IsRaw(v)
    BY <1>3 DEF IsValue
  <2>3. DecodeRaw(EncodeRaw([leaf_index |-> v.leaf_index, message |-> v.message]))
          = {[leaf_index |-> v.leaf_index, message |-> v.message]}
    BY <2>2, ReadRaw DEF IsRaw
  <2>4. DecodeRaw(EncodeRaw(v)) = {v}
    BY <2>2, <2>3 DEF IsRaw
  <2> QED
    BY <1>3, <2>1, <2>4 DEF EncodeAs, DecodeAs
<1>4. CASE kind = "total"
  <2>1. kind \notin HoldsU32 /\ kind # "leaf" /\ kind # "message"
    BY <1>4 DEF HoldsU32
  <2>2. DecodeU256(EncodeU256(v)) = {v}
    BY <1>4, U256Block DEF IsValue
  <2> QED
    BY <1>4, <2>1, <2>2 DEF EncodeAs, DecodeAs
<1>5. CASE kind = "processed payment"
  <2>1. kind \notin HoldsU32 /\ kind # "leaf" /\ kind # "message" /\ kind # "total"
    BY <1>5 DEF HoldsU32
  <2>2. DecodeBool(EncodeBool(v)) = {v}
    BY <1>5, ReadBool DEF IsValue
  <2> QED
    BY <2>1, <2>2 DEF EncodeAs, DecodeAs
<1> QED
  BY <1>1, <1>2, <1>3, <1>4, <1>5 DEF Kinds, ByNothing, ByNumber, HoldsU32

(* No other row of any outbox changes.                                         *)
OthersKept(e, kind, x) ==
  \A f, y : \A other \in Kinds :
    IsArgument(other, y) /\ ~ (f = e /\ other = kind /\ y = x) => Row(f, other, y)' = Row(f, other, y)

(* A put changes the row it is for, and no other row of any outbox. *)
LEMMA FlushRow ==
  ASSUME NEW e, NEW kind \in Kinds, NEW x, IsArgument(kind, x), NEW v, IsValue(kind, v),
         Flush, pending[1] = PutOf(e, kind, x, v)
  PROVE  /\ Row(e, kind, x)' = {{v}}
         /\ OthersKept(e, kind, x)
<1> DEFINE key == KeyOf(e, kind, x)
           value == EncodeAs(kind, v)
<1>1. kv' = [k \in DOMAIN kv \cup {key} |-> IF k = key THEN value ELSE kv[k]]
  BY DEF Flush, PutOf
<1> HIDE DEF key, value
<1>2. Retrieve(key)' = {value}
  BY <1>1 DEF Retrieve, key
<1>3. ASSUME NEW k, k # key
      PROVE  Retrieve(k)' = Retrieve(k)
  BY <1>1, <1>3 DEF Retrieve
<1>4. Row(e, kind, x)' = {DecodeAs(kind, value)}
  BY <1>2 DEF Row, key
<1>5. DecodeAs(kind, value) = {v}
  BY ValuesRead DEF value
<1>6. ASSUME NEW f, NEW y, NEW other \in Kinds, IsArgument(other, y), ~ (f = e /\ other = kind /\ y = x)
      PROVE  Row(f, other, y)' = Row(f, other, y)
  <2>1. KeyOf(f, other, y) # key
    BY <1>6, KeysApart DEF key
  <2>2. Retrieve(KeyOf(f, other, y))' = Retrieve(KeyOf(f, other, y))
    BY <1>3, <2>1
  <2> QED
    BY <2>2 DEF Row
<1> QED
  BY <1>4, <1>5, <1>6 DEF OthersKept

(* The rows are those that the operations read, and the puts those they do. *)
LEMMA KeysAre ==
  /\ \A e : /\ Key(e, <<>>, LATEST_LEAF_INDEX) = KeyOf(e, "latest", 0)
            /\ Key(e, <<>>, LATEST_VALID_MESSAGE_RANGE_START_BLOCK) = KeyOf(e, "message cursor", 0)
            /\ Key(e, <<>>, LATEST_INDEXED_GAS_PAYMENT_BLOCK) = KeyOf(e, "payment cursor", 0)
  /\ \A e, x : /\ Key(e, LATEST_LEAF_INDEX_FOR_DESTINATION, EncodeU32(x)) = KeyOf(e, "latest for destination", x)
               /\ Key(e, LEAF, EncodeU32(x)) = KeyOf(e, "leaf", x)
               /\ Key(e, MESSAGE, EncodeH256(x)) = KeyOf(e, "message", x)
               /\ Key(e, LEAF_PROCESS_STATUS, EncodeU32(x)) = KeyOf(e, "processed leaf", x)
               /\ Key(e, GAS_PAYMENT_FOR_LEAF, EncodeU32(x)) = KeyOf(e, "total", x)
               /\ Key(e, GAS_PAYMENT_META_PROCESSED, EncodeMeta(x)) = KeyOf(e, "processed payment", x)
<1>1. \A e, prefix, a : Key(e, prefix, a) = Cat(Cat(Text(e), prefix), a)
  BY DEF Key, FullPrefix, Cat
<1>2. ASSUME NEW e, NEW word, IsSeq(word)
      PROVE  Cat(Cat(Text(e), <<>>), word) = Cat(Cat(Text(e), word), <<>>)
  <2>1. IsSeq(Text(e)) /\ IsSeq(<<>>)
    BY WordBlock, Single DEF Block
  <2>2. Cat(Text(e), <<>>) = Text(e)
    BY <2>1, Concat DEF Cat
  <2>3. IsSeq(Cat(Text(e), word))
    BY <1>2, <2>1, CatIs
  <2>4. Cat(Cat(Text(e), word), <<>>) = Cat(Text(e), word)
    BY <2>1, <2>3, Concat DEF Cat
  <2> QED
    BY <2>2, <2>4
<1>3. /\ IsSeq(LATEST_LEAF_INDEX) /\ IsSeq(LATEST_VALID_MESSAGE_RANGE_START_BLOCK)
      /\ IsSeq(LATEST_INDEXED_GAS_PAYMENT_BLOCK)
  BY Prefixes DEF Starts, Block
<1>4. \A e : /\ Key(e, <<>>, LATEST_LEAF_INDEX) = Cat(Cat(Text(e), LATEST_LEAF_INDEX), <<>>)
             /\ Key(e, <<>>, LATEST_VALID_MESSAGE_RANGE_START_BLOCK)
                  = Cat(Cat(Text(e), LATEST_VALID_MESSAGE_RANGE_START_BLOCK), <<>>)
             /\ Key(e, <<>>, LATEST_INDEXED_GAS_PAYMENT_BLOCK)
                  = Cat(Cat(Text(e), LATEST_INDEXED_GAS_PAYMENT_BLOCK), <<>>)
  BY <1>1, <1>2, <1>3
<1>5. \A e, x : /\ KeyOf(e, "latest", x) = Cat(Cat(Text(e), LATEST_LEAF_INDEX), <<>>)
                /\ KeyOf(e, "message cursor", x) = Cat(Cat(Text(e), LATEST_VALID_MESSAGE_RANGE_START_BLOCK), <<>>)
                /\ KeyOf(e, "payment cursor", x) = Cat(Cat(Text(e), LATEST_INDEXED_GAS_PAYMENT_BLOCK), <<>>)
  <2>1. PrefixOf("latest") = LATEST_LEAF_INDEX /\ \A x : Argument("latest", x) = <<>>
    BY DEF PrefixOf, Argument, ByNothing
  <2>2. PrefixOf("message cursor") = LATEST_VALID_MESSAGE_RANGE_START_BLOCK /\ \A x : Argument("message cursor", x) = <<>>
    BY DEF PrefixOf, Argument, ByNothing
  <2>3. PrefixOf("payment cursor") = LATEST_INDEXED_GAS_PAYMENT_BLOCK /\ \A x : Argument("payment cursor", x) = <<>>
    BY DEF PrefixOf, Argument, ByNothing
  <2> QED
    BY <2>1, <2>2, <2>3 DEF KeyOf
<1>6. ASSUME NEW x
      PROVE  /\ PrefixOf("latest for destination") = LATEST_LEAF_INDEX_FOR_DESTINATION
             /\ Argument("latest for destination", x) = EncodeU32(x)
             /\ PrefixOf("leaf") = LEAF /\ Argument("leaf", x) = EncodeU32(x)
             /\ PrefixOf("message") = MESSAGE /\ Argument("message", x) = EncodeH256(x)
             /\ PrefixOf("processed leaf") = LEAF_PROCESS_STATUS /\ Argument("processed leaf", x) = EncodeU32(x)
             /\ PrefixOf("total") = GAS_PAYMENT_FOR_LEAF /\ Argument("total", x) = EncodeU32(x)
             /\ PrefixOf("processed payment") = GAS_PAYMENT_META_PROCESSED
             /\ Argument("processed payment", x) = EncodeMeta(x)
  <2>1. /\ PrefixOf("latest for destination") = LATEST_LEAF_INDEX_FOR_DESTINATION /\ PrefixOf("leaf") = LEAF
        /\ PrefixOf("message") = MESSAGE /\ PrefixOf("processed leaf") = LEAF_PROCESS_STATUS
        /\ PrefixOf("total") = GAS_PAYMENT_FOR_LEAF /\ PrefixOf("processed payment") = GAS_PAYMENT_META_PROCESSED
    BY DEF PrefixOf
  <2>2. /\ Argument("latest for destination", x) = EncodeU32(x) /\ Argument("leaf", x) = EncodeU32(x)
        /\ Argument("message", x) = EncodeH256(x) /\ Argument("processed leaf", x) = EncodeU32(x)
        /\ Argument("total", x) = EncodeU32(x) /\ Argument("processed payment", x) = EncodeMeta(x)
    BY DEF Argument, ByNothing, ByNumber
  <2> QED
    BY <2>1, <2>2
<1> QED
  BY <1>1, <1>4, <1>5, <1>6 DEF KeyOf

(* The decoder of each table.                                                *)
LEMMA DecodersAre ==
  ASSUME NEW s
  PROVE  /\ \A kind \in HoldsU32 : DecodeAs(kind, s) = DecodeU32(s)
         /\ DecodeAs("leaf", s) = DecodeH256(s) /\ DecodeAs("message", s) = DecodeRaw(s)
         /\ DecodeAs("total", s) = DecodeU256(s) /\ DecodeAs("processed payment", s) = DecodeBool(s)
BY DEF DecodeAs, HoldsU32

(* The retrieving operations read these rows.                                *)
LEMMA ReadersAre ==
  ASSUME NEW e
  PROVE  /\ LatestLeafIndex(e) = Row(e, "latest", 0)
         /\ RangeStartBlock(e) = Row(e, "message cursor", 0)
         /\ GasPaymentBlock(e) = Row(e, "payment cursor", 0)
         /\ \A x : /\ LatestLeafIndexForDestination(e, x) = Row(e, "latest for destination", x)
                   /\ LeafByLeafIndex(e, x) = Row(e, "leaf", x)
                   /\ MessageByLeaf(e, x) = Row(e, "message", x)
                   /\ StatusRow(e, x) = Row(e, "processed leaf", x)
                   /\ GasPaymentForLeaf(e, x) = Row(e, "total", x)
                   /\ MetaProcessed(e, x) = Row(e, "processed payment", x)
<1>1. \A kind \in HoldsU32 : \A x : Row(e, kind, x) = {DecodeU32(s) : s \in Retrieve(KeyOf(e, kind, x))}
  BY DecodersAre DEF Row
<1>2. \A x : /\ Row(e, "leaf", x) = {DecodeH256(s) : s \in Retrieve(KeyOf(e, "leaf", x))}
             /\ Row(e, "message", x) = {DecodeRaw(s) : s \in Retrieve(KeyOf(e, "message", x))}
             /\ Row(e, "total", x) = {DecodeU256(s) : s \in Retrieve(KeyOf(e, "total", x))}
             /\ Row(e, "processed payment", x) = {DecodeBool(s) : s \in Retrieve(KeyOf(e, "processed payment", x))}
  BY DecodersAre DEF Row
<1>3. \A x : /\ Row(e, "latest", x) = {DecodeU32(s) : s \in Retrieve(KeyOf(e, "latest", x))}
             /\ Row(e, "message cursor", x) = {DecodeU32(s) : s \in Retrieve(KeyOf(e, "message cursor", x))}
             /\ Row(e, "payment cursor", x) = {DecodeU32(s) : s \in Retrieve(KeyOf(e, "payment cursor", x))}
             /\ Row(e, "latest for destination", x) = {DecodeU32(s) : s \in Retrieve(KeyOf(e, "latest for destination", x))}
             /\ Row(e, "processed leaf", x) = {DecodeU32(s) : s \in Retrieve(KeyOf(e, "processed leaf", x))}
  <2>1. \A x : Row(e, "latest", x) = {DecodeU32(s) : s \in Retrieve(KeyOf(e, "latest", x))}
    <3>1. "latest" \in HoldsU32
      BY DEF HoldsU32
    <3> QED
      BY ONLY <1>1, <3>1
  <2>2. \A x : Row(e, "message cursor", x) = {DecodeU32(s) : s \in Retrieve(KeyOf(e, "message cursor", x))}
    <3>1. "message cursor" \in HoldsU32
      BY DEF HoldsU32
    <3> QED
      BY ONLY <1>1, <3>1
  <2>3. \A x : Row(e, "payment cursor", x) = {DecodeU32(s) : s \in Retrieve(KeyOf(e, "payment cursor", x))}
    <3>1. "payment cursor" \in HoldsU32
      BY DEF HoldsU32
    <3> QED
      BY ONLY <1>1, <3>1
  <2>4. \A x : Row(e, "latest for destination", x) = {DecodeU32(s) : s \in Retrieve(KeyOf(e, "latest for destination", x))}
    <3>1. "latest for destination" \in HoldsU32
      BY DEF HoldsU32
    <3> QED
      BY ONLY <1>1, <3>1
  <2>5. \A x : Row(e, "processed leaf", x) = {DecodeU32(s) : s \in Retrieve(KeyOf(e, "processed leaf", x))}
    <3>1. "processed leaf" \in HoldsU32
      BY DEF HoldsU32
    <3> QED
      BY ONLY <1>1, <3>1
  <2> QED
    BY <2>1, <2>2, <2>3, <2>4, <2>5
<1>4. /\ LatestLeafIndex(e) = {DecodeU32(s) : s \in Retrieve(Key(e, <<>>, LATEST_LEAF_INDEX))}
      /\ RangeStartBlock(e) = {DecodeU32(s) : s \in Retrieve(Key(e, <<>>, LATEST_VALID_MESSAGE_RANGE_START_BLOCK))}
      /\ GasPaymentBlock(e) = {DecodeU32(s) : s \in Retrieve(Key(e, <<>>, LATEST_INDEXED_GAS_PAYMENT_BLOCK))}
  BY DEF LatestLeafIndex, RangeStartBlock, GasPaymentBlock, RetrieveDecodable
<1>5. /\ LatestLeafIndex(e) = Row(e, "latest", 0)
      /\ RangeStartBlock(e) = Row(e, "message cursor", 0)
      /\ GasPaymentBlock(e) = Row(e, "payment cursor", 0)
  <2>1. LatestLeafIndex(e) = Row(e, "latest", 0)
    <3>1. Key(e, <<>>, LATEST_LEAF_INDEX) = KeyOf(e, "latest", 0)
      BY KeysAre
    <3>2. Row(e, "latest", 0) = {DecodeU32(s) : s \in Retrieve(KeyOf(e, "latest", 0))}
      BY <1>3
    <3> QED
      BY ONLY <1>4, <3>1, <3>2
  <2>2. RangeStartBlock(e) = Row(e, "message cursor", 0)
    <3>1. Key(e, <<>>, LATEST_VALID_MESSAGE_RANGE_START_BLOCK) = KeyOf(e, "message cursor", 0)
      BY KeysAre
    <3>2. Row(e, "message cursor", 0) = {DecodeU32(s) : s \in Retrieve(KeyOf(e, "message cursor", 0))}
      BY <1>3
    <3> QED
      BY ONLY <1>4, <3>1, <3>2
  <2>3. GasPaymentBlock(e) = Row(e, "payment cursor", 0)
    <3>1. Key(e, <<>>, LATEST_INDEXED_GAS_PAYMENT_BLOCK) = KeyOf(e, "payment cursor", 0)
      BY KeysAre
    <3>2. Row(e, "payment cursor", 0) = {DecodeU32(s) : s \in Retrieve(KeyOf(e, "payment cursor", 0))}
      BY <1>3
    <3> QED
      BY ONLY <1>4, <3>1, <3>2
  <2> QED
    BY <2>1, <2>2, <2>3
<1>6. ASSUME NEW x
      PROVE  /\ LatestLeafIndexForDestination(e, x) = Row(e, "latest for destination", x)
             /\ StatusRow(e, x) = Row(e, "processed leaf", x)
  <2>1. LatestLeafIndexForDestination(e, x) = Row(e, "latest for destination", x)
    <3>1. Key(e, LATEST_LEAF_INDEX_FOR_DESTINATION, EncodeU32(x)) = KeyOf(e, "latest for destination", x)
      BY KeysAre
    <3>2. Row(e, "latest for destination", x) = {DecodeU32(s) : s \in Retrieve(KeyOf(e, "latest for destination", x))}
      BY <1>3
    <3>3. LatestLeafIndexForDestination(e, x) = {DecodeU32(s) : s \in Retrieve(Key(e, LATEST_LEAF_INDEX_FOR_DESTINATION, EncodeU32(x)))}
      BY DEF LatestLeafIndexForDestination, RetrieveDecodable
    <3> QED
      BY ONLY <3>1, <3>2, <3>3
  <2>2. StatusRow(e, x) = Row(e, "processed leaf", x)
    <3>1. Key(e, LEAF_PROCESS_STATUS, EncodeU32(x)) = KeyOf(e, "processed leaf", x)
      BY KeysAre
    <3>2. Row(e, "processed leaf", x) = {DecodeU32(s) : s \in Retrieve(KeyOf(e, "processed leaf", x))}
      BY <1>3
    <3>3. StatusRow(e, x) = {DecodeU32(s) : s \in Retrieve(Key(e, LEAF_PROCESS_STATUS, EncodeU32(x)))}
      BY DEF StatusRow, RetrieveDecodable
    <3> QED
      BY ONLY <3>1, <3>2, <3>3
  <2> QED
    BY <2>1, <2>2
<1>7. ASSUME NEW x
      PROVE  /\ LeafByLeafIndex(e, x) = Row(e, "leaf", x)
             /\ MessageByLeaf(e, x) = Row(e, "message", x)
  <2>1. /\ LeafByLeafIndex(e, x) = {DecodeH256(s) : s \in Retrieve(Key(e, LEAF, EncodeU32(x)))}
        /\ MessageByLeaf(e, x) = {DecodeRaw(s) : s \in Retrieve(Key(e, MESSAGE, EncodeH256(x)))}
    BY DEF LeafByLeafIndex, MessageByLeaf, RetrieveDecodable
  <2> QED
    BY <1>2, <2>1, KeysAre, ZenonT(40)
<1>8. ASSUME NEW x
      PROVE  /\ GasPaymentForLeaf(e, x) = Row(e, "total", x)
             /\ MetaProcessed(e, x) = Row(e, "processed payment", x)
  <2>1. /\ GasPaymentForLeaf(e, x) = {DecodeU256(s) : s \in Retrieve(Key(e, GAS_PAYMENT_FOR_LEAF, EncodeU32(x)))}
        /\ MetaProcessed(e, x)
             = {DecodeBool(s) : s \in Retrieve(Key(e, GAS_PAYMENT_META_PROCESSED, EncodeMeta(x)))}
    BY DEF GasPaymentForLeaf, MetaProcessed, RetrieveDecodable
  <2> QED
    BY <1>2, <2>1, KeysAre, ZenonT(40)
<1> QED
  BY <1>5, <1>6, <1>7, <1>8

-----------------------------------------------------------------------------
(*****************************************************************************)
(* What each row may hold, and the messages dispatched.                     *)
(*****************************************************************************)

Latest(e) == ValueOr(Row(e, "latest", 0), NoIndex)
LatestFor(e, d) == ValueOr(Row(e, "latest for destination", d), NoIndex)
LeafIn(sent, i) == RawLeaf(sent[i + 1])
LeafAt(i) == LeafIn(dispatched, i)

(* The value may stand in the row, for these dispatched messages. *)
FitsRow(sent, kind, x, v) ==
  /\ kind \in ByNothing => x = 0 /\ v \in LeafIndices
  /\ kind = "latest for destination" => x \in Destinations /\ v \in LeafIndices
  /\ kind = "leaf" => x \in LeafIndices /\ v = LeafIn(sent, x)
  /\ kind = "message" => \E i \in LeafIndices : x = LeafIn(sent, i) /\ v = sent[i + 1]
  /\ kind = "processed leaf" => x \in LeafIndices /\ v = 1
  /\ kind = "total" => x \in U32 /\ v \in U256
  /\ kind = "processed payment" => v = TRUE /\ \E p \in Payments : x = p.meta

IsFor(kind, x, v) == FitsRow(dispatched, kind, x, v)

DispatchedInv ==
  \E to \in [1 .. NumIndices -> Destinations] : dispatched = [k \in 1 .. NumIndices |-> Raw(k - 1, to[k])]

RowsInv ==
  \A e \in Entities : \A kind \in Kinds : \A x :
    IsArgument(kind, x) =>
      Row(e, kind, x) = {} \/ \E v : IsFor(kind, x, v) /\ Row(e, kind, x) = {{v}}

(* The value of a row of at most one.                                        *)
LEMMA ValueOrIs == ASSUME NEW default PROVE ValueOr({}, default) = default /\ \A v : ValueOr({{v}}, default) = v
BY DEF ValueOr

(* LeafIndices and domains are U32.                                              *)
LEMMA BoundsAre ==
  /\ NumIndices \in Nat /\ LeafIndices = 0 .. NumIndices - 1 /\ LeafIndices \subseteq U32 /\ LeafIndices \subseteq Nat
  /\ Destinations \subseteq U32 /\ Domain \in U32
<1>1. NumIndices \in 1 .. Power[4] /\ Power[4] \in Nat
  BY AbacusDBAssumption, PowerIs
<1> QED
  BY <1>1, Widths, AbacusDBAssumption DEF LeafIndices, U32, Domain

(* What a dispatched message is made of. *)
Sample(d) ==
  [origin |-> Domain, sender |-> Address("app"), destination |-> d, recipient |-> Address("app"), body |-> Text("hello")]

(* A dispatched message is well-formed, eleven elements long, and parses to  *)
(* its destination.                                                          *)
LEMMA RawIs ==
  ASSUME NEW i \in LeafIndices, NEW d \in Destinations
  PROVE  /\ Raw(i, d).leaf_index = i /\ Raw(i, d).message = EncodeMessage(Sample(d))
         /\ IsRaw(Raw(i, d)) /\ Block(EncodeMessage(Sample(d)), 11)
         /\ (CHOOSE m \in DecodeMessage(Raw(i, d).message) : TRUE).destination = d
<1>1. Raw(i, d) = [leaf_index |-> i, message |-> EncodeMessage(Sample(d))]
  BY DEF Raw, Sample
<1>2. IsMessage(Sample(d))
  BY BoundsAre, WordBlock DEF IsMessage, Sample, Block
<1>3. IsSeq(EncodeMessage(Sample(d))) /\ DecodeMessage(EncodeMessage(Sample(d))) = {Sample(d)}
  BY <1>2, ReadMessage
<1>4. (CHOOSE m \in DecodeMessage(Raw(i, d).message) : TRUE).destination = d
  <2>1. DecodeMessage(Raw(i, d).message) = {Sample(d)}
    BY <1>1, <1>3
  <2>2. (CHOOSE m \in {Sample(d)} : TRUE) = Sample(d)
    OBVIOUS
  <2> QED
    BY <2>1, <2>2 DEF Sample
<1>5. Block(EncodeMessage(Sample(d)), 11)
  <2> DEFINE o == EncodeU32(Domain)
             a == EncodeH256(Address("app"))
             x == EncodeU32(d)
             b == Text("hello")
  <2>1. Block(o, 4) /\ Block(a, 1) /\ Block(x, 4) /\ Block(b, 1)
    BY BoundsAre, U32Block, H256Block, WordBlock
  <2>2. EncodeMessage(Sample(d)) = Cat(Cat(Cat(Cat(o, a), x), a), b)
    BY DEF EncodeMessage, Sample, Cat
  <2> HIDE DEF o, a, x, b
  <2>3. IsSeq(o) /\ IsSeq(a) /\ IsSeq(x) /\ IsSeq(b)
    BY <2>1 DEF Block
  <2>4. Block(Cat(o, a), 5)
    BY ONLY <2>1, <2>3, Blocks, 4 + 1 = 5, 4 \in Nat, 1 \in Nat
  <2>5. Block(Cat(Cat(o, a), x), 9)
    BY ONLY <2>1, <2>3, <2>4, Blocks, 5 + 4 = 9, 5 \in Nat, 4 \in Nat
  <2>6. Block(Cat(Cat(Cat(o, a), x), a), 10)
    BY ONLY <2>1, <2>3, <2>5, Blocks, 9 + 1 = 10, 9 \in Nat, 1 \in Nat
  <2>7. Block(Cat(Cat(Cat(Cat(o, a), x), a), b), 11)
    BY ONLY <2>1, <2>3, <2>6, Blocks, 10 + 1 = 11, 10 \in Nat, 1 \in Nat
  <2> QED
    BY <2>2, <2>7
<1>6. IsRaw(Raw(i, d))
  BY <1>1, <1>3, BoundsAre DEF IsRaw
<1> QED
  BY <1>1, <1>4, <1>5, <1>6

(* The messages dispatched, and that no two of them have the same leaf:      *)
(* their indices are in it.                                                  *)
LEMMA DispatchedIs ==
  ASSUME DispatchedInv
  PROVE  /\ \A i \in LeafIndices : \E d \in Destinations : dispatched[i + 1] = Raw(i, d)
         /\ \A i, j \in LeafIndices : LeafAt(i) = LeafAt(j) => i = j
<1>1. PICK to \in [1 .. NumIndices -> Destinations] : dispatched = [k \in 1 .. NumIndices |-> Raw(k - 1, to[k])]
  BY DEF DispatchedInv
<1>2. ASSUME NEW i \in LeafIndices
      PROVE  \E d \in Destinations : dispatched[i + 1] = Raw(i, d)
  <2>1. i + 1 \in 1 .. NumIndices /\ (i + 1) - 1 = i
    BY BoundsAre
  <2>2. dispatched[i + 1] = Raw(i, to[i + 1]) /\ to[i + 1] \in Destinations
    BY <1>1, <2>1
  <2> QED
    BY <2>2
<1>3. ASSUME NEW i \in LeafIndices, NEW j \in LeafIndices, LeafAt(i) = LeafAt(j)
      PROVE  i = j
  <2>1. PICK c \in Destinations : dispatched[i + 1] = Raw(i, c)
    BY <1>2
  <2>2. PICK d \in Destinations : dispatched[j + 1] = Raw(j, d)
    BY <1>2
  <2> DEFINE s == EncodeMessage(Sample(c))
             t == EncodeMessage(Sample(d))
             z == Zeros(28)
  <2>3. Raw(i, c).leaf_index = i /\ Raw(i, c).message = s /\ Raw(j, d).leaf_index = j /\ Raw(j, d).message = t
        /\ Block(s, 11) /\ Block(t, 11)
    BY RawIs
  <2> HIDE DEF s, t
  <2>4. LeafAt(i) = Keccak(Cat(Cat(s, z), EncodeU32(i))) /\ LeafAt(j) = Keccak(Cat(Cat(t, z), EncodeU32(j)))
    BY <2>1, <2>2, <2>3 DEF LeafAt, LeafIn, RawLeaf, Cat
  <2> DEFINE p == Cat(Cat(s, z), EncodeU32(i))
             q == Cat(Cat(t, z), EncodeU32(j))
  <2>5. p = q
    <3>1. Keccak(p) = Keccak(q)
      BY <1>3, <2>4
    <3> HIDE DEF p, q
    <3> QED
      BY <3>1 DEF Keccak
  <2> HIDE DEF p, q
  <2>6. i \in U32 /\ j \in U32 /\ Block(z, 1) /\ IsSeq(z)
    BY BoundsAre, WordBlock DEF Block
  <2> HIDE DEF z
  <2>7. Block(Cat(s, z), 12) /\ Block(Cat(t, z), 12)
    BY ONLY <2>3, <2>6, Blocks, 11 + 1 = 12, 11 \in Nat, 1 \in Nat
  <2>8. IsSeq(EncodeU32(i)) /\ IsSeq(EncodeU32(j))
    BY <2>6, U32Block DEF Block
  <2>9. From(p, 13) = EncodeU32(i) /\ From(q, 13) = EncodeU32(j)
    BY ONLY <2>7, <2>8, Blocks, 12 + 1 = 13, 12 \in Nat DEF p, q
  <2>10. DecodeU32(EncodeU32(i)) = {i} /\ DecodeU32(EncodeU32(j)) = {j}
    BY <2>6, U32Block
  <2> QED
    BY <2>5, <2>9, <2>10
<1> QED
  BY <1>2, <1>3

(* What a row may hold has the types of its table.                           *)
LEMMA IsForTyped ==
  ASSUME DispatchedInv, NEW kind \in Kinds, NEW x, NEW v, IsFor(kind, x, v)
  PROVE  IsArgument(kind, x) /\ IsValue(kind, v)
<1>1. IsArgument(kind, x)
  <2>1. ASSUME NEW p \in Payments
        PROVE  p.meta \in [transaction_hash : {p.meta.transaction_hash}, log_index : U256]
    BY AbacusDBAssumption
  <2>2. kind \in ByNumber => x \in U32
    BY BoundsAre DEF IsFor, FitsRow, ByNumber
  <2>3. kind \in ByNothing => x = 0
    BY DEF IsFor, FitsRow
  <2>4. kind = "processed payment" => x \in [transaction_hash : {x.transaction_hash}, log_index : U256]
    BY <2>1 DEF IsFor, FitsRow
  <2> QED
    BY <2>2, <2>3, <2>4 DEF IsArgument
<1>2. IsValue(kind, v)
  <2>1. kind \in HoldsU32 => v \in U32
    BY BoundsAre, Widths DEF IsFor, FitsRow, HoldsU32, ByNothing
  <2>2. kind = "message" => IsRaw(v)
    BY DispatchedIs, RawIs DEF IsFor, FitsRow
  <2>3. kind = "total" => v \in U256
    BY DEF IsFor, FitsRow
  <2>4. kind = "processed payment" => v \in BOOLEAN
    BY DEF IsFor, FitsRow
  <2> QED
    BY <2>1, <2>2, <2>3, <2>4 DEF IsValue
<1> QED
  BY <1>1, <1>2

(* The rest of a block.                                                      *)
LEMMA TailBlock ==
  ASSUME NEW n \in Nat, NEW s, Block(s, n), n >= 1
  PROVE  /\ s # <<>> /\ Block(Tail(s), n - 1)
         /\ \A i \in 1 .. n - 1 : Tail(s)[i] = s[i + 1]
<1>1. PICK S : s \in Seq(S)
  BY DEF Block, IsSeq
<1>2. Len(s) = n
  BY DEF Block
<1>3. s # <<>>
  BY <1>2
<1>4. Tail(s) \in Seq(S) /\ Len(Tail(s)) = Len(s) - 1 /\ \A i \in 1 .. Len(Tail(s)) : Tail(s)[i] = s[i + 1]
  BY <1>1, <1>3, HeadTailProperties
<1> QED
  BY <1>2, <1>3, <1>4 DEF Block, IsSeq

(* The empty block.                                                          *)
LEMMA EmptyBlock == \A s : Block(s, 0) <=> s = <<>>
<1>1. ASSUME NEW s, Block(s, 0)
      PROVE  s = <<>>
  <2>1. PICK S : s \in Seq(S)
    BY <1>1 DEF Block, IsSeq
  <2> QED
    BY <1>1, <2>1, EmptySeq DEF Block
<1>2. Block(<<>>, 0)
  BY Single DEF Block
<1> QED
  BY <1>1, <1>2

-----------------------------------------------------------------------------
(*****************************************************************************)
(* The inductive invariant of the database.                                 *)
(*****************************************************************************)

NeverAhead ==
  \A e \in Entities :
    /\ \A i \in LeafIndices : i <= Latest(e) => Row(e, "leaf", i) # {}
    /\ \A d \in Destinations : LatestFor(e, d) <= Latest(e)

(* The messages to be stored next are those of outbox e from index i. *)
BatchFrom(e, i) ==
  \E n \in Nat : i + n <= NumIndices /\ Block(batch, n) /\ \A k \in 1 .. n : batch[k] = <<e, dispatched[i + k]>>

LeafPut(e, i) == PutOf(e, "leaf", i, LeafAt(i))
LatestPut(e, i) == PutOf(e, "latest", 0, i)
DestinationPut(e, d, i) == PutOf(e, "latest for destination", d, i)
MessagePut(e, i) == PutOf(e, "message", LeafAt(i), dispatched[i + 1])

(* The four puts of a message, of which the first ones are done. *)
LeafNext(e, i, d) ==
  /\ Block(pending, 4) /\ pending[1] = LeafPut(e, i) /\ pending[2] = LatestPut(e, i)
  /\ pending[3] = DestinationPut(e, d, i) /\ pending[4] = MessagePut(e, i)
  /\ Latest(e) = i - 1
LatestNext(e, i, d) ==
  /\ Block(pending, 3) /\ pending[1] = LatestPut(e, i)
  /\ pending[2] = DestinationPut(e, d, i) /\ pending[3] = MessagePut(e, i)
  /\ Latest(e) = i - 1 /\ Row(e, "leaf", i) # {}
DestinationNext(e, i, d) ==
  /\ Block(pending, 2) /\ pending[1] = DestinationPut(e, d, i) /\ pending[2] = MessagePut(e, i)
  /\ Latest(e) = i /\ LatestFor(e, d) < i
MessageNext(e, i) ==
  /\ Block(pending, 1) /\ pending[1] = MessagePut(e, i)
  /\ Latest(e) = i

Storing(e, i, d) ==
  /\ BatchFrom(e, i + 1)
  /\ LeafNext(e, i, d) \/ LatestNext(e, i, d) \/ DestinationNext(e, i, d) \/ MessageNext(e, i)

(* The puts of a payment; the total adds the amount once the payment is marked. *)
TotalWith(e, p) == ValueOr(Row(e, "total", p.leaf_index), 0) + p.amount
TotalPut(e, p) == PutOf(e, "total", p.leaf_index, TotalWith(e, p))
ProcessedPut(e, p) == PutOf(e, "processed payment", p.meta, TRUE)

Paying(e, p) ==
  \/ /\ Row(e, "processed payment", p.meta) = {} /\ pending[1] = ProcessedPut(e, p)
     /\ \/ Block(pending, 1)
        \/ Block(pending, 2) /\ pending[2] = TotalPut(e, p) /\ TotalWith(e, p) \in U256
  \/ /\ Row(e, "processed payment", p.meta) = {{TRUE}}
     /\ Block(pending, 1) /\ pending[1] = TotalPut(e, p) /\ TotalWith(e, p) \in U256

(* A single put that no other row depends on. *)
Noting(e, kind, x, v) == IsFor(kind, x, v) /\ Block(pending, 1) /\ pending[1] = PutOf(e, kind, x, v)

Work ==
  \/ pending = <<>> /\ batch = <<>>
  \/ pending = <<>> /\ \E e \in Entities : BatchFrom(e, Latest(e) + 1)
  \/ \E e \in Entities, i \in LeafIndices, d \in Destinations : dispatched[i + 1] = Raw(i, d) /\ Storing(e, i, d)
  \/ batch = <<>> /\ \E e \in Entities, p \in Payments : Paying(e, p)
  \/ batch = <<>> /\ \E e \in Entities, kind \in {"processed leaf", "message cursor", "payment cursor"} : \E x, v :
       Noting(e, kind, x, v)

DatabaseInv == DispatchedInv /\ RowsInv /\ NeverAhead /\ Work

(* The latest indices are what their rows hold.                              *)
LEMMA LatestIs ==
  ASSUME RowsInv, NEW e \in Entities
  PROVE  /\ Latest(e) \in LeafIndices \cup {-1}
         /\ Row(e, "latest", 0) = IF Latest(e) = -1 THEN {} ELSE {{Latest(e)}}
         /\ \A d \in Destinations :
              /\ LatestFor(e, d) \in LeafIndices \cup {-1}
              /\ Row(e, "latest for destination", d) = IF LatestFor(e, d) = -1 THEN {} ELSE {{LatestFor(e, d)}}
<1>1. /\ "latest" \in Kinds /\ "latest" \in ByNothing
      /\ "latest for destination" \in Kinds /\ "latest for destination" \in ByNumber
      /\ "latest" \notin ByNumber /\ "latest for destination" \notin ByNothing
      /\ "latest" # "processed payment" /\ "latest for destination" # "processed payment"
  BY DEF Kinds, ByNothing, ByNumber
<1>2. \A i \in LeafIndices : i # -1
  BY BoundsAre
<1>3. Row(e, "latest", 0) = {} \/ \E v \in LeafIndices : Row(e, "latest", 0) = {{v}}
  <2>1. IsArgument("latest", 0)
    BY <1>1 DEF IsArgument
  <2>2. Row(e, "latest", 0) = {} \/ \E v : IsFor("latest", 0, v) /\ Row(e, "latest", 0) = {{v}}
    BY ONLY <1>1, <2>1, RowsInv, e \in Entities, ZenonT(40) DEF RowsInv
  <2>3. \A v : IsFor("latest", 0, v) => v \in LeafIndices
    BY <1>1 DEF IsFor, FitsRow
  <2> QED
    BY <2>2, <2>3
<1>4. ASSUME NEW d \in Destinations
      PROVE  \/ Row(e, "latest for destination", d) = {}
             \/ \E v \in LeafIndices : Row(e, "latest for destination", d) = {{v}}
  <2>1. IsArgument("latest for destination", d)
    BY <1>1, BoundsAre DEF IsArgument
  <2>2. \/ Row(e, "latest for destination", d) = {}
        \/ \E v : IsFor("latest for destination", d, v) /\ Row(e, "latest for destination", d) = {{v}}
    BY ONLY <1>1, <2>1, RowsInv, e \in Entities, ZenonT(40) DEF RowsInv
  <2>3. \A v : IsFor("latest for destination", d, v) => v \in LeafIndices
    BY <1>1 DEF IsFor, FitsRow
  <2> QED
    BY <2>2, <2>3
<1>5. ASSUME NEW row, row = {} \/ \E v \in LeafIndices : row = {{v}}
      PROVE  /\ ValueOr(row, NoIndex) \in LeafIndices \cup {-1}
             /\ row = IF ValueOr(row, NoIndex) = -1 THEN {} ELSE {{ValueOr(row, NoIndex)}}
  <2>1. CASE row = {}
    BY <2>1, ValueOrIs DEF NoIndex
  <2>2. CASE \E v \in LeafIndices : row = {{v}}
    <3>1. PICK v \in LeafIndices : row = {{v}}
      BY <2>2
    <3>2. ValueOr(row, NoIndex) = v /\ v # -1
      BY <1>2, <3>1, ValueOrIs
    <3> QED
      BY <3>1, <3>2
  <2> QED
    BY <1>5, <2>1, <2>2
<1> QED
  BY <1>3, <1>4, <1>5 DEF Latest, LatestFor

(* While the store does not change, no row does.                             *)
LEMMA RowsKept ==
  ASSUME kv' = kv, dispatched' = dispatched
  PROVE  /\ \A e, kind, x : Row(e, kind, x)' = Row(e, kind, x)
         /\ \A e : Latest(e)' = Latest(e)
         /\ \A e, d : LatestFor(e, d)' = LatestFor(e, d)
         /\ \A i : LeafAt(i)' = LeafAt(i)
         /\ \A kind, x, v : IsFor(kind, x, v)' = IsFor(kind, x, v)
         /\ DispatchedInv => DispatchedInv'
         /\ RowsInv => RowsInv'
         /\ NeverAhead => NeverAhead'
<1>1. \A e, kind, x : Row(e, kind, x)' = Row(e, kind, x)
  BY DEF Row, Retrieve
<1>2. /\ \A e : Latest(e)' = Latest(e)
      /\ \A e, d : LatestFor(e, d)' = LatestFor(e, d)
  BY <1>1 DEF Latest, LatestFor
<1>3. \A i : LeafAt(i)' = LeafAt(i)
  BY DEF LeafAt
<1>4. \A kind, x, v : IsFor(kind, x, v)' = IsFor(kind, x, v)
  BY DEF IsFor
<1>5. DispatchedInv => DispatchedInv'
  BY DEF DispatchedInv
<1>6. RowsInv => RowsInv'
  BY <1>1, <1>4 DEF RowsInv
<1>7. NeverAhead => NeverAhead'
  BY <1>1, <1>2 DEF NeverAhead
<1> QED
  BY <1>1, <1>2, <1>3, <1>4, <1>5, <1>6, <1>7

(* A put that its row may hold keeps the rows typed, and is what its row     *)
(* holds next.                                                               *)
LEMMA FlushKeepsRows ==
  ASSUME DispatchedInv, RowsInv, Flush,
         NEW e \in Entities, NEW kind \in Kinds, NEW x, NEW v, IsFor(kind, x, v), pending[1] = PutOf(e, kind, x, v)
  PROVE  /\ DispatchedInv' /\ RowsInv'
         /\ Row(e, kind, x)' = {{v}}
         /\ OthersKept(e, kind, x)
         /\ \A i : LeafAt(i)' = LeafAt(i)
         /\ batch' = batch /\ dispatched' = dispatched /\ pending' = Tail(pending)
<1>1. IsArgument(kind, x) /\ IsValue(kind, v)
  BY IsForTyped
<1>2. Row(e, kind, x)' = {{v}} /\ OthersKept(e, kind, x)
  BY <1>1, FlushRow
<1>3. batch' = batch /\ dispatched' = dispatched /\ pending' = Tail(pending)
  BY DEF Flush
<1>4. \A i : LeafAt(i)' = LeafAt(i)
  BY <1>3 DEF LeafAt
<1>5. \A k, y, w : IsFor(k, y, w)' = IsFor(k, y, w)
  BY <1>3 DEF IsFor
<1>6. DispatchedInv'
  BY <1>3 DEF DispatchedInv
<1>7. RowsInv'
  <2>1. ASSUME NEW f \in Entities, NEW other \in Kinds, NEW y, IsArgument(other, y)
        PROVE  Row(f, other, y)' = {} \/ \E w : IsFor(other, y, w)' /\ Row(f, other, y)' = {{w}}
    <3>1. CASE f = e /\ other = kind /\ y = x
      BY <1>2, <1>5, <3>1
    <3>2. CASE ~ (f = e /\ other = kind /\ y = x)
      <4>1. Row(f, other, y)' = Row(f, other, y)
        BY <1>2, <2>1, <3>2 DEF OthersKept
      <4>2. Row(f, other, y) = {} \/ \E w : IsFor(other, y, w) /\ Row(f, other, y) = {{w}}
        BY <2>1 DEF RowsInv
      <4> QED
        BY <1>5, <4>1, <4>2
    <3> QED
      BY <3>1, <3>2
  <2> QED
    BY <2>1 DEF RowsInv
<1> QED
  BY <1>2, <1>3, <1>4, <1>6, <1>7

(* What a flush of this put does to the latest indices and to the leaves.      *)
FlushedLatest(e, kind, x, v) ==
  /\ \A f \in Entities : Latest(f)' = IF f = e /\ kind = "latest" THEN v ELSE Latest(f)
  /\ \A f \in Entities, d \in Destinations :
       LatestFor(f, d)' = IF f = e /\ kind = "latest for destination" /\ x = d THEN v ELSE LatestFor(f, d)
  /\ \A f \in Entities, i \in LeafIndices : Row(f, "leaf", i) # {} => Row(f, "leaf", i)' # {}

(* What a flush does to the latest indices.                                  *)
LEMMA FlushLatest ==
  ASSUME DispatchedInv, RowsInv, Flush,
         NEW e \in Entities, NEW kind \in Kinds, NEW x, NEW v, IsFor(kind, x, v), pending[1] = PutOf(e, kind, x, v)
  PROVE  FlushedLatest(e, kind, x, v)
<1>1. /\ "latest" \in Kinds /\ "latest" \in ByNothing /\ "latest for destination" \in Kinds /\ "leaf" \in Kinds
      /\ IsArgument("latest", 0)
      /\ \A d \in Destinations : IsArgument("latest for destination", d)
      /\ \A i \in LeafIndices : IsArgument("leaf", i)
  BY BoundsAre DEF Kinds, ByNothing, ByNumber, IsArgument
<1>2. Row(e, kind, x)' = {{v}} /\ OthersKept(e, kind, x)
  BY FlushKeepsRows
<1>3. ASSUME NEW f \in Entities
      PROVE  Latest(f)' = IF f = e /\ kind = "latest" THEN v ELSE Latest(f)
  <2>1. CASE f = e /\ kind = "latest"
    <3>1. x = 0
      BY <1>1, <2>1 DEF IsFor, FitsRow
    <3>2. Row(f, "latest", 0)' = {{v}}
      BY <1>2, <2>1, <3>1
    <3>3. Latest(f)' = ValueOr(Row(f, "latest", 0)', NoIndex)
      BY DEF Latest
    <3>4. ValueOr({{v}}, NoIndex) = v
      BY ValueOrIs
    <3> QED
      BY <2>1, <3>2, <3>3, <3>4
  <2>2. CASE ~ (f = e /\ kind = "latest")
    <3>1. Row(f, "latest", 0)' = Row(f, "latest", 0)
      BY <1>1, <1>2, <2>2 DEF OthersKept
    <3> QED
      BY <2>2, <3>1 DEF Latest
  <2> QED
    BY <2>1, <2>2
<1>4. ASSUME NEW f \in Entities, NEW d \in Destinations
      PROVE  LatestFor(f, d)' = IF f = e /\ kind = "latest for destination" /\ x = d THEN v ELSE LatestFor(f, d)
  <2>1. CASE f = e /\ kind = "latest for destination" /\ x = d
    <3>1. Row(f, "latest for destination", d)' = {{v}}
      BY <1>2, <2>1
    <3>3. LatestFor(f, d)' = ValueOr(Row(f, "latest for destination", d)', NoIndex)
      BY DEF LatestFor
    <3>4. ValueOr({{v}}, NoIndex) = v
      BY ValueOrIs
    <3> QED
      BY <2>1, <3>1, <3>3, <3>4
  <2>2. CASE ~ (f = e /\ kind = "latest for destination" /\ x = d)
    <3>1. Row(f, "latest for destination", d)' = Row(f, "latest for destination", d)
      BY <1>1, <1>2, <2>2 DEF OthersKept
    <3> QED
      BY <2>2, <3>1 DEF LatestFor
  <2> QED
    BY <2>1, <2>2
<1>5. ASSUME NEW f \in Entities, NEW i \in LeafIndices, Row(f, "leaf", i) # {}
      PROVE  Row(f, "leaf", i)' # {}
  <2>1. CASE f = e /\ kind = "leaf" /\ x = i
    BY <1>2, <2>1
  <2>2. CASE ~ (f = e /\ kind = "leaf" /\ x = i)
    BY <1>1, <1>2, <1>5, <2>2 DEF OthersKept
  <2> QED
    BY <2>1, <2>2
<1> QED
  BY <1>3, <1>4, <1>5 DEF FlushedLatest

-----------------------------------------------------------------------------
(*****************************************************************************)
(* The puts that the operations do.                                         *)
(*****************************************************************************)

(* A put at the end of others.                                               *)
LEMMA OneMore ==
  ASSUME NEW n \in Nat, NEW s, NEW x, Block(s, n)
  PROVE  /\ Block(Cat(s, <<x>>), n + 1) /\ Cat(s, <<x>>)[n + 1] = x
         /\ \A i \in 1 .. n : Cat(s, <<x>>)[i] = s[i]
<1>1. Block(<<x>>, 1) /\ <<x>>[1] = x /\ IsSeq(<<x>>)
  BY Single DEF Block
<1>2. Block(Cat(s, <<x>>), n + 1)
  BY <1>1, Blocks
<1>3. Cat(s, <<x>>)[n + 1] = x
  BY <1>1, ElementAfter
<1>4. \A i \in 1 .. n : Cat(s, <<x>>)[i] = s[i]
  BY <1>1, Concat DEF Block, Cat
<1> QED
  BY <1>2, <1>3, <1>4

(* Two puts.                                                                 *)
LEMMA TwoPuts ==
  ASSUME NEW a, NEW b
  PROVE  LET q == Cat(<<a>>, <<b>>) IN Block(q, 2) /\ q[1] = a /\ q[2] = b
<1>1. Block(<<a>>, 1) /\ <<a>>[1] = a /\ 1 \in 1 .. 1 /\ 1 + 1 = 2
  BY Single DEF Block
<1> QED
  BY <1>1, OneMore

(* Four puts.                                                                *)
LEMMA FourPuts ==
  ASSUME NEW a, NEW b, NEW c, NEW d
  PROVE  LET q == Cat(Cat(Cat(<<a>>, <<b>>), <<c>>), <<d>>) IN
         Block(q, 4) /\ q[1] = a /\ q[2] = b /\ q[3] = c /\ q[4] = d
<1>1. PICK s : s = Cat(<<a>>, <<b>>) /\ Block(s, 2) /\ s[1] = a /\ s[2] = b
  BY TwoPuts
<1>2. PICK t : t = Cat(s, <<c>>) /\ Block(t, 3) /\ t[1] = a /\ t[2] = b /\ t[3] = c
  <2>1. 1 \in 1 .. 2 /\ 2 \in 1 .. 2 /\ 2 + 1 = 3 /\ 2 \in Nat
    OBVIOUS
  <2> QED
    BY <1>1, <2>1, OneMore
<1>3. PICK u : u = Cat(t, <<d>>) /\ Block(u, 4) /\ u[1] = a /\ u[2] = b /\ u[3] = c /\ u[4] = d
  <2>1. 1 \in 1 .. 3 /\ 2 \in 1 .. 3 /\ 3 \in 1 .. 3 /\ 3 + 1 = 4 /\ 3 \in Nat
    OBVIOUS
  <2> QED
    BY <1>2, <2>1, OneMore
<1> QED
  BY <1>1, <1>2, <1>3

(* The encoding of each table.                                               *)
LEMMA EncodersAre ==
  ASSUME NEW v
  PROVE  /\ EncodeAs("latest", v) = EncodeU32(v) /\ EncodeAs("latest for destination", v) = EncodeU32(v)
         /\ EncodeAs("processed leaf", v) = EncodeU32(v) /\ EncodeAs("message cursor", v) = EncodeU32(v)
         /\ EncodeAs("payment cursor", v) = EncodeU32(v)
         /\ EncodeAs("leaf", v) = EncodeH256(v) /\ EncodeAs("message", v) = EncodeRaw(v)
         /\ EncodeAs("total", v) = EncodeU256(v) /\ EncodeAs("processed payment", v) = EncodeBool(v)
BY DEF EncodeAs, HoldsU32

(* The storing operations do these puts.                                     *)
LEMMA PutsAre ==
  ASSUME NEW e, NEW x, NEW v
  PROVE  /\ Put(Key(e, <<>>, LATEST_LEAF_INDEX), EncodeU32(v)) = <<PutOf(e, "latest", 0, v)>>
         /\ Put(Key(e, LATEST_LEAF_INDEX_FOR_DESTINATION, EncodeU32(x)), EncodeU32(v))
              = <<PutOf(e, "latest for destination", x, v)>>
         /\ Put(Key(e, LEAF, EncodeU32(x)), EncodeH256(v)) = <<PutOf(e, "leaf", x, v)>>
         /\ Put(Key(e, MESSAGE, EncodeH256(x)), EncodeRaw(v)) = <<PutOf(e, "message", x, v)>>
         /\ Put(Key(e, LEAF_PROCESS_STATUS, EncodeU32(x)), EncodeU32(v)) = <<PutOf(e, "processed leaf", x, v)>>
         /\ Put(Key(e, GAS_PAYMENT_FOR_LEAF, EncodeU32(x)), EncodeU256(v)) = <<PutOf(e, "total", x, v)>>
         /\ Put(Key(e, GAS_PAYMENT_META_PROCESSED, EncodeMeta(x)), EncodeBool(v))
              = <<PutOf(e, "processed payment", x, v)>>
         /\ Put(Key(e, <<>>, LATEST_VALID_MESSAGE_RANGE_START_BLOCK), EncodeU32(v))
              = <<PutOf(e, "message cursor", 0, v)>>
         /\ Put(Key(e, <<>>, LATEST_INDEXED_GAS_PAYMENT_BLOCK), EncodeU32(v)) = <<PutOf(e, "payment cursor", 0, v)>>
BY KeysAre, EncodersAre, ZenonT(40) DEF Put, PutOf

(* store_raw_committed_message for the message above the latest index.         *)
LEMMA StorePuts ==
  ASSUME NEW e, NEW i \in LeafIndices, NEW d \in Destinations, dispatched[i + 1] = Raw(i, d),
         Latest(e) \in Int, LatestFor(e, d) \in Int, Latest(e) < i, LatestFor(e, d) < i
  PROVE  LET q == StoreRawCommittedMessage(e, dispatched[i + 1]) IN
         /\ Block(q, 4) /\ q[1] = LeafPut(e, i) /\ q[2] = LatestPut(e, i)
         /\ q[3] = DestinationPut(e, d, i) /\ q[4] = MessagePut(e, i)
<1> DEFINE raw == dispatched[i + 1]
<1>1. raw.leaf_index = i /\ (CHOOSE m \in DecodeMessage(raw.message) : TRUE).destination = d /\ RawLeaf(raw) = LeafAt(i)
  <2>1. RawLeaf(raw) = LeafAt(i)
    BY DEF LeafAt, LeafIn
  <2>2. Raw(i, d).leaf_index = i /\ (CHOOSE m \in DecodeMessage(Raw(i, d).message) : TRUE).destination = d
    BY RawIs
  <2> QED
    BY <2>1, <2>2
<1>2. UpdateLatestLeafIndex(e, i) = <<LatestPut(e, i)>>
  <2>1. ~ (i <= ValueOr(LatestLeafIndex(e), NoIndex))
    <3>1. ValueOr(LatestLeafIndex(e), NoIndex) = Latest(e)
      BY ReadersAre DEF Latest
    <3> QED
      BY <3>1, BoundsAre
  <2>2. UpdateLatestLeafIndex(e, i) = Put(Key(e, <<>>, LATEST_LEAF_INDEX), EncodeU32(i))
    BY <2>1 DEF UpdateLatestLeafIndex
  <2> QED
    BY <2>2, PutsAre DEF LatestPut
<1>3. UpdateLatestLeafIndexForDestination(e, d, i) = <<DestinationPut(e, d, i)>>
  <2>1. ~ (i <= ValueOr(LatestLeafIndexForDestination(e, d), NoIndex))
    <3>1. ValueOr(LatestLeafIndexForDestination(e, d), NoIndex) = LatestFor(e, d)
      BY ReadersAre DEF LatestFor
    <3> QED
      BY <3>1, BoundsAre
  <2>2. UpdateLatestLeafIndexForDestination(e, d, i)
          = Put(Key(e, LATEST_LEAF_INDEX_FOR_DESTINATION, EncodeU32(d)), EncodeU32(i))
    BY <2>1 DEF UpdateLatestLeafIndexForDestination
  <2> QED
    BY <2>2, PutsAre DEF DestinationPut
<1>4. Put(Key(e, LEAF, EncodeU32(i)), EncodeH256(LeafAt(i))) = <<LeafPut(e, i)>>
  BY PutsAre DEF LeafPut
<1>5. Put(Key(e, MESSAGE, EncodeH256(LeafAt(i))), EncodeRaw(raw)) = <<MessagePut(e, i)>>
  BY PutsAre, ZenonT(40) DEF MessagePut
<1> HIDE DEF raw
<1>6. StoreLeaf(e, i, d, LeafAt(i)) = Cat(Cat(<<LeafPut(e, i)>>, <<LatestPut(e, i)>>), <<DestinationPut(e, d, i)>>)
  BY <1>2, <1>3, <1>4 DEF StoreLeaf, LeafPuts, Cat
<1>7. StoreRawCommittedMessage(e, raw)
        = Cat(StoreLeaf(e, i, d, LeafAt(i)), <<MessagePut(e, i)>>)
  BY <1>1, <1>5 DEF StoreRawCommittedMessage, Cat
<1> QED
  BY <1>6, <1>7, FourPuts DEF raw

-----------------------------------------------------------------------------
(*****************************************************************************)
(* Each action keeps the invariant.                                         *)
(*****************************************************************************)

(* The invariant holds at the start.                                         *)
LEMMA InitHolds == DatabaseInit => DatabaseInv
<1>1. SUFFICES ASSUME DatabaseInit
               PROVE  DatabaseInv
  OBVIOUS
<1>2. \A e, kind, x : Row(e, kind, x) = {}
  <2>1. DOMAIN kv = {}
    BY <1>1 DEF DatabaseInit
  <2>2. \A key : Retrieve(key) = {}
    BY <2>1 DEF Retrieve
  <2> QED
    BY <2>2 DEF Row
<1>3. \A e : Latest(e) = -1 /\ \A d : LatestFor(e, d) = -1
  BY <1>2, ValueOrIs DEF Latest, LatestFor, NoIndex
<1>4. NeverAhead
  <2>1. \A i \in LeafIndices : ~ (i <= -1)
    BY BoundsAre
  <2> QED
    BY <1>3, <2>1 DEF NeverAhead
<1>5. RowsInv
  BY <1>2 DEF RowsInv
<1>6. DispatchedInv /\ Work
  BY <1>1 DEF DatabaseInit, DispatchedInv, Work
<1> QED
  BY <1>4, <1>5, <1>6 DEF DatabaseInv

(* The batch stays while it does not change.                                 *)
LEMMA BatchKept ==
  ASSUME batch' = batch, dispatched' = dispatched
  PROVE  \A e, i : BatchFrom(e, i) => BatchFrom(e, i)'
BY DEF BatchFrom

(* The puts of a message are the same at any time.                           *)
LEMMA PutsKept ==
  ASSUME dispatched' = dispatched
  PROVE  \A e, i : /\ LeafPut(e, i)' = LeafPut(e, i) /\ MessagePut(e, i)' = MessagePut(e, i)
BY DEF LeafPut, MessagePut, LeafAt

(* The batch starts above the latest index.                                  *)
LEMMA StoreMessagesKeeps == ASSUME DatabaseInv, NEW e \in Entities, StoreMessages(e) PROVE DatabaseInv'
<1> DEFINE newest == ValueOr(LatestLeafIndex(e), NoIndex)
<1>1. kv' = kv /\ dispatched' = dispatched /\ pending' = pending /\ pending = <<>>
  BY DEF StoreMessages, Idle
<1>2. newest = Latest(e) /\ Latest(e) \in LeafIndices \cup {-1}
  BY ReadersAre, LatestIs DEF Latest, DatabaseInv
<1>3. newest \in Int /\ newest >= -1 /\ NumIndices \in Nat
  BY <1>2, BoundsAre
<1>4. PICK last \in newest + 1 .. NumIndices - 1 :
        batch' = [k \in 1 .. last - newest |-> <<e, dispatched[newest + 1 + k]>>]
  BY DEF StoreMessages
<1> HIDE DEF newest
<1>5. BatchFrom(e, Latest(e) + 1)'
  <2> DEFINE n == last - newest
             item(k) == <<e, dispatched[newest + 1 + k]>>
             items == {item(k) : k \in 1 .. n}
  <2>1. n \in Nat /\ (newest + 1) + n <= NumIndices
    BY <1>3, <1>4
  <2>2. batch' = [k \in 1 .. n |-> item(k)]
    BY <1>4
  <2>3. \A k \in 1 .. n : item(k) \in items
    OBVIOUS
  <2> HIDE DEF n, item, items
  <2>4. [k \in 1 .. n |-> item(k)] \in Seq(items) /\ Len([k \in 1 .. n |-> item(k)]) = n
    BY <2>1, <2>3
  <2>5. Block(batch', n) /\ \A k \in 1 .. n : batch'[k] = item(k)
    BY <2>2, <2>4 DEF Block, IsSeq
  <2>6. Latest(e)' = newest
    BY <1>1, <1>2, RowsKept
  <2>7. \A k \in 1 .. n : batch'[k] = <<e, dispatched'[(newest + 1) + k]>>
    BY <1>1, <2>5 DEF item
  <2> QED
    BY <2>1, <2>5, <2>6, <2>7 DEF BatchFrom
<1>6. DispatchedInv' /\ RowsInv' /\ NeverAhead'
  BY <1>1, RowsKept DEF DatabaseInv
<1> QED
  BY <1>1, <1>5, <1>6 DEF DatabaseInv, Work

(* Puts that wait are those of a message, of a payment or a single one.      *)
LEMMA PendingKinds ==
  ASSUME Work
  PROVE  /\ pending = <<>> => batch = <<>> \/ \E e \in Entities : BatchFrom(e, Latest(e) + 1)
         /\ pending # <<>> =>
              \/ \E e \in Entities, i \in LeafIndices, d \in Destinations : dispatched[i + 1] = Raw(i, d) /\ Storing(e, i, d)
              \/ batch = <<>> /\ \E e \in Entities, p \in Payments : Paying(e, p)
              \/ batch = <<>> /\ \E e \in Entities, kind \in {"processed leaf", "message cursor", "payment cursor"} :
                   \E x, v : Noting(e, kind, x, v)
<1>1. \A n \in {1, 2, 3, 4} : Block(pending, n) => pending # <<>>
  BY EmptyBlock DEF Block
<1>2. \A e, i, d : Storing(e, i, d) => pending # <<>>
  BY <1>1 DEF Storing, LeafNext, LatestNext, DestinationNext, MessageNext
<1>3. \A e, p : Paying(e, p) => pending # <<>>
  BY <1>1 DEF Paying
<1>4. \A e, kind, x, v : Noting(e, kind, x, v) => pending # <<>>
  BY <1>1 DEF Noting
<1> QED
  BY <1>2, <1>3, <1>4 DEF Work

(* The first of the batch is the message above the latest index, so its four *)
(* puts are those of it.                                                     *)
LEMMA StoreLatestMessageKeeps == ASSUME DatabaseInv, StoreLatestMessage PROVE DatabaseInv'
<1>1. kv' = kv /\ dispatched' = dispatched /\ pending = <<>> /\ batch # <<>> /\ batch' = Tail(batch)
      /\ pending' = StoreRawCommittedMessage(batch[1][1], batch[1][2])
  BY DEF StoreLatestMessage
<1>2. PICK e \in Entities : BatchFrom(e, Latest(e) + 1)
  BY <1>1, PendingKinds DEF DatabaseInv
<1>3. Latest(e) \in LeafIndices \cup {-1} /\ \A d \in Destinations : LatestFor(e, d) \in LeafIndices \cup {-1} /\ LatestFor(e, d) <= Latest(e)
  BY LatestIs DEF DatabaseInv, NeverAhead
<1>4. PICK i : i = Latest(e) + 1
  OBVIOUS
<1>5. PICK n \in Nat : i + n <= NumIndices /\ Block(batch, n) /\ \A k \in 1 .. n : batch[k] = <<e, dispatched[i + k]>>
  BY <1>2, <1>4 DEF BatchFrom
<1>6. n >= 1
  BY <1>1, <1>5, EmptyBlock
<1>7. i \in Nat /\ i \in LeafIndices /\ Latest(e) = i - 1
  BY <1>3, <1>4, <1>5, <1>6, BoundsAre
<1>8. batch[1] = <<e, dispatched[i + 1]>>
  BY <1>5, <1>6
<1>9. PICK d \in Destinations : dispatched[i + 1] = Raw(i, d)
  BY <1>7, DispatchedIs DEF DatabaseInv
<1>10. LET q == StoreRawCommittedMessage(e, dispatched[i + 1]) IN
       /\ Block(q, 4) /\ q[1] = LeafPut(e, i) /\ q[2] = LatestPut(e, i)
       /\ q[3] = DestinationPut(e, d, i) /\ q[4] = MessagePut(e, i)
  <2>1. Latest(e) \in Int /\ LatestFor(e, d) \in Int /\ Latest(e) < i /\ LatestFor(e, d) < i
    BY <1>3, <1>4, <1>7, BoundsAre
  <2> QED
    BY <1>7, <1>9, <2>1, StorePuts
<1>11. pending' = StoreRawCommittedMessage(e, dispatched[i + 1])
  BY <1>1, <1>8
<1>12. Block(pending', 4) /\ pending'[1] = LeafPut(e, i) /\ pending'[2] = LatestPut(e, i)
       /\ pending'[3] = DestinationPut(e, d, i) /\ pending'[4] = MessagePut(e, i)
  BY <1>10, <1>11
<1>13. Latest(e)' = i - 1
  BY <1>1, <1>7, RowsKept
<1>14. LeafPut(e, i)' = LeafPut(e, i) /\ MessagePut(e, i)' = MessagePut(e, i)
  BY <1>1, PutsKept
<1>15. LeafNext(e, i, d)'
  BY <1>12, <1>13, <1>14 DEF LeafNext, LatestPut, DestinationPut
<1>16. BatchFrom(e, i + 1)'
  <2>1. n - 1 \in Nat /\ (i + 1) + (n - 1) <= NumIndices
    BY <1>5, <1>6, <1>7
  <2>2. Block(batch', n - 1) /\ \A k \in 1 .. n - 1 : batch'[k] = batch[k + 1]
    BY <1>1, <1>5, <1>6, TailBlock
  <2>3. \A k \in 1 .. n - 1 : k + 1 \in 1 .. n /\ i + (k + 1) = (i + 1) + k
    BY <1>5, <1>7
  <2>4. \A k \in 1 .. n - 1 : batch'[k] = <<e, dispatched'[(i + 1) + k]>>
    BY <1>1, <1>5, <2>2, <2>3
  <2> QED
    BY <2>1, <2>2, <2>4 DEF BatchFrom
<1>17. dispatched'[i + 1] = Raw(i, d) /\ Storing(e, i, d)'
  BY <1>1, <1>9, <1>15, <1>16 DEF Storing
<1>18. DispatchedInv' /\ RowsInv' /\ NeverAhead'
  BY <1>1, RowsKept DEF DatabaseInv
<1> QED
  BY <1>7, <1>17, <1>18 DEF DatabaseInv, Work

(* A single put, of a table that no other row depends on.                    *)
LEMMA NoteKeeps ==
  ASSUME DatabaseInv, NEW e \in Entities, NEW kind \in {"processed leaf", "message cursor", "payment cursor"},
         NEW x, NEW v, IsFor(kind, x, v), Call(<<PutOf(e, kind, x, v)>>)
  PROVE  DatabaseInv'
<1>1. kv' = kv /\ dispatched' = dispatched /\ batch' = <<>> /\ pending' = <<PutOf(e, kind, x, v)>>
  BY DEF Call, Idle
<1>2. Block(pending', 1) /\ pending'[1] = PutOf(e, kind, x, v)
  BY <1>1, Single DEF Block
<1>3. IsFor(kind, x, v)'
  BY <1>1, RowsKept
<1>4. Noting(e, kind, x, v)'
  BY <1>2, <1>3 DEF Noting
<1>5. Work'
  BY <1>1, <1>4 DEF Work
<1> QED
  BY <1>1, <1>5, RowsKept DEF DatabaseInv

(* Marking a leaf is a single put.                                           *)
LEMMA MarkProcessedKeeps == ASSUME DatabaseInv, NEW e \in Entities, NEW i \in LeafIndices, MarkProcessed(e, i) PROVE DatabaseInv'
<1>1. IsFor("processed leaf", i, 1)
  BY DEF IsFor, FitsRow, ByNothing
<1>2. MarkLeafAsProcessed(e, i) = <<PutOf(e, "processed leaf", i, 1)>>
  BY PutsAre DEF MarkLeafAsProcessed
<1> QED
  BY <1>1, <1>2, NoteKeeps DEF MarkProcessed

(* So is saving a cursor.                                                    *)
LEMMA SaveCursorKeeps == ASSUME DatabaseInv, NEW e \in Entities, NEW i \in LeafIndices, SaveCursor(e, i) PROVE DatabaseInv'
<1>1. IsFor("message cursor", 0, i) /\ IsFor("payment cursor", 0, i)
  BY DEF IsFor, FitsRow, ByNothing
<1>2. /\ StoreRangeStartBlock(e, i) = <<PutOf(e, "message cursor", 0, i)>>
      /\ StoreGasPaymentBlock(e, i) = <<PutOf(e, "payment cursor", 0, i)>>
  BY PutsAre DEF StoreRangeStartBlock, StoreGasPaymentBlock
<1> QED
  BY <1>1, <1>2, NoteKeeps DEF SaveCursor

(* A payment has the types of its rows.                                      *)
LEMMA PaymentIs ==
  ASSUME NEW p \in Payments
  PROVE  /\ p.leaf_index \in U32 /\ p.amount \in U256
         /\ IsArgument("processed payment", p.meta) /\ IsArgument("total", p.leaf_index)
         /\ "processed payment" \in Kinds /\ "total" \in Kinds
<1>1. p \in [meta : {p.meta}, leaf_index : U32, amount : U256]
  BY AbacusDBAssumption
<1>2. p.meta \in [transaction_hash : {p.meta.transaction_hash}, log_index : U256]
  BY AbacusDBAssumption
<1> QED
  BY <1>1, <1>2 DEF IsArgument, ByNothing, ByNumber, Kinds

(* A payment is marked or not.                                               *)
LEMMA PaymentRows ==
  ASSUME RowsInv, NEW e \in Entities, NEW p \in Payments
  PROVE  Row(e, "processed payment", p.meta) \in {{}, {{TRUE}}}
<1>1. \/ Row(e, "processed payment", p.meta) = {}
      \/ \E v : IsFor("processed payment", p.meta, v) /\ Row(e, "processed payment", p.meta) = {{v}}
  BY PaymentIs, ZenonT(40) DEF RowsInv
<1>2. \A v : IsFor("processed payment", p.meta, v) => v = TRUE
  BY DEF IsFor, FitsRow
<1> QED
  BY <1>1, <1>2

(* A payment that is not marked yet is marked, and then added, unless the    *)
(* sum is too large.                                                         *)
LEMMA PayPuts ==
  ASSUME RowsInv, NEW e \in Entities, NEW p \in Payments
  PROVE  LET q == ProcessGasPayment(e, p) IN
         \/ q = <<>>
         \/ /\ Row(e, "processed payment", p.meta) = {} /\ q[1] = ProcessedPut(e, p)
            /\ \/ Block(q, 1)
               \/ Block(q, 2) /\ q[2] = TotalPut(e, p) /\ TotalWith(e, p) \in U256
<1> DEFINE q == ProcessGasPayment(e, p)
<1>1. MetaProcessed(e, p.meta) = Row(e, "processed payment", p.meta)
      /\ GasPaymentForLeaf(e, p.leaf_index) = Row(e, "total", p.leaf_index)
  BY ReadersAre
<1>2. StoreMetaProcessed(e, p.meta) = <<ProcessedPut(e, p)>>
  BY PutsAre DEF StoreMetaProcessed, ProcessedPut
<1>3. UpdateGasPaymentForLeaf(e, p.leaf_index, p.amount)
        = IF TotalWith(e, p) \in U256 THEN <<TotalPut(e, p)>> ELSE <<>>
  <2>1. UpdateGasPaymentForLeaf(e, p.leaf_index, p.amount)
          = IF TotalWith(e, p) \in U256
            THEN Put(Key(e, GAS_PAYMENT_FOR_LEAF, EncodeU32(p.leaf_index)), EncodeU256(TotalWith(e, p))) ELSE <<>>
    BY <1>1 DEF UpdateGasPaymentForLeaf, TotalWith
  <2> QED
    BY <2>1, PutsAre DEF TotalPut
<1>4. CASE Row(e, "processed payment", p.meta) = {{TRUE}}
  <2>1. ValueOr(MetaProcessed(e, p.meta), FALSE) = TRUE
    BY <1>1, <1>4, ValueOrIs, ZenonT(40)
  <2>2. q = <<>>
    BY <2>1 DEF ProcessGasPayment
  <2> QED
    BY <2>2
<1>5. CASE Row(e, "processed payment", p.meta) = {}
  <2>1. ValueOr(MetaProcessed(e, p.meta), FALSE) = FALSE
    BY <1>1, <1>5, ValueOrIs
  <2>2. q = Cat(<<ProcessedPut(e, p)>>, UpdateGasPaymentForLeaf(e, p.leaf_index, p.amount))
    BY <1>2, <2>1 DEF ProcessGasPayment, Cat
  <2> HIDE DEF q
  <2>3. CASE TotalWith(e, p) \in U256
    <3>1. q = Cat(<<ProcessedPut(e, p)>>, <<TotalPut(e, p)>>)
      BY <1>3, <2>2, <2>3
    <3>2. Block(q, 2) /\ q[1] = ProcessedPut(e, p) /\ q[2] = TotalPut(e, p)
      BY <3>1, TwoPuts
    <3> QED
      BY <1>5, <2>3, <3>2 DEF q
  <2>4. CASE TotalWith(e, p) \notin U256
    <3>1. q = Cat(<<ProcessedPut(e, p)>>, <<>>)
      BY <1>3, <2>2, <2>4
    <3>2. q = <<ProcessedPut(e, p)>>
      BY <3>1, Single, Concat DEF Cat
    <3>3. Block(q, 1) /\ q[1] = ProcessedPut(e, p)
      BY <3>2, Single DEF Block
    <3> QED
      BY <1>5, <3>3 DEF q
  <2> QED
    BY <2>3, <2>4
<1> QED
  BY <1>4, <1>5, PaymentRows

(* Its puts are to be done.                                                  *)
LEMMA PayKeeps == ASSUME DatabaseInv, NEW e \in Entities, NEW p \in Payments, Pay(e, p) PROVE DatabaseInv'
<1>1. kv' = kv /\ dispatched' = dispatched /\ batch' = <<>> /\ pending' = ProcessGasPayment(e, p)
  BY DEF Pay, Call, Idle
<1>2. Row(e, "processed payment", p.meta)' = Row(e, "processed payment", p.meta)
      /\ Row(e, "total", p.leaf_index)' = Row(e, "total", p.leaf_index)
  BY <1>1, RowsKept
<1>3. TotalWith(e, p)' = TotalWith(e, p)
  BY <1>2 DEF TotalWith
<1>4. TotalPut(e, p)' = TotalPut(e, p)
  BY <1>3 DEF TotalPut
<1>5. \/ pending' = <<>>
      \/ /\ Row(e, "processed payment", p.meta) = {} /\ pending'[1] = ProcessedPut(e, p)
         /\ \/ Block(pending', 1)
            \/ Block(pending', 2) /\ pending'[2] = TotalPut(e, p) /\ TotalWith(e, p) \in U256
  BY <1>1, PayPuts DEF DatabaseInv
<1>6. CASE pending' = <<>>
  BY <1>1, <1>6, RowsKept DEF DatabaseInv, Work
<1>7. CASE /\ Row(e, "processed payment", p.meta) = {} /\ pending'[1] = ProcessedPut(e, p)
           /\ \/ Block(pending', 1)
              \/ Block(pending', 2) /\ pending'[2] = TotalPut(e, p) /\ TotalWith(e, p) \in U256
  <2>1. Paying(e, p)'
    BY <1>2, <1>3, <1>4, <1>7 DEF Paying, ProcessedPut
  <2>2. Work'
    BY <1>1, <2>1 DEF Work
  <2> QED
    BY <1>1, <2>2, RowsKept DEF DatabaseInv
<1> QED
  BY <1>5, <1>6, <1>7

(* A crash forgets what was to be done.                                      *)
LEMMA CrashKeeps == ASSUME DatabaseInv, Crash PROVE DatabaseInv'
<1>1. kv' = kv /\ dispatched' = dispatched /\ pending' = <<>> /\ batch' = <<>>
  BY DEF Crash
<1> QED
  BY <1>1, RowsKept DEF DatabaseInv, Work

-----------------------------------------------------------------------------
(*****************************************************************************)
(* Flush: the next put becomes durable.                                     *)
(*****************************************************************************)

(* The puts that are left after the first.                                   *)
LEMMA Tails ==
  ASSUME NEW s
  PROVE  /\ Block(s, 4) => Block(Tail(s), 3) /\ Tail(s)[1] = s[2] /\ Tail(s)[2] = s[3] /\ Tail(s)[3] = s[4]
         /\ Block(s, 3) => Block(Tail(s), 2) /\ Tail(s)[1] = s[2] /\ Tail(s)[2] = s[3]
         /\ Block(s, 2) => Block(Tail(s), 1) /\ Tail(s)[1] = s[2]
<1>1. /\ 4 - 1 = 3 /\ 3 - 1 = 2 /\ 2 - 1 = 1 /\ 1 + 1 = 2 /\ 2 + 1 = 3 /\ 3 + 1 = 4
  OBVIOUS
<1>2. ASSUME NEW n \in {2, 3, 4}, Block(s, n)
      PROVE  Block(Tail(s), n - 1) /\ \A i \in 1 .. n - 1 : Tail(s)[i] = s[i + 1]
  <2>1. n \in Nat /\ n >= 1
    OBVIOUS
  <2> QED
    BY <1>2, <2>1, TailBlock
<1>3. ASSUME Block(s, 4)
      PROVE  Block(Tail(s), 3) /\ Tail(s)[1] = s[2] /\ Tail(s)[2] = s[3] /\ Tail(s)[3] = s[4]
  <2>1. Block(Tail(s), 4 - 1) /\ \A i \in 1 .. 4 - 1 : Tail(s)[i] = s[i + 1]
    BY <1>2, <1>3
  <2>2. 1 \in 1 .. 4 - 1 /\ 2 \in 1 .. 4 - 1 /\ 3 \in 1 .. 4 - 1
    OBVIOUS
  <2> QED
    BY <1>1, <2>1, <2>2
<1>4. ASSUME Block(s, 3)
      PROVE  Block(Tail(s), 2) /\ Tail(s)[1] = s[2] /\ Tail(s)[2] = s[3]
  <2>1. Block(Tail(s), 3 - 1) /\ \A i \in 1 .. 3 - 1 : Tail(s)[i] = s[i + 1]
    BY <1>2, <1>4
  <2>2. 1 \in 1 .. 3 - 1 /\ 2 \in 1 .. 3 - 1
    OBVIOUS
  <2> QED
    BY <1>1, <2>1, <2>2
<1>5. ASSUME Block(s, 2)
      PROVE  Block(Tail(s), 1) /\ Tail(s)[1] = s[2]
  <2>1. Block(Tail(s), 2 - 1) /\ \A i \in 1 .. 2 - 1 : Tail(s)[i] = s[i + 1]
    BY <1>2, <1>5
  <2>2. 1 \in 1 .. 2 - 1
    OBVIOUS
  <2> QED
    BY <1>1, <2>1, <2>2
<1> QED
  BY <1>3, <1>4, <1>5

(* The put that a flush makes durable.                                         *)
NextPut(e, kind, x, v) == IsFor(kind, x, v) /\ pending[1] = PutOf(e, kind, x, v)

(* No other row changes.                                                     *)
LEMMA FlushKeepsOthers ==
  ASSUME DatabaseInv, Flush, NEW e \in Entities, NEW kind \in Kinds, NEW x, NEW v, NextPut(e, kind, x, v)
  PROVE  OthersKept(e, kind, x) /\ Row(e, kind, x)' = {{v}}
<1>1. IsFor(kind, x, v) /\ pending[1] = PutOf(e, kind, x, v) /\ DispatchedInv /\ RowsInv
  BY DEF NextPut, DatabaseInv
<1> QED
  BY <1>1, FlushKeepsRows

(* A put that is neither of the two latest indices leaves them as they are.    *)
LEMMA OtherFlushed ==
  ASSUME DatabaseInv, Flush, NEW e \in Entities, NEW kind \in Kinds, NEW x, NEW v, NextPut(e, kind, x, v),
         kind # "latest", kind # "latest for destination"
  PROVE  /\ DispatchedInv' /\ RowsInv' /\ NeverAhead'
         /\ batch' = batch /\ dispatched' = dispatched /\ pending' = Tail(pending)
         /\ \A f \in Entities : Latest(f)' = Latest(f)
         /\ Row(e, kind, x)' = {{v}}
<1>1. IsFor(kind, x, v) /\ pending[1] = PutOf(e, kind, x, v) /\ DispatchedInv /\ RowsInv
  BY DEF NextPut, DatabaseInv
<1>2. /\ DispatchedInv' /\ RowsInv'
      /\ batch' = batch /\ dispatched' = dispatched /\ pending' = Tail(pending)
      /\ Row(e, kind, x)' = {{v}}
  BY <1>1, FlushKeepsRows
<1>3. /\ \A f \in Entities : Latest(f)' = IF f = e /\ kind = "latest" THEN v ELSE Latest(f)
      /\ \A f \in Entities, d \in Destinations :
           LatestFor(f, d)' = IF f = e /\ kind = "latest for destination" /\ x = d THEN v ELSE LatestFor(f, d)
      /\ \A f \in Entities, i \in LeafIndices : Row(f, "leaf", i) # {} => Row(f, "leaf", i)' # {}
  <2>1. FlushedLatest(e, kind, x, v)
    BY <1>1, FlushLatest
  <2> QED
    BY <2>1 DEF FlushedLatest
<1>4. /\ \A f \in Entities : Latest(f)' = Latest(f)
      /\ \A f \in Entities, d \in Destinations : LatestFor(f, d)' = LatestFor(f, d)
  BY <1>3
<1>5. NeverAhead'
  BY <1>3, <1>4 DEF DatabaseInv, NeverAhead
<1> QED
  BY <1>2, <1>4, <1>5

(* The leaf's put: the leaf is there before an index counts it.              *)
LEMMA LeafFlushed ==
  ASSUME DatabaseInv, Flush, NEW e \in Entities, NEW i \in LeafIndices, NEW d \in Destinations,
         dispatched[i + 1] = Raw(i, d), BatchFrom(e, i + 1), LeafNext(e, i, d)
  PROVE  DatabaseInv' /\ NextPut(e, "leaf", i, LeafAt(i))
<1>1. NextPut(e, "leaf", i, LeafAt(i)) /\ "leaf" \in Kinds
  BY DEF NextPut, LeafNext, LeafPut, IsFor, FitsRow, ByNothing, LeafAt, Kinds, ByNumber
<1>2. /\ DispatchedInv' /\ RowsInv' /\ NeverAhead'
      /\ batch' = batch /\ dispatched' = dispatched /\ pending' = Tail(pending)
      /\ Latest(e)' = Latest(e) /\ Row(e, "leaf", i)' = {{LeafAt(i)}}
  BY <1>1, OtherFlushed
<1>3. /\ Block(pending, 4) /\ pending[2] = LatestPut(e, i) /\ pending[3] = DestinationPut(e, d, i)
      /\ pending[4] = MessagePut(e, i) /\ Latest(e) = i - 1
  BY DEF LeafNext
<1>4. Block(pending', 3) /\ pending'[1] = LatestPut(e, i) /\ pending'[2] = DestinationPut(e, d, i)
      /\ pending'[3] = MessagePut(e, i)
  BY <1>2, <1>3, Tails
<1>5. MessagePut(e, i)' = MessagePut(e, i)
  BY <1>2, PutsKept
<1>6. LatestNext(e, i, d)'
  BY <1>2, <1>3, <1>4, <1>5 DEF LatestNext, LatestPut, DestinationPut
<1>7. BatchFrom(e, i + 1)'
  BY <1>2, BatchKept
<1>8. Storing(e, i, d)' /\ dispatched'[i + 1] = Raw(i, d)
  BY <1>2, <1>6, <1>7 DEF Storing
<1>9. Work'
  BY <1>8 DEF Work
<1> QED
  BY <1>1, <1>2, <1>9 DEF DatabaseInv

(* The latest index's put: its leaf is there, and the latest index grows by  *)
(* one.                                                                      *)
LEMMA LatestFlushed ==
  ASSUME DatabaseInv, Flush, NEW e \in Entities, NEW i \in LeafIndices, NEW d \in Destinations,
         dispatched[i + 1] = Raw(i, d), BatchFrom(e, i + 1), LatestNext(e, i, d)
  PROVE  DatabaseInv' /\ NextPut(e, "latest", 0, i) /\ Latest(e) < i
<1>1. IsFor("latest", 0, i) /\ "latest" \in Kinds
  BY DEF IsFor, FitsRow, ByNothing, Kinds
<1>2. pending[1] = PutOf(e, "latest", 0, i)
  BY DEF LatestNext, LatestPut
<1>3. /\ DispatchedInv' /\ RowsInv' /\ batch' = batch /\ dispatched' = dispatched /\ pending' = Tail(pending)
  BY <1>1, <1>2, FlushKeepsRows DEF DatabaseInv
<1>4. /\ \A f \in Entities : Latest(f)' = IF f = e THEN i ELSE Latest(f)
      /\ \A f \in Entities, c \in Destinations : LatestFor(f, c)' = LatestFor(f, c)
      /\ \A f \in Entities, j \in LeafIndices : Row(f, "leaf", j) # {} => Row(f, "leaf", j)' # {}
  <2>1. /\ \A f \in Entities : Latest(f)' = IF f = e /\ "latest" = "latest" THEN i ELSE Latest(f)
        /\ \A f \in Entities, c \in Destinations :
             LatestFor(f, c)' = IF f = e /\ "latest" = "latest for destination" /\ 0 = c THEN i ELSE LatestFor(f, c)
        /\ \A f \in Entities, j \in LeafIndices : Row(f, "leaf", j) # {} => Row(f, "leaf", j)' # {}
    <3>1. DispatchedInv /\ RowsInv
      BY DEF DatabaseInv
    <3>2. FlushedLatest(e, "latest", 0, i)
      BY <1>1, <1>2, <3>1, FlushLatest
    <3> QED
      BY <3>2 DEF FlushedLatest
  <2>2. "latest" # "latest for destination"
    OBVIOUS
  <2> QED
    BY <2>1, <2>2
<1>5. /\ Block(pending, 3) /\ pending[2] = DestinationPut(e, d, i) /\ pending[3] = MessagePut(e, i)
      /\ Latest(e) = i - 1 /\ Row(e, "leaf", i) # {}
  BY DEF LatestNext
<1>6. i \in Nat /\ \A j \in LeafIndices : j \in Nat
  BY BoundsAre
<1>7. \A c \in Destinations : LatestFor(e, c) \in Int /\ LatestFor(e, c) <= Latest(e)
  <2>1. \A c \in Destinations : LatestFor(e, c) \in LeafIndices \cup {-1}
    BY LatestIs DEF DatabaseInv
  <2>2. \A c \in Destinations : LatestFor(e, c) <= Latest(e)
    BY DEF DatabaseInv, NeverAhead
  <2>3. \A n \in LeafIndices \cup {-1} : n \in Int
    BY <1>6
  <2> QED
    BY <2>1, <2>2, <2>3
<1>8. NeverAhead'
  <2>1. ASSUME NEW f \in Entities
        PROVE  /\ \A j \in LeafIndices : j <= Latest(f)' => Row(f, "leaf", j)' # {}
               /\ \A c \in Destinations : LatestFor(f, c)' <= Latest(f)'
    <3>1. CASE f = e
      <4>1. \A j \in LeafIndices : j <= i => j <= Latest(e) \/ j = i
        BY <1>5, <1>6
      <4>2. \A j \in LeafIndices : j <= Latest(e) => Row(e, "leaf", j) # {}
        BY DEF DatabaseInv, NeverAhead
      <4>3. \A c \in Destinations : LatestFor(e, c) <= i
        BY <1>5, <1>6, <1>7
      <4> QED
        BY <1>4, <1>5, <3>1, <4>1, <4>2, <4>3
    <3>2. CASE f # e
      BY <1>4, <3>2 DEF DatabaseInv, NeverAhead
    <3> QED
      BY <3>1, <3>2
  <2> QED
    BY <2>1 DEF NeverAhead
<1>9. Block(pending', 2) /\ pending'[1] = pending[2] /\ pending'[2] = pending[3]
  BY <1>3, <1>5, Tails
<1>10. LatestFor(e, d) < i
  BY <1>5, <1>6, <1>7
<1>14. MessagePut(e, i)' = MessagePut(e, i) /\ BatchFrom(e, i + 1)'
  BY <1>3, PutsKept, BatchKept
<1>11. DestinationNext(e, i, d)'
  BY <1>4, <1>5, <1>9, <1>10, <1>14 DEF DestinationNext, DestinationPut
<1>12. Storing(e, i, d)' /\ dispatched'[i + 1] = Raw(i, d)
  BY <1>3, <1>11, <1>14 DEF Storing
<1>13. Latest(e) < i
  BY <1>5, <1>6
<1> QED
  BY <1>1, <1>2, <1>3, <1>8, <1>12, <1>13 DEF DatabaseInv, Work, NextPut

(* The destination's put: its index is not above the latest one, which was   *)
(* put before.                                                               *)
LEMMA DestinationFlushed ==
  ASSUME DatabaseInv, Flush, NEW e \in Entities, NEW i \in LeafIndices, NEW d \in Destinations,
         dispatched[i + 1] = Raw(i, d), BatchFrom(e, i + 1), DestinationNext(e, i, d)
  PROVE  DatabaseInv' /\ NextPut(e, "latest for destination", d, i) /\ LatestFor(e, d) < i
<1>1. IsFor("latest for destination", d, i) /\ "latest for destination" \in Kinds
  BY DEF IsFor, FitsRow, ByNothing, Kinds, ByNumber
<1>2. pending[1] = PutOf(e, "latest for destination", d, i)
  BY DEF DestinationNext, DestinationPut
<1>3. /\ DispatchedInv' /\ RowsInv' /\ batch' = batch /\ dispatched' = dispatched /\ pending' = Tail(pending)
  BY <1>1, <1>2, FlushKeepsRows DEF DatabaseInv
<1>4. /\ \A f \in Entities : Latest(f)' = Latest(f)
      /\ \A f \in Entities, c \in Destinations : LatestFor(f, c)' = IF f = e /\ c = d THEN i ELSE LatestFor(f, c)
      /\ \A f \in Entities, j \in LeafIndices : Row(f, "leaf", j) # {} => Row(f, "leaf", j)' # {}
  <2>1. /\ \A f \in Entities : Latest(f)' = IF f = e /\ "latest for destination" = "latest" THEN i ELSE Latest(f)
        /\ \A f \in Entities, c \in Destinations :
             LatestFor(f, c)'
               = IF f = e /\ "latest for destination" = "latest for destination" /\ d = c THEN i ELSE LatestFor(f, c)
        /\ \A f \in Entities, j \in LeafIndices : Row(f, "leaf", j) # {} => Row(f, "leaf", j)' # {}
    <3>1. DispatchedInv /\ RowsInv
      BY DEF DatabaseInv
    <3>2. FlushedLatest(e, "latest for destination", d, i)
      BY <1>1, <1>2, <3>1, FlushLatest
    <3> QED
      BY <3>2 DEF FlushedLatest
  <2>2. "latest" # "latest for destination"
    OBVIOUS
  <2> QED
    BY <2>1, <2>2
<1>5. /\ Block(pending, 2) /\ pending[2] = MessagePut(e, i) /\ Latest(e) = i /\ LatestFor(e, d) < i
  BY DEF DestinationNext
<1>6. NeverAhead'
  <2>1. i <= i
    BY BoundsAre
  <2> QED
    BY <1>4, <1>5, <2>1 DEF DatabaseInv, NeverAhead
<1>7. Block(pending', 1) /\ pending'[1] = pending[2]
  BY <1>3, <1>5, Tails
<1>10. MessagePut(e, i)' = MessagePut(e, i) /\ BatchFrom(e, i + 1)'
  BY <1>3, PutsKept, BatchKept
<1>8. MessageNext(e, i)'
  BY <1>4, <1>5, <1>7, <1>10 DEF MessageNext
<1>9. Storing(e, i, d)' /\ dispatched'[i + 1] = Raw(i, d)
  BY <1>3, <1>8, <1>10 DEF Storing
<1> QED
  BY <1>1, <1>2, <1>3, <1>5, <1>6, <1>9 DEF DatabaseInv, Work, NextPut

(* After the last put nothing waits.                                         *)
LEMMA Drained == ASSUME Block(pending, 1), Flush PROVE pending' = <<>>
<1>1. 1 - 1 = 0 /\ 1 \in Nat /\ 1 >= 1
  OBVIOUS
<1>2. Block(Tail(pending), 0)
  BY ONLY <1>1, Block(pending, 1), TailBlock
<1> QED
  BY <1>2, EmptyBlock DEF Flush

(* The message's put, the last: the batch goes on above the latest index.    *)
LEMMA MessageFlushed ==
  ASSUME DatabaseInv, Flush, NEW e \in Entities, NEW i \in LeafIndices, BatchFrom(e, i + 1), MessageNext(e, i)
  PROVE  DatabaseInv' /\ NextPut(e, "message", LeafAt(i), dispatched[i + 1])
<1>1. NextPut(e, "message", LeafAt(i), dispatched[i + 1]) /\ "message" \in Kinds
  BY DEF NextPut, MessageNext, MessagePut, IsFor, FitsRow, ByNothing, LeafAt, Kinds
<1>2. /\ DispatchedInv' /\ RowsInv' /\ NeverAhead'
      /\ batch' = batch /\ dispatched' = dispatched
      /\ Latest(e)' = Latest(e)
  BY <1>1, OtherFlushed
<1>3. pending' = <<>> /\ Latest(e)' = i
  BY <1>2, Drained DEF MessageNext
<1>4. BatchFrom(e, i + 1)'
  BY <1>2, BatchKept
<1>5. BatchFrom(e, Latest(e) + 1)'
  BY <1>3, <1>4 DEF BatchFrom
<1> QED
  BY <1>1, <1>2, <1>3, <1>5 DEF DatabaseInv, Work

(* The single put.                                                           *)
LEMMA NoteFlushed ==
  ASSUME DatabaseInv, Flush, batch = <<>>, NEW e \in Entities,
         NEW kind \in {"processed leaf", "message cursor", "payment cursor"}, NEW x, NEW v, Noting(e, kind, x, v)
  PROVE  DatabaseInv' /\ NextPut(e, kind, x, v)
<1>1. NextPut(e, kind, x, v) /\ Block(pending, 1)
  BY DEF Noting, NextPut
<1>2. kind \in Kinds /\ kind # "latest" /\ kind # "latest for destination"
  BY DEF Kinds, ByNothing, ByNumber
<1>3. DispatchedInv' /\ RowsInv' /\ NeverAhead' /\ batch' = batch
  BY <1>1, <1>2, OtherFlushed
<1>4. pending' = <<>>
  BY <1>1, Drained
<1> QED
  BY <1>1, <1>3, <1>4 DEF DatabaseInv, Work

(* The mark's put comes before the total's.                                  *)
LEMMA PaymentFlushed ==
  ASSUME DatabaseInv, Flush, batch = <<>>, NEW e \in Entities, NEW p \in Payments, Paying(e, p)
  PROVE  /\ DatabaseInv'
         /\ \/ /\ Row(e, "processed payment", p.meta) = {}
               /\ NextPut(e, "processed payment", p.meta, TRUE)
            \/ /\ Row(e, "processed payment", p.meta) = {{TRUE}}
               /\ NextPut(e, "total", p.leaf_index, TotalWith(e, p))
<1>1. CASE Row(e, "processed payment", p.meta) = {} /\ pending[1] = ProcessedPut(e, p)
  <2>1. "processed payment" \in Kinds /\ "total" \in Kinds /\ IsArgument("total", p.leaf_index)
    BY PaymentIs
  <2>2. NextPut(e, "processed payment", p.meta, TRUE)
    BY <1>1 DEF NextPut, ProcessedPut, IsFor, FitsRow, ByNothing
  <2>3. /\ DispatchedInv' /\ RowsInv' /\ NeverAhead' /\ batch' = batch /\ pending' = Tail(pending)
        /\ Row(e, "processed payment", p.meta)' = {{TRUE}}
    BY <2>1, <2>2, OtherFlushed
  <2>4. Row(e, "total", p.leaf_index)' = Row(e, "total", p.leaf_index)
    <3>1. OthersKept(e, "processed payment", p.meta)
      BY <2>1, <2>2, FlushKeepsOthers
    <3>3. "total" # "processed payment"
      OBVIOUS
    <3> QED
      BY <2>1, <3>1, <3>3 DEF OthersKept
  <2>5. Work'
    <3>1. CASE Block(pending, 1)
      BY <2>3, <3>1, Drained DEF Work
    <3>2. CASE Block(pending, 2) /\ pending[2] = TotalPut(e, p) /\ TotalWith(e, p) \in U256
      <4>1. Block(pending', 1) /\ pending'[1] = TotalPut(e, p)
        BY <2>3, <3>2, Tails
      <4>2. TotalWith(e, p)' = TotalWith(e, p)
        BY <2>4 DEF TotalWith
      <4>3. TotalPut(e, p)' = TotalPut(e, p)
        BY <4>2 DEF TotalPut
      <4>4. Paying(e, p)'
        BY <2>3, <3>2, <4>1, <4>2, <4>3 DEF Paying
      <4> QED
        BY <2>3, <4>4 DEF Work
    <3>3. Row(e, "processed payment", p.meta) # {{TRUE}}
      BY <1>1
    <3> QED
      BY <3>1, <3>2, <3>3 DEF Paying
  <2> QED
    BY <1>1, <2>2, <2>3, <2>5 DEF DatabaseInv
<1>2. CASE /\ Row(e, "processed payment", p.meta) = {{TRUE}}
           /\ Block(pending, 1) /\ pending[1] = TotalPut(e, p) /\ TotalWith(e, p) \in U256
  <2>1. NextPut(e, "total", p.leaf_index, TotalWith(e, p))
    BY <1>2, PaymentIs DEF NextPut, TotalPut, IsFor, FitsRow, ByNothing
  <2>2. "total" \in Kinds
    BY PaymentIs
  <2>3. DispatchedInv' /\ RowsInv' /\ NeverAhead' /\ batch' = batch
    BY <2>1, <2>2, OtherFlushed
  <2>4. pending' = <<>>
    BY <1>2, Drained
  <2> QED
    BY <1>2, <2>1, <2>3, <2>4 DEF DatabaseInv, Work
<1> QED
  BY <1>1, <1>2 DEF Paying

(* What is to be done stays, when nothing changes.                           *)
LEMMA WorkKept ==
  ASSUME Work, kv' = kv, dispatched' = dispatched, pending' = pending, batch' = batch
  PROVE  Work'
<1>1. /\ \A e, kind, x : Row(e, kind, x)' = Row(e, kind, x)
      /\ \A e : Latest(e)' = Latest(e)
      /\ \A e, d : LatestFor(e, d)' = LatestFor(e, d)
      /\ \A kind, x, v : IsFor(kind, x, v)' = IsFor(kind, x, v)
  BY RowsKept
<1>2. \A e, i : BatchFrom(e, i) => BatchFrom(e, i)'
  BY BatchKept
<1>3. \A e, i : BatchFrom(e, Latest(e) + 1) => BatchFrom(e, Latest(e) + 1)'
  BY <1>1 DEF BatchFrom
<1>4. ASSUME NEW e, NEW i, NEW d
      PROVE  Storing(e, i, d) => Storing(e, i, d)'
  <2>1. LeafPut(e, i)' = LeafPut(e, i) /\ MessagePut(e, i)' = MessagePut(e, i)
    BY PutsKept
  <2>2. LatestPut(e, i)' = LatestPut(e, i) /\ DestinationPut(e, d, i)' = DestinationPut(e, d, i)
    BY DEF LatestPut, DestinationPut
  <2>3. LeafNext(e, i, d) => LeafNext(e, i, d)'
    BY <1>1, <2>1, <2>2 DEF LeafNext
  <2>4. LatestNext(e, i, d) => LatestNext(e, i, d)'
    BY <1>1, <2>1, <2>2 DEF LatestNext
  <2>5. DestinationNext(e, i, d) => DestinationNext(e, i, d)'
    BY <1>1, <2>1, <2>2 DEF DestinationNext
  <2>6. MessageNext(e, i) => MessageNext(e, i)'
    BY <1>1, <2>1 DEF MessageNext
  <2> QED
    BY <1>2, <2>3, <2>4, <2>5, <2>6 DEF Storing
<1>5. \A e, p : Paying(e, p) => Paying(e, p)'
  <2>1. \A e, p : TotalWith(e, p)' = TotalWith(e, p)
    BY <1>1 DEF TotalWith
  <2>2. \A e, p : TotalPut(e, p)' = TotalPut(e, p)
    BY <2>1 DEF TotalPut
  <2> QED
    BY <1>1, <2>1, <2>2 DEF Paying, ProcessedPut
<1>6. \A e, kind, x, v : Noting(e, kind, x, v) => Noting(e, kind, x, v)'
  BY <1>1 DEF Noting
<1> QED
  <2>1. CASE pending = <<>> /\ batch = <<>>
    BY <2>1 DEF Work
  <2>2. CASE pending = <<>> /\ \E e \in Entities : BatchFrom(e, Latest(e) + 1)
    BY <1>3, <2>2 DEF Work
  <2>3. CASE \E e \in Entities, i \in LeafIndices, d \in Destinations : dispatched[i + 1] = Raw(i, d) /\ Storing(e, i, d)
    <3>1. PICK e \in Entities, i \in LeafIndices, d \in Destinations : dispatched[i + 1] = Raw(i, d) /\ Storing(e, i, d)
      BY <2>3
    <3>2. dispatched'[i + 1] = Raw(i, d) /\ Storing(e, i, d)'
      BY <1>4, <3>1
    <3> QED
      BY <3>2 DEF Work
  <2>4. CASE batch = <<>> /\ \E e \in Entities, p \in Payments : Paying(e, p)
    BY <1>5, <2>4 DEF Work
  <2>5. CASE batch = <<>> /\ \E e \in Entities, kind \in {"processed leaf", "message cursor", "payment cursor"} : \E x, v :
                               Noting(e, kind, x, v)
    BY <1>6, <2>5, ZenonT(40) DEF Work
  <2> QED
    BY <2>1, <2>2, <2>3, <2>4, <2>5 DEF Work

(* A flush keeps the invariant, whichever put is next.                       *)
LEMMA FlushKeeps == ASSUME DatabaseInv, Flush PROVE DatabaseInv'
<1>1. pending # <<>>
  BY DEF Flush
<1>2. ASSUME NEW e \in Entities, NEW i \in LeafIndices, NEW d \in Destinations,
             dispatched[i + 1] = Raw(i, d), Storing(e, i, d)
      PROVE  DatabaseInv'
  BY <1>2, LeafFlushed, LatestFlushed, DestinationFlushed, MessageFlushed DEF Storing
<1>3. ASSUME batch = <<>>, NEW e \in Entities, NEW p \in Payments, Paying(e, p)
      PROVE  DatabaseInv'
  BY <1>3, PaymentFlushed
<1>4. ASSUME batch = <<>>, NEW e \in Entities, NEW kind \in {"processed leaf", "message cursor", "payment cursor"},
             NEW x, NEW v, Noting(e, kind, x, v)
      PROVE  DatabaseInv'
  BY <1>4, NoteFlushed
<1> QED
  BY <1>1, <1>2, <1>3, <1>4, PendingKinds DEF DatabaseInv

(* The invariant holds in every state, also between the puts of an operation *)
(* and after a crash there.                                                  *)
THEOREM DatabaseInvariant == DatabaseSpec => []DatabaseInv
<1>1. DatabaseInv /\ [DatabaseNext]_database_vars => DatabaseInv'
  <2>1. SUFFICES ASSUME DatabaseInv, [DatabaseNext]_database_vars
                 PROVE  DatabaseInv'
    OBVIOUS
  <2>2. ASSUME NEW e \in Entities, StoreMessages(e)
        PROVE  DatabaseInv'
    BY <2>1, <2>2, StoreMessagesKeeps
  <2>3. ASSUME NEW e \in Entities, NEW i \in LeafIndices, MarkProcessed(e, i) \/ SaveCursor(e, i)
        PROVE  DatabaseInv'
    BY <2>1, <2>3, MarkProcessedKeeps, SaveCursorKeeps
  <2>4. ASSUME NEW e \in Entities, NEW p \in Payments, Pay(e, p)
        PROVE  DatabaseInv'
    BY <2>1, <2>4, PayKeeps
  <2>5. CASE StoreLatestMessage
    BY <2>1, <2>5, StoreLatestMessageKeeps
  <2>6. CASE Flush
    BY <2>1, <2>6, FlushKeeps
  <2>7. CASE Crash
    BY <2>1, <2>7, CrashKeeps
  <2>8. CASE UNCHANGED database_vars
    <3>1. kv' = kv /\ dispatched' = dispatched /\ pending' = pending /\ batch' = batch
      BY <2>8 DEF database_vars
    <3>2. DispatchedInv' /\ RowsInv' /\ NeverAhead'
      BY <2>1, <3>1, RowsKept DEF DatabaseInv
    <3>3. Work'
      BY <2>1, <3>1, WorkKept DEF DatabaseInv
    <3> QED
      BY <3>2, <3>3 DEF DatabaseInv
  <2> QED
    BY <2>1, <2>2, <2>3, <2>4, <2>5, <2>6, <2>7, <2>8 DEF DatabaseNext
<1> QED
  BY <1>1, InitHolds, PTL DEF DatabaseSpec

-----------------------------------------------------------------------------
(*****************************************************************************)
(* What the invariant gives: the three invariants that a run checks.        *)
(*****************************************************************************)

(* A row that is present decodes.                                            *)
LEMMA RowReads ==
  ASSUME RowsInv, NEW e \in Entities, NEW kind \in Kinds, NEW x, IsArgument(kind, x)
  PROVE  Readable(Row(e, kind, x))
<1>1. Row(e, kind, x) = {} \/ \E v : Row(e, kind, x) = {{v}}
  BY DEF RowsInv
<1> QED
  BY <1>1 DEF Readable

(* What is read through the leaf at an index is the message at that index.     *)
LEMMA MessageReads ==
  ASSUME DispatchedInv, RowsInv, NEW e \in Entities, NEW i \in LeafIndices
  PROVE  /\ Row(e, "leaf", i) \in {{}, {{LeafAt(i)}}}
         /\ Row(e, "message", LeafAt(i)) \in {{}, {{dispatched[i + 1]}}}
         /\ MessageByLeafIndex(e, i)
              = IF Row(e, "leaf", i) = {} THEN {} ELSE Row(e, "message", LeafAt(i))
<1>1. "leaf" \in Kinds /\ "message" \in Kinds /\ IsArgument("leaf", i) /\ IsArgument("message", LeafAt(i))
  BY BoundsAre DEF Kinds, ByNothing, ByNumber, IsArgument
<1>2. Row(e, "leaf", i) \in {{}, {{LeafAt(i)}}}
  <2>1. Row(e, "leaf", i) = {} \/ \E v : IsFor("leaf", i, v) /\ Row(e, "leaf", i) = {{v}}
    BY <1>1 DEF RowsInv
  <2>2. \A v : IsFor("leaf", i, v) => v = LeafAt(i)
    BY DEF IsFor, FitsRow, LeafAt
  <2> QED
    BY <2>1, <2>2
<1>3. Row(e, "message", LeafAt(i)) \in {{}, {{dispatched[i + 1]}}}
  <2>1. \/ Row(e, "message", LeafAt(i)) = {}
        \/ \E v : IsFor("message", LeafAt(i), v) /\ Row(e, "message", LeafAt(i)) = {{v}}
    BY <1>1 DEF RowsInv
  <2>2. ASSUME NEW v, IsFor("message", LeafAt(i), v)
        PROVE  v = dispatched[i + 1]
    <3>1. PICK j \in LeafIndices : LeafAt(i) = LeafAt(j) /\ v = dispatched[j + 1]
      BY <2>2 DEF IsFor, FitsRow, LeafAt
    <3> QED
      BY <3>1, DispatchedIs
  <2> QED
    BY <2>1, <2>2
<1>4. MessageByLeafIndex(e, i) = UNION {Row(e, "message", leaf) : leaf \in UNION Row(e, "leaf", i)}
  <2>1. LeafByLeafIndex(e, i) = Row(e, "leaf", i) /\ \A x : MessageByLeaf(e, x) = Row(e, "message", x)
    BY ReadersAre
  <2> QED
    BY <2>1 DEF MessageByLeafIndex
<1>5. CASE Row(e, "leaf", i) = {}
  BY <1>2, <1>3, <1>4, <1>5
<1>6. CASE Row(e, "leaf", i) = {{LeafAt(i)}}
  <2>1. UNION Row(e, "leaf", i) = {LeafAt(i)}
    BY <1>6
  <2>2. MessageByLeafIndex(e, i) = Row(e, "message", LeafAt(i))
    BY <1>4, <2>1
  <2> QED
    BY <1>2, <1>3, <1>6, <2>2
<1> QED
  BY <1>2, <1>5, <1>6

(* Every row that was put decodes, and a message read by its index is the    *)
(* one                                                                       *)
(* dispatched there (AbacusDB's retrieve operations never end in a decoding  *)
(* error).                                                                   *)
THEOREM ReadsBackHolds == DatabaseSpec => []ReadsBack
<1>1. DatabaseInv => ReadsBack
  <2>1. SUFFICES ASSUME DatabaseInv, NEW e \in Entities
                 PROVE  /\ Readable(LatestLeafIndex(e)) /\ Readable(RangeStartBlock(e)) /\ Readable(GasPaymentBlock(e))
                        /\ \A d \in Destinations : Readable(LatestLeafIndexForDestination(e, d))
                        /\ \A p \in Payments : Readable(MetaProcessed(e, p.meta))
                        /\ \A i \in LeafIndices :
                             /\ Readable(StatusRow(e, i)) /\ Readable(GasPaymentForLeaf(e, i))
                             /\ Readable(LeafByLeafIndex(e, i))
                             /\ MessageByLeafIndex(e, i) \subseteq {{dispatched[i + 1]}}
    BY DEF ReadsBack
  <2>2. RowsInv /\ DispatchedInv
    BY <2>1 DEF DatabaseInv
  <2>3. /\ \A kind \in ByNothing : kind \in Kinds /\ IsArgument(kind, 0)
        /\ \A kind \in ByNumber : kind \in Kinds /\ \A x \in U32 : IsArgument(kind, x)
    BY DEF Kinds, ByNothing, ByNumber, IsArgument
  <2>4. /\ \A kind \in ByNothing : Readable(Row(e, kind, 0))
        /\ \A kind \in ByNumber : \A x \in U32 : Readable(Row(e, kind, x))
    BY <2>2, <2>3, RowReads
  <2>5. Readable(LatestLeafIndex(e)) /\ Readable(RangeStartBlock(e)) /\ Readable(GasPaymentBlock(e))
    BY <2>4, ReadersAre DEF ByNothing
  <2>6. \A d \in Destinations : Readable(LatestLeafIndexForDestination(e, d))
    BY <2>4, BoundsAre, ReadersAre DEF ByNumber
  <2>7. ASSUME NEW p \in Payments
        PROVE  Readable(MetaProcessed(e, p.meta))
    <3>1. Readable(Row(e, "processed payment", p.meta))
      BY <2>2, PaymentIs, RowReads
    <3> QED
      BY <3>1, ReadersAre
  <2>8. \A i \in LeafIndices : Readable(StatusRow(e, i)) /\ Readable(GasPaymentForLeaf(e, i)) /\ Readable(LeafByLeafIndex(e, i))
    BY <2>4, BoundsAre, ReadersAre DEF ByNumber
  <2>9. \A i \in LeafIndices : MessageByLeafIndex(e, i) \subseteq {{dispatched[i + 1]}}
    BY <2>2, MessageReads
  <2> QED
    BY <2>5, <2>6, <2>7, <2>8, <2>9
<1> QED
  BY <1>1, DatabaseInvariant, PTL

(* Wherever a crash cuts store_leaf, the latest index counts no missing leaf *)
(* and                                                                       *)
(* that of a destination is not above it.                                    *)
THEOREM LatestNeverAheadHolds == DatabaseSpec => []LatestNeverAhead
<1>1. DatabaseInv => LatestNeverAhead
  <2>1. SUFFICES ASSUME DatabaseInv, NEW e \in Entities
                 PROVE  LET newest == ValueOr(LatestLeafIndex(e), NoIndex) IN
                        /\ \A i \in LeafIndices : i <= newest => LeafByLeafIndex(e, i) # {}
                        /\ \A d \in Destinations : ValueOr(LatestLeafIndexForDestination(e, d), NoIndex) <= newest
    BY DEF LatestNeverAhead
  <2>2. /\ LatestLeafIndex(e) = Row(e, "latest", 0)
        /\ \A x : LeafByLeafIndex(e, x) = Row(e, "leaf", x)
        /\ \A x : LatestLeafIndexForDestination(e, x) = Row(e, "latest for destination", x)
    BY ReadersAre
  <2> QED
    BY <2>1, <2>2 DEF DatabaseInv, NeverAhead, Latest, LatestFor
<1> QED
  BY <1>1, DatabaseInvariant, PTL

(* The first message of a batch is a dispatched one.                         *)
LEMMA FirstOfBatch ==
  ASSUME NEW e \in Entities, NEW i \in Nat, BatchFrom(e, i), batch # <<>>
  PROVE  \E j \in LeafIndices : batch[1] = <<e, dispatched[j + 1]>>
<1>1. PICK n \in Nat : i + n <= NumIndices /\ Block(batch, n) /\ \A k \in 1 .. n : batch[k] = <<e, dispatched[i + k]>>
  BY DEF BatchFrom
<1>2. n # 0
  BY <1>1, EmptyBlock
<1>3. i \in LeafIndices /\ 1 \in 1 .. n
  BY <1>1, <1>2, BoundsAre
<1> QED
  BY <1>1, <1>3

(* So it is in every state.                                                  *)
LEMMA BatchOf ==
  ASSUME DatabaseInv, batch # <<>>
  PROVE  \E e \in Entities, j \in LeafIndices : batch[1] = <<e, dispatched[j + 1]>>
<1>1. ASSUME NEW e \in Entities, BatchFrom(e, Latest(e) + 1)
      PROVE  \E j \in LeafIndices : batch[1] = <<e, dispatched[j + 1]>>
  <2>1. Latest(e) \in LeafIndices \cup {-1}
    BY LatestIs DEF DatabaseInv
  <2>2. \A n \in LeafIndices \cup {-1} : n + 1 \in Nat
    BY BoundsAre
  <2> QED
    BY <1>1, <2>1, <2>2, FirstOfBatch
<1>2. ASSUME NEW e \in Entities, NEW i \in LeafIndices, BatchFrom(e, i + 1)
      PROVE  \E j \in LeafIndices : batch[1] = <<e, dispatched[j + 1]>>
  <2>1. i + 1 \in Nat
    BY BoundsAre
  <2> QED
    BY <1>2, <2>1, FirstOfBatch
<1> QED
  BY <1>1, <1>2 DEF DatabaseInv, Work, Storing

(* For every message to be stored: each type is read back as it was written, *)
(* and                                                                       *)
(* a checkpoint's signature recovers to its signer over that checkpoint      *)
(* only.                                                                     *)
THEOREM EncodingsAreCanonicalHolds == DatabaseSpec => []EncodingsAreCanonical
<1>1. DatabaseInv => EncodingsAreCanonical
  <2>1. SUFFICES ASSUME DatabaseInv, batch # <<>>
                 PROVE  EncodingsAreCanonical
    BY DEF EncodingsAreCanonical
  <2>2. PICK e \in Entities, j \in LeafIndices : batch[1] = <<e, dispatched[j + 1]>>
    BY <2>1, BatchOf
  <2>3. PICK d \in Destinations : dispatched[j + 1] = Raw(j, d)
    BY <2>1, DispatchedIs DEF DatabaseInv
  <2>4. batch[1][2].leaf_index \in U32 /\ IsSeq(batch[1][2].message)
    <3>1. batch[1][2] = Raw(j, d)
      BY <2>2, <2>3
    <3>2. IsRaw(Raw(j, d))
      BY RawIs
    <3> QED
      BY <3>1, <3>2 DEF IsRaw
  <2> DEFINE leafIndex == batch[1][2].leaf_index
             message == batch[1][2].message
             addresses == {Address("app"), Address("user")}
             numbers == {leafIndex} \cup Destinations
             c == [outbox_domain |-> Domain, root |-> Address("app"), index |-> leafIndex]
             signed == SignWith(c, Address("user"))
  <2>5. numbers \in SUBSET U32 /\ Domain \in U32
    BY <2>4, BoundsAre
  <2>6. RoundTrips(numbers, addresses, {message})
    <3>1. \A body \in {message} : IsSeq(body)
      BY <2>4
    <3> HIDE DEF numbers, addresses, message
    <3> QED
      BY <2>5, <3>1, RoundTripsHold
  <2>7. \A a : IsEthereumAddress(IdentifierOf(a)) /\ AsEthereumAddress(IdentifierOf(a)) = a
    BY DEF IsEthereumAddress, IdentifierOf, AsEthereumAddress
  <2>8. ASSUME NEW other \in [outbox_domain : numbers, root : addresses, index : numbers]
        PROVE  (Recover([signed EXCEPT !.checkpoint = other]) = Address("user")) = (other = signed.checkpoint)
    <3>1. c \in [outbox_domain : U32, root : {c.root}, index : U32]
      BY <2>4, <2>5
    <3>2. other \in [outbox_domain : U32, root : {other.root}, index : U32]
      <4> HIDE DEF numbers, addresses
      <4> QED
        BY <2>5
    <3>3. signed.checkpoint = c
      BY DEF SignWith
    <3> HIDE DEF c
    <3>4. (Recover([signed EXCEPT !.checkpoint = other]) = Address("user")) = (other = c)
      BY <3>1, <3>2, SignatureBinds
    <3> QED
      BY <3>3, <3>4
  <2>9. \A other \in [outbox_domain : numbers, root : addresses, index : numbers] :
          (Recover([signed EXCEPT !.checkpoint = other]) = Address("user")) = (other = signed.checkpoint)
    BY <2>8
  <2> QED
    BY <2>6, <2>7, <2>9 DEF EncodingsAreCanonical
<1> QED
  BY <1>1, DatabaseInvariant, PTL

-----------------------------------------------------------------------------
(*****************************************************************************)
(* The refinement: the rows that are read, as rows of TypedRows.            *)
(*****************************************************************************)

Seen(e, table, key) == UNION RowAt(e, table, key)

Mapped == \A e, key :
  /\ Seen(e, "latest", key) = UNION Row(e, "latest", 0)
  /\ Seen(e, "message cursor", key) = UNION Row(e, "message cursor", 0)
  /\ Seen(e, "payment cursor", key) = UNION Row(e, "payment cursor", 0)
  /\ Seen(e, "message", key) = UNION MessageByLeafIndex(e, key)
  /\ Seen(e, "processed leaf", key) = UNION Row(e, "processed leaf", key)
  /\ Seen(e, "total", key) = UNION Row(e, "total", key)
  /\ Seen(e, "latest for destination", key) = UNION Row(e, "latest for destination", key)
  /\ Seen(e, "processed payment", key) = UNION Row(e, "processed payment", key.meta)

(* The visible rows are read from these rows of the store.                   *)
LEMMA RowsAreMapped == Mapped
<1>1. ASSUME NEW e, NEW key
      PROVE  /\ RowAt(e, "latest", key) = LatestLeafIndex(e)
             /\ RowAt(e, "message cursor", key) = RangeStartBlock(e)
             /\ RowAt(e, "payment cursor", key) = GasPaymentBlock(e)
             /\ RowAt(e, "message", key) = MessageByLeafIndex(e, key)
             /\ RowAt(e, "processed leaf", key) = StatusRow(e, key)
             /\ RowAt(e, "total", key) = GasPaymentForLeaf(e, key)
             /\ RowAt(e, "latest for destination", key) = LatestLeafIndexForDestination(e, key)
             /\ RowAt(e, "processed payment", key) = MetaProcessed(e, key.meta)
  BY DEF RowAt
<1>2. ASSUME NEW e, NEW key
      PROVE  /\ RowAt(e, "latest", key) = Row(e, "latest", 0)
             /\ RowAt(e, "message cursor", key) = Row(e, "message cursor", 0)
             /\ RowAt(e, "payment cursor", key) = Row(e, "payment cursor", 0)
             /\ RowAt(e, "processed leaf", key) = Row(e, "processed leaf", key)
             /\ RowAt(e, "total", key) = Row(e, "total", key)
             /\ RowAt(e, "latest for destination", key) = Row(e, "latest for destination", key)
             /\ RowAt(e, "processed payment", key) = Row(e, "processed payment", key.meta)
  <2>1. /\ LatestLeafIndex(e) = Row(e, "latest", 0)
        /\ RangeStartBlock(e) = Row(e, "message cursor", 0)
        /\ GasPaymentBlock(e) = Row(e, "payment cursor", 0)
    BY ReadersAre
  <2>2. /\ StatusRow(e, key) = Row(e, "processed leaf", key)
        /\ GasPaymentForLeaf(e, key) = Row(e, "total", key)
        /\ LatestLeafIndexForDestination(e, key) = Row(e, "latest for destination", key)
    BY ReadersAre
  <2>3. MetaProcessed(e, key.meta) = Row(e, "processed payment", key.meta)
    BY ReadersAre
  <2> QED
    BY ONLY <1>1, <2>1, <2>2, <2>3
<1>3. ASSUME NEW e, NEW table, NEW key
      PROVE  Seen(e, table, key) = UNION RowAt(e, table, key)
  BY DEF Seen
<1> QED
  BY ONLY <1>1, <1>2, <1>3 DEF Mapped

(* Messages are read by their index, once their leaves are there.              *)
MessagesRead ==
  DispatchedInv /\ RowsInv =>
    \A e \in Entities, i \in LeafIndices :
      /\ Row(e, "leaf", i) \in {{}, {{LeafAt(i)}}}
      /\ Row(e, "message", LeafAt(i)) \in {{}, {{dispatched[i + 1]}}}
      /\ Seen(e, "message", i) = IF Row(e, "leaf", i) = {} THEN {} ELSE UNION Row(e, "message", LeafAt(i))

(* A message is read through its leaf.                                       *)
LEMMA MessagesAreRead == MessagesRead
<1>1. UNION {} = {}
  OBVIOUS
<1>2. ASSUME DispatchedInv, RowsInv, NEW e \in Entities, NEW i \in LeafIndices
      PROVE  /\ Row(e, "leaf", i) \in {{}, {{LeafAt(i)}}}
             /\ Row(e, "message", LeafAt(i)) \in {{}, {{dispatched[i + 1]}}}
             /\ Seen(e, "message", i) = IF Row(e, "leaf", i) = {} THEN {} ELSE UNION Row(e, "message", LeafAt(i))
  <2>1. /\ Row(e, "leaf", i) \in {{}, {{LeafAt(i)}}}
        /\ Row(e, "message", LeafAt(i)) \in {{}, {{dispatched[i + 1]}}}
        /\ MessageByLeafIndex(e, i) = IF Row(e, "leaf", i) = {} THEN {} ELSE Row(e, "message", LeafAt(i))
    BY <1>2, MessageReads
  <2>2. Seen(e, "message", i) = UNION MessageByLeafIndex(e, i)
    BY RowsAreMapped DEF Mapped
  <2> QED
    BY ONLY <1>1, <2>1, <2>2
<1> QED
  BY <1>2 DEF MessagesRead

(* The rows that are read, as a set of records of the abstract specification.  *)
Visible == UNION {{<<k[1], k[2][1], k[2][2], v>> : v \in UNION RowAt(k[1], k[2][1], k[2][2])} : k \in RowKeys}

IsRowKey(e, table, key) == <<e, <<table, key>>>> \in RowKeys

VisibleIsSeen ==
  /\ \A e, table, key, v : <<e, table, key, v>> \in Visible <=> IsRowKey(e, table, key) /\ v \in Seen(e, table, key)
  /\ \A r \in Visible : r = <<r[1], r[2], r[3], r[4]>>

(* A pair is what its parts make.                                            *)
LEMMA PairsAre ==
  /\ \A A, B : \A c \in A \X B : c = <<c[1], c[2]>>
  /\ \A a, b, c : c = <<a, b>> => c = <<c[1], c[2]>>
OBVIOUS

(* The visible rows, one by one.                                             *)
LEMMA RowsAreVisible == VisibleIsSeen
<1>1. ASSUME NEW k \in RowKeys
      PROVE  k = <<k[1], <<k[2][1], k[2][2]>>>>
  <2> DEFINE alone == {<<"latest", 0>>, <<"message cursor", 0>>, <<"payment cursor", 0>>}
             byIndex == {"message", "processed leaf"} \X LeafIndices
             totals == {"total"} \X {p.leaf_index : p \in Payments}
             byDestination == {"latest for destination"} \X Destinations
             byPayment == {"processed payment"} \X Payments
  <2>1. \A c \in alone : c = <<c[1], c[2]>>
    <3>1. \A c \in alone : \E a, b : c = <<a, b>>
      OBVIOUS
    <3> HIDE DEF alone
    <3> QED
      BY ONLY <3>1, PairsAre
  <2>2. \A c \in byIndex : c = <<c[1], c[2]>>
    BY PairsAre
  <2>3. \A c \in totals : c = <<c[1], c[2]>>
    BY PairsAre
  <2>4. \A c \in byDestination : c = <<c[1], c[2]>>
    BY PairsAre
  <2>5. \A c \in byPayment : c = <<c[1], c[2]>>
    BY PairsAre
  <2>6. k \in Entities \X (alone \cup byIndex \cup totals \cup byDestination \cup byPayment)
    BY DEF RowKeys
  <2> HIDE DEF alone, byIndex, totals, byDestination, byPayment
  <2>7. k = <<k[1], k[2]>> /\ k[2] \in alone \cup byIndex \cup totals \cup byDestination \cup byPayment
    BY <2>6
  <2>8. k[2] = <<k[2][1], k[2][2]>>
    BY <2>1, <2>2, <2>3, <2>4, <2>5, <2>7
  <2> QED
    BY <2>7, <2>8
<1>2. ASSUME NEW e, NEW table, NEW key, NEW v, <<e, table, key, v>> \in Visible
      PROVE  IsRowKey(e, table, key) /\ v \in Seen(e, table, key)
  <2>1. PICK k \in RowKeys : \E w \in UNION RowAt(k[1], k[2][1], k[2][2]) :
          <<e, table, key, v>> = <<k[1], k[2][1], k[2][2], w>>
    BY <1>2 DEF Visible
  <2>2. e = k[1] /\ table = k[2][1] /\ key = k[2][2] /\ v \in UNION RowAt(k[1], k[2][1], k[2][2])
    BY <2>1
  <2> QED
    BY <1>1, <2>2 DEF IsRowKey, Seen
<1>3. ASSUME NEW e, NEW table, NEW key, NEW v, IsRowKey(e, table, key), v \in Seen(e, table, key)
      PROVE  <<e, table, key, v>> \in Visible
  <2> DEFINE k == <<e, <<table, key>>>>
  <2>1. k \in RowKeys /\ k[1] = e /\ k[2][1] = table /\ k[2][2] = key
    BY <1>3 DEF IsRowKey
  <2> HIDE DEF k
  <2>2. v \in UNION RowAt(k[1], k[2][1], k[2][2])
    BY <1>3, <2>1 DEF Seen
  <2>3. <<k[1], k[2][1], k[2][2], v>> \in Visible
    BY <2>1, <2>2 DEF Visible
  <2> QED
    BY <2>1, <2>3
<1>4. \A r \in Visible : r = <<r[1], r[2], r[3], r[4]>>
  BY DEF Visible
<1> QED
  BY <1>2, <1>3, <1>4 DEF VisibleIsSeen

(* All this holds in the next state too.                                     *)
LEMMA ReadAfter == Mapped' /\ MessagesRead' /\ VisibleIsSeen'
BY RowsAreMapped, MessagesAreRead, RowsAreVisible, PTL

(* A visible row before the step,                                            *)
LEMMA VisibleFrom ==
  ASSUME NEW r \in Visible
  PROVE  r = <<r[1], r[2], r[3], r[4]>> /\ IsRowKey(r[1], r[2], r[3]) /\ r[4] \in Seen(r[1], r[2], r[3])
<1>1. r = <<r[1], r[2], r[3], r[4]>>
  BY RowsAreVisible DEF VisibleIsSeen
<1>2. <<r[1], r[2], r[3], r[4]>> \in Visible
  BY <1>1
<1> QED
  BY <1>1, <1>2, RowsAreVisible DEF VisibleIsSeen

(* and after it.                                                             *)
LEMMA VisibleTo ==
  ASSUME NEW r \in Visible'
  PROVE  r = <<r[1], r[2], r[3], r[4]>> /\ IsRowKey(r[1], r[2], r[3]) /\ r[4] \in Seen(r[1], r[2], r[3])'
<1>1. r = <<r[1], r[2], r[3], r[4]>>
  BY ReadAfter DEF VisibleIsSeen
<1>2. <<r[1], r[2], r[3], r[4]>> \in Visible'
  BY <1>1
<1>3. \A e, table, key, v : <<e, table, key, v>> \in Visible' <=> IsRowKey(e, table, key) /\ v \in Seen(e, table, key)'
  BY ReadAfter DEF VisibleIsSeen, IsRowKey, RowKeys, LeafIndices
<1> QED
  BY <1>1, <1>2, <1>3

SeenKept == \A f, u, j : IsRowKey(f, u, j) => Seen(f, u, j)' = Seen(f, u, j)

(* One row is read anew: what was there, if anything, was one value.           *)
Wrote(e, table, key, v) ==
  /\ IsRowKey(e, table, key)
  /\ Seen(e, table, key)' = {v}
  /\ Seen(e, table, key) = {} \/ \E w : Seen(e, table, key) = {w}
  /\ \A f, u, j : IsRowKey(f, u, j) /\ ~ (f = e /\ u = table /\ j = key) => Seen(f, u, j)' = Seen(f, u, j)

(* When a row is visible.                                                    *)
LEMMA InVisible ==
  ASSUME NEW e, NEW table, NEW key, IsRowKey(e, table, key)
  PROVE  \A v : /\ <<e, table, key, v>> \in Visible <=> v \in Seen(e, table, key)
                /\ <<e, table, key, v>> \in Visible' <=> v \in Seen(e, table, key)'
<1>1. \A f, u, j, v : <<f, u, j, v>> \in Visible <=> IsRowKey(f, u, j) /\ v \in Seen(f, u, j)
  BY RowsAreVisible DEF VisibleIsSeen
<1>2. \A f, u, j, v : <<f, u, j, v>> \in Visible' <=> IsRowKey(f, u, j) /\ v \in Seen(f, u, j)'
  BY ReadAfter DEF VisibleIsSeen, IsRowKey, RowKeys, LeafIndices
<1> QED
  BY <1>1, <1>2

(* If nothing that is read changes, the abstract state does not.             *)
LEMMA NothingWritten == ASSUME SeenKept PROVE Visible' = Visible
<1>1. ASSUME NEW r \in Visible
      PROVE  r \in Visible'
  <2>1. r = <<r[1], r[2], r[3], r[4]>> /\ IsRowKey(r[1], r[2], r[3]) /\ r[4] \in Seen(r[1], r[2], r[3])
    BY VisibleFrom
  <2>2. r[4] \in Seen(r[1], r[2], r[3])'
    BY <2>1 DEF SeenKept
  <2> QED
    BY <2>1, <2>2, InVisible
<1>2. ASSUME NEW r \in Visible'
      PROVE  r \in Visible
  <2>1. r = <<r[1], r[2], r[3], r[4]>> /\ IsRowKey(r[1], r[2], r[3]) /\ r[4] \in Seen(r[1], r[2], r[3])'
    BY VisibleTo
  <2>2. r[4] \in Seen(r[1], r[2], r[3])
    BY <2>1 DEF SeenKept
  <2> QED
    BY <2>1, <2>2, InVisible
<1> QED
  BY <1>1, <1>2

(* The value before the step is what is read before it.                      *)
LEMMA BeforeIs ==
  ASSUME NEW e, NEW table, NEW key, IsRowKey(e, table, key)
  PROVE  Rows!Before(e, table, key) = Seen(e, table, key)
<1>1. Rows!Before(e, table, key) = {r[4] : r \in {q \in Visible : q[1] = e /\ q[2] = table /\ q[3] = key}}
  BY DEF Rows!Before, Visible
<1>2. ASSUME NEW v \in Rows!Before(e, table, key)
      PROVE  v \in Seen(e, table, key)
  BY <1>1, VisibleFrom
<1>3. ASSUME NEW v \in Seen(e, table, key)
      PROVE  v \in Rows!Before(e, table, key)
  <2> DEFINE r == <<e, table, key, v>>
  <2>1. r \in Visible
    BY InVisible
  <2>2. r[1] = e /\ r[2] = table /\ r[3] = key /\ r[4] = v
    OBVIOUS
  <2> HIDE DEF r
  <2> QED
    BY <1>1, <2>1, <2>2
<1> QED
  BY <1>2, <1>3

(* A step that writes one row as it may is a step of the abstract            *)
(* specification, or a stutter.                                              *)
LEMMA RowWritten ==
  ASSUME NEW e, NEW table, NEW key, NEW v, Wrote(e, table, key, v),
         v \notin Seen(e, table, key) => Rows!Allowed(e, table, key, v)
  PROVE  Rows!Next \/ Visible' = Visible
<1> DEFINE r == <<e, table, key, v>>
<1>1. r[1] = e /\ r[2] = table /\ r[3] = key /\ r[4] = v
  OBVIOUS
<1>2. CASE v \in Seen(e, table, key)
  <2>1. Seen(e, table, key)' = Seen(e, table, key)
    BY <1>2 DEF Wrote
  <2>2. SeenKept
    BY <2>1 DEF Wrote, SeenKept
  <2> QED
    BY <2>2, NothingWritten
<1>3. CASE v \notin Seen(e, table, key)
  <2>1. r \in Visible' \ Visible
    BY <1>3, InVisible DEF Wrote
  <2>2. Rows!Allowed(r[1], r[2], r[3], r[4])
    BY <1>1, <1>3
  <2> HIDE DEF r
  <2> DEFINE others == {q \in Visible : <<q[1], q[2], q[3]>> # <<r[1], r[2], r[3]>>}
  <2>3. ASSUME NEW q \in Visible'
        PROVE  q \in others \cup {r}
    <3>1. q = <<q[1], q[2], q[3], q[4]>> /\ IsRowKey(q[1], q[2], q[3]) /\ q[4] \in Seen(q[1], q[2], q[3])'
      BY VisibleTo
    <3>2. CASE q[1] = e /\ q[2] = table /\ q[3] = key
      <4>1. q[4] = v
        BY <3>1, <3>2 DEF Wrote
      <4> QED
        BY <3>1, <3>2, <4>1 DEF r
    <3>3. CASE ~ (q[1] = e /\ q[2] = table /\ q[3] = key)
      <4>1. q[4] \in Seen(q[1], q[2], q[3])
        BY <3>1, <3>3 DEF Wrote
      <4>2. q \in Visible
        BY <3>1, <4>1, InVisible
      <4> QED
        BY <1>1, <3>3, <4>2
    <3> QED
      BY <3>2, <3>3
  <2>4. ASSUME NEW q \in others
        PROVE  q \in Visible'
    <3>1. q = <<q[1], q[2], q[3], q[4]>> /\ IsRowKey(q[1], q[2], q[3]) /\ q[4] \in Seen(q[1], q[2], q[3])
      BY VisibleFrom
    <3>2. ~ (q[1] = e /\ q[2] = table /\ q[3] = key)
      BY <1>1
    <3>3. q[4] \in Seen(q[1], q[2], q[3])'
      BY <3>1, <3>2 DEF Wrote
    <3> QED
      BY <3>1, <3>3, InVisible
  <2>5. Visible' = others \cup {r}
    BY <2>1, <2>3, <2>4
  <2> QED
    BY <2>1, <2>2, <2>5 DEF Rows!Next, Visible
<1> QED
  BY <1>2, <1>3

(* The row of the store that a visible row other than a message is read from.  *)
Of(table, key) == IF table \in ByNothing THEN 0 ELSE IF table = "processed payment" THEN key.meta ELSE key

IsKeyOf(table, key) ==
  \/ table \in ByNothing /\ key = 0
  \/ table \in {"message", "processed leaf"} /\ key \in LeafIndices
  \/ table = "latest for destination" /\ key \in Destinations
  \/ table = "total" /\ key \in U32
  \/ table = "processed payment" /\ key \in Payments

(* The keys of the visible rows.                                             *)
LEMMA KeysOfRows ==
  /\ \A e \in Entities :
       /\ IsRowKey(e, "latest", 0) /\ IsRowKey(e, "message cursor", 0) /\ IsRowKey(e, "payment cursor", 0)
       /\ \A i \in LeafIndices : IsRowKey(e, "message", i) /\ IsRowKey(e, "processed leaf", i)
       /\ \A d \in Destinations : IsRowKey(e, "latest for destination", d)
       /\ \A p \in Payments : IsRowKey(e, "total", p.leaf_index) /\ IsRowKey(e, "processed payment", p)
  /\ \A e, table, key : IsRowKey(e, table, key) => e \in Entities /\ IsKeyOf(table, key)
<1> DEFINE alone == {<<"latest", 0>>, <<"message cursor", 0>>, <<"payment cursor", 0>>}
           byIndex == {"message", "processed leaf"} \X LeafIndices
           totals == {"total"} \X {p.leaf_index : p \in Payments}
           byDestination == {"latest for destination"} \X Destinations
           byPayment == {"processed payment"} \X Payments
<1>1. \A e, table, key : IsRowKey(e, table, key) <=>
        e \in Entities /\ <<table, key>> \in alone \cup byIndex \cup totals \cup byDestination \cup byPayment
  BY DEF IsRowKey, RowKeys
<1>2. \A table, key : <<table, key>> \in alone <=> table \in ByNothing /\ key = 0
  BY DEF ByNothing
<1>3. \A table, key : <<table, key>> \in byIndex <=> table \in {"message", "processed leaf"} /\ key \in LeafIndices
  OBVIOUS
<1>4. \A table, key : <<table, key>> \in totals <=> table = "total" /\ key \in {p.leaf_index : p \in Payments}
  OBVIOUS
<1>5. \A table, key : <<table, key>> \in byDestination <=> table = "latest for destination" /\ key \in Destinations
  OBVIOUS
<1>6. \A table, key : <<table, key>> \in byPayment <=> table = "processed payment" /\ key \in Payments
  OBVIOUS
<1>7. {p.leaf_index : p \in Payments} \subseteq U32
  BY PaymentIs
<1> HIDE DEF alone, byIndex, totals, byDestination, byPayment
<1>8. ASSUME NEW e \in Entities
      PROVE  /\ IsRowKey(e, "latest", 0) /\ IsRowKey(e, "message cursor", 0) /\ IsRowKey(e, "payment cursor", 0)
             /\ \A i \in LeafIndices : IsRowKey(e, "message", i) /\ IsRowKey(e, "processed leaf", i)
             /\ \A d \in Destinations : IsRowKey(e, "latest for destination", d)
             /\ \A p \in Payments : IsRowKey(e, "total", p.leaf_index) /\ IsRowKey(e, "processed payment", p)
  BY <1>1, <1>2, <1>3, <1>4, <1>5, <1>6 DEF ByNothing
<1>9. ASSUME NEW e, NEW table, NEW key, IsRowKey(e, table, key)
      PROVE  e \in Entities /\ IsKeyOf(table, key)
  <2>1. e \in Entities
    BY <1>1, <1>9
  <2>2. <<table, key>> \in alone \cup byIndex \cup totals \cup byDestination \cup byPayment
    BY <1>1, <1>9
  <2>3. CASE <<table, key>> \in alone
    <3>1. table \in ByNothing /\ key = 0
      BY ONLY <1>2, <2>3
    <3> QED
      BY ONLY <2>1, <3>1 DEF IsKeyOf
  <2>4. CASE <<table, key>> \in byIndex
    <3>1. table \in {"message", "processed leaf"} /\ key \in LeafIndices
      BY ONLY <1>3, <2>4
    <3> QED
      BY ONLY <2>1, <3>1 DEF IsKeyOf
  <2>5. CASE <<table, key>> \in totals
    <3>1. table = "total" /\ key \in {p.leaf_index : p \in Payments}
      BY <1>4, <2>5
    <3>2. table = "total" /\ key \in U32
      BY <1>7, <3>1
    <3> QED
      BY ONLY <2>1, <3>2 DEF IsKeyOf
  <2>6. CASE <<table, key>> \in byDestination
    BY <1>5, <2>1, <2>6 DEF IsKeyOf
  <2>7. CASE <<table, key>> \in byPayment
    BY <1>6, <2>1, <2>7 DEF IsKeyOf
  <2> QED
    BY <2>2, <2>3, <2>4, <2>5, <2>6, <2>7
<1> QED
  BY <1>8, <1>9

(* A row that is no message is read from one row of the store.               *)
LEMMA SeenOf ==
  ASSUME NEW e, NEW table, NEW key, IsRowKey(e, table, key), table # "message"
  PROVE  /\ e \in Entities /\ table \in Kinds /\ table # "leaf" /\ IsArgument(table, Of(table, key))
         /\ Seen(e, table, key) = UNION Row(e, table, Of(table, key))
         /\ Seen(e, table, key)' = UNION Row(e, table, Of(table, key))'
<1>1. e \in Entities /\ IsKeyOf(table, key)
  BY KeysOfRows
<1>2. CASE table \in ByNothing /\ key = 0
  <2>1. table \in Kinds /\ table # "leaf" /\ IsArgument(table, Of(table, key)) /\ Of(table, key) = 0
    BY <1>2 DEF Kinds, ByNothing, ByNumber, IsArgument, Of
  <2>2. table = "latest" \/ table = "message cursor" \/ table = "payment cursor"
    BY <1>2 DEF ByNothing
  <2>3. /\ Seen(e, "latest", key) = UNION Row(e, "latest", 0)
        /\ Seen(e, "latest", key)' = UNION Row(e, "latest", 0)'
    BY RowsAreMapped, ReadAfter DEF Mapped
  <2>4. /\ Seen(e, "message cursor", key) = UNION Row(e, "message cursor", 0)
        /\ Seen(e, "message cursor", key)' = UNION Row(e, "message cursor", 0)'
    BY RowsAreMapped, ReadAfter DEF Mapped
  <2>5. /\ Seen(e, "payment cursor", key) = UNION Row(e, "payment cursor", 0)
        /\ Seen(e, "payment cursor", key)' = UNION Row(e, "payment cursor", 0)'
    BY RowsAreMapped, ReadAfter DEF Mapped
  <2>6. /\ Seen(e, table, key) = UNION Row(e, table, 0)
        /\ Seen(e, table, key)' = UNION Row(e, table, 0)'
    BY ONLY <2>2, <2>3, <2>4, <2>5
  <2> QED
    BY ONLY <1>1, <2>1, <2>6
<1>3. CASE table = "processed leaf" /\ key \in LeafIndices
  <2>1. table \in Kinds /\ table # "leaf" /\ IsArgument(table, Of(table, key)) /\ Of(table, key) = key
    BY <1>3, BoundsAre DEF Kinds, ByNothing, ByNumber, IsArgument, Of
  <2>2. Seen(e, "processed leaf", key) = UNION Row(e, "processed leaf", key)
    BY RowsAreMapped DEF Mapped
  <2>3. Seen(e, "processed leaf", key)' = UNION Row(e, "processed leaf", key)'
    BY ReadAfter DEF Mapped
  <2> QED
    BY ONLY <1>1, <1>3, <2>1, <2>2, <2>3
<1>4. CASE table = "latest for destination" /\ key \in Destinations
  <2>1. table \in Kinds /\ table # "leaf" /\ IsArgument(table, Of(table, key)) /\ Of(table, key) = key
    BY <1>4, BoundsAre DEF Kinds, ByNothing, ByNumber, IsArgument, Of
  <2>2. Seen(e, "latest for destination", key) = UNION Row(e, "latest for destination", key)
    BY RowsAreMapped, ZenonT(40) DEF Mapped
  <2>3. Seen(e, "latest for destination", key)' = UNION Row(e, "latest for destination", key)'
    BY ReadAfter, ZenonT(40) DEF Mapped
  <2> QED
    BY ONLY <1>1, <1>4, <2>1, <2>2, <2>3
<1>5. CASE table = "total" /\ key \in U32
  <2>1. table \in Kinds /\ table # "leaf" /\ IsArgument(table, Of(table, key)) /\ Of(table, key) = key
    BY <1>5 DEF Kinds, ByNothing, ByNumber, IsArgument, Of
  <2>2. Seen(e, "total", key) = UNION Row(e, "total", key)
    BY RowsAreMapped DEF Mapped
  <2>3. Seen(e, "total", key)' = UNION Row(e, "total", key)'
    BY ReadAfter DEF Mapped
  <2> QED
    BY ONLY <1>1, <1>5, <2>1, <2>2, <2>3
<1>6. CASE table = "processed payment" /\ key \in Payments
  <2>1. Of(table, key) = key.meta /\ table # "leaf"
    BY <1>6 DEF Of, ByNothing
  <2>2. table \in Kinds /\ IsArgument(table, Of(table, key))
    BY <1>6, <2>1, PaymentIs
  <2>3. Seen(e, "processed payment", key) = UNION Row(e, "processed payment", key.meta)
    BY RowsAreMapped DEF Mapped
  <2>4. Seen(e, "processed payment", key)' = UNION Row(e, "processed payment", key.meta)'
    BY ReadAfter DEF Mapped
  <2> QED
    BY ONLY <1>1, <1>6, <2>1, <2>2, <2>3, <2>4
<1> QED
  BY <1>1, <1>2, <1>3, <1>4, <1>5, <1>6 DEF IsKeyOf

(* A put changes no visible row of another table or of another key; the        *)
(* messages apart, which are read through two rows of the store.               *)
LEMMA OthersSeen ==
  ASSUME DatabaseInv, Flush, NEW e \in Entities, NEW kind \in Kinds, NEW x, NEW v, NextPut(e, kind, x, v),
         NEW f, NEW table, NEW key, IsRowKey(f, table, key), table # "message",
         ~ (f = e /\ table = kind /\ Of(table, key) = x)
  PROVE  Seen(f, table, key)' = Seen(f, table, key)
<1>1. OthersKept(e, kind, x)
  BY FlushKeepsOthers
<1>2. /\ table \in Kinds /\ IsArgument(table, Of(table, key))
      /\ Seen(f, table, key) = UNION Row(f, table, Of(table, key))
      /\ Seen(f, table, key)' = UNION Row(f, table, Of(table, key))'
  BY SeenOf
<1>3. Row(f, table, Of(table, key))' = Row(f, table, Of(table, key))
  BY <1>1, <1>2 DEF OthersKept
<1> QED
  BY <1>2, <1>3

(* A message is read as dispatched or not at all.                            *)
LEMMA MessageSeen ==
  ASSUME DatabaseInv, DatabaseInv', NEW e \in Entities, NEW i \in LeafIndices, dispatched' = dispatched
  PROVE  /\ Seen(e, "message", i) \in {{}, {dispatched[i + 1]}}
         /\ Seen(e, "message", i)' \in {{}, {dispatched[i + 1]}}
         /\ /\ Row(e, "leaf", i) # {} => Row(e, "leaf", i)' # {}
            /\ Row(e, "message", LeafAt(i)) # {} => Row(e, "message", LeafAt(i))' # {}
            => (Seen(e, "message", i) # {} => Seen(e, "message", i)' # {})
         /\ Row(e, "leaf", i)' = Row(e, "leaf", i) /\ Row(e, "message", LeafAt(i))' = Row(e, "message", LeafAt(i))
              => Seen(e, "message", i)' = Seen(e, "message", i)
<1>1. /\ Row(e, "leaf", i) \in {{}, {{LeafAt(i)}}}
      /\ Row(e, "message", LeafAt(i)) \in {{}, {{dispatched[i + 1]}}}
      /\ Seen(e, "message", i) = IF Row(e, "leaf", i) = {} THEN {} ELSE UNION Row(e, "message", LeafAt(i))
  BY MessagesAreRead DEF MessagesRead, DatabaseInv
<1>2. /\ Row(e, "leaf", i)' \in {{}, {{LeafAt(i)'}}}
      /\ Row(e, "message", LeafAt(i))' \in {{}, {{dispatched'[i + 1]}}}
      /\ Seen(e, "message", i)' = IF Row(e, "leaf", i)' = {} THEN {} ELSE UNION Row(e, "message", LeafAt(i))'
  <2>1. DispatchedInv' /\ RowsInv'
    BY DEF DatabaseInv
  <2>2. MessagesRead'
    BY ReadAfter
  <2> QED
    BY <2>1, <2>2 DEF MessagesRead, LeafIndices
<1>3. UNION {} = {} /\ UNION {{dispatched[i + 1]}} = {dispatched[i + 1]}
  OBVIOUS
<1> QED
  BY <1>1, <1>2, <1>3

-----------------------------------------------------------------------------
(*****************************************************************************)
(* The refinement: what each put writes.                                    *)
(*****************************************************************************)

(* A row holds at most one value.                                            *)
LEMMA RowIsOne ==
  ASSUME RowsInv, NEW e \in Entities, NEW kind \in Kinds, NEW x, IsArgument(kind, x)
  PROVE  Row(e, kind, x) = {} \/ \E w : Row(e, kind, x) = {{w}}
BY DEF RowsInv

(* The key of a message.                                                     *)
LEMMA MessageKey ==
  ASSUME NEW e, NEW i, IsRowKey(e, "message", i)
  PROVE  e \in Entities /\ i \in LeafIndices
<1>1. e \in Entities /\ IsKeyOf("message", i)
  BY KeysOfRows
<1>2. "message" \notin ByNothing
  BY DEF ByNothing
<1> QED
  BY <1>1, <1>2 DEF IsKeyOf

(* Two visible rows of a table are read from two rows of the store.          *)
LEMMA OfApart ==
  ASSUME NEW e, NEW f, NEW table, NEW key, NEW other, IsRowKey(e, table, key), IsRowKey(f, table, other),
         table # "message", Of(table, key) = Of(table, other)
  PROVE  key = other
<1>1. IsKeyOf(table, key) /\ IsKeyOf(table, other)
  BY KeysOfRows
<1>2. CASE table \in ByNothing
  BY <1>1, <1>2 DEF IsKeyOf, ByNothing
<1>3. CASE table = "processed payment"
  <2>1. key \in Payments /\ other \in Payments
    BY <1>1, <1>3 DEF IsKeyOf, ByNothing
  <2>2. key.meta = other.meta
    BY <1>3 DEF Of, ByNothing
  <2> QED
    BY <2>1, <2>2, AbacusDBAssumption
<1>4. CASE table \notin ByNothing /\ table # "processed payment"
  BY <1>4 DEF Of
<1> QED
  BY <1>2, <1>3, <1>4

(* A put into another table than those of the messages writes one visible row. *)
LEMMA OneRowFlushed ==
  ASSUME DatabaseInv, DatabaseInv', Flush, NEW e \in Entities, NEW kind \in Kinds, NEW key, NEW v,
         kind # "leaf", kind # "message", IsRowKey(e, kind, key), NextPut(e, kind, Of(kind, key), v)
  PROVE  Wrote(e, kind, key, v)
<1> DEFINE x == Of(kind, key)
<1>1. OthersKept(e, kind, x) /\ Row(e, kind, x)' = {{v}} /\ dispatched' = dispatched
  BY FlushKeepsOthers DEF Flush
<1>2. /\ IsArgument(kind, x) /\ Seen(e, kind, key) = UNION Row(e, kind, x)
      /\ Seen(e, kind, key)' = UNION Row(e, kind, x)'
  BY SeenOf
<1>3. UNION {{v}} = {v} /\ UNION {} = {} /\ \A w : UNION {{w}} = {w}
  OBVIOUS
<1>4. Row(e, kind, x) = {} \/ \E w : Row(e, kind, x) = {{w}}
  <2>1. RowsInv /\ IsArgument(kind, x)
    BY <1>2 DEF DatabaseInv
  <2> HIDE DEF x
  <2> QED
    BY ONLY <2>1, e \in Entities, kind \in Kinds, RowIsOne
<1>5. Seen(e, kind, key)' = {v} /\ (Seen(e, kind, key) = {} \/ \E w : Seen(e, kind, key) = {w})
  <2> HIDE DEF x
  <2> QED
    BY ONLY <1>1, <1>2, <1>3, <1>4
<1>6. ASSUME NEW f, NEW u, NEW j, IsRowKey(f, u, j), ~ (f = e /\ u = kind /\ j = key)
      PROVE  Seen(f, u, j)' = Seen(f, u, j)
  <2>1. CASE u = "message"
    <3>1. f \in Entities /\ j \in LeafIndices
      BY <1>6, <2>1, MessageKey
    <3>2. "leaf" \in Kinds /\ "message" \in Kinds /\ IsArgument("leaf", j) /\ \A y : IsArgument("message", y)
      BY <3>1, BoundsAre DEF Kinds, ByNothing, ByNumber, IsArgument
    <3>3. Row(f, "leaf", j)' = Row(f, "leaf", j) /\ \A y : Row(f, "message", y)' = Row(f, "message", y)
      BY <1>1, <3>2 DEF OthersKept
    <3>4. LeafAt(j)' = LeafAt(j)
      BY <1>1 DEF LeafAt
    <3>5. Row(f, "message", LeafAt(j))' = Row(f, "message", LeafAt(j))
      BY <3>3, <3>4
    <3> QED
      BY <1>1, <2>1, <3>1, <3>3, <3>5, MessageSeen
  <2>2. CASE u # "message"
    <3>1. ~ (f = e /\ u = kind /\ Of(u, j) = x)
      BY <1>6, <2>2, OfApart
    <3> QED
      BY <1>6, <2>2, <3>1, OthersSeen
  <2> QED
    BY <2>1, <2>2
<1> QED
  BY <1>5, <1>6 DEF Wrote

(* Only a message may come into sight: the leaf or the message that it is      *)
(* read through was the missing one.                                           *)
LEMMA MessageShown ==
  ASSUME DatabaseInv, DatabaseInv', dispatched' = dispatched, NEW e \in Entities, NEW i \in LeafIndices,
         \A f, u, j : IsRowKey(f, u, j) /\ ~ (f = e /\ u = "message" /\ j = i) => Seen(f, u, j)' = Seen(f, u, j),
         Row(e, "leaf", i) # {} => Row(e, "leaf", i)' # {},
         Row(e, "message", LeafAt(i)) # {} => Row(e, "message", LeafAt(i))' # {}
  PROVE  Rows!Next \/ Visible' = Visible
<1> DEFINE v == dispatched[i + 1]
<1>1. /\ Seen(e, "message", i) \in {{}, {v}} /\ Seen(e, "message", i)' \in {{}, {v}}
      /\ Seen(e, "message", i) # {} => Seen(e, "message", i)' # {}
  BY MessageSeen
<1>2. IsRowKey(e, "message", i)
  BY KeysOfRows
<1> HIDE DEF v
<1>3. CASE Seen(e, "message", i)' = Seen(e, "message", i)
  <2>1. SeenKept
    BY <1>3 DEF SeenKept
  <2> QED
    BY <2>1, NothingWritten
<1>4. CASE Seen(e, "message", i) = {} /\ Seen(e, "message", i)' = {v}
  <2>1. Wrote(e, "message", i, v)
    BY <1>2, <1>4 DEF Wrote
  <2>2. Rows!Before(e, "message", i) = {}
    BY <1>2, <1>4, BeforeIs
  <2>3. Rows!Allowed(e, "message", i, v)
    BY <2>2 DEF Rows!Allowed
  <2> QED
    BY <2>1, <2>3, RowWritten
<1> QED
  BY <1>1, <1>3, <1>4

(* The leaf's put may bring its message into sight.                          *)
LEMMA LeafStep ==
  ASSUME DatabaseInv, DatabaseInv', Flush, NEW e \in Entities, NEW i \in LeafIndices, NextPut(e, "leaf", i, LeafAt(i))
  PROVE  Rows!Next \/ Visible' = Visible
<1>1. "leaf" \in Kinds /\ "message" \in Kinds /\ \A y : IsArgument("message", y)
      /\ \A j \in LeafIndices : IsArgument("leaf", j)
  BY BoundsAre DEF Kinds, ByNothing, ByNumber, IsArgument
<1>2. OthersKept(e, "leaf", i) /\ Row(e, "leaf", i)' = {{LeafAt(i)}} /\ dispatched' = dispatched
  <2>1. PICK leaf : leaf = LeafAt(i)
    OBVIOUS
  <2>2. NextPut(e, "leaf", i, leaf)
    BY <2>1
  <2>3. OthersKept(e, "leaf", i) /\ Row(e, "leaf", i)' = {{leaf}}
    BY <1>1, <2>2, FlushKeepsOthers
  <2> QED
    BY <2>1, <2>3 DEF Flush
<1>3. \A y : Row(e, "message", y)' = Row(e, "message", y)
  BY <1>1, <1>2 DEF OthersKept
<1>4. \A j : LeafAt(j)' = LeafAt(j)
  BY <1>2 DEF LeafAt
<1>5. ASSUME NEW f, NEW u, NEW j, IsRowKey(f, u, j), ~ (f = e /\ u = "message" /\ j = i)
      PROVE  Seen(f, u, j)' = Seen(f, u, j)
  <2>1. CASE u = "message"
    <3>1. f \in Entities /\ j \in LeafIndices
      BY <1>5, <2>1, MessageKey
    <3>2. Row(f, "leaf", j)' = Row(f, "leaf", j) /\ \A y : Row(f, "message", y)' = Row(f, "message", y)
      BY <1>1, <1>2, <1>5, <2>1, <3>1 DEF OthersKept
    <3>3. Row(f, "message", LeafAt(j))' = Row(f, "message", LeafAt(j))
      BY <1>4, <3>2
    <3> QED
      BY <1>2, <2>1, <3>1, <3>2, <3>3, MessageSeen
  <2>2. CASE u # "message"
    <3>1. u # "leaf"
      BY <1>5, <2>2, SeenOf
    <3> QED
      BY <1>1, <1>5, <2>2, <3>1, OthersSeen
  <2> QED
    BY <2>1, <2>2
<1>6. Row(e, "message", LeafAt(i))' = Row(e, "message", LeafAt(i))
  BY <1>3, <1>4
<1> QED
  BY <1>2, <1>5, <1>6, MessageShown

(* The message's put may bring it into sight.                                *)
LEMMA MessageStep ==
  ASSUME DatabaseInv, DatabaseInv', Flush, NEW e \in Entities, NEW i \in LeafIndices,
         NextPut(e, "message", LeafAt(i), dispatched[i + 1])
  PROVE  Rows!Next \/ Visible' = Visible
<1>1. "leaf" \in Kinds /\ "message" \in Kinds /\ \A y : IsArgument("message", y)
      /\ \A j \in LeafIndices : IsArgument("leaf", j)
  BY BoundsAre DEF Kinds, ByNothing, ByNumber, IsArgument
<1>2. PICK leaf, m : leaf = LeafAt(i) /\ m = dispatched[i + 1]
  OBVIOUS
<1>3. OthersKept(e, "message", leaf) /\ Row(e, "message", leaf)' = {{m}} /\ dispatched' = dispatched
  <2>1. NextPut(e, "message", leaf, m)
    BY <1>2
  <2> QED
    BY <1>1, <2>1, FlushKeepsOthers DEF Flush
<1>4. \A j : LeafAt(j)' = LeafAt(j)
  BY <1>3 DEF LeafAt
<1>5. \A f, j : j \in LeafIndices => Row(f, "leaf", j)' = Row(f, "leaf", j)
  BY <1>1, <1>3 DEF OthersKept
<1>6. ASSUME NEW f, NEW u, NEW j, IsRowKey(f, u, j), ~ (f = e /\ u = "message" /\ j = i)
      PROVE  Seen(f, u, j)' = Seen(f, u, j)
  <2>1. CASE u = "message"
    <3>1. f \in Entities /\ j \in LeafIndices
      BY <1>6, <2>1, MessageKey
    <3>2. PICK other : other = LeafAt(j)
      OBVIOUS
    <3>3. ~ (f = e /\ other = leaf)
      <4>1. f = e => j # i
        BY <1>6, <2>1
      <4>2. LeafAt(j) = LeafAt(i) => j = i
        BY <3>1, DispatchedIs DEF DatabaseInv
      <4> QED
        BY <1>2, <3>2, <4>1, <4>2
    <3>4. Row(f, "message", other)' = Row(f, "message", other)
      BY <1>1, <1>3, <3>3 DEF OthersKept
    <3>5. Row(f, "message", LeafAt(j))' = Row(f, "message", LeafAt(j))
      BY <1>4, <3>2, <3>4
    <3> QED
      BY <1>3, <1>5, <2>1, <3>1, <3>5, MessageSeen
  <2>2. CASE u # "message"
    <3>1. NextPut(e, "message", leaf, m)
      BY <1>2
    <3> QED
      BY <1>1, <1>6, <2>2, <3>1, OthersSeen
  <2> QED
    BY <2>1, <2>2
<1>7. Row(e, "message", LeafAt(i))' # {}
  <2>1. Row(e, "message", LeafAt(i))' = Row(e, "message", leaf)'
    BY <1>2, <1>4
  <2> QED
    BY <1>3, <2>1
<1> QED
  BY <1>3, <1>5, <1>6, <1>7, MessageShown

(* A U256 is a natural number.                                               *)
LEMMA WideIsNat == U256 \subseteq Nat
<1>1. WideBytes \in Nat
  BY EncodingsAssumption
<1>2. Power[WideBytes] \in Nat
  BY <1>1, PowerIs
<1> QED
  BY <1>2 DEF U256

(* What is added can be taken back.                                          *)
LEMMA TakenBack == \A a, b \in Nat : (a + b) - b = a
OBVIOUS

(* The latest index grows.                                                   *)
LEMMA LatestStep ==
  ASSUME DatabaseInv, DatabaseInv', Flush, NEW e \in Entities, NEW i \in LeafIndices, NextPut(e, "latest", 0, i), Latest(e) < i
  PROVE  Rows!Next \/ Visible' = Visible
<1>1. IsRowKey(e, "latest", 0) /\ "latest" \in Kinds /\ Of("latest", 0) = 0
  BY KeysOfRows DEF Kinds, ByNothing, Of
<1>2. Wrote(e, "latest", 0, i)
  BY <1>1, OneRowFlushed
<1>3. \A old \in Seen(e, "latest", 0) : old < i
  <2>1. Row(e, "latest", 0) = IF Latest(e) = -1 THEN {} ELSE {{Latest(e)}}
    BY LatestIs DEF DatabaseInv
  <2>2. Seen(e, "latest", 0) = UNION Row(e, "latest", 0)
    BY RowsAreMapped DEF Mapped
  <2> QED
    BY <2>1, <2>2
<1>4. Rows!Allowed(e, "latest", 0, i)
  BY <1>1, <1>3, BeforeIs DEF Rows!Allowed
<1> QED
  BY <1>2, <1>4, RowWritten

(* The latest index of a destination grows.                                  *)
LEMMA DestinationStep ==
  ASSUME DatabaseInv, DatabaseInv', Flush, NEW e \in Entities, NEW i \in LeafIndices, NEW d \in Destinations,
         NextPut(e, "latest for destination", d, i), LatestFor(e, d) < i
  PROVE  Rows!Next \/ Visible' = Visible
<1> DEFINE table == "latest for destination"
<1>1. IsRowKey(e, table, d) /\ table \in Kinds /\ Of(table, d) = d
  BY KeysOfRows DEF Kinds, ByNothing, ByNumber, Of
<1>2. Wrote(e, table, d, i)
  BY <1>1, OneRowFlushed
<1>3. \A old \in Seen(e, table, d) : old < i
  <2>1. Row(e, table, d) = IF LatestFor(e, d) = -1 THEN {} ELSE {{LatestFor(e, d)}}
    BY LatestIs DEF DatabaseInv
  <2>2. Seen(e, table, d) = UNION Row(e, table, d)
    BY RowsAreMapped, ZenonT(40) DEF Mapped
  <2> HIDE DEF table
  <2>3. \A old \in Seen(e, table, d) : old = LatestFor(e, d)
    BY ONLY <2>1, <2>2
  <2> QED
    BY <2>3
<1>4. Rows!Allowed(e, table, d, i)
  BY <1>1, <1>3, BeforeIs DEF Rows!Allowed
<1> QED
  BY <1>2, <1>4, RowWritten

(* A mark or a cursor may be written at any time.                            *)
LEMMA NoteStep ==
  ASSUME DatabaseInv, DatabaseInv', Flush, NEW e \in Entities,
         NEW kind \in {"processed leaf", "message cursor", "payment cursor"}, NEW x, NEW v, NextPut(e, kind, x, v)
  PROVE  Rows!Next \/ Visible' = Visible
<1>1. kind \in Kinds /\ kind # "leaf" /\ kind # "message"
  BY DEF Kinds, ByNothing, ByNumber
<1>2. IsRowKey(e, kind, x) /\ Of(kind, x) = x
  <2>1. CASE kind = "processed leaf"
    <3>1. x \in LeafIndices
      BY <2>1 DEF NextPut, IsFor, FitsRow
    <3> QED
      BY <2>1, <3>1, KeysOfRows DEF Of, ByNothing
  <2>2. CASE kind = "message cursor" \/ kind = "payment cursor"
    <3>1. x = 0
      BY <2>2 DEF NextPut, IsFor, FitsRow, ByNothing
    <3> QED
      BY <2>2, <3>1, KeysOfRows DEF Of, ByNothing
  <2> QED
    BY <2>1, <2>2
<1>3. Wrote(e, kind, x, v)
  BY <1>1, <1>2, OneRowFlushed
<1>4. Rows!Allowed(e, kind, x, v)
  BY DEF Rows!Allowed
<1> QED
  BY <1>3, <1>4, RowWritten

(* A payment is marked once.                                                 *)
LEMMA MarkStep ==
  ASSUME DatabaseInv, DatabaseInv', Flush, NEW e \in Entities, NEW p \in Payments,
         Row(e, "processed payment", p.meta) = {}, NextPut(e, "processed payment", p.meta, TRUE)
  PROVE  Rows!Next \/ Visible' = Visible
<1> DEFINE table == "processed payment"
<1>1. IsRowKey(e, table, p) /\ table \in Kinds /\ Of(table, p) = p.meta
  BY KeysOfRows, PaymentIs DEF ByNothing, Of
<1>2. Wrote(e, table, p, TRUE)
  BY <1>1, OneRowFlushed
<1>3. Seen(e, table, p) = {}
  <2>1. Seen(e, table, p) = UNION Row(e, table, p.meta)
    BY RowsAreMapped DEF Mapped
  <2> QED
    BY <2>1
<1>4. Rows!Allowed(e, table, p, TRUE)
  BY <1>1, <1>3, BeforeIs DEF Rows!Allowed
<1> QED
  BY <1>2, <1>4, RowWritten

(* A total grows by the amount of a marked payment.                          *)
LEMMA TotalStep ==
  ASSUME DatabaseInv, DatabaseInv', Flush, NEW e \in Entities, NEW p \in Payments,
         Row(e, "processed payment", p.meta) = {{TRUE}}, NextPut(e, "total", p.leaf_index, TotalWith(e, p))
  PROVE  Rows!Next \/ Visible' = Visible
<1> DEFINE key == p.leaf_index
<1>1. PICK v : v = TotalWith(e, p)
  OBVIOUS
<1>2. IsRowKey(e, "total", key) /\ "total" \in Kinds /\ Of("total", key) = key
  BY KeysOfRows, PaymentIs DEF ByNothing, Of
<1>3. Wrote(e, "total", key, v)
  BY <1>1, <1>2, OneRowFlushed
<1> DEFINE r == <<e, "processed payment", p, TRUE>>
<1>4. r \in Visible
  <2>1. Seen(e, "processed payment", p) = UNION Row(e, "processed payment", p.meta)
    BY RowsAreMapped DEF Mapped
  <2>2. TRUE \in Seen(e, "processed payment", p)
    BY <2>1
  <2>3. IsRowKey(e, "processed payment", p)
    BY KeysOfRows
  <2> QED
    BY <2>2, <2>3, InVisible
<1>5. r[1] = e /\ r[2] = "processed payment" /\ r[3] = p
  OBVIOUS
<1> HIDE DEF r
<1>6. v - p.amount \in IF Seen(e, "total", key) = {} THEN {0} ELSE Seen(e, "total", key)
  <2>1. v = ValueOr(Row(e, "total", key), 0) + p.amount /\ p.amount \in Nat
    <3>1. p.amount \in U256
      BY PaymentIs
    <3>2. \A n \in U256 : n \in Nat
      BY WideIsNat
    <3> QED
      BY <1>1, <3>1, <3>2 DEF TotalWith
  <2>2. Seen(e, "total", key) = UNION Row(e, "total", key)
    BY RowsAreMapped, ZenonT(40) DEF Mapped
  <2>3. Row(e, "total", key) = {} \/ \E w \in Nat : Row(e, "total", key) = {{w}}
    <3>1. IsArgument("total", key) /\ "total" \in Kinds
      BY PaymentIs
    <3>2. Row(e, "total", key) = {} \/ \E w : IsFor("total", key, w) /\ Row(e, "total", key) = {{w}}
      <4>1. RowsInv
        BY DEF DatabaseInv
      <4> HIDE DEF key
      <4> QED
        BY ONLY <3>1, <4>1, e \in Entities DEF RowsInv
    <3>3. \A w : IsFor("total", key, w) => w \in Nat
      <4>1. \A w : IsFor("total", key, w) => w \in U256
        BY DEF IsFor, FitsRow
      <4> QED
        BY <4>1, WideIsNat
    <3> QED
      BY <3>2, <3>3
  <2>4. CASE Row(e, "total", key) = {}
    <3>1. ValueOr(Row(e, "total", key), 0) = 0
      BY <2>4, ValueOrIs
    <3>2. Seen(e, "total", key) = {}
      BY <2>2, <2>4
    <3>3. v = 0 + p.amount
      BY <2>1, <3>1
    <3>4. v - p.amount = 0
      <4>1. 0 \in Nat /\ p.amount \in Nat
        BY <2>1
      <4> QED
        BY ONLY <3>3, <4>1, TakenBack
    <3> QED
      BY ONLY <3>2, <3>4
  <2>5. CASE \E w \in Nat : Row(e, "total", key) = {{w}}
    <3>1. PICK w \in Nat : Row(e, "total", key) = {{w}}
      BY <2>5
    <3>2. v = w + p.amount
      BY <2>1, <3>1, ValueOrIs
    <3>3. v - p.amount = w
      <4>1. w \in Nat /\ p.amount \in Nat
        BY <2>1, <3>1
      <4> QED
        BY ONLY <3>2, <4>1, TakenBack
    <3>4. Seen(e, "total", key) = {w}
      BY <2>2, <3>1
    <3> QED
      BY ONLY <3>3, <3>4
  <2> HIDE DEF key
  <2> QED
    BY ONLY <2>3, <2>4, <2>5
<1>7. Rows!Allowed(e, "total", key, v)
  <2>1. r[3].leaf_index = key /\ r[3].amount = p.amount
    BY <1>5
  <2>2. v - r[3].amount \in IF Rows!Before(e, "total", key) = {} THEN {0} ELSE Rows!Before(e, "total", key)
    BY <1>2, <1>6, <2>1, BeforeIs
  <2> HIDE DEF key
  <2> QED
    BY <1>4, <1>5, <2>1, <2>2 DEF Rows!Allowed, Visible
<1> QED
  BY <1>3, <1>7, RowWritten

(* Whichever put is next, the rows take a step of the abstract specification *)
(* or none.                                                                  *)
LEMMA FlushStep == ASSUME DatabaseInv, DatabaseInv', Flush PROVE Rows!Next \/ Visible' = Visible
<1>1. pending # <<>>
  BY DEF Flush
<1>2. ASSUME NEW e \in Entities, NEW i \in LeafIndices, NEW d \in Destinations,
             dispatched[i + 1] = Raw(i, d), Storing(e, i, d)
      PROVE  Rows!Next \/ Visible' = Visible
  <2>1. CASE LeafNext(e, i, d)
    BY <1>2, <2>1, LeafFlushed, LeafStep DEF Storing
  <2>2. CASE LatestNext(e, i, d)
    BY <1>2, <2>2, LatestFlushed, LatestStep DEF Storing
  <2>3. CASE DestinationNext(e, i, d)
    BY <1>2, <2>3, DestinationFlushed, DestinationStep DEF Storing
  <2>4. CASE MessageNext(e, i)
    BY <1>2, <2>4, MessageFlushed, MessageStep DEF Storing
  <2> QED
    BY <1>2, <2>1, <2>2, <2>3, <2>4 DEF Storing
<1>3. ASSUME batch = <<>>, NEW e \in Entities, NEW p \in Payments, Paying(e, p)
      PROVE  Rows!Next \/ Visible' = Visible
  BY <1>3, PaymentFlushed, MarkStep, TotalStep
<1>4. ASSUME batch = <<>>, NEW e \in Entities, NEW kind \in {"processed leaf", "message cursor", "payment cursor"},
             NEW x, NEW v, Noting(e, kind, x, v)
      PROVE  Rows!Next \/ Visible' = Visible
  <2>1. NextPut(e, kind, x, v)
    BY <1>4, NoteFlushed
  <2> QED
    BY <2>1, NoteStep
<1> QED
  BY <1>1, <1>2, <1>3, <1>4, PendingKinds DEF DatabaseInv

(* The puts into rocksdb implement the typed rows of TypedRows, for any      *)
(* number of outboxes, messages, destinations, payments, operations and      *)
(* crashes.                                                                  *)
THEOREM DatabaseImplementsRows == DatabaseSpec => ImplementsRows
<1>1. DatabaseInit => Rows!Init
  <2>1. ASSUME DatabaseInit
        PROVE  Visible = {}
    <3>1. \A key : Retrieve(key) = {}
      BY <2>1 DEF DatabaseInit, Retrieve
    <3>2. \A e, kind, x : Row(e, kind, x) = {}
      BY <3>1 DEF Row
    <3>3. \A e, table, key : IsRowKey(e, table, key) => Seen(e, table, key) = {}
      <4>1. ASSUME NEW e, NEW table, NEW key, IsRowKey(e, table, key), table # "message"
            PROVE  Seen(e, table, key) = {}
        <5>1. Seen(e, table, key) = UNION Row(e, table, Of(table, key))
          BY <4>1, SeenOf
        <5> QED
          BY <3>2, <5>1
      <4>2. ASSUME NEW e, NEW i, IsRowKey(e, "message", i)
            PROVE  Seen(e, "message", i) = {}
        <5>1. DatabaseInv /\ e \in Entities /\ i \in LeafIndices
          BY <2>1, <4>2, InitHolds, MessageKey
        <5>2. Seen(e, "message", i) = IF Row(e, "leaf", i) = {} THEN {} ELSE UNION Row(e, "message", LeafAt(i))
          BY <5>1, MessagesAreRead DEF MessagesRead, DatabaseInv
        <5> QED
          BY <3>2, <5>2
      <4> QED
        BY <4>1, <4>2
    <3>4. ASSUME NEW r \in Visible
          PROVE  FALSE
      BY <3>3, VisibleFrom
    <3> QED
      BY <3>4
  <2> QED
    BY <2>1 DEF Rows!Init, Visible
<1>2. DatabaseInv /\ DatabaseInv' /\ [DatabaseNext]_database_vars => Rows!Next \/ Visible' = Visible
  <2>1. SUFFICES ASSUME DatabaseInv, DatabaseInv', [DatabaseNext]_database_vars
                 PROVE  Rows!Next \/ Visible' = Visible
    OBVIOUS
  <2>2. CASE Flush
    BY <2>1, <2>2, FlushStep
  <2>3. CASE kv' = kv /\ dispatched' = dispatched
    <3>1. \A e, kind, x : Row(e, kind, x)' = Row(e, kind, x)
      BY <2>3, RowsKept
    <3>2. ASSUME NEW e, NEW table, NEW key, IsRowKey(e, table, key)
          PROVE  Seen(e, table, key)' = Seen(e, table, key)
      <4>1. CASE table # "message"
        BY <3>1, <3>2, <4>1, SeenOf
      <4>2. CASE table = "message"
        <5>1. e \in Entities /\ key \in LeafIndices
          BY <3>2, <4>2, MessageKey
        <5>2. LeafAt(key)' = LeafAt(key)
          BY <2>3 DEF LeafAt
        <5>3. Row(e, "leaf", key)' = Row(e, "leaf", key) /\ Row(e, "message", LeafAt(key))' = Row(e, "message", LeafAt(key))
          BY <3>1, <5>2
        <5> QED
          BY <2>1, <2>3, <4>2, <5>1, <5>3, MessageSeen
      <4> QED
        BY <4>1, <4>2
    <3> QED
      BY <3>2, NothingWritten DEF SeenKept
  <2>4. [DatabaseNext]_database_vars => Flush \/ (kv' = kv /\ dispatched' = dispatched)
    BY DEF DatabaseNext, database_vars, StoreMessages, MarkProcessed, SaveCursor, Pay, Call, StoreLatestMessage, Crash
  <2> QED
    BY <2>1, <2>2, <2>3, <2>4
<1>3. DatabaseInv /\ DatabaseInv' /\ [DatabaseNext]_database_vars => [Rows!Next]_Visible
  BY <1>2
<1> QED
  BY <1>1, <1>3, DatabaseInvariant, PTL DEF DatabaseSpec, ImplementsRows, Rows!Spec, Visible
-----------------------------------------------------------------------------
(***************************************************************************)
(* Facts about finite sets of indices and of validators.                   *)
(***************************************************************************)

(* The greatest element of a set of indices is one of them: of the sets of   *)
(* elements above an element, a least one is empty.                          *)
LEMMA MaxIsIn ==
  ASSUME NEW T \in SUBSET Indices, T # {}
  PROVE  Max(T) \in T
<1> DEFINE Above(i) == {j \in T : j > i}
           aboves == {Above(i) : i \in T}
<1>1. IsFiniteSet(Indices)
  BY SyncerAssumption, FS_Interval DEF Indices
<1>2. aboves \subseteq FiniteSubsetsOf(Indices)
  <2>1. \A i \in T : Above(i) \in SUBSET Indices
    OBVIOUS
  <2>2. \A i \in T : IsFiniteSet(Above(i))
    BY <1>1, <2>1, FS_Subset
  <2> QED
    BY <2>1, <2>2 DEF FiniteSubsetsOf
<1>3. aboves # {}
  <2>1. PICK i \in T : TRUE
    OBVIOUS
  <2>2. Above(i) \in aboves
    BY <2>1
  <2> QED
    BY <2>2
<1>4. PICK least \in aboves : \A a \in aboves : ~ (<<a, least>> \in StrictSubsetOrdering(Indices))
  <2> HIDE DEF aboves
  <2> QED
    BY <1>2, <1>3, FS_StrictSubsetOrderingWellFounded, WFMin
<1>5. PICK i \in T : least = Above(i)
  BY <1>4
<1>6. ASSUME NEW j \in T, j > i
      PROVE  FALSE
  <2>1. i \in Nat /\ j \in Nat /\ \A k \in T : k \in Nat
    BY SyncerAssumption DEF Indices
  <2>2. ASSUME NEW k \in Above(j)
        PROVE  k \in Above(i)
    <3>1. k \in T /\ k > j
      BY <2>2
    <3>2. k > i
      BY <1>6, <2>1, <3>1
    <3> QED
      BY <3>1, <3>2
  <2>3. j \in Above(i) /\ j \notin Above(j)
    BY <1>6, <2>1
  <2>4. <<Above(j), Above(i)>> \in StrictSubsetOrdering(Indices)
    BY <2>2, <2>3 DEF StrictSubsetOrdering
  <2>5. Above(j) \in aboves
    OBVIOUS
  <2> QED
    BY <1>4, <1>5, <2>4, <2>5
<1>7. \A j \in T : i >= j
  BY <1>6, SyncerAssumption DEF Indices
<1> QED
  BY <1>7 DEF Max

(* A set of validators is finite, and a larger one has no fewer elements. *)
LEMMA SmallerSet ==
  ASSUME NEW T \in SUBSET Validators, NEW S \in SUBSET T
  PROVE  /\ IsFiniteSet(T) /\ IsFiniteSet(S)
         /\ Cardinality(S) \in Nat /\ Cardinality(T) \in Nat
         /\ Cardinality(S) <= Cardinality(T)
<1>1. IsFiniteSet(T)
  BY SyncerAssumption, FS_Subset
<1> QED
  BY <1>1, FS_Subset, FS_CardinalityType

(* Votes for one root, each of the validator whose file it is, are as many *)
(* as their signers.                                                       *)
LEMMA OneVoteEach ==
  ASSUME NEW ballots \in SUBSET Vote, NEW root,
         \A b \in ballots : b.signer = b.from /\ b.root = root
  PROVE  /\ {b.signer : b \in ballots} \in SUBSET Validators
         /\ Cardinality(ballots) \in Nat
         /\ Cardinality(ballots) <= Cardinality({b.signer : b \in ballots})
<1> DEFINE signers == {b.signer : b \in ballots}
           f == [b \in ballots |-> b.signer]
<1>1. signers \in SUBSET Validators
  BY DEF Vote
<1>2. IsFiniteSet(signers)
  BY <1>1, SmallerSet
<1>3. f \in [ballots -> signers]
  OBVIOUS
<1>4. ASSUME NEW b \in ballots, NEW c \in ballots, f[b] = f[c]
      PROVE  b = c
  <2>1. b.signer = c.signer /\ b.from = c.from /\ b.root = c.root
    BY <1>4
  <2>2. b \in Vote /\ c \in Vote
    OBVIOUS
  <2> QED
    BY <2>1, <2>2 DEF Vote
<1>5. f \in Injection(ballots, signers)
  BY <1>3, <1>4 DEF Injection, IsInjective
<1> HIDE DEF f, signers
<1>6. IsFiniteSet(ballots) /\ Cardinality(ballots) <= Cardinality(signers)
  BY <1>2, <1>5, FS_Injection
<1> QED
  BY <1>1, <1>6, FS_CardinalityType DEF signers

-----------------------------------------------------------------------------
(***************************************************************************)
(* The inductive invariant.                                                *)
(***************************************************************************)
(* A validator puts an index into its index file only after the checkpoint. *)
StoredFirst ==
  \A v \in Validators :
    /\ latestFile[v] # None => stored[v][latestFile[v]] # NoFile
    /\ writing[v] # None => stored[v][writing[v]] # NoFile

(* A validator that does not diverge has only its own signatures. *)
HonestFiles ==
  \A v \in Validators \ Diverging : \A i \in Indices : stored[v][i] \in {NoFile, Signature(v, i)}

(* A vote is what its validator's file at the index says, signed by itself. *)
VotesInv ==
  /\ pc = "fetch" => index \in Indices
  /\ pc # "fetch" => votes = {} /\ ~ sending
  /\ \A b \in votes :
       /\ b.signer = b.from
       /\ stored[b.from][index] = [index |-> index, root |-> b.root, signer |-> b.from]

(* The validators that have written a checkpoint for i. *)
Signers(i, among) == {v \in among : stored[v][i] # NoFile}

(* An index is not reported more often than it was found signed. *)
ReportsInv ==
  pc = "indices" =>
    \A i \in Indices : reported[i] <= Cardinality(Signers(i, Validators \ unread))

FilesInv == TypeOK /\ StoredFirst /\ HonestFiles
CallInv == VotesInv /\ ReportsInv /\ AnswerIsSigned
SyncerInv == FilesInv /\ CallInv /\ PublishedHasQuorum

(* Neither a checkpoint nor a quorum is nothing. *)
LEMMA Quorums == Threshold \in Nat \ {0} /\ Cardinality(Validators) \in Nat
BY SyncerAssumption, FS_CardinalityType

LEMMA NoFileHasNoIndex == NoFile.index \notin Indices
BY SyncerAssumption DEF NoFile, None, Indices

LEMMA SyncerInvInit == Init => SyncerInv
<1> SUFFICES ASSUME Init
             PROVE  SyncerInv
  OBVIOUS
<1>1. TypeOK
  <2>1. stored \in [Validators -> [Indices -> Checkpoint \cup {NoFile}]]
    BY DEF Init
  <2>2. reported \in [Indices -> Nat]
    BY DEF Init, NoReports
  <2>3. odd \in 0 .. MaxOdd /\ faults \in 0 .. MaxFaults
    BY SyncerAssumption DEF Init
  <2> QED
    BY <2>1, <2>2, <2>3 DEF Init, TypeOK
<1>2. StoredFirst /\ HonestFiles
  BY DEF Init, StoredFirst, HonestFiles
<1>3. VotesInv /\ ReportsInv
  BY DEF Init, VotesInv, ReportsInv
<1>4. AnswerIsSigned /\ PublishedHasQuorum
  BY DEF Init, AnswerIsSigned, PublishedHasQuorum
<1> QED
  BY <1>1, <1>2, <1>3, <1>4 DEF SyncerInv, FilesInv, CallInv

-----------------------------------------------------------------------------
(***************************************************************************)
(* The validators' steps.                                                  *)
(***************************************************************************)
LEMMA ValidatorEffect ==
  ASSUME SyncerInv, NEW v \in Validators, Validator(v)
  PROVE  /\ FilesInv'
         /\ \A w \in Validators, i \in Indices : stored[w][i] # NoFile => stored'[w][i] = stored[w][i]
         /\ UNCHANGED <<pc, callVars, sentVars>>
<1> USE DEF SyncerInv, FilesInv
<1>1. CASE WriteCheckpoint(v)
  <2> USE <1>1 DEF WriteCheckpoint
  <2>1. PICK i \in Indices :
          /\ writing' = [writing EXCEPT ![v] = i]
          /\ \/ stored[v][i] # NoFile /\ UNCHANGED <<stored, odd>>
             \/ /\ stored[v][i] = NoFile
                /\ stored' = [stored EXCEPT ![v][i] = Signature(v, i)]
                /\ UNCHANGED odd
             \/ /\ stored[v][i] = NoFile
                /\ v \in Diverging /\ odd < MaxOdd
                /\ \E file \in Odd(v, i) : stored' = [stored EXCEPT ![v][i] = file]
                /\ odd' = odd + 1
    OBVIOUS
  <2>2. PICK file \in Checkpoint :
          \/ stored[v][i] # NoFile /\ UNCHANGED stored
          \/ /\ stored[v][i] = NoFile /\ stored' = [stored EXCEPT ![v][i] = file]
             /\ v \in Validators \ Diverging => file = Signature(v, i)
    <3>1. Signature(v, i) \in Checkpoint
      BY DEF Signature, Checkpoint
    <3>2. Odd(v, i) \subseteq Checkpoint
      BY DEF Odd, Signature, Checkpoint, TypeOK
    <3> QED
      BY <2>1, <3>1, <3>2
  <2>3. stored' \in [Validators -> [Indices -> Checkpoint \cup {NoFile}]]
    <3>1. CASE UNCHANGED stored
      BY <3>1 DEF TypeOK
    <3>2. CASE stored' = [stored EXCEPT ![v][i] = file]
      <4>1. [stored[v] EXCEPT ![i] = file] \in [Indices -> Checkpoint \cup {NoFile}]
        BY DEF TypeOK
      <4>2. stored' = [stored EXCEPT ![v] = [stored[v] EXCEPT ![i] = file]]
        BY <3>2
      <4> QED
        BY <4>1, <4>2 DEF TypeOK
    <3> QED
      BY <2>2, <3>1, <3>2
  <2>4. odd' \in 0 .. MaxOdd
    BY <2>1, SyncerAssumption DEF TypeOK
  <2>5. TypeOK'
    BY <2>1, <2>3, <2>4 DEF TypeOK, callVars, sentVars
  <2>6. \A w \in Validators, j \in Indices : stored[w][j] # NoFile => stored'[w][j] = stored[w][j]
    BY <2>2 DEF TypeOK
  <2>7. file # NoFile
    BY DEF Checkpoint, NoFile, None, Indices
  <2>8. stored'[v][i] # NoFile
    BY <2>2, <2>7 DEF TypeOK
  <2>9. StoredFirst'
    BY <2>1, <2>6, <2>8 DEF StoredFirst, TypeOK
  <2>10. HonestFiles'
    BY <2>2 DEF HonestFiles, TypeOK
  <2> QED
    BY <2>5, <2>6, <2>9, <2>10
<1>2. CASE WriteIndex(v)
  <2>1. TypeOK'
    BY <1>2 DEF WriteIndex, TypeOK, callVars, sentVars
  <2>2. StoredFirst'
    BY <1>2 DEF WriteIndex, StoredFirst, TypeOK
  <2> QED
    BY <1>2, <2>1, <2>2 DEF WriteIndex, HonestFiles
<1>3. CASE CrashBetweenWrites(v)
  <2>1. TypeOK'
    BY <1>3, SyncerAssumption DEF CrashBetweenWrites, Fault, TypeOK, callVars, sentVars
  <2>2. StoredFirst'
    BY <1>3 DEF CrashBetweenWrites, StoredFirst, TypeOK
  <2> QED
    BY <1>3, <2>1, <2>2 DEF CrashBetweenWrites, HonestFiles
<1> QED
  BY <1>1, <1>2, <1>3 DEF Validator

(* More files do no harm: what a call counts on stays written. *)
LEMMA ValidatorStep ==
  ASSUME SyncerInv, NEW v \in Validators, Validator(v)
  PROVE  SyncerInv'
<1>0. /\ FilesInv'
      /\ \A w \in Validators, i \in Indices : stored[w][i] # NoFile => stored'[w][i] = stored[w][i]
      /\ UNCHANGED <<pc, unread, reported, candidates, index, sending, votes, latest, published>>
  BY ValidatorEffect DEF callVars, sentVars
<1> USE DEF SyncerInv, CallInv
<1>1. \A i \in Indices, among \in SUBSET Validators :
        Cardinality(Signers(i, among)) \in Nat /\ Cardinality(Signers(i, among)') \in Nat
        /\ Cardinality(Signers(i, among)) <= Cardinality(Signers(i, among)')
  <2> TAKE i \in Indices, among \in SUBSET Validators
  <2>1. Signers(i, among) \subseteq Signers(i, among)'
    BY <1>0 DEF Signers
  <2>2. Signers(i, among)' \in SUBSET Validators
    BY DEF Signers
  <2> QED
    BY <2>1, <2>2, SmallerSet
<1>2. VotesInv'
  <2>1. \A b \in votes : b \in Vote
    BY DEF FilesInv, TypeOK
  <2>2. ASSUME NEW b \in votes
        PROVE  stored'[b.from][index] = stored[b.from][index]
    <3>1. b.from \in Validators /\ index \in Indices
      BY <2>1 DEF VotesInv, Vote
    <3>2. stored[b.from][index] = [index |-> index, root |-> b.root, signer |-> b.from]
      BY DEF VotesInv
    <3>3. stored[b.from][index].index = index
      BY <3>2
    <3> QED
      BY <1>0, <3>1, <3>3, NoFileHasNoIndex
  <2> QED
    BY <1>0, <2>2 DEF VotesInv
<1>3. ReportsInv'
  <2> SUFFICES ASSUME pc' = "indices", NEW i \in Indices
               PROVE  reported'[i] <= Cardinality(Signers(i, Validators \ unread)')
    BY <1>0 DEF ReportsInv, Signers
  <2>1. reported[i] \in Nat
    BY DEF FilesInv, TypeOK
  <2> QED
    BY <1>0, <1>1, <2>1, SMTT(30) DEF ReportsInv
<1>4. AnswerIsSigned'
  <2> SUFFICES ASSUME sending
               PROVE  Cardinality(Signers(index, Validators)') >= Threshold
    BY <1>0 DEF AnswerIsSigned, Signers
  <2>1. index \in Indices
    BY DEF VotesInv
  <2>2. Cardinality(Signers(index, Validators)) >= Threshold
    BY DEF AnswerIsSigned, Signers
  <2> QED
    BY <1>0, <1>1, <2>1, <2>2, Quorums
<1>5. PublishedHasQuorum'
  <2> SUFFICES ASSUME published # Nothing
               PROVE  \A w \in published.signers : stored'[w][published.index] = stored[w][published.index]
    BY <1>0 DEF PublishedHasQuorum
  <2> TAKE w \in published.signers
  <2>1. w \in Validators /\ published.index \in Indices
    BY DEF FilesInv, TypeOK
  <2>2. stored[w][published.index] = [index |-> published.index, root |-> published.root, signer |-> w]
    BY DEF PublishedHasQuorum
  <2>3. stored[w][published.index].index = published.index
    BY <2>2
  <2> QED
    BY <1>0, <2>1, <2>3, NoFileHasNoIndex
<1> QED
  BY <1>0, <1>2, <1>3, <1>4, <1>5

-----------------------------------------------------------------------------
(***************************************************************************)
(* The fetcher's steps.  They leave the files alone.                       *)
(***************************************************************************)
CallTypes ==
  /\ pc \in {"poll", "indices", "search", "fetch", "stopped"}
  /\ unread \in SUBSET Validators
  /\ reported \in [Indices -> Nat]
  /\ candidates \in SUBSET Indices
  /\ index \in Indices \cup {None}
  /\ sending \in BOOLEAN
  /\ votes \in SUBSET Vote

QuorumSigned(i) == Cardinality(Signers(i, Validators)) >= Threshold

LEMMA FetcherQuiet ==
  ASSUME SyncerInv, CallTypes', CallInv', UNCHANGED <<storageVars, sentVars>>, faults' \in 0 .. MaxFaults
  PROVE  SyncerInv'
<1> USE DEF SyncerInv, FilesInv, storageVars, sentVars
<1>1. TypeOK'
  BY DEF TypeOK, CallTypes
<1>2. StoredFirst' /\ HonestFiles'
  BY DEF StoredFirst, HonestFiles
<1>3. PublishedHasQuorum'
  BY DEF PublishedHasQuorum
<1> QED
  BY <1>1, <1>2, <1>3

(* How a call of latest_index or fetch_checkpoint ends or begins. *)
LEMMA EndRoundKeeps ==
  ASSUME NEW next \in {"poll", "stopped"}, EndRound(next)
  PROVE  CallTypes' /\ CallInv'
<1> USE DEF EndRound, FreshReports, NoReports
<1>1. CallTypes'
  BY DEF CallTypes
<1>2. VotesInv' /\ ReportsInv' /\ AnswerIsSigned'
  BY DEF VotesInv, ReportsInv, AnswerIsSigned
<1> QED
  BY <1>1, <1>2 DEF CallInv

LEMMA BeginFetchKeeps ==
  ASSUME NEW i \in Indices, NEW forSending \in BOOLEAN, BeginFetch(i, forSending), stored' = stored,
         reported' \in [Indices -> Nat], candidates' \in SUBSET Indices,
         forSending => QuorumSigned(i)
  PROVE  CallTypes' /\ CallInv'
<1> USE DEF BeginFetch
<1>1. CallTypes'
  BY DEF CallTypes
<1>2. VotesInv' /\ ReportsInv'
  BY DEF VotesInv, ReportsInv
<1>3. AnswerIsSigned'
  BY DEF AnswerIsSigned, QuorumSigned, Signers
<1> QED
  BY <1>1, <1>2, <1>3 DEF CallInv

LEMMA AnswerKeeps ==
  ASSUME NEW i \in Indices, Answer(i), stored' = stored, QuorumSigned(i)
  PROVE  CallTypes' /\ CallInv'
<1>1. CASE i <= latest
  BY <1>1, EndRoundKeeps DEF Answer
<1>2. CASE ~ (i <= latest)
  <2>1. BeginFetch(i, TRUE) /\ reported' = FreshReports /\ candidates' = {}
    BY <1>2 DEF Answer
  <2>2. reported' \in [Indices -> Nat]
    BY <2>1 DEF FreshReports, NoReports
  <2>3. candidates' \in SUBSET Indices
    BY <2>1
  <2> QED
    BY <2>1, <2>2, <2>3, BeginFetchKeeps
<1> QED
  BY <1>1, <1>2

LEMMA SearchGoesOnKeeps ==
  ASSUME SyncerInv, SearchGoesOn, ~ sending
  PROVE  CallTypes' /\ CallInv'
<1> USE DEF SearchGoesOn
<1>1. CallTypes'
  BY DEF CallTypes, SyncerInv, FilesInv, TypeOK
<1>2. VotesInv' /\ ReportsInv' /\ AnswerIsSigned'
  BY DEF VotesInv, ReportsInv, AnswerIsSigned
<1> QED
  BY <1>1, <1>2 DEF CallInv

-----------------------------------------------------------------------------
(* latest_index: what it reports was signed by those it has read. *)
LEMMA BeginRoundStep ==
  ASSUME SyncerInv, BeginRound
  PROVE  SyncerInv'
<1> USE DEF SyncerInv, FilesInv, CallInv, BeginRound
<1>1. CallTypes'
  BY DEF CallTypes, TypeOK, FreshReports, NoReports
<1>2. VotesInv' /\ AnswerIsSigned'
  BY DEF VotesInv, AnswerIsSigned
<1>3. ReportsInv'
  <2>1. \A i \in Indices : Cardinality(Signers(i, Validators \ unread)') \in Nat
    BY SmallerSet DEF Signers
  <2> QED
    BY <2>1 DEF ReportsInv, Signers, FreshReports, NoReports
<1>4. faults' \in 0 .. MaxFaults
  BY DEF TypeOK
<1> QED
  BY <1>1, <1>2, <1>3, <1>4, FetcherQuiet

LEMMA ReadLatestStep ==
  ASSUME SyncerInv, NEW v \in Validators, ReadLatest(v)
  PROVE  SyncerInv'
<1> USE DEF SyncerInv, FilesInv, CallInv, ReadLatest
<1>1. faults' \in 0 .. MaxFaults
  BY SyncerAssumption DEF TypeOK, Fault
<1>2. reported' \in [Indices -> Nat]
  BY DEF TypeOK
<1>3. CallTypes'
  BY <1>2 DEF CallTypes, TypeOK
<1>4. VotesInv' /\ AnswerIsSigned'
  BY DEF VotesInv, AnswerIsSigned, storageVars
<1>5. ReportsInv'
  <2> SUFFICES ASSUME NEW i \in Indices
               PROVE  reported'[i] <= Cardinality(Signers(i, Validators \ unread'))
    BY DEF ReportsInv, Signers, storageVars
  <2> DEFINE before == Signers(i, Validators \ unread)
             now == Signers(i, Validators \ unread')
  <2>1. before \in SUBSET Validators /\ now \in SUBSET Validators /\ before \subseteq now
    BY DEF Signers, TypeOK
  <2>2. /\ IsFiniteSet(before) /\ Cardinality(before) \in Nat /\ Cardinality(now) \in Nat
        /\ Cardinality(before) <= Cardinality(now)
    BY <2>1, SmallerSet
  <2>3. reported[i] \in Nat /\ reported[i] <= Cardinality(before)
    BY DEF ReportsInv, TypeOK
  <2>4. CASE latestFile[v] = i /\ reported' = [reported EXCEPT ![latestFile[v]] = @ + 1]
    <3>1. reported'[i] = reported[i] + 1
      BY <2>4 DEF TypeOK
    <3>2. v \in now /\ v \notin before
      BY <2>4, SyncerAssumption DEF Signers, StoredFirst, TypeOK, None, Indices
    <3>3. before \cup {v} \subseteq now
      BY <2>1, <3>2
    <3>4. Cardinality(before \cup {v}) = Cardinality(before) + 1
      BY <2>2, <3>2, FS_AddElement
    <3>5. Cardinality(before \cup {v}) <= Cardinality(now)
      BY <2>1, <3>3, SmallerSet
    <3> QED
      BY <2>2, <2>3, <3>1, <3>4, <3>5
  <2>5. CASE reported'[i] = reported[i]
    BY <2>2, <2>3, <2>5
  <2> QED
    BY <2>4, <2>5 DEF TypeOK
<1> QED
  BY <1>1, <1>3, <1>4, <1>5, FetcherQuiet

LEMMA ChooseIndexStep ==
  ASSUME SyncerInv, ChooseIndex
  PROVE  SyncerInv'
<1> USE DEF SyncerInv, FilesInv, CallInv
<1> DEFINE answered == {i \in Indices : reported[i] > 0}
           agreed == {i \in answered : IsQuorum(reported[i])}
<1>1. UNCHANGED <<storageVars, sentVars>> /\ faults' \in 0 .. MaxFaults /\ stored' = stored
  BY DEF ChooseIndex, TypeOK, storageVars
<1>2. CallTypes' /\ CallInv'
  <2>1. CASE EndRound("poll")
    BY <2>1, EndRoundKeeps
  <2>2. CASE agreed # {} /\ Answer(Max(agreed))
    <3>1. agreed \in SUBSET Indices /\ Max(agreed) \in agreed
      BY <2>2, MaxIsIn
    <3>2. Max(agreed) \in Indices /\ reported[Max(agreed)] >= Threshold
      BY <3>1 DEF IsQuorum
    <3>3. reported[Max(agreed)] <= Cardinality(Signers(Max(agreed), Validators))
      <4>1. pc = "indices" /\ Validators \ unread = Validators
        BY DEF ChooseIndex
      <4> QED
        BY <3>2, <4>1 DEF ReportsInv
    <3>4. QuorumSigned(Max(agreed))
      <4>1. Cardinality(Signers(Max(agreed), Validators)) \in Nat
        BY SmallerSet DEF Signers
      <4>2. reported[Max(agreed)] \in Nat
        BY <3>2 DEF TypeOK
      <4> QED
        BY <3>2, <3>3, <4>1, <4>2, Quorums DEF QuorumSigned
    <3> QED
      BY <1>1, <2>2, <3>2, <3>4, AnswerKeeps
  <2>3. CASE /\ pc = "indices" /\ pc' = "search"
             /\ candidates' = answered \ {Max(answered)}
             /\ UNCHANGED <<unread, reported, index, sending, votes>>
    <3>1. CallTypes'
      BY <2>3 DEF CallTypes, TypeOK
    <3>2. VotesInv' /\ ReportsInv' /\ AnswerIsSigned'
      BY <2>3 DEF VotesInv, ReportsInv, AnswerIsSigned
    <3> QED
      BY <3>1, <3>2
  <2> QED
    BY <2>1, <2>2, <2>3 DEF ChooseIndex, LowerReports
<1> QED
  BY <1>1, <1>2, FetcherQuiet

LEMMA SearchNextStep ==
  ASSUME SyncerInv, SearchNext
  PROVE  SyncerInv'
<1> USE DEF SyncerInv, FilesInv, CallInv
<1>1. UNCHANGED <<storageVars, sentVars>> /\ faults' \in 0 .. MaxFaults /\ stored' = stored
  BY DEF SearchNext, TypeOK, storageVars
<1>2. CASE candidates = {}
  BY <1>1, <1>2, EndRoundKeeps, FetcherQuiet DEF SearchNext
<1>3. CASE candidates # {}
  <2>1. BeginFetch(Max(candidates), FALSE) /\ Max(candidates) \in Indices
    BY <1>3, MaxIsIn DEF SearchNext, TypeOK
  <2>2. reported' \in [Indices -> Nat] /\ candidates' \in SUBSET Indices
    BY <1>3 DEF SearchNext, TypeOK
  <2>3. CallTypes' /\ CallInv'
    BY <1>1, <2>1, <2>2, BeginFetchKeeps
  <2> QED
    BY <1>1, <2>3, FetcherQuiet
<1> QED
  BY <1>2, <1>3

-----------------------------------------------------------------------------
(* fetch_checkpoint. *)
LEMMA ReadPassedOverStep ==
  ASSUME SyncerInv, NEW v \in Validators, ReadPassedOver(v)
  PROVE  SyncerInv'
<1> USE DEF SyncerInv, FilesInv, CallInv, ReadPassedOver
<1>1. faults' \in 0 .. MaxFaults
  BY SyncerAssumption DEF TypeOK, Fault
<1>2. CallTypes'
  BY DEF CallTypes, TypeOK
<1>3. VotesInv' /\ ReportsInv' /\ AnswerIsSigned'
  BY DEF VotesInv, ReportsInv, AnswerIsSigned, storageVars
<1> QED
  BY <1>1, <1>2, <1>3, FetcherQuiet

LEMMA ReadUnrecoverableStep ==
  ASSUME SyncerInv, NEW v \in Validators, ReadUnrecoverable(v)
  PROVE  SyncerInv'
<1>1. UNCHANGED <<storageVars, sentVars>> /\ faults' \in 0 .. MaxFaults
  BY DEF ReadUnrecoverable, SyncerInv, FilesInv, TypeOK
<1>2. CASE sending
  BY <1>1, <1>2, EndRoundKeeps, FetcherQuiet DEF ReadUnrecoverable
<1>3. CASE ~ sending
  BY <1>1, <1>3, SearchGoesOnKeeps, FetcherQuiet DEF ReadUnrecoverable
<1> QED
  BY <1>2, <1>3

LEMMA NoQuorumStep ==
  ASSUME SyncerInv, NoQuorum
  PROVE  SyncerInv'
<1>1. UNCHANGED <<storageVars, sentVars>> /\ faults' \in 0 .. MaxFaults
  BY DEF NoQuorum, SyncerInv, FilesInv, TypeOK
<1>2. CASE sending
  BY <1>1, <1>2, EndRoundKeeps, FetcherQuiet DEF NoQuorum
<1>3. CASE ~ sending
  BY <1>1, <1>3, SearchGoesOnKeeps, FetcherQuiet DEF NoQuorum
<1> QED
  BY <1>2, <1>3

(* A quorum of votes for one root is a quorum of validators whose files at   *)
(* the index hold that root under their own signatures.                      *)
LEMMA QuorumOfVotes ==
  ASSUME SyncerInv, pc = "fetch", NEW v \in Validators, NEW root \in {"outbox", "other"},
         stored[v][index] = [index |-> index, root |-> root, signer |-> v],
         NEW ballots, ballots = VotesFor(root) \cup {[from |-> v, root |-> root, signer |-> v]},
         IsQuorum(Cardinality(ballots))
  PROVE  LET signers == {b.signer : b \in ballots} IN
         /\ index \in Indices /\ QuorumSigned(index)
         /\ signers \in SUBSET Validators /\ Cardinality(signers) >= Threshold
         /\ \A w \in signers : stored[w][index] = [index |-> index, root |-> root, signer |-> w]
         /\ Multisig(ballots) = [index |-> index, root |-> root, signers |-> signers]
<1> DEFINE signers == {b.signer : b \in ballots}
<1> USE DEF SyncerInv, FilesInv, CallInv
<1>1. index \in Indices
  BY DEF VotesInv
<1>2. ballots \in SUBSET Vote
  BY DEF VotesFor, Vote, TypeOK
<1>3. \A b \in ballots : b.signer = b.from /\ b.root = root
  <2> TAKE b \in ballots
  <2>1. CASE b \in votes /\ b.root = root
    BY <2>1 DEF VotesInv
  <2>2. CASE b = [from |-> v, root |-> root, signer |-> v]
    BY <2>2
  <2> QED
    BY <2>1, <2>2 DEF VotesFor
<1>4. /\ signers \in SUBSET Validators
      /\ Cardinality(ballots) \in Nat
      /\ Cardinality(ballots) <= Cardinality(signers)
  BY <1>2, <1>3, OneVoteEach
<1>5. Cardinality(signers) \in Nat /\ Cardinality(signers) >= Threshold
  <2>1. Cardinality(signers) \in Nat
    BY <1>4, SmallerSet
  <2> QED
    BY <1>4, <2>1, Quorums DEF IsQuorum
<1>6. \A w \in signers : stored[w][index] = [index |-> index, root |-> root, signer |-> w]
  <2> SUFFICES ASSUME NEW b \in ballots
               PROVE  stored[b.signer][index] = [index |-> index, root |-> root, signer |-> b.signer]
    OBVIOUS
  <2>1. CASE b \in votes /\ b.root = root
    <3>1. /\ b.signer = b.from
          /\ stored[b.from][index] = [index |-> index, root |-> b.root, signer |-> b.from]
      BY <2>1 DEF VotesInv
    <3> QED
      BY <2>1, <3>1
  <2>2. CASE b = [from |-> v, root |-> root, signer |-> v]
    <3>1. b.signer = v
      BY <2>2
    <3> QED
      BY <3>1
  <2> QED
    BY <2>1, <2>2 DEF VotesFor
<1>7. QuorumSigned(index)
  <2>1. ASSUME NEW w \in signers
        PROVE  stored[w][index] # NoFile
    <3>1. stored[w][index] = [index |-> index, root |-> root, signer |-> w]
      BY <1>6
    <3>2. stored[w][index].index = index
      BY <3>1
    <3> QED
      BY <1>1, <3>2, NoFileHasNoIndex
  <2>2. signers \subseteq Signers(index, Validators) /\ Signers(index, Validators) \in SUBSET Validators
    BY <1>4, <2>1 DEF Signers
  <2>3. /\ Cardinality(Signers(index, Validators)) \in Nat
        /\ Cardinality(signers) <= Cardinality(Signers(index, Validators))
    BY <2>2, SmallerSet
  <2> QED
    BY <1>5, <2>3, Quorums DEF QuorumSigned
<1>8. Multisig(ballots) = [index |-> index, root |-> root, signers |-> signers]
  <2>1. (CHOOSE vote \in ballots : TRUE) \in ballots
    OBVIOUS
  <2> QED
    BY <1>3, <2>1 DEF Multisig
<1> QED
  BY <1>1, <1>4, <1>5, <1>6, <1>7, <1>8

LEMMA ReadVoteStep ==
  ASSUME SyncerInv, NEW v \in Validators, ReadVote(v)
  PROVE  SyncerInv'
<1> DEFINE file == stored[v][index]
           vote == [from |-> v, root |-> file.root, signer |-> file.signer]
           forRoot == VotesFor(file.root) \cup {vote}
<1>1. /\ UNCHANGED storageVars /\ faults' = faults /\ stored' = stored
      /\ pc = "fetch" /\ v \in unread /\ index \in Indices
      /\ faults' \in 0 .. MaxFaults
  BY DEF ReadVote, SyncerInv, FilesInv, CallInv, VotesInv, TypeOK, storageVars
<1>2. file \in Checkpoint /\ file.index = index /\ file.signer = v
  <2>1. file \in Checkpoint \cup {NoFile}
    BY <1>1 DEF SyncerInv, FilesInv, TypeOK
  <2>2. file # NoFile /\ file.signer # Nobody /\ ~ PassedOver(v, file)
    BY DEF ReadVote
  <2> QED
    BY <2>1, <2>2 DEF PassedOver, SignedBy
<1>3. /\ file.root \in {"outbox", "other"}
      /\ file = [index |-> index, root |-> file.root, signer |-> v]
      /\ vote = [from |-> v, root |-> file.root, signer |-> v]
      /\ vote \in Vote
  BY <1>2 DEF Checkpoint, Vote
<1>4. CASE ~ IsQuorum(Cardinality(forRoot))
  <2>1. /\ votes' = votes \cup {vote}
        /\ unread' = unread \ {v}
        /\ UNCHANGED <<pc, reported, candidates, index, sending, sentVars>>
    BY <1>4 DEF ReadVote
  <2>2. CallTypes'
    BY <1>3, <2>1 DEF CallTypes, SyncerInv, FilesInv, TypeOK
  <2>3. VotesInv'
    BY <1>1, <1>3, <2>1 DEF VotesInv, SyncerInv, CallInv
  <2>4. ReportsInv' /\ AnswerIsSigned'
    BY <1>1, <2>1 DEF ReportsInv, AnswerIsSigned, SyncerInv, CallInv
  <2> QED
    BY <1>1, <2>1, <2>2, <2>3, <2>4, FetcherQuiet DEF CallInv
<1>5. CASE IsQuorum(Cardinality(forRoot)) /\ sending
  <2> DEFINE signers == {b.signer : b \in forRoot}
  <2>1. published' = Multisig(forRoot) /\ latest' = index /\ EndRound("poll")
    BY <1>5 DEF ReadVote
  <2>2. /\ signers \in SUBSET Validators /\ Cardinality(signers) >= Threshold
        /\ \A w \in signers : stored[w][index] = [index |-> index, root |-> file.root, signer |-> w]
        /\ Multisig(forRoot) = [index |-> index, root |-> file.root, signers |-> signers]
    <3> DEFINE root == file.root
    <3>1. forRoot = VotesFor(root) \cup {[from |-> v, root |-> root, signer |-> v]}
      BY <1>3
    <3> HIDE DEF forRoot, root
    <3>2. /\ root \in {"outbox", "other"}
          /\ stored[v][index] = [index |-> index, root |-> root, signer |-> v]
      BY <1>3 DEF root
    <3>3. LET voters == {b.signer : b \in forRoot} IN
            /\ voters \in SUBSET Validators /\ Cardinality(voters) >= Threshold
            /\ \A w \in voters : stored[w][index] = [index |-> index, root |-> root, signer |-> w]
            /\ Multisig(forRoot) = [index |-> index, root |-> root, signers |-> voters]
      BY <1>1, <1>5, <3>1, <3>2, QuorumOfVotes, ZenonT(40)
    <3> QED
      BY <3>3 DEF root
  <2>3. CallTypes' /\ CallInv'
    BY <2>1, EndRoundKeeps
  <2>4. published' = [index |-> index, root |-> file.root, signers |-> signers]
    BY <2>1, <2>2
  <2>5. FilesInv'
    <3>1. published' \in [index : Indices, root : {"outbox", "other"}, signers : SUBSET Validators]
      BY <1>1, <1>3, <2>2, <2>4
    <3>2. latest' \in Indices
      BY <1>1, <2>1
    <3>3. TypeOK'
      BY <1>1, <2>3, <3>1, <3>2 DEF TypeOK, CallTypes, SyncerInv, FilesInv, storageVars
    <3>4. StoredFirst' /\ HonestFiles'
      BY <1>1 DEF StoredFirst, HonestFiles, SyncerInv, FilesInv, storageVars
    <3> QED
      BY <3>3, <3>4 DEF FilesInv
  <2>6. PublishedHasQuorum'
    <3>1. /\ published'.index = index /\ published'.root = file.root /\ published'.signers = signers
      BY <2>4
    <3>2. ASSUME Cardinality(Diverging) < Threshold
          PROVE  file.root = "outbox"
      <4>1. PICK w \in signers : w \notin Diverging
        <5>1. Diverging \in SUBSET Validators
          BY SyncerAssumption
        <5>2. signers \subseteq Diverging => Cardinality(signers) <= Cardinality(Diverging)
          BY <5>1, SmallerSet
        <5>3. Cardinality(signers) \in Nat /\ Cardinality(Diverging) \in Nat
          BY <2>2, <5>1, SmallerSet
        <5> QED
          BY <2>2, <3>2, <5>2, <5>3, Quorums
      <4>2. stored[w][index] \in {NoFile, Signature(w, index)}
        BY <1>1, <2>2, <4>1 DEF SyncerInv, FilesInv, HonestFiles
      <4>3. stored[w][index] = [index |-> index, root |-> file.root, signer |-> w]
        BY <2>2, <4>1
      <4>4. stored[w][index].index = index /\ stored[w][index].root = file.root
        BY <4>3
      <4>5. stored[w][index] = Signature(w, index)
        BY <1>1, <4>2, <4>4, NoFileHasNoIndex
      <4>6. stored[w][index].root = "outbox"
        BY <4>5 DEF Signature
      <4> QED
        BY <4>4, <4>6
    <3> QED
      BY <1>1, <2>2, <3>1, <3>2 DEF PublishedHasQuorum
  <2> QED
    BY <2>3, <2>5, <2>6 DEF SyncerInv
<1>6. CASE IsQuorum(Cardinality(forRoot)) /\ ~ sending
  <2>1. Answer(index) /\ UNCHANGED sentVars
    BY <1>6 DEF ReadVote
  <2>2. QuorumSigned(index)
    BY <1>1, <1>3, <1>6, QuorumOfVotes
  <2>3. CallTypes' /\ CallInv'
    BY <1>1, <2>1, <2>2, AnswerKeeps
  <2> QED
    BY <1>1, <2>1, <2>3, FetcherQuiet
<1> QED
  BY <1>4, <1>5, <1>6

-----------------------------------------------------------------------------
(***************************************************************************)
(* The theorems.                                                           *)
(***************************************************************************)
LEMMA SyncerInvStep == SyncerInv /\ [Next]_vars => SyncerInv'
<1> SUFFICES ASSUME SyncerInv, [Next]_vars
             PROVE  SyncerInv'
  OBVIOUS
<1>1. CASE \E v \in Validators : Validator(v)
  BY <1>1, ValidatorStep
<1>2. CASE Fetcher
  BY <1>2, BeginRoundStep, ChooseIndexStep, SearchNextStep, NoQuorumStep, ReadLatestStep,
     ReadPassedOverStep, ReadUnrecoverableStep, ReadVoteStep
  DEF Fetcher
<1>3. CASE UNCHANGED vars
  <2>1. TypeOK' /\ StoredFirst' /\ HonestFiles'
    BY <1>3 DEF SyncerInv, FilesInv, TypeOK, StoredFirst, HonestFiles, vars, storageVars, callVars, sentVars
  <2>2. VotesInv' /\ ReportsInv' /\ AnswerIsSigned'
    BY <1>3 DEF SyncerInv, CallInv, VotesInv, ReportsInv, Signers, AnswerIsSigned, vars, storageVars, callVars
  <2>3. PublishedHasQuorum'
    BY <1>3 DEF SyncerInv, PublishedHasQuorum, vars, storageVars, sentVars
  <2> QED
    BY <2>1, <2>2, <2>3 DEF SyncerInv, FilesInv, CallInv
<1> QED
  BY <1>1, <1>2, <1>3 DEF Next

(* The invariant holds of latest_index and fetch_checkpoint beside the          *)
(* validators that write their files.                                          *)
THEOREM SyncerInvariant == Spec => []SyncerInv
BY SyncerInvInit, SyncerInvStep, PTL DEF Spec

(* The variables keep their types, for every number of validators. *)
THEOREM SyncerTypeCorrect == Spec => []TypeOK
<1>1. SyncerInv => TypeOK
  BY DEF SyncerInv, FilesInv
<1> QED
  BY <1>1, SyncerInvariant, PTL

(* latest_index answers only an index that a quorum of validators has written  *)
(* a checkpoint for, however its reads and their writes interleave.            *)
THEOREM AnswerIsSignedHolds == Spec => []AnswerIsSigned
<1>1. SyncerInv => AnswerIsSigned
  BY DEF SyncerInv, CallInv
<1> QED
  BY <1>1, SyncerInvariant, PTL

(* What is published has a quorum of distinct signers of that root and index,  *)
(* and the outbox's root if fewer validators than a quorum diverge.            *)
THEOREM PublishedHasQuorumHolds == Spec => []PublishedHasQuorum
<1>1. SyncerInv => PublishedHasQuorum
  BY DEF SyncerInv
<1> QED
  BY <1>1, SyncerInvariant, PTL
=============================================================================
