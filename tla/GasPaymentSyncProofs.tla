------------------------ MODULE GasPaymentSyncProofs ------------------------
(***************************************************************************)
(* Proofs about the gas-payment indexer, for any payments, any chunk size  *)
(* and any number of wrong answers and crashes: the types, that it jumps   *)
(* over no payment the provider did not leave out itself, and that the     *)
(* totals hold every payment once.                                         *)
(***************************************************************************)
EXTENDS GasPaymentSync, FiniteSetTheorems, WellFoundedInduction, TLAPS

-----------------------------------------------------------------------------
(***************************************************************************)
(* Least counterexamples.  The library's induction theorems have an        *)
(* operator as a parameter; that finite sets are well founded has not, and *)
(* serves as well.                                                         *)
(***************************************************************************)
LEMMA PaymentsFinite == IsFiniteSet(Payments)
BY GasPaymentSyncAssumption, FS_Interval DEF Payments

(* A set of sets of payments that is not empty has a least one. *)
LEMMA LeastCounterexample ==
  ASSUME NEW bad \in SUBSET SUBSET Payments, bad # {}
  PROVE  \E S \in bad : \A T \in bad : ~ (T \subseteq S /\ T # S)
<1>1. bad \subseteq FiniteSubsetsOf(Payments)
  BY PaymentsFinite, FS_FiniteSubsetsOfFinite
<1>2. PICK S \in bad : \A T \in bad : ~ (<<T, S>> \in StrictSubsetOrdering(Payments))
  BY <1>1, FS_StrictSubsetOrderingWellFounded, WFMin
<1> QED
  BY <1>2 DEF StrictSubsetOrdering

(* The least payment of a set is one of its payments: of the sets of payments *)
(* below a payment of the set, a least one is empty.                          *)
LEMMA LeastIsIn ==
  ASSUME NEW T \in SUBSET Payments, T # {}
  PROVE  Least(T) \in T
<1> DEFINE Below(i) == {j \in T : j < i}
           belows == {Below(i) : i \in T}
<1>1. \A j \in T : j \in Int
  BY DEF Payments
<1>2. belows \in SUBSET SUBSET Payments /\ belows # {}
  OBVIOUS
<1>3. PICK smallest \in belows : \A b \in belows : ~ (b \subseteq smallest /\ b # smallest)
  <2> HIDE DEF belows
  <2> QED
    BY <1>2, LeastCounterexample
<1>4. PICK i \in T : smallest = Below(i)
  OBVIOUS
<1>5. ASSUME NEW j \in T, j < i
      PROVE  FALSE
  <2>1. ASSUME NEW k \in Below(j)
        PROVE  k \in Below(i)
    BY <1>1, <1>5, <2>1
  <2>2. j \in Below(i) /\ j \notin Below(j)
    BY <1>1, <1>5
  <2>3. Below(j) \in belows
    OBVIOUS
  <2> QED
    BY <1>3, <1>4, <2>1, <2>2, <2>3
<1>6. \A j \in T : i <= j
  BY <1>1, <1>5
<1> QED
  BY <1>6 DEF Least

-----------------------------------------------------------------------------
(***************************************************************************)
(* The inductive invariant.                                                *)
(***************************************************************************)
Seen == metaProcessed \cup omitted

(* While a range is processed, it reaches back to from, and each payment in  *)
(* its full chunk is still in the batch, or was processed, or was left out.  *)
RangeInv ==
  /\ pc \in {"fetch", "meta", "total", "block"} => to <= from + ChunkSize
  /\ pc \in {"meta", "total"} <=> batch # {}
  /\ pc = "total" => Processing \in metaProcessed
  /\ pc \in {"meta", "total", "block"} =>
       \A p \in Payments : FullChunkFrom <= blockOf[p] /\ blockOf[p] <= to => p \in batch \cup Seen

NotBeforeFrom == \A p \in Payments : ConfigFrom <= blockOf[p]

GasInv == TypeOK /\ NotBeforeFrom /\ RangeInv /\ NoSilentGap

LEMMA Numbers ==
  /\ Payments \subseteq Nat /\ Blocks \subseteq Nat
  /\ \A b \in Blocks : b <= MaxBlock
  /\ NoBlock \notin Blocks
  /\ ConfigFrom \in Blocks /\ 0 \in Blocks
BY GasPaymentSyncAssumption DEF Payments, Blocks, NoBlock

LEMMA BlocksAreNat ==
  ASSUME TypeOK, NEW p \in Payments
  PROVE  blockOf[p] \in Nat /\ from \in Nat /\ to \in Nat
<1>1. blockOf[p] \in Blocks /\ to \in Blocks /\ from \in 0 .. (MaxBlock + 1)
  BY DEF TypeOK
<1> QED
  BY <1>1, GasPaymentSyncAssumption DEF Blocks

LEMMA GasInvInit == Init => GasInv
<1> SUFFICES ASSUME Init
             PROVE  GasInv
  OBVIOUS
<1> USE GasPaymentSyncAssumption DEF Init
<1>1. blockOf \in [Payments -> ConfigFrom .. MaxBlock]
  OBVIOUS
<1>2. TypeOK
  BY <1>1, Numbers DEF TypeOK, Blocks
<1>3. NotBeforeFrom
  BY <1>1 DEF NotBeforeFrom
<1>4. RangeInv
  BY DEF RangeInv
<1>5. NoSilentGap
  BY <1>1 DEF NoSilentGap, NoBlock
<1> QED
  BY <1>2, <1>3, <1>4, <1>5 DEF GasInv

-----------------------------------------------------------------------------
(***************************************************************************)
(* Each step keeps it.                                                     *)
(***************************************************************************)
LEMMA GetTipStep ==
  ASSUME GasInv, GetTip
  PROVE  GasInv'
<1> USE GasPaymentSyncAssumption, Numbers DEF GetTip, GasInv, dbVars
<1>1. TypeOK'
  BY DEF TypeOK, Flaky, Blocks
<1>2. NotBeforeFrom'
  BY DEF NotBeforeFrom
<1>3. RangeInv'
  BY DEF RangeInv, TypeOK, Blocks
<1>4. NoSilentGap'
  BY DEF NoSilentGap
<1> QED
  BY <1>1, <1>2, <1>3, <1>4

(* A payment in the range that is not in the answer counts as left out. *)
LEMMA FetchStep ==
  ASSUME GasInv, Fetch
  PROVE  GasInv'
<1> USE GasPaymentSyncAssumption, Numbers DEF Fetch, GasInv, dbVars
<1>1. PICK answer \in SUBSET Paid(FullChunkFrom, to) :
        /\ IF answer = Paid(FullChunkFrom, to) THEN UNCHANGED flaky ELSE Flaky
        /\ omitted' = omitted \cup (Paid(FullChunkFrom, to) \ answer)
        /\ batch' = answer
        /\ pc' = IF answer = {} THEN "block" ELSE "meta"
  OBVIOUS
<1>2. answer \in SUBSET Payments /\ Paid(FullChunkFrom, to) \in SUBSET Payments
  BY DEF Paid
<1>3. flaky' \in 0 .. MaxFlaky
  BY <1>1 DEF TypeOK, Flaky
<1>4. TypeOK'
  BY <1>1, <1>2, <1>3 DEF TypeOK
<1>5. NotBeforeFrom'
  BY DEF NotBeforeFrom
<1>6. RangeInv'
  <2>1. FullChunkFrom' = FullChunkFrom
    BY DEF FullChunkFrom
  <2>2. ASSUME NEW p \in Payments, FullChunkFrom <= blockOf[p], blockOf[p] <= to
        PROVE  p \in batch' \cup Seen'
    BY <1>1, <2>2 DEF Paid, Seen
  <2> QED
    BY <1>1, <2>1, <2>2 DEF RangeInv
<1>7. NoSilentGap'
  BY <1>1 DEF NoSilentGap
<1> QED
  BY <1>4, <1>5, <1>6, <1>7

LEMMA FetchFailsStep ==
  ASSUME GasInv, FetchFails
  PROVE  GasInv'
<1> USE GasPaymentSyncAssumption DEF FetchFails, GasInv, dbVars
<1>1. TypeOK'
  BY DEF TypeOK, Flaky
<1>2. NotBeforeFrom' /\ RangeInv' /\ NoSilentGap'
  BY DEF NotBeforeFrom, RangeInv, NoSilentGap
<1> QED
  BY <1>1, <1>2

(* A payment that leaves the batch was processed. *)
LEMMA DoneKeeps ==
  ASSUME GasInv, pc \in {"meta", "total"}, Done(Processing), Processing \in metaProcessed,
         total' \in [PaidLeaves -> Nat],
         UNCHANGED <<blockOf, height, from, to, metaProcessed, latestBlock, omitted, lost, flaky, crashes>>
  PROVE  GasInv'
<1> USE DEF GasInv, Done
<1>1. Processing \in batch
  BY LeastIsIn DEF Processing, RangeInv, TypeOK
<1>2. TypeOK'
  BY DEF TypeOK
<1>3. NotBeforeFrom'
  BY DEF NotBeforeFrom
<1>4. RangeInv'
  <2>1. FullChunkFrom' = FullChunkFrom /\ Seen' = Seen
    BY DEF FullChunkFrom, Seen
  <2>2. batch \subseteq batch' \cup Seen'
    BY DEF Seen
  <2>3. batch = {Processing} <=> batch' = {}
    BY <1>1
  <2> QED
    BY <2>1, <2>2, <2>3 DEF RangeInv
<1>5. NoSilentGap'
  BY DEF NoSilentGap
<1> QED
  BY <1>2, <1>3, <1>4, <1>5

LEMMA SkipPaymentStep ==
  ASSUME GasInv, SkipPayment
  PROVE  GasInv'
BY DoneKeeps DEF SkipPayment, AlreadyProcessed, dbVars, GasInv, TypeOK

LEMMA PutTotalStep ==
  ASSUME GasInv, PutTotal
  PROVE  GasInv'
<1>1. Processing \in Payments /\ Processing \in metaProcessed
  BY LeastIsIn DEF PutTotal, GasInv, RangeInv, TypeOK, Processing
<1>2. total' \in [PaidLeaves -> Nat]
  <2>1. LeafOf[Processing] \in PaidLeaves /\ Amount[Processing] \in Nat
    BY <1>1, GasPaymentSyncAssumption DEF PaidLeaves
  <2> QED
    BY <2>1 DEF PutTotal, Added, GasInv, TypeOK
<1> QED
  BY <1>1, <1>2, DoneKeeps DEF PutTotal

LEMMA PutMetaStep ==
  ASSUME GasInv, PutMeta
  PROVE  GasInv'
<1> USE DEF PutMeta, GasInv
<1>1. Processing \in Payments /\ Processing' = Processing
  BY LeastIsIn DEF RangeInv, TypeOK, Processing
<1>2. TypeOK'
  BY <1>1 DEF TypeOK
<1>3. NotBeforeFrom' /\ NoSilentGap'
  BY DEF NotBeforeFrom, NoSilentGap
<1>4. RangeInv'
  BY <1>1 DEF RangeInv, Seen, FullChunkFrom
<1> QED
  BY <1>2, <1>3, <1>4

(* The range is done: everything up to its end was searched. *)
LEMMA PutBlockStep ==
  ASSUME GasInv, PutBlock
  PROVE  GasInv'
<1> USE GasPaymentSyncAssumption, Numbers DEF PutBlock, GasInv, NextFrom
<1>1. TypeOK'
  BY DEF TypeOK, Blocks
<1>2. NotBeforeFrom'
  BY DEF NotBeforeFrom
<1>3. RangeInv'
  BY DEF RangeInv
<1>4. ASSUME NEW p \in Payments, blockOf[p] <= to
      PROVE  p \in metaProcessed' \cup omitted'
  <2>1. blockOf[p] \in Nat /\ from \in Nat /\ to \in Nat
    BY BlocksAreNat
  <2>2. CASE blockOf[p] < from
    BY <2>2 DEF NoSilentGap
  <2>3. CASE from <= blockOf[p]
    <3>1. to <= from + ChunkSize
      BY DEF RangeInv
    <3>2. FullChunkFrom <= from
      BY <2>1, <3>1 DEF FullChunkFrom
    <3>3. FullChunkFrom <= blockOf[p]
      BY <2>1, <2>3, <3>2 DEF FullChunkFrom
    <3> QED
      BY <1>4, <3>3 DEF RangeInv, Seen
  <2> QED
    BY <2>1, <2>2, <2>3
<1>5. NoSilentGap'
  <2>1. ASSUME NEW p \in Payments, blockOf[p] < to + 1
        PROVE  blockOf[p] <= to
    <3>1. blockOf[p] \in Nat /\ to \in Nat
      BY BlocksAreNat
    <3> QED
      BY ONLY <2>1, <3>1
  <2> QED
    BY <1>4, <2>1 DEF NoSilentGap
<1> QED
  BY <1>1, <1>2, <1>3, <1>5

(* A start goes on after the last indexed block, or from the configured one. *)
LEMMA StartStep ==
  ASSUME GasInv, Start, crashes' \in 0 .. MaxCrashes, lost' \in SUBSET Payments
  PROVE  GasInv'
<1> USE GasPaymentSyncAssumption, Numbers DEF Start, GasInv, dbVars
<1>1. from' \in 0 .. (MaxBlock + 1)
  <2>1. CASE latestBlock = NoBlock
    BY <2>1 DEF ResumeFrom
  <2>2. CASE latestBlock # NoBlock
    BY <2>2 DEF ResumeFrom, TypeOK
  <2> QED
    BY <2>1, <2>2
<1>2. TypeOK'
  BY <1>1 DEF TypeOK
<1>3. NotBeforeFrom'
  BY DEF NotBeforeFrom
<1>4. RangeInv'
  BY DEF RangeInv
<1>5. ASSUME NEW p \in Payments, blockOf[p] < from'
      PROVE  p \in metaProcessed \cup omitted
  <2>1. blockOf[p] \in Nat
    BY DEF TypeOK
  <2>2. latestBlock # NoBlock
    BY <1>5, <2>1 DEF ResumeFrom, NotBeforeFrom
  <2>3. blockOf[p] <= latestBlock
    BY <1>5, <2>1, <2>2 DEF ResumeFrom, TypeOK
  <2> QED
    BY <2>3 DEF NoSilentGap
<1>6. NoSilentGap'
  BY <1>5 DEF NoSilentGap
<1> QED
  BY <1>2, <1>3, <1>4, <1>6

LEMMA GasInvStep == GasInv /\ [Next]_vars => GasInv'
<1> SUFFICES ASSUME GasInv, [Next]_vars
             PROVE  GasInv'
  OBVIOUS
<1>1. CASE Crash
  <2>1. crashes' \in 0 .. MaxCrashes
    BY <1>1, GasPaymentSyncAssumption DEF Crash, GasInv, TypeOK
  <2>2. lost' \in SUBSET Payments
    BY <1>1, LeastIsIn DEF Crash, GasInv, TypeOK, RangeInv, Processing
  <2> QED
    BY <1>1, <2>1, <2>2, StartStep DEF Crash
<1>2. CASE RestartAfterExit
  BY <1>2, StartStep DEF RestartAfterExit, GasInv, TypeOK
<1>3. CASE FinalizeBlock \/ UNCHANGED vars
  <2> USE GasPaymentSyncAssumption DEF FinalizeBlock, vars, GasInv, dbVars
  <2>1. TypeOK'
    BY <1>3 DEF TypeOK, Blocks
  <2>2. NotBeforeFrom' /\ NoSilentGap'
    BY <1>3 DEF NotBeforeFrom, NoSilentGap
  <2>3. RangeInv'
    BY <1>3 DEF RangeInv, Seen, FullChunkFrom, Processing
  <2> QED
    BY <2>1, <2>2, <2>3
<1>4. CASE GetTip \/ Fetch \/ FetchFails \/ Process
  BY <1>4, GetTipStep, FetchStep, FetchFailsStep, SkipPaymentStep, PutMetaStep,
     PutTotalStep, PutBlockStep DEF Process
<1> QED
  BY <1>1, <1>2, <1>3, <1>4 DEF Next

-----------------------------------------------------------------------------
(***************************************************************************)
(* Sums.  MapThenSumSet is a recursive function over the subsets of a set; *)
(* its equations need an induction, here as the absence of a least         *)
(* counterexample in the well-founded order of finite sets.                *)
(***************************************************************************)
SumOf(S) == MapThenSumSet(LAMBDA p : Amount[p], S)

Pick(s) == CHOOSE x \in s : TRUE
IsSum(g, S) ==
  g = [s \in SUBSET S |-> IF s = {} THEN 0 ELSE Amount[Pick(s)] + g[s \ {Pick(s)}]]
SumRecursion(S) == CHOOSE g : IsSum(g, S)

LEMMA SumOfIsFunction == ASSUME NEW S PROVE SumOf(S) = SumRecursion(S)[S]
BY Zenon DEF SumOf, SumRecursion, IsSum, Pick, MapThenSumSet, MapThenFoldSet

LEMMA PickIsIn == ASSUME NEW s, s # {} PROVE Pick(s) \in s
BY DEF Pick

(* There is such a function for every set of payments ... *)
LEMMA SumUnique ==
  ASSUME NEW S \in SUBSET Payments, NEW T \in SUBSET Payments, NEW g, IsSum(g, S), NEW h, IsSum(h, T),
         NEW U \in SUBSET Payments, U \subseteq S, U \subseteq T
  PROVE  g[U] = h[U]
<1> DEFINE bad == {V \in SUBSET (S \cap T) : g[V] # h[V]}
<1> SUFFICES ASSUME bad # {}
             PROVE  FALSE
  OBVIOUS
<1>1. bad \in SUBSET SUBSET Payments
  OBVIOUS
<1>2. PICK V \in bad : \A W \in bad : ~ (W \subseteq V /\ W # V)
  <2> HIDE DEF bad
  <2> QED
    BY <1>1, LeastCounterexample
<1>3. V \in SUBSET S /\ V \in SUBSET T /\ g[V] # h[V]
  OBVIOUS
<1>4. g[V] = IF V = {} THEN 0 ELSE Amount[Pick(V)] + g[V \ {Pick(V)}]
  BY <1>3, Zenon DEF IsSum
<1>5. h[V] = IF V = {} THEN 0 ELSE Amount[Pick(V)] + h[V \ {Pick(V)}]
  BY <1>3, Zenon DEF IsSum
<1>6. V # {}
  BY <1>3, <1>4, <1>5
<1>7. V \ {Pick(V)} \in SUBSET (S \cap T) /\ V \ {Pick(V)} \notin bad
  BY <1>2, <1>3, <1>6, PickIsIn
<1>8. g[V \ {Pick(V)}] = h[V \ {Pick(V)}]
  BY <1>7
<1> QED
  BY <1>3, <1>4, <1>5, <1>6, <1>8

LEMMA SumExists ==
  ASSUME NEW S \in SUBSET Payments
  PROVE  IsSum(SumRecursion(S), S)
<1> DEFINE bad == {V \in SUBSET Payments : ~ \E g : IsSum(g, V)}
<1>1. bad = {}
  <2> SUFFICES ASSUME bad # {}
               PROVE  FALSE
    OBVIOUS
  <2>1. PICK V \in bad : \A W \in bad : ~ (W \subseteq V /\ W # V)
    <3>1. bad \in SUBSET SUBSET Payments
      OBVIOUS
    <3> HIDE DEF bad
    <3> QED
      BY <3>1, LeastCounterexample
  <2>2. V \in SUBSET Payments
    OBVIOUS
  <2>3. ASSUME NEW W \in SUBSET V, W # V
        PROVE  IsSum(SumRecursion(W), W)
    <3>1. \E g : IsSum(g, W)
      BY <2>1, <2>2, <2>3
    <3> QED
      BY <3>1, Zenon DEF SumRecursion
  <2> DEFINE value(s, g) == IF s = {} THEN 0 ELSE Amount[Pick(s)] + g[s \ {Pick(s)}]
             lower == [s \in SUBSET V |-> SumRecursion(s)[s]]
             f == [s \in SUBSET V |-> value(s, lower)]
  <2>4. ASSUME NEW s \in SUBSET V, s # V
        PROVE  f[s] = SumRecursion(s)[s]
    <3>1. SumRecursion(s)[s] = value(s, SumRecursion(s))
      BY <2>3, <2>4, Zenon DEF IsSum
    <3>2. CASE s = {}
      BY <3>1, <3>2
    <3>3. CASE s # {}
      <4> DEFINE t == s \ {Pick(s)}
      <4>1. t \in SUBSET V /\ t # V /\ t \subseteq s
        BY <3>3, <2>4, PickIsIn
      <4>2. SumRecursion(t)[t] = SumRecursion(s)[t]
        BY <4>1, <2>2, <2>3, <2>4, SumUnique
      <4> QED
        BY <3>1, <3>3, <4>1, <4>2
    <3> QED
      BY <3>2, <3>3
  <2>5. ASSUME NEW s \in SUBSET V
        PROVE  f[s] = value(s, f)
    <3>1. CASE s = {}
      BY <3>1
    <3>2. CASE s # {}
      <4>1. s \ {Pick(s)} \in SUBSET V /\ s \ {Pick(s)} # V
        BY <3>2, PickIsIn
      <4>2. f[s \ {Pick(s)}] = lower[s \ {Pick(s)}]
        BY <4>1, <2>4
      <4> HIDE DEF lower
      <4>3. f[s] = value(s, lower)
        OBVIOUS
      <4> QED
        BY <3>2, <4>2, <4>3
    <3> QED
      BY <3>1, <3>2
  <2>6. IsSum(f, V)
    <3>1. f = [s \in SUBSET V |-> f[s]]
      OBVIOUS
    <3> HIDE DEF f
    <3>2. [s \in SUBSET V |-> f[s]] = [s \in SUBSET V |-> value(s, f)]
      BY <2>5
    <3> QED
      BY <3>1, <3>2 DEF IsSum
  <2> QED
    BY <2>6
<1>2. \E g : IsSum(g, S)
  BY <1>1
<1> QED
  BY <1>2, Zenon DEF SumRecursion

LEMMA SumRestricts ==
  ASSUME NEW S \in SUBSET Payments, NEW T \in SUBSET S
  PROVE  SumRecursion(S)[T] = SumRecursion(T)[T]
<1>1. T \in SUBSET Payments /\ T \subseteq T /\ T \subseteq S
  OBVIOUS
<1>2. IsSum(SumRecursion(S), S) /\ IsSum(SumRecursion(T), T)
  BY <1>1, SumExists
<1> QED
  BY <1>1, <1>2, SumUnique

(* ... so the sum of a set is what its recursion says, in any order. *)
LEMMA SumStep ==
  ASSUME NEW S \in SUBSET Payments
  PROVE  /\ S = {} => SumOf(S) = 0
         /\ S # {} => SumOf(S) = Amount[Pick(S)] + SumOf(S \ {Pick(S)})
<1>1. SumOf(S) = IF S = {} THEN 0 ELSE Amount[Pick(S)] + SumRecursion(S)[S \ {Pick(S)}]
  <2>1. IsSum(SumRecursion(S), S)
    BY SumExists
  <2> QED
    BY <2>1, SumOfIsFunction, Zenon DEF IsSum
<1>2. SumRecursion(S)[S \ {Pick(S)}] = SumOf(S \ {Pick(S)})
  <2>1. S \ {Pick(S)} \in SUBSET S
    OBVIOUS
  <2> QED
    BY <2>1, SumRestricts, SumOfIsFunction
<1> QED
  BY <1>1, <1>2

LEMMA SumAdd ==
  ASSUME NEW S \in SUBSET Payments, NEW p \in Payments, p \notin S
  PROVE  SumOf(S) \in Nat /\ SumOf(S \cup {p}) = SumOf(S) + Amount[p]
<1> DEFINE Adds(T) == SumOf(T) \in Nat /\ \A q \in Payments \ T : SumOf(T \cup {q}) = SumOf(T) + Amount[q]
           bad == {T \in SUBSET Payments : ~ Adds(T)}
<1> HIDE DEF Adds
<1>1. bad = {}
  <2> SUFFICES ASSUME bad # {}
               PROVE  FALSE
    OBVIOUS
  <2>1. PICK T \in bad : \A U \in bad : ~ (U \subseteq T /\ U # T)
    <3>1. bad \in SUBSET SUBSET Payments
      OBVIOUS
    <3> HIDE DEF bad
    <3> QED
      BY <3>1, LeastCounterexample
  <2>2. T \in SUBSET Payments /\ ~ Adds(T)
    OBVIOUS
  <2>3. ASSUME NEW x \in T
        PROVE  /\ SumOf(T \ {x}) \in Nat
               /\ \A q \in Payments \ (T \ {x}) : SumOf((T \ {x}) \cup {q}) = SumOf(T \ {x}) + Amount[q]
    <3>1. T \ {x} \in SUBSET Payments /\ T \ {x} \notin bad
      BY <2>1, <2>2
    <3>2. Adds(T \ {x})
      BY <3>1
    <3> QED
      BY <3>2 DEF Adds
  <2>4. \A q \in Payments : Amount[q] \in Nat
    BY GasPaymentSyncAssumption
  <2>5. SumOf(T) \in Nat
    <3>1. CASE T = {}
      BY <3>1, SumStep
    <3>2. CASE T # {}
      <4>1. PICK x : x = Pick(T)
        OBVIOUS
      <4>2. x \in T /\ SumOf(T) = Amount[x] + SumOf(T \ {x})
        BY <3>2, <4>1, <2>2, SumStep, PickIsIn
      <4>3. Amount[x] \in Nat /\ SumOf(T \ {x}) \in Nat
        BY <4>2, <2>2, <2>3, <2>4
      <4> QED
        BY <4>2, <4>3
    <3> QED
      BY <3>1, <3>2
  <2>6. ASSUME NEW q \in Payments \ T
        PROVE  SumOf(T \cup {q}) = SumOf(T) + Amount[q]
    <3>1. PICK x : x = Pick(T \cup {q})
      OBVIOUS
    <3>2. x \in T \cup {q} /\ T \cup {q} \in SUBSET Payments /\ T \cup {q} # {}
      BY <2>2, <3>1, PickIsIn
    <3>3. SumOf(T \cup {q}) = Amount[x] + SumOf((T \cup {q}) \ {x})
      BY <3>1, <3>2, SumStep
    <3>4. Amount[q] \in Nat /\ Amount[x] \in Nat
      BY <2>4, <3>2
    <3>5. CASE x = q
      <4>1. (T \cup {q}) \ {x} = T
        BY <3>5
      <4>2. SumOf(T \cup {q}) = Amount[q] + SumOf(T)
        BY <3>3, <3>5, <4>1
      <4> QED
        BY ONLY <3>4, <4>2, <2>5
    <3>6. CASE x # q
      <4>1. x \in T /\ (T \cup {q}) \ {x} = (T \ {x}) \cup {q} /\ (T \ {x}) \cup {x} = T
        BY <3>2, <3>6
      <4>2. /\ SumOf((T \ {x}) \cup {q}) = SumOf(T \ {x}) + Amount[q]
            /\ SumOf((T \ {x}) \cup {x}) = SumOf(T \ {x}) + Amount[x]
            /\ SumOf(T \ {x}) \in Nat
        BY <2>2, <2>3, <4>1
      <4>3. /\ SumOf(T \cup {q}) = Amount[x] + (SumOf(T \ {x}) + Amount[q])
            /\ SumOf(T) = SumOf(T \ {x}) + Amount[x]
        BY <3>3, <4>1, <4>2
      <4> QED
        BY ONLY <3>4, <4>2, <4>3
    <3> QED
      BY <3>5, <3>6
  <2> QED
    BY <2>2, <2>5, <2>6 DEF Adds
<1>2. Adds(S)
  BY <1>1
<1> QED
  BY <1>2 DEF Adds
-----------------------------------------------------------------------------
(***************************************************************************)
(* The totals.                                                             *)
(***************************************************************************)
Counted == metaProcessed \ (InFlight \cup lost)

TotalInv ==
  /\ lost \subseteq metaProcessed
  /\ pc = "total" => Processing \notin lost
  /\ TotalIsExact

LEMMA SumForIs == \A l, S : SumFor(l, S) = SumOf({p \in S : LeafOf[p] = l})
BY Zenon DEF SumFor, SumOf

(* Only the leaf of a payment gets its amount. *)
LEMMA SumForAdd ==
  ASSUME NEW S \in SUBSET Payments, NEW p \in Payments, p \notin S, NEW l
  PROVE  SumFor(l, S \cup {p}) = IF LeafOf[p] = l THEN SumFor(l, S) + Amount[p] ELSE SumFor(l, S)
<1> DEFINE own == {q \in S : LeafOf[q] = l}
<1>1. CASE LeafOf[p] = l
  <2>1. {q \in S \cup {p} : LeafOf[q] = l} = own \cup {p}
    BY <1>1
  <2>2. own \in SUBSET Payments /\ p \notin own
    OBVIOUS
  <2> HIDE DEF own
  <2>3. SumOf(own \cup {p}) = SumOf(own) + Amount[p]
    BY <2>2, SumAdd
  <2> QED
    BY <1>1, <2>1, <2>3, SumForIs DEF own
<1>2. CASE LeafOf[p] # l
  <2>1. {q \in S \cup {p} : LeafOf[q] = l} = own
    BY <1>2
  <2> QED
    BY <1>2, <2>1, SumForIs
<1> QED
  BY <1>1, <1>2

(* What is counted and the totals are what they were. *)
LEMMA SameTotals ==
  ASSUME TotalIsExact, Counted' = Counted, total' = total
  PROVE  TotalIsExact'
BY DEF TotalIsExact, Counted

LEMMA TotalInvInit == Init => TotalInv
<1> SUFFICES ASSUME Init
             PROVE  TotalInv
  OBVIOUS
<1>1. \A l : SumFor(l, {}) = 0
  <2>1. SumOf({}) = 0
    BY SumStep
  <2> QED
    BY <2>1, SumForIs
<1>2. metaProcessed \ (InFlight \cup lost) = {}
  BY DEF Init
<1>3. TotalIsExact
  BY <1>1, <1>2 DEF TotalIsExact, Init
<1> QED
  BY <1>3 DEF TotalInv, Init

LEMMA PutTotalCounts ==
  ASSUME GasInv, TotalInv, PutTotal
  PROVE  TotalInv'
<1> USE DEF PutTotal, TotalInv
<1>1. Processing \in Payments /\ Processing \in metaProcessed /\ metaProcessed \in SUBSET Payments
  BY LeastIsIn DEF GasInv, RangeInv, TypeOK, Processing
<1>2. pc' # "total" /\ InFlight' = {} /\ InFlight = {Processing}
  BY DEF Done, InFlight
<1>3. /\ Counted \in SUBSET Payments /\ Processing \notin Counted
      /\ Counted' = Counted \cup {Processing}
  BY <1>1, <1>2 DEF Counted
<1>4. total \in [PaidLeaves -> Nat] /\ LeafOf[Processing] \in PaidLeaves
  BY <1>1 DEF GasInv, TypeOK, PaidLeaves
<1>5. ASSUME NEW l \in PaidLeaves
      PROVE  total'[l] = SumFor(l, Counted')
  <2>1. total[l] = SumFor(l, Counted)
    BY DEF TotalIsExact, Counted
  <2>2. total'[l] = IF LeafOf[Processing] = l THEN total[l] + Amount[Processing] ELSE total[l]
    BY <1>4 DEF Added
  <2> QED
    BY <1>1, <1>3, <2>1, <2>2, SumForAdd
<1>6. TotalIsExact'
  BY <1>5 DEF TotalIsExact, Counted
<1> QED
  BY <1>2, <1>6

LEMMA TotalInvStep == GasInv /\ TotalInv /\ [Next]_vars => TotalInv'
<1> SUFFICES ASSUME GasInv, TotalInv, [Next]_vars
             PROVE  TotalInv'
  OBVIOUS
<1> USE DEF TotalInv
<1>1. ASSUME pc # "total", pc' # "total", UNCHANGED <<metaProcessed, lost, total>>
      PROVE  TotalInv'
  <2>1. Counted' = Counted
    BY <1>1 DEF Counted, InFlight
  <2> QED
    BY <1>1, <2>1, SameTotals
<1>2. CASE GetTip \/ Fetch \/ FetchFails \/ SkipPayment \/ PutBlock \/ RestartAfterExit
  <2>1. pc # "total" /\ pc' # "total"
    BY <1>2 DEF GetTip, Fetch, FetchFails, SkipPayment, PutBlock, RestartAfterExit, Start, Done
  <2>2. UNCHANGED <<metaProcessed, lost, total>>
    BY <1>2 DEF GetTip, Fetch, FetchFails, SkipPayment, PutBlock, RestartAfterExit, Start, dbVars
  <2> QED
    BY <1>1, <2>1, <2>2
<1>3. CASE PutMeta
  <2>1. /\ Processing' = Processing /\ Processing \notin metaProcessed
        /\ pc = "meta" /\ pc' = "total" /\ metaProcessed' = metaProcessed \cup {Processing}
        /\ UNCHANGED <<total, lost>>
    BY <1>3 DEF PutMeta, Processing, AlreadyProcessed
  <2>2. Counted' = Counted
    BY <2>1 DEF Counted, InFlight
  <2> QED
    BY <2>1, <2>2, SameTotals
<1>4. CASE PutTotal
  BY <1>4, PutTotalCounts
<1>5. CASE Crash
  <2>1. pc' = "tip" /\ UNCHANGED <<metaProcessed, total>>
    BY <1>5 DEF Crash, Start, dbVars
  <2>2. lost' = lost \cup InFlight
    BY <1>5 DEF Crash, InFlight
  <2>3. InFlight \subseteq metaProcessed
    BY DEF InFlight, GasInv, RangeInv
  <2>4. Counted' = Counted
    BY <2>1, <2>2 DEF Counted, InFlight
  <2> QED
    BY <2>1, <2>2, <2>3, <2>4, SameTotals
<1>6. CASE FinalizeBlock \/ UNCHANGED vars
  <2>1. UNCHANGED <<pc, batch, metaProcessed, lost, total>>
    BY <1>6 DEF FinalizeBlock, vars, dbVars
  <2>2. Processing' = Processing /\ Counted' = Counted
    BY <2>1 DEF Processing, Counted, InFlight
  <2> QED
    BY <2>1, <2>2, SameTotals
<1> QED
  BY <1>2, <1>3, <1>4, <1>5, <1>6 DEF Next, Process

-----------------------------------------------------------------------------
(***************************************************************************)
(* The theorems.                                                           *)
(***************************************************************************)
(* The invariant holds of the whole loop of sync_gas_payments, through      *)
(* wrong answers, crashes and restarts.                                     *)
THEOREM GasInvariant == Spec => []GasInv
BY GasInvInit, GasInvStep, PTL DEF Spec

(* The loop's variables and the rows of process_gas_payment keep their types. *)
THEOREM GasTypeCorrect == Spec => []TypeOK
<1>1. GasInv => TypeOK
  BY DEF GasInv
<1> QED
  BY <1>1, GasInvariant, PTL

(* sync_gas_payments searches every block before the one it goes on from, and *)
(* a restart does not jump over one: what it has not processed there was left *)
(* out of the provider's answer.                                              *)
THEOREM NoSilentGapHolds == Spec => []NoSilentGap
<1>1. GasInv => NoSilentGap
  BY DEF GasInv
<1> QED
  BY <1>1, GasInvariant, PTL

(* process_gas_payment adds a payment to the total of its leaf exactly once, *)
(* through the look-back, restarts and repeated answers; only a payment being *)
(* added, or one whose addition a crash cut off, is missing from it.          *)
THEOREM TotalIsExactHolds == Spec => []TotalIsExact
<1>1. GasInv /\ TotalInv /\ [Next]_vars => TotalInv'
  BY TotalInvStep
<1>2. TotalInv => TotalIsExact
  BY DEF TotalInv
<1> QED
  BY <1>1, <1>2, TotalInvInit, GasInvariant, PTL DEF Spec
=============================================================================
