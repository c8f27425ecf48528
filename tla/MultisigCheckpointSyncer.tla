---------------------- MODULE MultisigCheckpointSyncer ----------------------
(***************************************************************************)
(* How the fetcher finds a checkpoint that a quorum of validators signed   *)
(* (abacus-base/src/types/multisig.rs, called by checkpoint_fetcher.rs),   *)
(* over the storages the validators write (local_storage.rs,               *)
(* s3_storage.rs): one file per checkpoint, one with the latest index.     *)
(*                                                                         *)
(* The relayer reads one file per await, in the order of a HashMap, while  *)
(* the validators write; a validator may crash between its two writes.  A  *)
(* read may fail.  The files of a diverging validator may hold something   *)
(* else than its signature on the outbox's root.                           *)
(***************************************************************************)
EXTENDS Integers, FiniteSetsExt

CONSTANTS
  Validators,
  Diverging,   \* the validators whose files may be wrong
  Threshold,   \* the quorum
  MaxIndex,    \* bound on the checkpoint indices
  MaxOdd,      \* bound on wrong files
  MaxFaults    \* bound on crashes of validators and failed reads, together

(* Index 0 is left out: the fetcher never fetches it.                     *)
Indices == 1 .. MaxIndex
None == -1          \* no index
Nobody == "nobody"  \* no address can be recovered from the signature
NoFile == [index |-> None, root |-> "none", signer |-> Nobody]

ASSUME SyncerAssumption ==
  /\ IsFiniteSet(Validators) /\ Nobody \notin Validators
  /\ Diverging \subseteq Validators
  /\ Threshold \in 1 .. Cardinality(Validators)
  /\ MaxIndex \in Nat \ {0}
  /\ MaxOdd \in Nat /\ MaxFaults \in Nat

VARIABLES
  stored,      \* storage: the signed checkpoint of each validator at each index
  latestFile,  \* storage: the latest index of each validator
  writing,     \* validator: the checkpoint whose index is still to be written
  pc,          \* "poll" | "indices" | "search" | "fetch" | "stopped": the fetcher
  unread,      \* the validators the loop has not read yet
  reported,    \* latest_indices: how many validators answered each index
  candidates,  \* the lower indices still to be searched
  index,       \* the index being fetched
  sending,     \* the fetch is the fetcher's own, not one of latest_index
  votes,       \* signed_checkpoints_per_root
  latest,      \* latest_signed_checkpoint_index
  published,   \* the last multisig checkpoint sent: [index, root, signers]
  odd, faults

storageVars == <<stored, latestFile, writing, odd>>
callVars == <<unread, reported, candidates, index, sending, votes>>
sentVars == <<latest, published>>
vars == <<storageVars, pc, callVars, sentVars, faults>>

Checkpoint == [index : Indices, root : {"outbox", "other"}, signer : Validators \cup {Nobody}]
Vote == [from : Validators, root : {"outbox", "other"}, signer : Validators]
Nothing == [index |-> None, root |-> "none", signers |-> {}]
NoReports == [i \in Indices |-> 0]
FreshReports == NoReports

TypeOK ==
  /\ stored \in [Validators -> [Indices -> Checkpoint \cup {NoFile}]]
  /\ latestFile \in [Validators -> Indices \cup {None}]
  /\ writing \in [Validators -> Indices \cup {None}]
  /\ pc \in {"poll", "indices", "search", "fetch", "stopped"}
  /\ unread \in SUBSET Validators
  /\ reported \in [Indices -> Nat]
  /\ candidates \in SUBSET Indices
  /\ index \in Indices \cup {None}
  /\ sending \in BOOLEAN
  /\ votes \in SUBSET Vote
  /\ latest \in Indices \cup {0}
  /\ published \in {Nothing} \cup
       [index : Indices, root : {"outbox", "other"}, signers : SUBSET Validators]
  /\ odd \in 0 .. MaxOdd /\ faults \in 0 .. MaxFaults

Init ==
  /\ stored = [v \in Validators |-> [i \in Indices |-> NoFile]]
  /\ latestFile = [v \in Validators |-> None]
  /\ writing = [v \in Validators |-> None]
  /\ pc = "poll"
  /\ unread = {}
  /\ reported = NoReports
  /\ candidates = {}
  /\ index = None
  /\ sending = FALSE
  /\ votes = {}
  /\ latest = 0
  /\ published = Nothing
  /\ odd = 0 /\ faults = 0

-----------------------------------------------------------------------------
(* The validators.  Each signs ever later indices, not every one; after a  *)
(* crash it goes on from its latest index file.                            *)

Signature(v, i) == [index |-> i, root |-> "outbox", signer |-> v]

(* What a diverging validator's file may hold at i: another root, a copy of *)
(* a peer's file, its checkpoint for another index, no valid signature.     *)
Odd(v, i) ==
  {[index |-> i, root |-> "other", signer |-> v],
   [index |-> i, root |-> "outbox", signer |-> Nobody]}
  \cup ({stored[w][i] : w \in Validators} \ {NoFile})
  \cup {Signature(v, j) : j \in Indices \ {i}}

(* write_checkpoint: the checkpoint file first, then the index file if it is *)
(* lower.  What was signed for an index stays.                               *)
WriteCheckpoint(v) ==
  /\ writing[v] = None
  /\ \E i \in Indices :
       /\ i > latestFile[v]
       /\ writing' = [writing EXCEPT ![v] = i]
       /\ \/ stored[v][i] # NoFile /\ UNCHANGED <<stored, odd>>
          \/ /\ stored[v][i] = NoFile
             /\ stored' = [stored EXCEPT ![v][i] = Signature(v, i)]
             /\ UNCHANGED odd
          \/ /\ stored[v][i] = NoFile
             /\ v \in Diverging /\ odd < MaxOdd
             /\ \E file \in Odd(v, i) : stored' = [stored EXCEPT ![v][i] = file]
             /\ odd' = odd + 1
  /\ UNCHANGED <<latestFile, pc, callVars, sentVars, faults>>

Fault == faults < MaxFaults /\ faults' = faults + 1

WriteIndex(v) ==
  /\ writing[v] # None
  /\ latestFile' = [latestFile EXCEPT ![v] = writing[v]]
  /\ writing' = [writing EXCEPT ![v] = None]
  /\ UNCHANGED <<stored, odd, pc, callVars, sentVars, faults>>

CrashBetweenWrites(v) ==
  /\ writing[v] # None
  /\ Fault
  /\ writing' = [writing EXCEPT ![v] = None]
  /\ UNCHANGED <<stored, latestFile, odd, pc, callVars, sentVars>>

-----------------------------------------------------------------------------
(* The fetcher's round: latest_index, then fetch_checkpoint if it is newer. *)

(* The sleep is over: latest_index begins. *)
BeginRound ==
  /\ pc = "poll"
  /\ pc' = "indices"
  /\ unread' = Validators
  /\ reported' = FreshReports
  /\ UNCHANGED <<storageVars, candidates, index, sending, votes, sentVars, faults>>

(* One index file; a missing one and a failed read are passed over. *)
ReadLatest(v) ==
  /\ pc = "indices" /\ v \in unread
  /\ unread' = unread \ {v}
  /\ \/ /\ latestFile[v] # None
        /\ reported' = [reported EXCEPT ![latestFile[v]] = @ + 1]
        /\ UNCHANGED faults
     \/ latestFile[v] = None /\ UNCHANGED <<reported, faults>>
     \/ latestFile[v] # None /\ Fault /\ UNCHANGED reported
  /\ UNCHANGED <<storageVars, pc, candidates, index, sending, votes, sentVars>>

(* The round ends and the fetcher sleeps again. *)
EndRound(next) ==
  /\ pc' = next
  /\ unread' = {} /\ reported' = FreshReports /\ candidates' = {} /\ votes' = {}
  /\ index' = None /\ sending' = FALSE

(* fetch_checkpoint(i) begins. *)
BeginFetch(i, forSending) ==
  /\ pc' = "fetch"
  /\ index' = i
  /\ sending' = forSending
  /\ unread' = Validators
  /\ votes' = {}

(* latest_index answers i. *)
Answer(i) ==
  IF i <= latest THEN EndRound("poll")
  ELSE BeginFetch(i, TRUE) /\ reported' = FreshReports /\ candidates' = {}

(* A search found nothing at the index: on to the next lower one. *)
SearchGivesIt == Answer(index)             \* SearchGoesOn: a mistake
SearchGoesOn ==
  /\ pc' = "search"
  /\ unread' = {} /\ votes' = {}
  /\ UNCHANGED <<reported, candidates, index, sending>>

(* The first pass: an index that a quorum reports as its latest. *)
IsQuorum(n) == n >= Threshold

(* What the second pass goes through: all but the highest. *)
LeavesOutTwo(answered) ==          \* LowerReports: a mistake
  {i \in answered : Cardinality({j \in answered : j > i}) > 1}
LowerReports(answered) == answered \ {Max(answered)}

ChooseIndex ==
  LET answered == {i \in Indices : reported[i] > 0}
      agreed == {i \in answered : IsQuorum(reported[i])} IN
  /\ pc = "indices" /\ unread = {}
  /\ CASE answered = {} -> EndRound("poll")
       [] agreed # {} -> Answer(Max(agreed))
       [] OTHER -> /\ pc' = "search"
                   /\ candidates' = LowerReports(answered)
                   /\ UNCHANGED <<unread, reported, index, sending, votes>>
  /\ UNCHANGED <<storageVars, sentVars, faults>>

(* The second pass: the next lower index that was reported. *)
SearchNext ==
  /\ pc = "search"
  /\ IF candidates = {} THEN EndRound("poll")
     ELSE /\ BeginFetch(Max(candidates), FALSE)
          /\ candidates' = candidates \ {Max(candidates)}
          /\ UNCHANGED reported
  /\ UNCHANGED <<storageVars, sentVars, faults>>

-----------------------------------------------------------------------------
(* fetch_checkpoint. *)

AnySigner(v, file) == TRUE       \* SignedBy: a mistake
SignedBy(v, file) == file.signer = v
VotesFor(root) == {vote \in votes : vote.root = root}

(* The files the loop passes over: none, another index, another signer. *)
PassedOver(v, file) ==
  \/ file = NoFile
  \/ file.index # index
  \/ file.signer # Nobody /\ ~ SignedBy(v, file)

ReadPassedOver(v) ==
  /\ pc = "fetch" /\ v \in unread
  /\ \/ PassedOver(v, stored[v][index]) /\ UNCHANGED faults
     \/ stored[v][index] # NoFile /\ Fault
  /\ unread' = unread \ {v}
  /\ UNCHANGED <<storageVars, pc, reported, candidates, index, sending, votes, sentVars>>

(* recover()? fails the whole call: the fetcher's own ends its task, one of *)
(* latest_index only finds nothing.                                         *)
ReadUnrecoverable(v) ==
  LET file == stored[v][index] IN
  /\ pc = "fetch" /\ v \in unread
  /\ file.index = index /\ file.signer = Nobody
  /\ IF sending THEN EndRound("stopped")
     ELSE SearchGoesOn
  /\ UNCHANGED <<storageVars, sentVars, faults>>

(* Votes for one root at the index, put together; outbox domains are left out. *)
Multisig(ballots) ==
  [index |-> index,
   root |-> (CHOOSE vote \in ballots : TRUE).root,
   signers |-> {vote.signer : vote \in ballots}]

(* A vote for a root; with a quorum for it the loop returns at once. *)
ReadVote(v) ==
  LET file == stored[v][index]
      vote == [from |-> v, root |-> file.root, signer |-> file.signer]
      forRoot == VotesFor(file.root) \cup {vote} IN
  /\ pc = "fetch" /\ v \in unread
  /\ file # NoFile /\ file.signer # Nobody /\ ~ PassedOver(v, file)
  /\ IF ~ IsQuorum(Cardinality(forRoot))
       THEN /\ votes' = votes \cup {vote}
            /\ unread' = unread \ {v}
            /\ UNCHANGED <<pc, reported, candidates, index, sending, sentVars>>
     ELSE IF sending
       THEN /\ published' = Multisig(forRoot)
            /\ latest' = index
            /\ EndRound("poll")
     ELSE Answer(index) /\ UNCHANGED sentVars
  /\ UNCHANGED <<storageVars, faults>>

(* Ok(None): the fetcher keeps its index, the search goes on. *)
NoQuorum ==
  /\ pc = "fetch" /\ unread = {}
  /\ IF sending THEN EndRound("poll")
     ELSE SearchGoesOn
  /\ UNCHANGED <<storageVars, sentVars, faults>>

-----------------------------------------------------------------------------
Validator(v) == WriteCheckpoint(v) \/ WriteIndex(v) \/ CrashBetweenWrites(v)

Fetcher ==
  \/ BeginRound
  \/ ChooseIndex
  \/ SearchNext
  \/ NoQuorum
  \/ \E v \in Validators :
       \/ ReadLatest(v)
       \/ ReadPassedOver(v)
       \/ ReadUnrecoverable(v)
       \/ ReadVote(v)

Next == Fetcher \/ \E v \in Validators : Validator(v)

Spec == Init /\ [][Next]_vars

(* The runtime polls the fetcher's task for ever; nothing is asked of the    *)
(* validators.                                                               *)
FairSpec == Spec /\ WF_vars(Fetcher)

-----------------------------------------------------------------------------
(* A published checkpoint was signed, root and index, by a quorum of         *)
(* distinct validators; with fewer diverging ones than a quorum its root is  *)
(* the outbox's.  This is what the inbox contract will check.                *)
PublishedHasQuorum ==
  published # Nothing =>
    /\ Cardinality(published.signers) >= Threshold
    /\ \A v \in published.signers :
         stored[v][published.index] =
           [index |-> published.index, root |-> published.root, signer |-> v]
    /\ Cardinality(Diverging) < Threshold => published.root = "outbox"

(* What module CheckpointFetcher takes latest_index to answer: an index for  *)
(* which a quorum of validators has written a checkpoint, whatever was read  *)
(* before, between and after their writes.                                   *)
AnswerIsSigned ==
  sending =>
    Cardinality({v \in Validators : stored[v][index] # NoFile}) >= Threshold

(* First pass: a quorum of validators that do not diverge reports an index.   *)
Reported(i) == Cardinality({v \in Validators \ Diverging : latestFile[v] = i}) >= Threshold

(* Second pass: such a quorum has signed an index, the lowest that one of them *)
(* reports; no diverging validator reports a later one or keeps a signature    *)
(* for this one that cannot be recovered.                                      *)
Reached(i) ==
  LET signed == {v \in Validators \ Diverging : latestFile[v] >= i /\ stored[v][i] # NoFile} IN
  /\ Cardinality(signed) >= Threshold
  /\ \E v \in signed : latestFile[v] = i
  /\ \A v \in Diverging : latestFile[v] <= i /\ (stored[v][i] = NoFile \/ stored[v][i].signer # Nobody)

(* Once the validators' files stay such that a quorum reports an index, or has *)
(* reached it while it reports different ones, a checkpoint at least as late   *)
(* is published, unless a signature that cannot be recovered ends the task.    *)
(* Leaving out the highest report in the second pass loses nothing then.       *)
CatchesUp ==
  \A i \in Indices :
    <>[]Reported(i) \/ <>[]Reached(i) => <>(published.index >= i \/ pc = "stopped")
=============================================================================
