-------------------------- MODULE CheckpointFetcher --------------------------
(***************************************************************************)
(* The task that polls the validators' storage for a checkpoint a quorum   *)
(* has signed and publishes it to every inbox pipeline through a watch     *)
(* channel (agents/relayer/src/checkpoint_fetcher.rs).                     *)
(*                                                                         *)
(* The multisig syncer is seen through its two calls: latest_index may     *)
(* answer late, lower than before, or nothing at all; fetch_checkpoint may *)
(* find no quorum, or fail.  A checkpoint is reduced to its index.         *)
(***************************************************************************)
EXTENDS Integers

CONSTANTS
  NumLeaves,   \* messages dispatched on the source chain, leaf indices 0..NumLeaves-1
  Inboxes,     \* the destination chains, one pipeline each
  MaxFaults    \* bound on stale answers, missing quorums and errors of any task

Leaves == 0 .. (NumLeaves - 1)
None == -1     \* no checkpoint

ASSUME FetcherAssumption ==
  /\ NumLeaves \in Nat \ {0}
  /\ Inboxes # {}
  /\ MaxFaults \in Nat

VARIABLES
  quorum,      \* highest index a quorum of the validators has signed
  fpc,         \* "poll" | "fetch" | "stopped": the fetcher task
  latest,      \* latest_signed_checkpoint_index
  target,      \* the index being fetched
  ckpt_rx,     \* the value in the watch channel
  unseen,      \* the inboxes whose receiver has not seen that value
  faults

fetcherVars == <<fpc, latest, target, ckpt_rx>>

FetcherTypeOK ==
  /\ quorum \in Leaves \cup {None}
  /\ fpc \in {"poll", "fetch", "stopped"}
  /\ latest \in Leaves
  /\ target \in Leaves
  /\ ckpt_rx \in Leaves \cup {None}
  /\ unseen \in SUBSET Inboxes
  /\ faults \in 0 .. MaxFaults

Fault == faults < MaxFaults /\ faults' = faults + 1

(* The fetcher task and the watch channel of a process that starts. *)
FetcherStarts ==
  /\ fpc' = "poll"
  /\ latest' = 0
  /\ target' = 0
  /\ ckpt_rx' = None
  /\ unseen' = {}

FetcherInit ==
  /\ quorum = None
  /\ fpc = "poll"
  /\ latest = 0
  /\ target = 0
  /\ ckpt_rx = None
  /\ unseen = {}
  /\ faults = 0

-----------------------------------------------------------------------------
(* Plausible mistakes, each in place of the definition it names. *)
IsNotOlder(index) == index >= latest     \* IsNewer
RemembersTarget == target                \* LatestWithoutQuorum

(* `signed <= latest` continues the loop. *)
IsNewer(index) == index > latest

(* The validators sign some later index; not every index is signed. *)
Sign ==
  /\ \E index \in Leaves : index > quorum /\ quorum' = index
  /\ UNCHANGED <<fetcherVars, unseen, faults>>

(* latest_index().await?, then the comparison.  A round whose index is not   *)
(* newer changes nothing, and neither does None.                             *)
Poll ==
  /\ fpc = "poll"
  /\ \E index \in 0 .. quorum :
       /\ IF index = quorum THEN UNCHANGED faults ELSE Fault
       /\ IsNewer(index)
       /\ target' = index
  /\ fpc' = "fetch"
  /\ UNCHANGED <<quorum, latest, ckpt_rx, unseen>>

(* fetch_checkpoint(target).await? finds a quorum: send it, remember its index. *)
FetchSends(listening) ==
  /\ fpc = "fetch"
  /\ listening # {}
  /\ ckpt_rx' = target
  /\ unseen' = listening
  /\ latest' = target
  /\ fpc' = "poll"
  /\ UNCHANGED <<quorum, target, faults>>

(* No quorum for target after all: the index it was fetched for is forgotten. *)
LatestWithoutQuorum == latest

FetchFindsNoQuorum ==
  /\ fpc = "fetch"
  /\ Fault
  /\ latest' = LatestWithoutQuorum
  /\ fpc' = "poll"
  /\ UNCHANGED <<quorum, target, ckpt_rx, unseen>>

(* An error of the syncer, or send() with no receiver left: the task returns *)
(* and drops the sender.                                                     *)
FetcherFails(listening) ==
  /\ \/ fpc \in {"poll", "fetch"} /\ Fault
     \/ fpc = "fetch" /\ listening = {} /\ UNCHANGED faults
  /\ fpc' = "stopped"
  /\ UNCHANGED <<quorum, latest, target, ckpt_rx, unseen>>
=============================================================================
