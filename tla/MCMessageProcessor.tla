------------------------- MODULE MCMessageProcessor -------------------------
(* Two inboxes; the messages alternate between them, and the blacklist names   *)
(* those of one sender.                                                        *)
EXTENDS MessageProcessor

CONSTANTS celo, polygon

ML == INSTANCE MatchingList

MCInboxes == {celo, polygon}
MCDestination == [l \in Leaves |-> IF l % 2 = 0 THEN celo ELSE polygon]

Message(l) == [origin |-> 1, sender |-> IF l = 1 THEN "spam" ELSE "app",
               destination |-> 2 + (l % 2), recipient |-> "app"]
Blacklist == {<< [sourceAddress |-> ML!Addr("spam")] >>}
MCAdmitted ==
  {l \in Leaves : \E black \in ML!ParseMatchingList(Blacklist) : ML!Admits({}, black, Message(l))}
=============================================================================
