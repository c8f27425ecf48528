--------------------------- MODULE MCRelayerAgent ---------------------------
(* A base file with or without a paymaster, and one setting more: given by one  *)
(* source, or by the partial file and the agent's environment differently.      *)
EXTENDS RelayerAgent

MCInboxKeys == {"celo", "polygon"}

MCLists == [celoOnly |-> << "destinationDomain" :> Dec(1) >>,
            someSenders |-> << ("sourceAddress" :> List(<<Addr("a")>>)) @@ ("destinationDomain" :> List(<<Num(1), Dec(2)>>)),
                               ("sourceAddress" :> Addr("b")) @@ ("sourceDomain" :> Wild) >>,
            none |-> <<>>,
            unparsable |-> << "sourceDomain" :> Hex(1) >>]

MCMessages == [origin : {3}, sender : {"a", "b"}, destination : {1, 2}, recipient : {"a"}]

MCBase == (<<"outbox", "interchainGasPaymaster">> :> "address") @@ (<<"celo", "signer">> :> "hexKey")

Overrides ==
  { <<<<"celo", "disabled">>, "false">>, <<<<"polygon", "disabled">>, "true">>,
    <<<<"polygon", "gelato">>, "enabled">>, <<<<"polygon", "gelato">>, "unused">>,
    <<<<"polygon", "signer">>, "aws">>, <<<<"polygon", "name">>, "mumbai">>, <<<<"polygon", "domain">>, "bad">>,
    <<<<"polygon", "validatorManager">>, "bad">>, <<<<"outbox", "finalityBlocks">>, "bad">>,
    <<<<"base", "syncer region">>, "bad">>, <<<<"base", "metrics">>, "bad">>, <<<<"base", "metrics">>, "9090">>,
    <<<<"base", "whitelist">>, "celoOnly">>, <<<<"base", "whitelist">>, "none">>,
    <<<<"base", "blacklist">>, "someSenders">>, <<<<"base", "blacklist">>, "unparsable">> }

Layer(o) == o[1] :> o[2]

(* A paymaster makes no difference to the syncer, the lists and the port.       *)
Base(o) == IF o[1][1] = "base" THEN <<>> ELSE MCBase

MCSourceLists ==
  {<<MCBase, <<>>, <<>>, <<>>>>} \cup
  {<<<<>>, <<>>, Layer(o), <<>>>> : o \in Overrides} \cup
  {<<Base(pair[1]), Layer(pair[1]), <<>>, Layer(pair[2])>> :
     pair \in {q \in Overrides \X Overrides : q[1][1] = q[2][1] /\ q[1] # q[2]}}
=============================================================================
