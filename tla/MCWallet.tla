------------------------------- MODULE MCWallet -------------------------------
(***************************************************************************)
(* One construct of each kind, and a transaction libcomb rejects; wallet   *)
(* texts with that transaction, a decider in the new format, a cut line    *)
(* and a line of the other network.                                        *)
(***************************************************************************)
EXTENDS Wallet

MCKey     == [kind |-> "key", Private |-> <<"k1", "k2">>]
MCStack   == [kind |-> "stack", Change |-> "w1", Destination |-> "w2", Sum |-> "7"]
MCTx      == [kind |-> "tx", Source |-> "w1", Destination |-> "w3",
              Signature |-> <<"s1", "s2">>]
MCBadTx   == [MCTx EXCEPT !.Signature = <<"s2", "s1">>]
MCDecider == [kind |-> "decider", Private |-> <<"p1", "p2">>]
MCMerkle  == [kind |-> "merkle", Tips |-> <<"t1", "t2">>, Signature |-> <<"g1", "g2">>,
              Branches |-> <<"b1", "b2">>, Leaf |-> "l", Next |-> "n"]
MCUnsigned == [kind |-> "unsigned_merkle", Tips |-> <<"t1", "t2">>, Next |-> "n",
               Root |-> "r"]

MCWord == {"k1", "k2", "w1", "w2", "w3", "7", "s1", "s2", "p1", "p2", "t1", "t2",
           "g1", "g2", "b1", "b2", "l", "n", "r", "zero"}

MCConstructs == {MCKey, MCStack, MCTx, MCBadTx, MCDecider, MCMerkle, MCUnsigned}

MCRejected == {MCBadTx}

MCCut(l) == [l EXCEPT !.data = Front(@)]

MCForeign(l) == [l EXCEPT !.prefix = "other network"]

MCEntries ==
  {Entry(x) : x \in MCConstructs}
    \cup {[Entry(MCStack) EXCEPT !.json.Change = Malformed],
          [Entry(MCKey) EXCEPT !.json.Public = Malformed],
          [Entry(MCDecider) EXCEPT !.json.Private[2] = Malformed]}

(* The calls: one caller loads constructs while the other saves and lists, *)
(* or both load wallet texts while main sets the status.                   *)
MCSaveCalls ==
  [x \in {"p1", "p2", "main"} |->
     CASE x = "p1" -> {"LoadConstruct"}
       [] x = "p2" -> {"SaveWallet", "GetWallet", "GetCoinHistory"}
       [] OTHER -> {}]

MCLoadCalls ==
  [x \in {"p1", "p2", "main"} |-> IF x = "main" THEN {"Status"} ELSE {"LoadWallet"}]

MCWorkloads == {MCSaveCalls, MCLoadCalls}

MCTexts ==
  {<<Line(MCBadTx), [prefix |-> "decider", data |-> MCDecider.Private]>>,
   <<MCCut(Line(MCStack)), MCForeign(Line(MCKey))>>}

===============================================================================
