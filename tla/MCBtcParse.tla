------------------------------ MODULE MCBtcParse ------------------------------
(***************************************************************************)
(* Blocks of one or two transactions.  Script and witness sizes include    *)
(* 252 and 253, the two sides of the one-byte varint's limit, and, in a    *)
(* block of their own, 65535 and 65536, those of the three-byte one's;     *)
(* outputs are commits, 34-byte scripts that are not (taproot), and other  *)
(* sizes.                                                                  *)
(***************************************************************************)
EXTENDS BtcParse

Hash(n) == [k \in 1 .. 32 |-> n]

Commit(n) == <<0, 32>> \o Hash(n)
Taproot   == <<81, 32>> \o Hash(9)

Txs ==
  [ins : {<<Fill(0)>>, <<Fill(252), Fill(1)>>},
   outs : {<<Commit(1)>>, <<Taproot, Commit(2)>>, <<Fill(253), Fill(0)>>},
   witness : {<<>>}]
  \cup
  [ins : {<<Fill(253)>>}, outs : {<<>>, <<Fill(34), Commit(3), Commit(1)>>},
   witness : {<< <<>> >>, << <<Fill(0), Fill(253)>> >>}]
  \cup
  [ins : {<<Fill(0), Fill(0)>>}, outs : {<<Commit(4)>>}, witness : {<< <<Fill(252)>>, <<>> >>}]

(* A header's previous hash, not a palindrome.                             *)
Header32 == [k \in 1 .. 32 |-> k]

(* Scripts on both sides of the three-byte varint's limit.                 *)
Large == [ins |-> <<Fill(65535), Fill(65536)>>, outs |-> <<Commit(5)>>, witness |-> <<>>]

MCBlocks ==
  [previous : {Header32},
   txs : {<<x>> : x \in Txs \cup {Large}} \cup {<<x, y>> : x, y \in Txs}]

===============================================================================
