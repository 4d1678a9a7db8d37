---------------------------- MODULE MCBlockStore ----------------------------
(***************************************************************************)
(* Two branches with different numbers of commits at the same heights, a   *)
(* block with the same commit twice, and a second block that follows the   *)
(* checkpoint:                                                             *)
(*                    cp - a(p) - b(p q r) - c()                           *)
(*                      \       \ d(q) - e(q p q)                          *)
(*                       f(r)                                              *)
(***************************************************************************)
EXTENDS BlockStore

CONSTANTS a, b, c, d, e, f, p, q, r, cp, zero, garbage

MCBlocks == {a, b, c, d, e, f}

MCPrev ==
  [x \in MCBlocks |->
     CASE x = a -> cp [] x = b -> a [] x = c -> b [] x = d -> a [] x = e -> d
       [] x = f -> cp]

MCCommits ==
  [x \in MCBlocks |->
     CASE x = a -> <<p>> [] x = b -> <<p, q, r>> [] x = c -> <<>>
       [] x = d -> <<q>> [] x = e -> <<q, p, q>> [] x = f -> <<r>>]

===============================================================================
