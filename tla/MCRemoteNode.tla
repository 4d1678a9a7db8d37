----------------------------- MODULE MCRemoteNode -----------------------------
(***************************************************************************)
(* A small block tree for RemoteNode:   cp - a - b - c                     *)
(*                                              \ d                        *)
(* t, a block with an all-zero previous hash, and u, which follows it;     *)
(* n, m and o are pushes without a hash, o without a previous hash too.    *)
(***************************************************************************)
EXTENDS RemoteNode

CONSTANTS a, b, c, d, t, u, n, m, o, cp, zero

MCBlocks == {a, b, c, d, t, u}

MCPushed == MCBlocks \cup {n, m, o}

MCPrev ==
  [x \in MCPushed |->
     CASE x = a -> cp [] x = b -> a [] x = c -> b [] x = d -> a
       [] x = t -> zero [] x = u -> t [] x = n -> a [] x = m -> cp
       [] x = o -> zero]

MCHeight ==
  [x \in MCBlocks |->
     CASE x = a -> 2 [] x = b -> 3 [] x = c -> 4 [] x = d -> 3
       [] x = t -> 0 [] x = u -> 1]

===============================================================================
