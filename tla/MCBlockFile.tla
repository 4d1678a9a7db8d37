----------------------------- MODULE MCBlockFile -----------------------------
(* A chain of three blocks and a fork, two records to a file:              *)
(*                  known - a - b - c                                      *)
(*                              \ d                                        *)
EXTENDS BlockFile

CONSTANTS a, b, c, d, known

MCBlocks == {a, b, c, d}

MCPrev ==
  [x \in MCBlocks |->
     CASE x = a -> known [] x = b -> a [] x = c -> b [] x = d -> a]

===============================================================================
