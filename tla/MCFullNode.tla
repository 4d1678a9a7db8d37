------------------------------ MODULE MCFullNode ------------------------------
(***************************************************************************)
(* Small Bitcoin block trees for FullNode.                                 *)
(*                                                                         *)
(*    Forked:  cp - a - b - c            (heights cp = 1, a = 2, ...)      *)
(*                    \ d - e - f                                          *)
(*             and g - q, which do not descend from the checkpoint         *)
(*                                                                         *)
(*    FlipFlop:  cp - a - b - c - f                                        *)
(*                      \ d - e                                            *)
(*                                                                         *)
(*    CheckpointFork:  cp - a - b                                          *)
(*                        \ d - e - f                                      *)
(***************************************************************************)
EXTENDS FullNode

CONSTANTS a, b, c, d, e, f, g, q, cp, zero

ForkedBlocks == {a, b, c, d, e, f, g, q}

ForkedPrev ==
  [x \in ForkedBlocks |->
     CASE x = a -> cp [] x = b -> a [] x = c -> b
       [] x = d -> a  [] x = e -> d [] x = f -> e
       [] x = g -> zero [] x = q -> g]

ForkedHeight ==
  [x \in ForkedBlocks |->
     CASE x = a -> 2 [] x = b -> 3 [] x = c -> 4
       [] x = d -> 3 [] x = e -> 4 [] x = f -> 5
       [] x = g -> 0 [] x = q -> 1]

ForkedTips == {b, c, e, f, g, q}

FlipFlopBlocks == {a, b, c, d, e, f}

FlipFlopPrev ==
  [x \in FlipFlopBlocks |->
     CASE x = a -> cp [] x = b -> a [] x = c -> b
       [] x = d -> a  [] x = e -> d [] x = f -> c]

FlipFlopHeight ==
  [x \in FlipFlopBlocks |->
     CASE x = a -> 2 [] x = b -> 3 [] x = c -> 4
       [] x = d -> 3 [] x = e -> 4 [] x = f -> 5]

FlipFlopTips == {b, e, f}

CheckpointForkBlocks == {a, b, d, e, f}

CheckpointForkPrev ==
  [x \in CheckpointForkBlocks |->
     CASE x = a -> cp [] x = b -> a
       [] x = d -> cp [] x = e -> d [] x = f -> e]

CheckpointForkHeight ==
  [x \in CheckpointForkBlocks |->
     CASE x = a -> 2 [] x = b -> 3 [] x = d -> 2 [] x = e -> 3 [] x = f -> 4]

CheckpointForkTips == {b, e, f}

===============================================================================
