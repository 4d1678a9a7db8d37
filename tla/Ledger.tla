-------------------------------- MODULE Ledger --------------------------------
(***************************************************************************)
(* What the commit database promises to everything that reads it: at every *)
(* moment, crashes included, it records one branch of the Bitcoin block    *)
(* tree from the checkpoint upwards; it changes by appending blocks to     *)
(* that branch or by cutting its end off, never both at once and never in  *)
(* the middle.                                                             *)
(***************************************************************************)
EXTENDS Integers

CONSTANTS Block, Prev, Checkpoint, CheckpointHeight

VARIABLE ledger      \* height -> block hash

(* The branch starts above the checkpoint and has neither gap nor fork.    *)
Branch(l) ==
  \A h \in DOMAIN l :
    /\ h > CheckpointHeight
    /\ l[h] \in Block
    /\ IF h = CheckpointHeight + 1
       THEN Prev[l[h]] = Checkpoint
       ELSE h - 1 \in DOMAIN l /\ Prev[l[h]] = l[h - 1]

(* Every height of l has the same block in m.                              *)
PrefixOf(l, m) ==
  /\ DOMAIN l \subseteq DOMAIN m
  /\ \A h \in DOMAIN l : l[h] = m[h]

Init == ledger = [h \in {} |-> Checkpoint]

Extend == PrefixOf(ledger, ledger') /\ Branch(ledger')

Rollback == PrefixOf(ledger', ledger) /\ Branch(ledger')

Next == Extend \/ Rollback

Spec == Init /\ [][Next]_ledger

===============================================================================
