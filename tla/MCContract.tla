------------------------------ MODULE MCContract ------------------------------
(***************************************************************************)
(* Two deciders and two trees of four leaves that share some: one full,    *)
(* one short.                                                              *)
(***************************************************************************)
EXTENDS Contract, TLC

MCAddress == {"a", "b"}

MCTrees == {<<"a", "b", "b", "a">>, <<"b", "a">>}

(* Deciders are alike.                                                     *)
MCSymmetry == Permutations(Seed)

(* In the tree and past its two ends.                                      *)
MCDestination == {-1, 0, 2, 4}

===============================================================================
