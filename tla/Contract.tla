------------------------------- MODULE Contract -------------------------------
(***************************************************************************)
(* Deciders and merkle segments, the contracts of the control interface    *)
(* (control.go): a tree of addresses is committed to by its root, a        *)
(* decider's signature names one of its leaves, and the undecided segment  *)
(* becomes one that pays to that leaf.  The calls are made one at a time,  *)
(* in any order and by several users, each with whatever strings it likes: *)
(* earlier answers, parts of them, and what can be hashed from them.       *)
(*                                                                         *)
(* libcomb's cryptography is external and ideal.  A hash of a node of the  *)
(* tree is the sequence of the leaves below it; a hash chain is its seed   *)
(* and how often it has been hashed.                                       *)
(***************************************************************************)
EXTENDS Integers, Sequences, SequencesExt, FiniteSetsExt

CONSTANTS
  Seed,        \* private keys of deciders
  Trees,       \* trees of addresses users make contracts from: sequences
  Address,     \* addresses
  Zero,        \* the all-zero address, which fills a tree up
  Depth,       \* the depth of a tree (16 in the code)
  Destination, \* the destinations users ask for (any int in the code)
  MaxKept      \* bound on the answers that are kept

(* 2^k, as a function.                                                     *)
Pow2[k \in 0 .. Depth] == IF k = 0 THEN 1 ELSE 2 * Pow2[k - 1]

Leaves == Pow2[Depth]

ASSUME ContractAssumption ==
  /\ Depth \in Nat \ {0}
  /\ \A t \in Trees : t \in Seq(Address)
  /\ Destination \subseteq Int
  /\ MaxKept \in Nat

VARIABLES
  deciders,    \* libcomb: the deciders loaded
  unsigned,    \* libcomb: the undecided merkle segments loaded
  segments,    \* libcomb: the merkle segments loaded
  signatures,  \* the answers of SignDecider, each with what was asked for
  proofs,      \* the answers of ComputeProof, each with what was asked for
  decided      \* the answers of DecideMerkleSegment

loaded  == <<deciders, unsigned, segments>>
answers == <<signatures, proofs, decided>>
vars    == <<loaded, answers>>

-------------------------------------------------------------------------------
(* libcomb: chains, trees, IDs.                                            *)

Hashed(c, n) == [c EXCEPT !.hashed = @ + n]

(* A decider is two chains, whose tips are public.                         *)
Decider(s) == [Private |-> <<[seed |-> <<s, 1>>, hashed |-> 0],
                             [seed |-> <<s, 2>>, hashed |-> 0]>>]

Tips(d) == <<Hashed(d.Private[1], Leaves - 1), Hashed(d.Private[2], Leaves - 1)>>

(* libcomb.SignDecider, for a destination of 16 bits: from the two links   *)
(* it reveals, the tips are that many hashes away, and the rest.           *)
LibSign(d, n) == <<Hashed(d.Private[1], Leaves - 1 - n), Hashed(d.Private[2], n)>>

(* The destination that the tips and a signature determine.                *)
Determines(tips, sig, n) ==
  Hashed(sig[1], n) = tips[1] /\ Hashed(sig[2], Leaves - 1 - n) = tips[2]

(* The subtree of height k that leaf n is in, its sibling, its root hash.  *)
Below(tree, k, n) ==
  LET i == n \div Pow2[k] IN SubSeq(tree, i * Pow2[k] + 1, (i + 1) * Pow2[k])

IsLeft(k, n) == (n \div Pow2[k]) % 2 = 0

Sibling(k, n) == IF IsLeft(k, n) THEN n + Pow2[k] ELSE n - Pow2[k]

(* libcomb.ComputeProof.                                                   *)
LibProof(tree, n) ==
  [Root |-> tree, Leaf |-> Below(tree, 0, n),
   Branches |-> [k \in 1 .. Depth |-> Below(tree, k - 1, Sibling(k - 1, n))]]

(* The root that a leaf, its branches and the destination hash to.         *)
RootOf(leaf, branches, n) ==
  LET up[k \in 0 .. Depth] ==
        IF k = 0 THEN leaf
        ELSE IF IsLeft(k - 1, n) THEN up[k - 1] \o branches[k]
        ELSE branches[k] \o up[k - 1]
  IN  up[Depth]

ID(s) == <<s.Tips, s.Next, s.Root>>

(* What is bounded.                                                        *)
Kept == Cardinality(unsigned) + Cardinality(signatures) + Cardinality(proofs)
          + Cardinality(decided)

-------------------------------------------------------------------------------
(* The calls of the control interface.                                     *)

(* GenerateDecider, and LoadDecider of the answer.                         *)
GenerateDecider ==
  /\ \E s \in Seed : deciders' = deciders \cup {Decider(s)}
  /\ UNCHANGED <<unsigned, segments, answers>>

(* The tree of ComputeRoot and ComputeProof: what is missing is zero.      *)
Filled(t) == [i \in 1 .. Leaves |-> IF i <= Len(t) THEN t[i] ELSE Zero]

ComputeRoot(t) == LibProof(Filled(t), 0).Root

(* ConstructUnsignedMerkleSegment of known tips and a computed root, and   *)
(* LoadUnsignedMerkleSegment of the answer.                                *)
LoadUnsignedMerkleSegment ==
  /\ Kept < MaxKept
  /\ \E d \in deciders, t \in Trees, a \in Address :
       Len(t) <= Leaves /\
       unsigned' = unsigned \cup {[Tips |-> Tips(d), Next |-> a, Root |-> ComputeRoot(t)]}
  /\ UNCHANGED <<deciders, segments, answers>>

(* uint16(args.Destination).                                               *)
Uint16(n) == n % Leaves

(* SignDecider converts the destination without a range check.             *)
SignDecider ==
  /\ Kept < MaxKept
  /\ \E d \in deciders, n \in Destination :
       signatures' = signatures \cup
         {[Signature |-> LibSign(d, Uint16(n)), Tips |-> Tips(d), destination |-> n]}
  /\ UNCHANGED <<loaded, proofs, decided>>

(* Fault variant: the proof is for the next leaf.                          *)
ComputeProof_off_by_one ==
  /\ Kept < MaxKept
  /\ \E t \in Trees, n \in Destination :
       /\ Len(t) <= Leaves
       /\ n \in 0 .. Leaves - 1
       /\ proofs' = proofs \cup
            {[tree |-> t, destination |-> n, proof |-> LibProof(Filled(t), (n + 1) % Leaves)]}
  /\ UNCHANGED <<loaded, signatures, decided>>

(* ComputeProof: too many leaves and a destination out of range are errors.*)
ComputeProof ==
  /\ Kept < MaxKept
  /\ \E t \in Trees, n \in Destination :
       /\ Len(t) <= Leaves
       /\ n \in 0 .. Leaves - 1
       /\ proofs' = proofs \cup {[tree |-> t, destination |-> n, proof |-> LibProof(Filled(t), n)]}
  /\ UNCHANGED <<loaded, signatures, decided>>

(* The segment that tips, next, signature, branches and leaf make, as      *)
(* libcomb.RecoverMerkleSegment completes it; the empty set is its error.  *)
Recovered(u, sig, branches, leaf) ==
  {[Tips |-> u.Tips, Next |-> u.Next, Signature |-> sig, Branches |-> branches,
    Leaf |-> leaf, Root |-> RootOf(leaf, branches, n)] :
     n \in {x \in 0 .. Leaves - 1 : Determines(u.Tips, sig, x)}}

(* The links of the i-th chains that a user without their private keys has:*)
(* those signatures reveal, and what they hash to.                         *)
Links(i) == {Hashed(s.Signature[i], k) : s \in signatures, k \in 0 .. Leaves - 1}

(* The pairs of links a destination can be recovered from; with any other  *)
(* two words libcomb answers an error.                                     *)
Signatures(tips) ==
  {sig \in Links(1) \X Links(2) : \E n \in 0 .. Leaves - 1 : Determines(tips, sig, n)}

(* The hashes of height k; a word that is none of them opens no tree.      *)
Hash(k) == [1 .. Pow2[k] -> Address \cup {Zero}]

AnyBranches ==
  {b \in [1 .. Depth -> UNION {Hash(k) : k \in 0 .. Depth - 1}] :
     \A k \in 1 .. Depth : b[k] \in Hash(k - 1)}

(* Fault variant: the recovered segment is not compared with the unsigned. *)
DecideMerkleSegment_unchecked ==
  /\ Kept < MaxKept
  /\ \E u \in unsigned :
       \E sig \in Signatures(u.Tips), branches \in AnyBranches, leaf \in Hash(0) :
         \E m \in Recovered(u, sig, branches, leaf) : decided' = decided \cup {m}
  /\ UNCHANGED <<loaded, signatures, proofs>>

(* DecideMerkleSegment, of an undecided segment libcomb knows, with any    *)
(* signature, branches and leaf, whatever the links were revealed for and  *)
(* wherever the hashes are from.                                           *)
DecideMerkleSegment ==
  /\ Kept < MaxKept
  /\ \E u \in unsigned :
       \E sig \in Signatures(u.Tips), branches \in AnyBranches, leaf \in Hash(0) :
         \E m \in Recovered(u, sig, branches, leaf) :
           /\ ID(m) = ID(u)
           /\ decided' = decided \cup {m}
  /\ UNCHANGED <<loaded, signatures, proofs>>

(* LoadMerkleSegment of what DecideMerkleSegment answered.                 *)
LoadMerkleSegment ==
  /\ \E m \in decided : segments' = segments \cup {m}
  /\ UNCHANGED <<deciders, unsigned, answers>>

Init ==
  /\ deciders = {} /\ unsigned = {} /\ segments = {}
  /\ signatures = {} /\ proofs = {} /\ decided = {}

Next == \/ GenerateDecider
        \/ LoadUnsignedMerkleSegment
        \/ SignDecider
        \/ ComputeProof
        \/ DecideMerkleSegment
        \/ LoadMerkleSegment

Spec == Init /\ [][Next]_vars

-------------------------------------------------------------------------------
(* Properties.                                                             *)

(* Every decided or loaded segment is an undecided one, with its address:  *)
(* it pays to a leaf of that contract's tree which the owner's decider was *)
(* asked to sign for, or which lies between two it was asked to sign for,  *)
(* and to no other, whatever links, branches and leaf it was decided with  *)
(* (DecideMerkleSegment).  So a decider that signs once pays to that leaf. *)
(* A destination outside the tree was signed for the leaf it wraps to.     *)
DecidedAsSigned ==
  \A m \in decided \cup segments :
    /\ \E u \in unsigned : ID(u) = ID(m)
    /\ \E n \in 0 .. Leaves - 1, s, t \in signatures :
         /\ s.Tips = m.Tips /\ t.Tips = m.Tips
         /\ Uint16(s.destination) <= n /\ n <= Uint16(t.destination)
         /\ Determines(m.Tips, m.Signature, n)
         /\ m.Leaf = <<m.Root[n + 1]>>

(* A proof and a signature for the same destination of the same contract   *)
(* decide it: no owner is left with a signed contract that its own proof   *)
(* does not open (ComputeRoot, ComputeProof, SignDecider).                 *)
SignedCanBeDecided ==
  \A u \in unsigned, s \in signatures, p \in proofs :
    s.Tips = u.Tips /\ ComputeRoot(p.tree) = u.Root /\ s.destination = p.destination
      => \E m \in Recovered(u, s.Signature, p.proof.Branches, p.proof.Leaf) : ID(m) = ID(u)

-------------------------------------------------------------------------------
(* The inductive invariant behind both properties, and the proofs: what    *)
(* the answers users keep were made from.                                  *)

Generated == {Decider(s) : s \in Seed}

UnsignedInv ==
  \A u \in unsigned :
    /\ u.Tips \in {Tips(d) : d \in Generated}
    /\ u.Root \in {Filled(t) : t \in {x \in Trees : Len(x) <= Leaves}}

SignatureInv ==
  \A s \in signatures :
    /\ s.destination \in Int
    /\ \E d \in Generated :
         s.Tips = Tips(d) /\ s.Signature = LibSign(d, Uint16(s.destination))

ProofInv ==
  \A p \in proofs :
    /\ p.tree \in Trees /\ Len(p.tree) <= Leaves
    /\ p.destination \in 0 .. Leaves - 1
    /\ p.proof = LibProof(Filled(p.tree), p.destination)

Inv ==
  /\ deciders \subseteq Generated
  /\ UnsignedInv
  /\ SignatureInv
  /\ ProofInv
  /\ DecidedAsSigned

===============================================================================
