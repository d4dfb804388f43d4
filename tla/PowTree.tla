------------------------------- MODULE PowTree -------------------------------
(***************************************************************************)
(* The tree of PoW blocks as zebra-state sees it: every block has the same *)
(* work, so the best chain is the highest one, and the hash of its tip     *)
(* breaks ties (Ord for Chain, non_finalized_state/chain.rs).              *)
(***************************************************************************)
EXTENDS Naturals, FiniteSets

CONSTANTS
    Blocks,       \* the PoW blocks there are, on any chain
    Genesis,      \* the first of them
    Ancestors,    \* the chain that ends in each block, with the block
    Hash          \* block hashes, as numbers that can be compared

(* Ancestry is a tree order. *)
ASSUME TreeAssumption ==
    /\ Genesis \in Blocks /\ Ancestors[Genesis] = {Genesis}
    /\ \A c \in Blocks :
          /\ c \in Ancestors[c] /\ Genesis \in Ancestors[c]
          /\ Ancestors[c] \subseteq Blocks
          /\ \A a, b \in Ancestors[c] :
                /\ Ancestors[a] \subseteq Ancestors[c]
                /\ a \in Ancestors[b] \/ b \in Ancestors[a]
                /\ Ancestors[a] = Ancestors[b] => a = b
    /\ \A a, b \in Blocks : Hash[a] \in Nat /\ (Hash[a] = Hash[b] => a = b)

(* Every chain has a first block, and so a height. *)
ASSUME HeightAssumption == \A c \in Blocks : IsFiniteSet(Ancestors[c])

-------------------------------------------------------------------------------
HeightOf == [b \in Blocks |-> Cardinality(Ancestors[b]) - 1]

(* The block at height h of the chain that ends in tip. *)
BlockAt(tip, h) == CHOOSE b \in Ancestors[tip] : HeightOf[b] = h
Parent(b) == BlockAt(b, HeightOf[b] - 1)

(* b is above a on one chain. *)
Above(b, a) == b # a /\ a \in Ancestors[b]

Higher(a, b) ==
    \/ HeightOf[a] > HeightOf[b]
    \/ HeightOf[a] = HeightOf[b] /\ Hash[a] > Hash[b]

(* The tip of the best chain among the blocks S. *)
BestTip(S) == CHOOSE t \in S : \A u \in S \ {t} : Higher(t, u)

(* What is left of the blocks S once d is finalized: the blocks of the     *)
(* chain up to d, and those on top of it.                                  *)
Retain(S, d) == {b \in S : d \in Ancestors[b] \/ b \in Ancestors[d]}
===============================================================================
