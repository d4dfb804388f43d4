------------------------------- MODULE ChainSet -------------------------------
(***************************************************************************)
(* chain_set of the non-finalized state (non_finalized_state.rs): the side *)
(* chains in memory, each one the set of its blocks, their order, and what *)
(* is left of them when finalize moves a block to disk.                    *)
(***************************************************************************)
EXTENDS PowTree

Root(c) == CHOOSE b \in c : \A a \in c : HeightOf[b] <= HeightOf[a]
Tip(c) == CHOOSE b \in c : \A a \in c : HeightOf[a] <= HeightOf[b]

(* The order of chain_set: the work, and then the hash of the tip. *)
Greater(c, d) ==
    \/ Cardinality(c) > Cardinality(d)
    \/ Cardinality(c) = Cardinality(d) /\ Hash[Tip(c)] > Hash[Tip(d)]

BestChain(cs) == CHOOSE c \in cs : \A d \in cs \ {c} : Greater(c, d)

(* Fault, for the runs to detect: side chains with another root stay. *)
Popped_KeepsForks(cs) ==
    LET best == BestChain(cs)
        root == Root(best)
    IN  ({best \ {root}} \ {{}}) \cup {c \ {root} : c \in cs \ {best}}

(* finalize: the root of the best chain goes to disk.  Its own chain stays *)
(* unless it is empty; the others stay if they had the same root.          *)
Popped(cs) ==
    LET best == BestChain(cs)
        root == Root(best)
    IN  ({best \ {root}} \ {{}})
            \cup {c \ {root} : c \in {d \in cs \ {best} : Root(d) = root}}

-------------------------------------------------------------------------------
(* c is what is above a on some chain. *)
IsChain(c, a) ==
    \E t \in Blocks : a \in Ancestors[t] /\ t # a /\ c = Ancestors[t] \ Ancestors[a]

(* The chains start at the finalized tip, and none is a part of another:   *)
(* the side chains that finalize inserts again have a block left.          *)
ChainsFrom(cs, a) ==
    /\ IsFiniteSet(cs)
    /\ \A c \in cs : IsChain(c, a)
    /\ \A c, d \in cs : Tip(c) \in d => c = d
===============================================================================
