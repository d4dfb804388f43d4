---------------------------- MODULE ChainSetProofs ---------------------------
(***************************************************************************)
(* Facts about the tree of PoW blocks, for every tree: heights and parents *)
(* along a chain, and the blocks between an ancestor and a descendant.     *)
(* Then what is true of chain_set and of its best chain, also when the     *)
(* root of the best chain is finalized.                                    *)
(***************************************************************************)
EXTENDS ChainSet, FiniteSetTheorems, WellFoundedInduction, TLAPS

\* A finite set that a transitive and total relation orders has a greatest
\* element: by the smallest subset that has none.
LEMMA GreatestExists ==
    ASSUME NEW S, IsFiniteSet(S), S # {}, NEW R,
           \A x, y \in S : x # y => <<x, y>> \in R \/ <<y, x>> \in R,
           \A x, y, z \in S : <<x, y>> \in R /\ <<y, z>> \in R => <<x, z>> \in R
    PROVE  \E m \in S : \A x \in S \ {m} : <<m, x>> \in R
<1> DEFINE Good(T) == \E m \in T : \A x \in T \ {m} : <<m, x>> \in R
           Bad == {T \in SUBSET S : T # {} /\ ~Good(T)}
<1>1. SUFFICES ASSUME Bad # {} PROVE FALSE
  BY DEF Bad
<1>2. IsWellFoundedOn(StrictSubsetOrdering(S), SUBSET S)
  BY FS_StrictSubsetOrderingWellFounded, FS_FiniteSubsetsOfFinite, Zenon
<1>3. PICK T \in Bad : \A U \in Bad : ~(<<U, T>> \in StrictSubsetOrdering(S))
  <2>1. Bad \subseteq SUBSET S
    OBVIOUS
  <2> HIDE DEF Bad
  <2> QED BY <1>1, <1>2, <2>1, WFMin
<1>4. T \in SUBSET S /\ T # {} /\ ~Good(T)
  OBVIOUS
<1>5. PICK x \in T : TRUE
  BY <1>4
<1>6. CASE T \ {x} = {}
  <2>1. \A y \in T \ {x} : <<x, y>> \in R
    BY <1>6
  <2> QED BY <1>4, <2>1
<1>7. CASE T \ {x} # {}
  <2>1. T \ {x} \in SUBSET S /\ <<T \ {x}, T>> \in StrictSubsetOrdering(S)
    BY <1>4, Zenon DEF StrictSubsetOrdering
  <2>2. T \ {x} \notin Bad
    BY <1>3, <2>1, Zenon
  <2>3. Good(T \ {x})
    BY <1>7, <2>1, <2>2, Zenon
  <2>4. PICK m \in T \ {x} : \A y \in (T \ {x}) \ {m} : <<m, y>> \in R
    BY <2>3
  <2>5. m \in S /\ x \in S /\ m # x
    BY <1>4
  <2>6. CASE <<m, x>> \in R
    <3>1. \A y \in T \ {m} : <<m, y>> \in R
      BY <2>4, <2>6
    <3> QED BY <1>4, <3>1
  <2>7. CASE <<x, m>> \in R
    <3>1. \A y \in T \ {x} : <<x, y>> \in R
      BY <1>4, <2>4, <2>5, <2>7, Zenon
    <3> QED BY <1>4, <3>1
  <2> QED BY <2>5, <2>6, <2>7
<1> QED BY <1>6, <1>7

\* A finite set of numbers has a greatest one.
LEMMA MaxExists ==
    ASSUME NEW S, IsFiniteSet(S), S # {}, \A x \in S : x \in Nat
    PROVE  \E m \in S : \A x \in S : x <= m
<1> DEFINE R == {p \in S \X S : p[1] > p[2]}
<1>1. \A x, y \in S : <<x, y>> \in R <=> x > y
  OBVIOUS
<1>2. \A x, y \in S : x # y => <<x, y>> \in R \/ <<y, x>> \in R
  BY <1>1
<1>3. \A x, y, z \in S : <<x, y>> \in R /\ <<y, z>> \in R => <<x, z>> \in R
  BY <1>1
<1> HIDE DEF R
<1>4. \E m \in S : \A x \in S \ {m} : <<m, x>> \in R
  BY <1>2, <1>3, GreatestExists
<1>5. PICK m \in S : \A x \in S \ {m} : <<m, x>> \in R
  BY <1>4
<1>6. ASSUME NEW x \in S PROVE x <= m
  <2>1. x = m \/ m > x
    BY <1>1, <1>5, Zenon
  <2> QED BY <2>1
<1> QED BY <1>6

-------------------------------------------------------------------------------
\* A chain has a height, which is 0 for the first block.
LEMMA HeightType ==
    /\ \A b \in Blocks : /\ HeightOf[b] \in Nat
                         /\ Cardinality(Ancestors[b]) = HeightOf[b] + 1
    /\ HeightOf[Genesis] = 0
<1>1. \A b \in Blocks : Cardinality(Ancestors[b]) \in Nat
                        /\ Cardinality(Ancestors[b]) # 0
  BY FS_CardinalityType, FS_EmptySet, HeightAssumption, TreeAssumption
<1>2. Cardinality(Ancestors[Genesis]) = 1
  BY FS_Singleton, TreeAssumption, Zenon
<1>3. ASSUME NEW b \in Blocks
      PROVE  /\ HeightOf[b] \in Nat
             /\ Cardinality(Ancestors[b]) = HeightOf[b] + 1
  <2>1. HeightOf[b] = Cardinality(Ancestors[b]) - 1
    BY DEF HeightOf
  <2>2. Cardinality(Ancestors[b]) \in Nat /\ Cardinality(Ancestors[b]) # 0
    BY <1>1
  <2> QED BY <2>1, <2>2
<1>4. HeightOf[Genesis] = Cardinality(Ancestors[Genesis]) - 1
  BY TreeAssumption, Zenon DEF HeightOf
<1> QED BY <1>2, <1>3, <1>4

\* An ancestor is lower than the block, unless it is the block.
LEMMA AncestorLower ==
    ASSUME NEW b \in Blocks, NEW a \in Ancestors[b]
    PROVE  /\ a \in Blocks
           /\ Ancestors[a] \subseteq Ancestors[b]
           /\ HeightOf[a] <= HeightOf[b]
           /\ HeightOf[a] = HeightOf[b] => a = b
<1>1. a \in Blocks /\ Ancestors[a] \subseteq Ancestors[b] /\ b \in Ancestors[b]
  BY TreeAssumption
<1>2. Cardinality(Ancestors[a]) <= Cardinality(Ancestors[b])
      /\ (Cardinality(Ancestors[a]) = Cardinality(Ancestors[b])
            => Ancestors[a] = Ancestors[b])
  BY <1>1, FS_Subset, HeightAssumption
<1>3. Ancestors[a] = Ancestors[b] => a = b
  BY <1>1, TreeAssumption
<1> QED BY <1>1, <1>2, <1>3, HeightType

\* Of two blocks of a chain the lower one is an ancestor of the other.
LEMMA SameChain ==
    ASSUME NEW c \in Blocks, NEW a \in Ancestors[c], NEW b \in Ancestors[c],
           HeightOf[a] <= HeightOf[b]
    PROVE  a \in Ancestors[b]
<1>1. a \in Blocks /\ b \in Blocks
  BY AncestorLower
<1>2. a \in Ancestors[b] \/ b \in Ancestors[a]
  BY TreeAssumption
<1>3. CASE b \in Ancestors[a]
  <2>1. HeightOf[b] <= HeightOf[a]
    BY <1>1, <1>3, AncestorLower
  <2>2. HeightOf[b] = HeightOf[a]
    BY <1>1, <2>1, HeightType
  <2>3. a = b
    BY <1>1, <1>3, <2>2, AncestorLower
  <2> QED BY <1>1, <2>3, TreeAssumption
<1> QED BY <1>2, <1>3

\* A block that is below another one, or is that block, has all its ancestors
\* below it.
LEMMA AncestorsTrans ==
    ASSUME NEW c \in Blocks, NEW b \in Ancestors[c], NEW a \in Ancestors[b]
    PROVE  a \in Ancestors[c]
BY AncestorLower

\* A chain has a block at each height up to its own, and only one.
LEMMA BlockAtHeight ==
    ASSUME NEW c \in Blocks, NEW h \in 0 .. HeightOf[c]
    PROVE  BlockAt(c, h) \in Ancestors[c] /\ HeightOf[BlockAt(c, h)] = h
<1> DEFINE hs == 0 .. HeightOf[c]
           g == [a \in Ancestors[c] |-> HeightOf[a]]
<1>1. \A a \in Ancestors[c] : a \in Blocks /\ HeightOf[a] \in hs
  BY AncestorLower, HeightType
<1>2. g \in [Ancestors[c] -> hs]
  BY <1>1
<1>3. \A a, b \in Ancestors[c] : g[a] = g[b] => a = b
  <2> SUFFICES ASSUME NEW a \in Ancestors[c], NEW b \in Ancestors[c], g[a] = g[b]
               PROVE  a = b
    OBVIOUS
  <2>1. a \in Ancestors[b] /\ HeightOf[a] = HeightOf[b]
    BY <1>1, HeightType, SameChain
  <2> QED BY <1>1, <2>1, AncestorLower
<1>4. IsFiniteSet(hs) /\ Cardinality(hs) = HeightOf[c] + 1
  <2>1. HeightOf[c] \in Nat /\ HeightOf[c] \in Int /\ 0 \in Int
    BY HeightType
  <2>2. /\ IsFiniteSet(0 .. HeightOf[c])
        /\ Cardinality(0 .. HeightOf[c])
             = IF 0 > HeightOf[c] THEN 0 ELSE HeightOf[c] - 0 + 1
    BY <2>1, FS_Interval, Zenon
  <2> QED BY <2>1, <2>2
<1>5. IsFiniteSet(Ancestors[c]) /\ Cardinality(Ancestors[c]) = Cardinality(hs)
  BY <1>4, HeightType, HeightAssumption
<1>6. g \in Injection(Ancestors[c], hs)
  BY <1>2, <1>3 DEF Injection, IsInjective
<1>7. g \in Surjection(Ancestors[c], hs)
  BY <1>4, <1>5, <1>6, FS_Injection, Zenon
<1>8. \E a \in Ancestors[c] : HeightOf[a] = h
  BY <1>7, Zenon DEF Surjection
<1> QED BY <1>8 DEF BlockAt

\* A block other than the first has a parent, which is the highest of its
\* other ancestors.
LEMMA ParentIsBelow ==
    ASSUME NEW b \in Blocks, b # Genesis
    PROVE  /\ Parent(b) \in Blocks /\ Parent(b) \in Ancestors[b]
           /\ HeightOf[b] = HeightOf[Parent(b)] + 1
           /\ Ancestors[b] = Ancestors[Parent(b)] \cup {b}
           /\ b \notin Ancestors[Parent(b)]
<1>1. HeightOf[b] \in Nat /\ Genesis \in Ancestors[b] /\ b \in Ancestors[b]
      /\ HeightOf[Genesis] = 0
  BY HeightType, TreeAssumption
<1>2. HeightOf[b] # 0
  BY <1>1, AncestorLower
<1>3. HeightOf[b] - 1 \in 0 .. HeightOf[b]
  BY <1>1, <1>2
<1>4. Parent(b) \in Ancestors[b] /\ HeightOf[Parent(b)] = HeightOf[b] - 1
  BY <1>3, BlockAtHeight DEF Parent
<1>5. Parent(b) \in Blocks /\ Ancestors[Parent(b)] \subseteq Ancestors[b]
  BY <1>4, AncestorLower
<1>6. b \notin Ancestors[Parent(b)]
  BY <1>1, <1>4, <1>5, AncestorLower
<1>7. ASSUME NEW a \in Ancestors[b], a # b PROVE a \in Ancestors[Parent(b)]
  <2>1. a \in Blocks /\ HeightOf[a] < HeightOf[b] /\ HeightOf[a] \in Nat
    BY <1>1, <1>7, AncestorLower, HeightType
  <2>2. HeightOf[a] <= HeightOf[Parent(b)]
    BY <1>1, <1>4, <2>1
  <2> QED BY <1>4, <2>2, SameChain
<1> QED BY <1>1, <1>4, <1>5, <1>6, <1>7

-------------------------------------------------------------------------------
\* The blocks above d on the chain that ends in t.
LEMMA SegmentBlocks ==
    ASSUME NEW t \in Blocks, NEW d \in Ancestors[t], t # d
    PROVE  /\ IsFiniteSet(Ancestors[t] \ Ancestors[d])
           /\ Cardinality(Ancestors[t] \ Ancestors[d]) = HeightOf[t] - HeightOf[d]
           /\ HeightOf[d] < HeightOf[t]
           /\ t \in Ancestors[t] \ Ancestors[d]
           /\ \A a \in Ancestors[t] \ Ancestors[d] :
                /\ a \in Blocks /\ d \in Ancestors[a] /\ a # d
                /\ HeightOf[d] < HeightOf[a] /\ HeightOf[a] <= HeightOf[t]
<1>1. d \in Blocks /\ HeightOf[d] \in Nat /\ HeightOf[t] \in Nat
      /\ HeightOf[d] < HeightOf[t] /\ t \in Ancestors[t]
  BY AncestorLower, HeightType, TreeAssumption
<1>2. t \notin Ancestors[d]
  BY <1>1, AncestorLower
<1>3. Ancestors[t] \cap Ancestors[d] = Ancestors[d]
  BY AncestorLower
<1>4. /\ IsFiniteSet(Ancestors[t] \ Ancestors[d])
      /\ Cardinality(Ancestors[t] \ Ancestors[d])
           = Cardinality(Ancestors[t]) - Cardinality(Ancestors[d])
  BY <1>3, FS_Difference, HeightAssumption
<1>5. Cardinality(Ancestors[t]) = HeightOf[t] + 1
      /\ Cardinality(Ancestors[d]) = HeightOf[d] + 1
  BY <1>1, HeightType
<1>6. ASSUME NEW a \in Ancestors[t] \ Ancestors[d]
      PROVE  /\ a \in Blocks /\ d \in Ancestors[a] /\ a # d
             /\ HeightOf[d] < HeightOf[a] /\ HeightOf[a] <= HeightOf[t]
  <2>1. a \in Blocks /\ HeightOf[a] \in Nat /\ HeightOf[a] <= HeightOf[t]
    BY AncestorLower, HeightType
  <2>2. d \in Ancestors[a] /\ a # d
    BY <1>1, TreeAssumption
  <2>3. HeightOf[d] < HeightOf[a]
    BY <1>1, <2>1, <2>2, AncestorLower
  <2> QED BY <2>1, <2>2, <2>3
<1>7. Cardinality(Ancestors[t] \ Ancestors[d]) = HeightOf[t] - HeightOf[d]
  BY <1>1, <1>4, <1>5
<1> QED BY <1>1, <1>2, <1>4, <1>6, <1>7

\* The lowest of them is the one that d is the parent of.
LEMMA SegmentRoot ==
    ASSUME NEW t \in Blocks, NEW d \in Ancestors[t], t # d
    PROVE  \E r \in Ancestors[t] \ Ancestors[d] :
             /\ HeightOf[r] = HeightOf[d] + 1 /\ r # Genesis /\ Parent(r) = d
             /\ Ancestors[r] = Ancestors[d] \cup {r}
<1> DEFINE r == BlockAt(t, HeightOf[d] + 1)
<1>1. d \in Blocks /\ HeightOf[d] \in Nat /\ HeightOf[t] \in Nat
      /\ HeightOf[d] < HeightOf[t]
  BY AncestorLower, HeightType, SegmentBlocks
<1>2. HeightOf[d] + 1 \in 0 .. HeightOf[t]
  BY <1>1
<1>3. r \in Ancestors[t] /\ HeightOf[r] = HeightOf[d] + 1
  BY <1>2, BlockAtHeight
<1> HIDE DEF r
<1>4. r \notin Ancestors[d] /\ r \in Blocks /\ r # Genesis
  BY <1>1, <1>3, AncestorLower, HeightType
<1>5. /\ Parent(r) \in Ancestors[t] /\ HeightOf[Parent(r)] = HeightOf[d]
      /\ Ancestors[r] = Ancestors[Parent(r)] \cup {r} /\ Parent(r) \in Blocks
  <2>1. /\ Parent(r) \in Ancestors[r] /\ HeightOf[r] = HeightOf[Parent(r)] + 1
        /\ Ancestors[r] = Ancestors[Parent(r)] \cup {r} /\ Parent(r) \in Blocks
    BY <1>4, ParentIsBelow
  <2>2. HeightOf[Parent(r)] \in Nat
    BY <2>1, HeightType
  <2> QED BY <1>1, <1>3, <2>1, <2>2, AncestorsTrans
<1>6. d \in Ancestors[Parent(r)]
  BY <1>1, <1>5, SameChain
<1>7. Parent(r) = d
  BY <1>1, <1>5, <1>6, AncestorLower
<1> QED BY <1>3, <1>4, <1>5, <1>7

-------------------------------------------------------------------------------
\* The tip of a chain is the block that it ends in.
LEMMA ChainTip ==
    ASSUME NEW a, NEW c, IsChain(c, a)
    PROVE  /\ Tip(c) \in c /\ Tip(c) \in Blocks /\ Tip(c) # a
           /\ a \in Blocks /\ a \in Ancestors[Tip(c)]
           /\ c = Ancestors[Tip(c)] \ Ancestors[a]
           /\ IsFiniteSet(c) /\ c \subseteq Blocks
           /\ Cardinality(c) = HeightOf[Tip(c)] - HeightOf[a]
           /\ \A b \in c : /\ a \in Ancestors[b] /\ HeightOf[a] < HeightOf[b]
                           /\ HeightOf[b] <= HeightOf[Tip(c)]
<1>1. PICK t \in Blocks : a \in Ancestors[t] /\ t # a /\ c = Ancestors[t] \ Ancestors[a]
  BY DEF IsChain
<1>2. /\ IsFiniteSet(c) /\ Cardinality(c) = HeightOf[t] - HeightOf[a]
      /\ t \in c /\ a \in Blocks
      /\ \A b \in c : /\ b \in Blocks /\ a \in Ancestors[b] /\ b # a
                      /\ HeightOf[a] < HeightOf[b] /\ HeightOf[b] <= HeightOf[t]
  BY <1>1, SegmentBlocks, AncestorLower, Zenon
<1>3. \E b \in c : \A x \in c : HeightOf[x] <= HeightOf[b]
  BY <1>2
<1>4. Tip(c) \in c /\ \A x \in c : HeightOf[x] <= HeightOf[Tip(c)]
  BY <1>3 DEF Tip
<1>5. HeightOf[Tip(c)] = HeightOf[t]
  <2>1. Tip(c) \in Blocks /\ HeightOf[Tip(c)] <= HeightOf[t]
    BY <1>2, <1>4
  <2>2. HeightOf[t] <= HeightOf[Tip(c)]
    BY <1>2, <1>4
  <2> QED BY <2>1, <2>2, HeightType
<1>6. Tip(c) = t
  BY <1>1, <1>4, <1>5, AncestorLower
<1> QED BY <1>1, <1>2, <1>6

\* The root of a chain is the child of the block that the chain starts at.
LEMMA ChainRoot ==
    ASSUME NEW a, NEW c, IsChain(c, a)
    PROVE  /\ Root(c) \in c /\ Root(c) # Genesis /\ Parent(Root(c)) = a
           /\ HeightOf[Root(c)] = HeightOf[a] + 1
           /\ Ancestors[Root(c)] = Ancestors[a] \cup {Root(c)}
<1>1. PICK t \in Blocks : a \in Ancestors[t] /\ t # a /\ c = Ancestors[t] \ Ancestors[a]
  BY DEF IsChain
<1>2. PICK r \in c : /\ HeightOf[r] = HeightOf[a] + 1 /\ r # Genesis /\ Parent(r) = a
                     /\ Ancestors[r] = Ancestors[a] \cup {r}
  BY <1>1, SegmentRoot
<1>3. \A x \in c : x \in Blocks /\ HeightOf[x] \in Nat /\ HeightOf[a] \in Nat
                   /\ HeightOf[a] < HeightOf[x] /\ x \in Ancestors[t]
  BY <1>1, ChainTip, HeightType
<1>4. \E b \in c : \A x \in c : HeightOf[b] <= HeightOf[x]
  BY <1>2, <1>3
<1>5. Root(c) \in c /\ \A x \in c : HeightOf[Root(c)] <= HeightOf[x]
  BY <1>4 DEF Root
<1>6. HeightOf[Root(c)] = HeightOf[r]
  BY <1>2, <1>3, <1>5
<1>7. Root(c) \in Ancestors[r]
  BY <1>3, <1>5, <1>6, SameChain
<1>8. Root(c) = r
  BY <1>3, <1>6, <1>7, AncestorLower
<1> QED BY <1>2, <1>8

\* The order of chain_set is the one of the tips, wherever the chains start.
LEMMA GreaterIsHigher ==
    ASSUME NEW a, NEW c, NEW d, IsChain(c, a), IsChain(d, a)
    PROVE  Greater(c, d) <=> Higher(Tip(c), Tip(d))
<1>1. /\ Cardinality(c) = HeightOf[Tip(c)] - HeightOf[a]
      /\ Cardinality(d) = HeightOf[Tip(d)] - HeightOf[a]
      /\ Tip(c) \in Blocks /\ Tip(d) \in Blocks /\ a \in Blocks
  BY ChainTip
<1>2. HeightOf[Tip(c)] \in Nat /\ HeightOf[Tip(d)] \in Nat /\ HeightOf[a] \in Nat
  BY <1>1, HeightType
<1> QED BY <1>1, <1>2 DEF Greater, Higher

\* Two chains with the same tip are the same.
LEMMA TipsDiffer ==
    ASSUME NEW a, NEW c, NEW d, IsChain(c, a), IsChain(d, a), Tip(c) = Tip(d)
    PROVE  c = d
BY ChainTip

\* Higher is a strict order of the blocks, and a total one.
LEMMA HigherOrder ==
    /\ \A x, y \in Blocks : /\ x # y => Higher(x, y) \/ Higher(y, x)
                            /\ ~(Higher(x, y) /\ Higher(y, x))
    /\ \A x, y, z \in Blocks : Higher(x, y) /\ Higher(y, z) => Higher(x, z)
<1>1. \A x \in Blocks : HeightOf[x] \in Nat /\ Hash[x] \in Nat
  BY HeightType, TreeAssumption
<1>2. \A x, y \in Blocks : Hash[x] = Hash[y] => x = y
  BY TreeAssumption
<1>3. \A x, y \in Blocks : x # y => Higher(x, y) \/ Higher(y, x)
  BY <1>1, <1>2 DEF Higher
<1>4. \A x, y \in Blocks : ~(Higher(x, y) /\ Higher(y, x))
  BY <1>1 DEF Higher
<1>5. \A x, y, z \in Blocks : Higher(x, y) /\ Higher(y, z) => Higher(x, z)
  BY <1>1 DEF Higher
<1> QED BY <1>3, <1>4, <1>5

\* Finitely many blocks have a best tip, which is the only one.
LEMMA BestTipExists ==
    ASSUME NEW S \in SUBSET Blocks, IsFiniteSet(S), S # {}
    PROVE  BestTip(S) \in S /\ \A u \in S \ {BestTip(S)} : Higher(BestTip(S), u)
<1> DEFINE R == {p \in S \X S : Higher(p[1], p[2])}
<1>1. \A x, y \in S : <<x, y>> \in R <=> Higher(x, y)
  OBVIOUS
<1>2. \A x, y \in S : x # y => <<x, y>> \in R \/ <<y, x>> \in R
  BY <1>1, HigherOrder
<1>3. \A x, y, z \in S : <<x, y>> \in R /\ <<y, z>> \in R => <<x, z>> \in R
  BY <1>1, HigherOrder
<1> HIDE DEF R
<1>4. \E t \in S : \A u \in S \ {t} : <<t, u>> \in R
  BY <1>2, <1>3, GreatestExists
<1>5. \E t \in S : \A u \in S \ {t} : Higher(t, u)
  BY <1>1, <1>4, Zenon
<1> QED BY <1>5 DEF BestTip

\* There is a best chain, and its tip is higher than the other tips.
LEMMA BestChainExists ==
    ASSUME NEW a, NEW cs, ChainsFrom(cs, a), cs # {}
    PROVE  /\ BestChain(cs) \in cs
           /\ \A d \in cs \ {BestChain(cs)} : Higher(Tip(BestChain(cs)), Tip(d))
<1> DEFINE R == {p \in cs \X cs : Higher(Tip(p[1]), Tip(p[2]))}
<1>1. IsFiniteSet(cs) /\ \A c \in cs : IsChain(c, a) /\ Tip(c) \in Blocks
  BY ChainTip DEF ChainsFrom
<1>2. \A c, d \in cs : <<c, d>> \in R <=> Higher(Tip(c), Tip(d))
  OBVIOUS
<1>3. \A c, d \in cs : c # d => <<c, d>> \in R \/ <<d, c>> \in R
  BY <1>1, <1>2, TipsDiffer, HigherOrder
<1>4. \A c, d, e \in cs : <<c, d>> \in R /\ <<d, e>> \in R => <<c, e>> \in R
  BY <1>1, <1>2, HigherOrder
<1> HIDE DEF R
<1>5. \E c \in cs : \A d \in cs \ {c} : <<c, d>> \in R
  BY <1>1, <1>3, <1>4, GreatestExists
<1>6. \A c, d \in cs : <<c, d>> \in R <=> Greater(c, d)
  BY <1>1, <1>2, GreaterIsHigher
<1>7. \E c \in cs : \A d \in cs \ {c} : Greater(c, d)
  BY <1>5, <1>6, Zenon
<1>8. BestChain(cs) \in cs /\ \A d \in cs \ {BestChain(cs)} : Greater(BestChain(cs), d)
  BY <1>7 DEF BestChain
<1> QED BY <1>1, <1>8, GreaterIsHigher

\* Only one chain is the best one.
LEMMA BestChainUnique ==
    ASSUME NEW a, NEW cs, ChainsFrom(cs, a), NEW c \in cs,
           \A d \in cs \ {c} : Higher(Tip(c), Tip(d))
    PROVE  BestChain(cs) = c
<1>1. BestChain(cs) \in cs
      /\ \A d \in cs \ {BestChain(cs)} : Higher(Tip(BestChain(cs)), Tip(d))
  BY BestChainExists
<1>2. Tip(c) \in Blocks /\ Tip(BestChain(cs)) \in Blocks
  BY <1>1, ChainTip DEF ChainsFrom
<1> QED BY <1>1, <1>2, HigherOrder

\* A part of a chain set is one.
LEMMA ChainSubset ==
    ASSUME NEW a, NEW cs, ChainsFrom(cs, a), NEW ds \in SUBSET cs
    PROVE  ChainsFrom(ds, a)
BY FS_Subset DEF ChainsFrom

\* What is above a on the chain that ends in t is a chain with the tip t.
LEMMA TipIs ==
    ASSUME NEW t \in Blocks, NEW a \in Ancestors[t], t # a
    PROVE  IsChain(Ancestors[t] \ Ancestors[a], a) /\ Tip(Ancestors[t] \ Ancestors[a]) = t
<1> DEFINE c == Ancestors[t] \ Ancestors[a]
<1>1. IsChain(c, a)
  BY DEF IsChain
<1>2. t \in c
  BY SegmentBlocks, Zenon
<1> HIDE DEF c
<1>3. Tip(c) \in c /\ Tip(c) \in Blocks /\ HeightOf[t] <= HeightOf[Tip(c)]
  BY <1>1, <1>2, ChainTip
<1>4. Tip(c) \in Ancestors[t]
  BY <1>3 DEF c
<1>5. HeightOf[Tip(c)] = HeightOf[t]
  BY <1>3, <1>4, AncestorLower, HeightType
<1>6. Tip(c) = t
  BY <1>4, <1>5, AncestorLower
<1> QED BY <1>1, <1>6 DEF c

\* A chain that loses its root keeps its tip, and starts at the root.
LEMMA PoppedChain ==
    ASSUME NEW a, NEW c, IsChain(c, a), Tip(c) # Root(c)
    PROVE  IsChain(c \ {Root(c)}, Root(c)) /\ Tip(c \ {Root(c)}) = Tip(c)
<1> DEFINE t == Tip(c)
           r == Root(c)
<1>1. c = Ancestors[t] \ Ancestors[a] /\ t \in Blocks
  BY ChainTip
<1>2. r \in c /\ Ancestors[r] = Ancestors[a] \cup {r}
  BY ChainRoot
<1> HIDE DEF t, r
<1>3. c \ {r} = Ancestors[t] \ Ancestors[r] /\ r \in Ancestors[t] /\ t # r
  BY <1>1, <1>2 DEF t, r
<1>4. IsChain(c \ {r}, r) /\ Tip(c \ {r}) = t
  BY <1>1, <1>3, TipIs
<1> QED BY <1>4 DEF t, r

\* finalize: the chains that are left start at the block that went to disk,
\* have a block each, and the best of them is what is left of the best chain.
LEMMA PoppedChains ==
    ASSUME NEW a, NEW cs, ChainsFrom(cs, a), cs # {},
           NEW best, best = BestChain(cs), NEW root, root = Root(best)
    PROVE  /\ ChainsFrom(Popped(cs), root)
           /\ \A c \in Popped(cs) : \E d \in cs : c = d \ {root} /\ Tip(c) = Tip(d)
           /\ Tip(best) = root => Popped(cs) = {}
           /\ Tip(best) # root => /\ Popped(cs) # {}
                                  /\ Tip(BestChain(Popped(cs))) = Tip(best)
<1> DEFINE side == {d \in cs \ {best} : Root(d) = root}
           f == [d \in cs |-> d \ {root}]
           all == {d \ {root} : d \in cs}
<1>1. best \in cs /\ \A d \in cs \ {best} : Higher(Tip(best), Tip(d))
  BY BestChainExists
<1>2. /\ IsFiniteSet(cs) /\ \A c \in cs : IsChain(c, a)
      /\ \A c, d \in cs : Tip(c) \in d => c = d
  BY DEF ChainsFrom
<1>3. Popped(cs) = ({best \ {root}} \ {{}}) \cup {d \ {root} : d \in side}
  BY DEF Popped
<1>4. root \in best /\ \A d \in side : root \in d /\ Tip(d) # root
  BY <1>1, <1>2, ChainRoot
<1>5. \A d \in side : IsChain(d \ {root}, root) /\ Tip(d \ {root}) = Tip(d)
  BY <1>2, <1>4, PoppedChain
<1>6. Tip(best) # root => /\ IsChain(best \ {root}, root)
                          /\ Tip(best \ {root}) = Tip(best)
                          /\ best \ {root} # {}
  <2> SUFFICES ASSUME Tip(best) # root
               PROVE  /\ IsChain(best \ {root}, root)
                      /\ Tip(best \ {root}) = Tip(best)
                      /\ best \ {root} # {}
    OBVIOUS
  <2>1. IsChain(best \ {root}, root) /\ Tip(best \ {root}) = Tip(best)
    BY <1>1, <1>2, PoppedChain
  <2> QED BY <2>1, ChainTip
<1>7. Tip(best) = root => best \ {root} = {} /\ side = {}
  <2> SUFFICES ASSUME Tip(best) = root PROVE best \ {root} = {} /\ side = {}
    OBVIOUS
  <2>1. side = {}
    BY <1>1, <1>2, <1>4
  <2>2. best = {root}
    <3>1. best = Ancestors[root] \ Ancestors[a] /\ Ancestors[root] = Ancestors[a] \cup {root}
      BY <1>1, <1>2, ChainTip, ChainRoot
    <3> QED BY <1>4, <3>1
  <2> QED BY <2>1, <2>2
<1>8. \A c \in Popped(cs) : \E d \in cs : /\ c = d \ {root} /\ Tip(c) = Tip(d)
                                          /\ IsChain(c, root)
  <2> SUFFICES ASSUME NEW c \in Popped(cs)
               PROVE  \E d \in cs : /\ c = d \ {root} /\ Tip(c) = Tip(d)
                                    /\ IsChain(c, root)
    OBVIOUS
  <2>1. CASE c = best \ {root} /\ c # {}
    BY <1>1, <1>6, <1>7, <2>1
  <2>2. CASE \E d \in side : c = d \ {root}
    <3>1. PICK d \in side : c = d \ {root}
      BY <2>2
    <3>2. d \in cs
      OBVIOUS
    <3> QED BY <1>5, <3>1, <3>2, Zenon
  <2> QED BY <1>3, <2>1, <2>2
<1>9. ChainsFrom(Popped(cs), root)
  <2>1. IsFiniteSet(all)
    <3>1. f \in Surjection(cs, all)
      BY Zenon DEF Surjection
    <3> QED BY <1>2, <3>1, FS_Surjection, Zenon
  <2>2. IsFiniteSet(Popped(cs))
    <3>1. Popped(cs) \subseteq all
      BY <1>8
    <3> QED BY <2>1, <3>1, FS_Subset, Zenon
  <2>3. ASSUME NEW c \in Popped(cs), NEW d \in Popped(cs), Tip(c) \in d
        PROVE  c = d
    <3>1. PICK c1 \in cs : c = c1 \ {root} /\ Tip(c) = Tip(c1)
      BY <1>8
    <3>2. PICK d1 \in cs : d = d1 \ {root}
      BY <1>8
    <3>3. Tip(c1) \in d1
      BY <2>3, <3>1, <3>2
    <3> QED BY <1>2, <3>1, <3>2, <3>3
  <2> QED BY <1>8, <2>2, <2>3 DEF ChainsFrom
<1>10. ASSUME Tip(best) # root
       PROVE  Popped(cs) # {} /\ Tip(BestChain(Popped(cs))) = Tip(best)
  <2> DEFINE rest == best \ {root}
  <2>1. rest \in Popped(cs) /\ Tip(rest) = Tip(best)
    BY <1>3, <1>6, <1>10
  <2>2. \A c \in Popped(cs) \ {rest} : Higher(Tip(rest), Tip(c))
    BY <1>1, <1>8, <2>1
  <2> HIDE DEF rest
  <2>3. BestChain(Popped(cs)) = rest
    BY <1>9, <2>1, <2>2, BestChainUnique
  <2> QED BY <2>1, <2>3
<1> QED BY <1>3, <1>7, <1>8, <1>9, <1>10
===============================================================================
