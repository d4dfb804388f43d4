----------------------------- MODULE QuorumProofs -----------------------------
(***************************************************************************)
(* Quorums of one height of tenderlink: what the thresholds of bft_update  *)
(* guarantee for every total stake, and the steps of one node that keep the*)
(* inductive invariant of TenderlinkSafety: what a rule may do to the state*)
(* of a node, whichever rule it is, and what the operators that the rules  *)
(* share do.                                                               *)
(***************************************************************************)
EXTENDS TenderlinkSafety, FiniteSetTheorems, WellFoundedInduction, TLAPS

-------------------------------------------------------------------------------
(* The thresholds.                                                         *)

\* A total stake is three times the faulty stake of f_from_n, and one to three
\* more: the integer division rounds the faulty stake down.
LEMMA FaultyStake ==
    ASSUME NEW n \in Nat, n > 0
    PROVE  /\ f_from_n(n) \in Nat
           /\ \/ n = 3 * f_from_n(n) + 1
              \/ n = 3 * f_from_n(n) + 2
              \/ n = 3 * f_from_n(n) + 3
  BY DEF f_from_n

\* The members that are left when the faulty stake says nothing still reach the
\* threshold for prevotes and precommits: bft_update never waits for the stake
\* that f_from_n takes to be faulty.
THEOREM QuorumReachable ==
    ASSUME NEW n \in Nat, n > 0
    PROVE  big_threshold(n) <= n - f_from_n(n)
  BY FaultyStake DEF big_threshold

\* A stake that reaches the threshold to catch up with a round (line 55) is more
\* than the faulty stake, and every quorum reaches it.
THEOREM CatchUpIsHonest ==
    ASSUME NEW n \in Nat, n > 0
    PROVE  /\ f_from_n(n) < small_threshold(n)
           /\ small_threshold(n) <= big_threshold(n)
  BY FaultyStake DEF big_threshold, small_threshold

\* Two quorums of bft_update share more than the faulty stake exactly when the
\* total is at most 3, or one more than a multiple of 3.  For every other total
\* two sets of 2f+1 may have nothing but faulty stake in common.
THEOREM OverlapBeyondFaulty ==
    ASSUME NEW n \in Nat, n > 0
    PROVE  f_from_n(n) < QuorumOverlap(n) <=> n <= 3 \/ n = 3 * f_from_n(n) + 1
  BY FaultyStake DEF big_threshold, QuorumOverlap

\* A total stake of six is the only one for which two quorums may be disjoint:
\* bft_update then needs no faulty member to count a quorum for each of two
\* values.
THEOREM DisjointOnlyAtSix ==
    ASSUME NEW n \in Nat, n > 0
    PROVE  QuorumOverlap(n) <= 0 <=> n = 6
<1>1. PICK f \in Nat : f = f_from_n(n)
  BY FaultyStake
<1>2. n = 3 * f + 1 \/ n = 3 * f + 2 \/ n = 3 * f + 3
  BY <1>1, FaultyStake
<1>3. CASE f = 0
  BY <1>1, <1>2, <1>3 DEF big_threshold, QuorumOverlap
<1>4. CASE f > 0
  <2>1. QuorumOverlap(n) = 4 * f + 2 - n
    BY <1>1, <1>4 DEF big_threshold, QuorumOverlap
  <2>2. QED
    BY <1>2, <1>4, <2>1
<1>5. QED
  BY <1>3, <1>4

-------------------------------------------------------------------------------
(* The stake of a set of members.  Weight folds over the set in an order   *)
(* that CHOOSE makes up; the lemmas say that the order does not matter.    *)

\* The element that the fold takes next.
Pick(s) == CHOOSE x \in s : TRUE

\* f adds up the stake of every subset of S, in the order of the fold.
IsSum(S, f) ==
    f = [s \in SUBSET S |-> IF s = {} THEN 0 ELSE Stake[Pick(s)] + f[s \ {Pick(s)}]]

SumOf(S) == CHOOSE f : IsSum(S, f)

\* The stake of a set is the sum over it.
LEMMA WeightIsSum == \A S \in SUBSET Members : Weight[S] = SumOf(S)[S]
BY DEF Weight, MapThenSumSet, MapThenFoldSet, SumOf, IsSum, Pick

\* The fold takes an element of the set, and goes on with a smaller one.
LEMMA PickInSet ==
    ASSUME NEW s, s # {}
    PROVE  Pick(s) \in s /\ s \ {Pick(s)} \subseteq s /\ s \ {Pick(s)} # s
BY DEF Pick

\* A set of sets of members has one that contains no other.
LEMMA SmallestSet ==
    ASSUME NEW Z, Z \subseteq SUBSET Members, Z # {}
    PROVE  \E T \in Z : \A U \in Z : U \subseteq T => U = T
<1> DEFINE R == StrictSubsetOrdering(Members)
<1>1. FiniteSubsetsOf(Members) = SUBSET Members
  BY FS_FiniteSubsetsOfFinite, ConstantsAssumption DEF ConstantsOK
<1>2. IsWellFoundedOn(R, SUBSET Members)
  <2>1. IsWellFoundedOn(R, FiniteSubsetsOf(Members))
    BY FS_StrictSubsetOrderingWellFounded
  <2> QED BY <1>1, <2>1
<1>3. \A U, T \in SUBSET Members : (U \subseteq T /\ U # T) => <<U, T>> \in R
  BY DEF StrictSubsetOrdering
<1> HIDE DEF R
<1>4. PICK T \in Z : \A U \in Z : ~(<<U, T>> \in R)
  BY <1>2, WFMin
<1>5. \A U \in Z : (U \subseteq T /\ U # T) => <<U, T>> \in R
  BY <1>3
<1>6. ASSUME NEW U \in Z, U \subseteq T PROVE U = T
  BY <1>4, <1>5, <1>6, Zenon
<1> QED BY <1>6

\* Two functions that add up stake agree where both are defined.
LEMMA SumUnique ==
    ASSUME NEW S \in SUBSET Members, NEW T \in SUBSET Members, NEW f, NEW g,
           IsSum(S, f), IsSum(T, g), NEW s \in SUBSET (S \cap T)
    PROVE  f[s] = g[s]
<1> DEFINE Z == {u \in SUBSET (S \cap T) : f[u] # g[u]}
<1> SUFFICES ASSUME Z # {} PROVE FALSE
  OBVIOUS
<1>1. PICK u \in Z : \A w \in Z : w \subseteq u => w = u
  <2>1. Z \subseteq SUBSET Members
    OBVIOUS
  <2> HIDE DEF Z
  <2> QED BY <2>1, SmallestSet
<1>2. u \in SUBSET S /\ u \in SUBSET T /\ f[u] # g[u]
  OBVIOUS
<1>3. /\ f[u] = IF u = {} THEN 0 ELSE Stake[Pick(u)] + f[u \ {Pick(u)}]
      /\ g[u] = IF u = {} THEN 0 ELSE Stake[Pick(u)] + g[u \ {Pick(u)}]
  BY <1>2, Zenon DEF IsSum
<1>4. u # {}
  BY <1>2, <1>3
<1>5. f[u \ {Pick(u)}] = g[u \ {Pick(u)}]
  BY <1>1, <1>2, <1>4, PickInSet
<1> QED BY <1>2, <1>3, <1>4, <1>5

\* Every set of members has a function that adds up its stake.
LEMMA SumExists ==
    ASSUME NEW S \in SUBSET Members
    PROVE  IsSum(S, SumOf(S)) /\ SumOf(S) \in [SUBSET S -> Nat]
<1> DEFINE OK(U) == IsSum(U, SumOf(U)) /\ SumOf(U) \in [SUBSET U -> Nat]
           Z == {U \in SUBSET Members : ~OK(U)}
<1> SUFFICES ASSUME Z # {} PROVE FALSE
  BY Zenon
<1>1. PICK T \in Z : \A U \in Z : U \subseteq T => U = T
  <2>1. Z \subseteq SUBSET Members
    OBVIOUS
  <2> HIDE DEF Z
  <2> QED BY <2>1, SmallestSet
<1>2. T \in SUBSET Members /\ ~OK(T)
  OBVIOUS
<1>3. \A U \in SUBSET T : U # T => OK(U)
  BY <1>1, <1>2, Zenon
<1> HIDE DEF Z
<1> DEFINE Rest(s) == s \ {Pick(s)}
           g == [s \in SUBSET T |->
                   IF s = {} THEN 0 ELSE Stake[Pick(s)] + SumOf(Rest(s))[Rest(s)]]
<1>4. ASSUME NEW s \in SUBSET T, s # {}
      PROVE  /\ Rest(s) \in SUBSET T /\ Rest(s) # T /\ Rest(s) \in SUBSET s
             /\ Stake[Pick(s)] \in Nat
             /\ SumOf(Rest(s))[Rest(s)] \in Nat
  <2>1. Rest(s) \in SUBSET T /\ Rest(s) # T /\ Rest(s) \in SUBSET s /\ Pick(s) \in Members
    BY <1>2, <1>4, PickInSet
  <2>2. OK(Rest(s))
    BY <1>3, <2>1, Zenon
  <2> HIDE DEF Rest
  <2>3. SumOf(Rest(s))[Rest(s)] \in Nat
    BY <2>2
  <2>4. Stake[Pick(s)] \in Nat
    BY <2>1, ConstantsAssumption DEF ConstantsOK
  <2> QED BY <2>1, <2>3, <2>4
<1>5. g \in [SUBSET T -> Nat]
  <2> HIDE DEF Rest
  <2> QED BY <1>4
<1>6. ASSUME NEW s \in SUBSET T, s # T PROVE g[s] = SumOf(s)[s]
  <2>1. OK(s)
    BY <1>3, <1>6, Zenon
  <2>2. SumOf(s)[s] = IF s = {} THEN 0 ELSE Stake[Pick(s)] + SumOf(s)[Rest(s)]
    BY <2>1, Zenon DEF IsSum
  <2>3. ASSUME s # {} PROVE SumOf(s)[Rest(s)] = SumOf(Rest(s))[Rest(s)]
    <3>1. Rest(s) \in SUBSET T /\ Rest(s) # T /\ Rest(s) \in SUBSET s
      BY <1>4, <2>3
    <3>2. OK(Rest(s)) /\ Rest(s) \in SUBSET (s \cap Rest(s))
      BY <1>3, <3>1, Zenon
    <3> HIDE DEF Rest
    <3> QED BY <1>2, <2>1, <3>1, <3>2, SumUnique
  <2> HIDE DEF Rest
  <2> QED BY <2>2, <2>3
<1>7. IsSum(T, g)
  <2>1. ASSUME NEW s \in SUBSET T, s # {}
        PROVE  SumOf(Rest(s))[Rest(s)] = g[Rest(s)]
    BY <1>4, <1>6, <2>1, Zenon
  <2>2. g = [s \in SUBSET T |-> IF s = {} THEN 0 ELSE Stake[Pick(s)] + g[Rest(s)]]
    <3> HIDE DEF Rest
    <3> QED BY <2>1, Zenon
  <2> QED BY <2>2, Zenon DEF IsSum
<1>8. IsSum(T, SumOf(T))
  BY <1>7 DEF SumOf
<1>9. SumOf(T) = g
  <2>1. DOMAIN SumOf(T) = SUBSET T /\ SumOf(T) = [s \in SUBSET T |-> SumOf(T)[s]]
    BY <1>8 DEF IsSum
  <2>2. g = [s \in SUBSET T |-> g[s]]
    BY <1>5
  <2> HIDE DEF g
  <2>3. ASSUME NEW s \in SUBSET T PROVE SumOf(T)[s] = g[s]
    <3>1. s \in SUBSET (T \cap T)
      OBVIOUS
    <3> QED BY <1>2, <1>7, <1>8, <3>1, SumUnique
  <2> QED BY <2>1, <2>2, <2>3, Zenon
<1> QED BY <1>2, <1>5, <1>8, <1>9

\* The stake of a set is that of any member of it and that of the others.
LEMMA WeightOfMember ==
    ASSUME NEW S \in SUBSET Members
    PROVE  /\ Weight[S] \in Nat
           /\ S = {} => Weight[S] = 0
           /\ \A x \in S : Weight[S] = Stake[x] + Weight[S \ {x}]
<1>1. ASSUME NEW U \in SUBSET Members
      PROVE  /\ Weight[U] \in Nat
             /\ U = {} => Weight[U] = 0
             /\ U # {} => Weight[U] = Stake[Pick(U)] + Weight[U \ {Pick(U)}]
  <2> DEFINE w == U \ {Pick(U)}
  <2>1. IsSum(U, SumOf(U)) /\ SumOf(U) \in [SUBSET U -> Nat]
    BY SumExists, Zenon
  <2>2. w \in SUBSET Members /\ w \in SUBSET (U \cap w) /\ w \in SUBSET U
    OBVIOUS
  <2>3. SumOf(U)[U] = IF U = {} THEN 0 ELSE Stake[Pick(U)] + SumOf(U)[w]
    BY <2>1, Zenon DEF IsSum
  <2> HIDE DEF w
  <2>4. SumOf(U)[w] = SumOf(w)[w]
    <3>1. IsSum(w, SumOf(w))
      BY <2>2, SumExists, Zenon
    <3> QED BY <2>1, <2>2, <3>1, SumUnique
  <2>5. Weight[U] = SumOf(U)[U] /\ Weight[w] = SumOf(w)[w]
    BY <2>2, WeightIsSum
  <2> QED BY <2>1, <2>3, <2>4, <2>5 DEF w
<1> DEFINE OK(U) == \A x \in U : Weight[U] = Stake[x] + Weight[U \ {x}]
           Z == {U \in SUBSET Members : ~OK(U)}
<1>2. Z = {}
  <2> SUFFICES ASSUME Z # {} PROVE FALSE
    OBVIOUS
  <2>1. PICK T \in Z : \A U \in Z : U \subseteq T => U = T
    <3>1. Z \subseteq SUBSET Members
      OBVIOUS
    <3> HIDE DEF Z
    <3> QED BY <3>1, SmallestSet
  <2>2. \A U \in SUBSET T : U # T => OK(U)
    BY <2>1
  <2>3. PICK x \in T : Weight[T] # Stake[x] + Weight[T \ {x}]
    BY <2>1, Zenon
  <2> DEFINE y == Pick(T)
             Tx == T \ {x}
             Ty == T \ {y}
  <2>4. T \in SUBSET Members /\ y \in T /\ Weight[T] = Stake[y] + Weight[Ty]
    BY <1>1, <2>3, PickInSet
  <2>5. x # y
    BY <2>3, <2>4
  <2>6. /\ Tx \in SUBSET T /\ Tx # T /\ Ty \in SUBSET T /\ Ty # T
        /\ x \in Ty /\ y \in Tx /\ Tx \ {y} = Ty \ {x}
    BY <2>3, <2>4, <2>5
  <2>7. Stake[x] \in Nat /\ Stake[y] \in Nat /\ Weight[Ty \ {x}] \in Nat
    BY <1>1, <2>4, <2>6, ConstantsAssumption, Zenon DEF ConstantsOK
  <2> HIDE DEF y, Z
  <2>8. /\ Weight[Ty] = Stake[x] + Weight[Ty \ {x}]
        /\ Weight[Tx] = Stake[y] + Weight[Tx \ {y}]
    <3>1. OK(Tx) /\ OK(Ty)
      BY <2>2, <2>6, Zenon
    <3> HIDE DEF Tx, Ty
    <3> QED BY <2>6, <3>1
  <2> HIDE DEF Tx, Ty
  <2>9. Weight[T] # Stake[x] + Weight[Tx]
    BY <2>3 DEF Tx
  <2>10. Weight[Tx \ {y}] = Weight[Ty \ {x}]
    BY <2>6
  <2> QED BY <2>4, <2>7, <2>8, <2>9, <2>10
<1>3. OK(S)
  BY <1>2
<1>4. Weight[S] \in Nat /\ (S = {} => Weight[S] = 0)
  BY <1>1, Zenon
<1> HIDE DEF Z
<1> QED BY <1>3, <1>4

\* Stake adds up, for every finite roster.
LEMMA WeightAddsUp ==
    /\ \A S \in SUBSET Members : Weight[S] \in Nat
    /\ \A S, T \in SUBSET Members :
         /\ Weight[S] + Weight[T] = Weight[S \cup T] + Weight[S \cap T]
         /\ S \subseteq T => Weight[S] <= Weight[T]
<1>1. \A S \in SUBSET Members : Weight[S] \in Nat
  BY WeightOfMember
<1>2. ASSUME NEW S \in SUBSET Members, NEW T \in SUBSET Members
      PROVE  Weight[S] + Weight[T] = Weight[S \cup T] + Weight[S \cap T]
  <2> DEFINE OK(U) == Weight[U] + Weight[T] = Weight[U \cup T] + Weight[U \cap T]
             Z == {U \in SUBSET Members : ~OK(U)}
  <2> SUFFICES ASSUME Z # {} PROVE FALSE
    BY Zenon
  <2>1. PICK U \in Z : \A V \in Z : V \subseteq U => V = U
    <3>1. Z \subseteq SUBSET Members
      OBVIOUS
    <3> HIDE DEF Z
    <3> QED BY <3>1, SmallestSet
  <2>2. U \in SUBSET Members /\ ~OK(U) /\ \A V \in SUBSET U : V # U => OK(V)
    BY <2>1, Zenon
  <2> HIDE DEF Z
  <2>3. U # {}
    <3>1. U = {} => U \cup T = T /\ U \cap T = {}
      OBVIOUS
    <3>2. Weight[{}] = 0 /\ Weight[T] \in Nat
      BY WeightOfMember
    <3>3. U = {} => Weight[U] = 0 /\ Weight[U \cup T] = Weight[T] /\ Weight[U \cap T] = 0
      BY <3>1, <3>2
    <3> QED BY <2>2, <3>2, <3>3
  <2>4. PICK x \in U : TRUE
    BY <2>3
  <2> DEFINE V == U \ {x}
  <2>5. /\ V \in SUBSET Members /\ OK(V) /\ Stake[x] \in Nat
        /\ Weight[U] = Stake[x] + Weight[V]
    BY <2>2, <2>4, WeightOfMember, ConstantsAssumption, Zenon DEF ConstantsOK
  <2>6. /\ Weight[V] \in Nat /\ Weight[T] \in Nat /\ Weight[V \cup T] \in Nat
        /\ Weight[V \cap T] \in Nat
    BY <1>1, <2>5
  <2>7. CASE x \in T
    <3>1. U \cup T = V \cup T /\ (U \cap T) \ {x} = V \cap T /\ x \in U \cap T
      BY <2>4, <2>7
    <3>2. Weight[U \cap T] = Stake[x] + Weight[(U \cap T) \ {x}]
      <4>1. U \cap T \in SUBSET Members
        BY <2>2
      <4> QED BY <3>1, <4>1, WeightOfMember
    <3> HIDE DEF V
    <3>3. Weight[U \cap T] = Stake[x] + Weight[V \cap T] /\ Weight[U \cup T] = Weight[V \cup T]
      BY <3>1, <3>2
    <3> QED BY <2>2, <2>5, <2>6, <3>3
  <2>8. CASE x \notin T
    <3>1. (U \cup T) \ {x} = V \cup T /\ U \cap T = V \cap T /\ x \in U \cup T
      BY <2>4, <2>8
    <3>2. Weight[U \cup T] = Stake[x] + Weight[(U \cup T) \ {x}]
      <4>1. U \cup T \in SUBSET Members
        BY <2>2
      <4> QED BY <3>1, <4>1, WeightOfMember
    <3> HIDE DEF V
    <3>3. Weight[U \cup T] = Stake[x] + Weight[V \cup T] /\ Weight[U \cap T] = Weight[V \cap T]
      BY <3>1, <3>2
    <3> QED BY <2>2, <2>5, <2>6, <3>3
  <2> QED BY <2>7, <2>8
<1>3. ASSUME NEW S \in SUBSET Members, NEW T \in SUBSET Members, S \subseteq T
      PROVE  Weight[S] <= Weight[T]
  <2> DEFINE D == T \ S
  <2>1. D \in SUBSET Members /\ S \cup D = T /\ S \cap D = {}
    BY <1>3
  <2> HIDE DEF D
  <2>2. Weight[S] + Weight[D] = Weight[T] + Weight[{}]
    BY <1>2, <2>1
  <2>3. Weight[{}] = 0
    BY WeightOfMember
  <2> QED BY <1>1, <2>1, <2>2, <2>3
<1> QED BY <1>1, <1>2, <1>3

-------------------------------------------------------------------------------
(* Quorums and signatures.                                                 *)

\* Two sets of members of stake big_threshold share a reliable member.
LEMMA QuorumsIntersect ==
    ASSUME NEW Q1 \in Quorums, NEW Q2 \in Quorums
    PROVE  \E m \in Q1 \cap Q2 : m \in Reliable
<1> DEFINE n == Weight[Members]
<1>1. /\ Q1 \in SUBSET Members /\ Q2 \in SUBSET Members
      /\ Big <= Weight[Q1] /\ Big <= Weight[Q2]
  BY DEF Quorums
<1>2. n \in Nat /\ Weight[Q1] \in Nat /\ Weight[Q2] \in Nat
      /\ Weight[Q1 \cup Q2] \in Nat /\ Weight[Q1 \cap Q2] \in Nat
      /\ Weight[Members \ Reliable] \in Nat
  <2>1. /\ Q1 \cup Q2 \in SUBSET Members /\ Q1 \cap Q2 \in SUBSET Members
        /\ Members \in SUBSET Members /\ Members \ Reliable \in SUBSET Members
    BY <1>1
  <2> QED BY <1>1, <2>1, WeightAddsUp
<1>3. Big \in Int
  BY <1>2 DEF Big, big_threshold, f_from_n
<1>4. Weight[Q1] + Weight[Q2] <= n + Weight[Q1 \cap Q2]
  <2>1. Weight[Q1] + Weight[Q2] = Weight[Q1 \cup Q2] + Weight[Q1 \cap Q2]
    BY <1>1, WeightAddsUp
  <2>2. Weight[Q1 \cup Q2] <= n
    BY <1>1, WeightAddsUp
  <2> QED BY <2>1, <2>2, <1>2
<1>5. Weight[Members \ Reliable] < Weight[Q1 \cap Q2]
  <2>1. Weight[Members \ Reliable] < 2 * Big - n
    BY FaultAssumption DEF QuorumOverlap, Big
  <2> QED BY <2>1, <1>1, <1>2, <1>3, <1>4
<1>6. ~(Q1 \cap Q2 \subseteq Members \ Reliable)
  <2>1. ASSUME Q1 \cap Q2 \subseteq Members \ Reliable PROVE FALSE
    <3>1. Weight[Q1 \cap Q2] <= Weight[Members \ Reliable]
      BY <1>1, <2>1, WeightAddsUp, Zenon
    <3> QED BY <3>1, <1>5, <1>2
  <2> QED BY <2>1
<1> QED BY <1>1, <1>6

\* A node's signature is on a message only if the node signed it.
LEMMA SignedByNode ==
    ASSUME NEW nd, OwnSignature(nd), NEW m \in Nodes, NEW x \in Signed(nd),
           x.from = m
    PROVE  x \in nd[m].sent
BY ByzMsgsAssumption DEF OwnSignature, Signed

\* A value with a quorum of prevotes in a round rules out every other value in
\* the earlier rounds.
LEMMA QuorumRulesOut ==
    ASSUME NEW nd, IInv(nd), NEW r1 \in Rounds, NEW r2 \in Rounds, r1 < r2,
           NEW v1 \in Values, NEW v2 \in Values, v1 # v2,
           HasQuorum(nd, r2, "Prevote", v2)
    PROVE  Dead(nd, r1, v1)
<1>1. PICK P \in Quorums : \A m \in P : Vote(m, r2, "Prevote", v2) \in Signed(nd)
  BY DEF HasQuorum
<1>2. ASSUME NEW m \in P, m \in Reliable
      PROVE  Vote(m, r2, "Prevote", v2) \in nd[m].sent /\ nd[m].round > r1
  <2>1. Vote(m, r2, "Prevote", v2) \in nd[m].sent
    BY <1>1, <1>2, SignedByNode DEF IInv, Reliable, Vote
  <2>2. nd[m].round \in Rounds
    BY <1>2 DEF IInv, Typed, NodeStates, Reliable
  <2>3. r2 <= nd[m].round
    BY <2>1, <1>2, Zenon DEF IInv, VotesInOrder, Vote, VoteTypes
  <2> QED BY <2>1, <2>2, <2>3, ConstantsAssumption DEF Rounds, ConstantsOK
<1>3. CASE \E m \in P : m \in Reliable /\ Vote(m, r1, "Precommit", v1) \in nd[m].sent
  BY <1>2, <1>3 DEF IInv, PrevoteSafe
<1>4. CASE ~\E m \in P : m \in Reliable /\ Vote(m, r1, "Precommit", v1) \in nd[m].sent
  <2> SUFFICES ASSUME NEW Q \in Quorums
               PROVE  \E m \in Q \cap Reliable :
                        nd[m].round > r1 /\ Vote(m, r1, "Precommit", v1) \notin nd[m].sent
    BY DEF Dead
  <2>1. PICK m \in P \cap Q : m \in Reliable
    BY QuorumsIntersect
  <2> QED BY <2>1, <1>2, <1>4
<1> QED BY <1>3, <1>4

\* At most one value can have a quorum of precommits in the rounds of a height.
LEMMA OneCertifiedValue ==
    ASSUME NEW nd, IInv(nd), NEW r1 \in Rounds, NEW r2 \in Rounds,
           NEW v1 \in Values, NEW v2 \in Values,
           HasQuorum(nd, r1, "Precommit", v1), HasQuorum(nd, r2, "Precommit", v2)
    PROVE  v1 = v2
<1>1. ASSUME NEW s1 \in Rounds, NEW s2 \in Rounds, s1 < s2,
             NEW w1 \in Values, NEW w2 \in Values,
             HasQuorum(nd, s1, "Precommit", w1), HasQuorum(nd, s2, "Precommit", w2)
      PROVE  w1 = w2
  <2>1. PICK Q1 \in Quorums : \A m \in Q1 : Vote(m, s1, "Precommit", w1) \in Signed(nd)
    BY <1>1 DEF HasQuorum
  <2>2. PICK Q2 \in Quorums : \A m \in Q2 : Vote(m, s2, "Precommit", w2) \in Signed(nd)
    BY <1>1 DEF HasQuorum
  <2>3. PICK m \in Q2 : m \in Reliable
    BY QuorumsIntersect, Zenon
  <2>4. Vote(m, s2, "Precommit", w2) \in nd[m].sent
    BY <2>2, <2>3, SignedByNode, Zenon DEF IInv, Reliable, Vote
  <2>5. HasQuorum(nd, s2, "Prevote", w2)
    BY <2>3, <2>4 DEF IInv, PrecommitJustified
  <2>6. SUFFICES ASSUME w1 # w2 PROVE FALSE
    OBVIOUS
  <2>7. Dead(nd, s1, w1)
    BY <2>5, <2>6, <1>1, QuorumRulesOut
  <2>8. PICK k \in Q1 \cap Reliable : Vote(k, s1, "Precommit", w1) \notin nd[k].sent
    BY <2>7, Zenon DEF Dead
  <2>9. Vote(k, s1, "Precommit", w1) \in nd[k].sent
    BY <2>1, <2>8, SignedByNode, Zenon DEF IInv, Reliable, Vote
  <2> QED BY <2>8, <2>9
<1>2. CASE r1 = r2
  <2>1. PICK Q1 \in Quorums : \A m \in Q1 : Vote(m, r1, "Precommit", v1) \in Signed(nd)
    BY DEF HasQuorum
  <2>2. PICK Q2 \in Quorums : \A m \in Q2 : Vote(m, r1, "Precommit", v2) \in Signed(nd)
    BY <1>2 DEF HasQuorum
  <2>3. PICK m \in Q1 \cap Q2 : m \in Reliable
    BY QuorumsIntersect, Zenon
  <2>4. /\ Vote(m, r1, "Precommit", v1) \in nd[m].sent
        /\ Vote(m, r1, "Precommit", v2) \in nd[m].sent
    BY <2>1, <2>2, <2>3, SignedByNode DEF IInv, Reliable, Vote
  <2> QED BY <2>3, <2>4 DEF IInv, VoteOnce, VoteTypes, VoteValues
<1>3. CASE r1 < r2
  BY <1>1, <1>3
<1>4. CASE r2 < r1
  BY <1>1, <1>4
<1> QED BY <1>2, <1>3, <1>4, ConstantsAssumption DEF Rounds, ConstantsOK

-------------------------------------------------------------------------------
(* What a rule may do to the state of a node, from nd[n] to s2.            *)

\* No vote is signed.
QuietStep(nd, n, s2) ==
    /\ \A x \in s2.sent : x.type \in VoteTypes => x \in nd[n].sent
    /\ \/ nd[n].round < s2.round
       \/ nd[n].round = s2.round /\ nd[n].step = s2.step
    /\ \/ s2.decision # None
       \/ s2.locked = nd[n].locked /\ s2.lockedRound = nd[n].lockedRound

\* A prevote is signed, and the lock or a quorum allows it.
PrevoteStep(nd, n, s2) ==
    /\ nd[n].round = s2.round
    /\ nd[n].step = "Propose" /\ s2.step = "Prevote"
    /\ nd[n].decision = None
    /\ s2.locked = nd[n].locked /\ s2.lockedRound = nd[n].lockedRound
    /\ \E v \in VoteValues :
         /\ \A x \in s2.sent : \/ x \in nd[n].sent
                               \/ x = Vote(n, nd[n].round, "Prevote", v)
         /\ \/ v = NIL
            \/ nd[n].lockedRound = -1
            \/ nd[n].locked = v
            \/ HasQuorum(nd, nd[n].round, "Prevote", v)

\* A precommit is signed: for nil, or for a value that is locked with it.
PrecommitStep(nd, n, s2) ==
    /\ nd[n].round = s2.round
    /\ nd[n].step = "Prevote" /\ s2.step = "Precommit"
    /\ \E v \in VoteValues :
         /\ \A x \in s2.sent : \/ x \in nd[n].sent
                               \/ x = Vote(n, nd[n].round, "Precommit", v)
         /\ \/ /\ v = NIL
               /\ s2.locked = nd[n].locked /\ s2.lockedRound = nd[n].lockedRound
            \/ /\ v \in Values
               /\ s2.locked = v /\ s2.lockedRound = nd[n].round
               /\ HasQuorum(nd, nd[n].round, "Prevote", v)

StoreStep(nd, n, s2) ==
    \A r \in Rounds, m \in Members, t \in VoteTypes :
        s2.rd[r].votes[m][t] # None =>
            /\ Vote(m, r, t, s2.rd[r].votes[m][t]) \in Signed(nd) \cup s2.sent
            /\ \/ s2.rd[r].proposal = None
               \/ s2.rd[r].votes[m][t] \in {NIL, s2.rd[r].proposal}

GoodStep(nd, n, s2) ==
    /\ s2 \in NodeStates
    /\ nd[n].sent \subseteq s2.sent
    /\ \A x \in s2.sent : x.from = n
    /\ StoreStep(nd, n, s2)
    /\ s2.decision # None =>
         /\ s2.decision \in ValidValues
         /\ \E r \in Rounds : HasQuorum(nd, r, "Precommit", s2.decision)
    /\ n \in Reliable =>
         QuietStep(nd, n, s2) \/ PrevoteStep(nd, n, s2) \/ PrecommitStep(nd, n, s2)

Update(nd, n, s2) == [nd EXCEPT ![n] = s2]

\* What is signed stays signed, and so does every quorum.
LEMMA SignedGrows ==
    ASSUME NEW nd, IInv(nd), NEW n \in Nodes, NEW s2, nd[n].sent \subseteq s2.sent
    PROVE  /\ Signed(Update(nd, n, s2)) = Signed(nd) \cup s2.sent
           /\ \A r, t, v : HasQuorum(nd, r, t, v)
                            => HasQuorum(Update(nd, n, s2), r, t, v)
<1>1. nd \in [Nodes -> NodeStates]
  BY DEF IInv, Typed
<1>2. Update(nd, n, s2) = [k \in Nodes |-> IF k = n THEN s2 ELSE nd[k]]
  BY <1>1, Zenon DEF Update
<1>3. Signed(Update(nd, n, s2)) = Signed(nd) \cup s2.sent
  BY <1>1, <1>2 DEF Signed
<1> QED BY <1>3 DEF HasQuorum

\* A reliable node's new votes are for the round it is in.
LEMMA NewVotes ==
    ASSUME NEW nd, IInv(nd), NEW n \in Reliable, NEW s2, GoodStep(nd, n, s2),
           NEW x \in s2.sent, x.type \in VoteTypes, x \notin nd[n].sent
    PROVE  /\ x.round = nd[n].round /\ s2.round = nd[n].round
           /\ x = Vote(n, nd[n].round, x.type, x.value)
           /\ \/ x.type = "Prevote" /\ PrevoteStep(nd, n, s2)
              \/ x.type = "Precommit" /\ PrecommitStep(nd, n, s2)
           /\ s2.step = x.type
BY DEF GoodStep, QuietStep, PrevoteStep, PrecommitStep, Vote

\* A value that was ruled out of a round stays so.
LEMMA DeadStable ==
    ASSUME NEW nd, IInv(nd), NEW n \in Nodes, NEW s2, GoodStep(nd, n, s2),
           NEW r \in Rounds, NEW v \in Values, Dead(nd, r, v)
    PROVE  Dead(Update(nd, n, s2), r, v)
<1> DEFINE nd2 == Update(nd, n, s2)
<1>1. nd \in [Nodes -> NodeStates] /\ s2 \in NodeStates
  BY DEF IInv, Typed, GoodStep
<1>2. nd2[n] = s2 /\ \A k \in Nodes : k # n => nd2[k] = nd[k]
  BY <1>1, Zenon DEF Update
<1> SUFFICES ASSUME NEW Q \in Quorums
             PROVE  \E m \in Q \cap Reliable :
                      nd2[m].round > r /\ Vote(m, r, "Precommit", v) \notin nd2[m].sent
  BY DEF Dead
<1>3. PICK m \in Q \cap Reliable :
        nd[m].round > r /\ Vote(m, r, "Precommit", v) \notin nd[m].sent
  BY DEF Dead
<1>4. m \in Nodes
  BY DEF Reliable
<1>5. CASE m # n
  BY <1>2, <1>3, <1>4, <1>5, Zenon
<1>6. CASE m = n
  <2>1. nd[n].round \in Int /\ s2.round \in Int /\ r \in Int
    BY <1>1, ConstantsAssumption DEF NodeStates, Rounds, ConstantsOK
  <2>2. nd[n].round <= s2.round
    BY <1>6, <2>1 DEF GoodStep, QuietStep, PrevoteStep, PrecommitStep
  <2>3. Vote(n, r, "Precommit", v) \notin s2.sent
    <3>1. ASSUME Vote(n, r, "Precommit", v) \in s2.sent PROVE FALSE
      <4>1. /\ Vote(n, r, "Precommit", v).type = "Precommit"
            /\ Vote(n, r, "Precommit", v).round = r
        BY Zenon DEF Vote
      <4>2. r = nd[n].round
        BY <3>1, <4>1, <1>3, <1>6, NewVotes DEF VoteTypes
      <4> QED BY <4>2, <1>3, <1>6, <2>1
    <3> QED BY <3>1, Zenon
  <2> QED BY <1>2, <1>3, <1>6, <2>1, <2>2, <2>3
<1> QED BY <1>5, <1>6

\* A good step, of a node that does not forget its decision, keeps the
\* inductive invariant.
LEMMA GoodStepPreserves ==
    ASSUME NEW nd, IInv(nd), NEW n \in Nodes, NEW s2, GoodStep(nd, n, s2),
           s2.decision = None => nd[n].decision = None
    PROVE  IInv(Update(nd, n, s2))
<1> DEFINE nd2 == Update(nd, n, s2)
<1>1. nd \in [Nodes -> NodeStates] /\ s2 \in NodeStates /\ nd[n].sent \subseteq s2.sent
  BY DEF IInv, Typed, GoodStep
<1>2. nd2[n] = s2 /\ \A k \in Nodes : k # n => nd2[k] = nd[k]
  BY <1>1, Zenon DEF Update
<1>3. /\ Signed(nd2) = Signed(nd) \cup s2.sent
      /\ \A r, t, v : HasQuorum(nd, r, t, v) => HasQuorum(nd2, r, t, v)
  BY <1>1, SignedGrows
<1>4. Reliable \subseteq Nodes
  BY DEF Reliable
<1>5. /\ nd[n].round \in Int /\ s2.round \in Int
      /\ nd[n].lockedRound \in Int /\ s2.lockedRound \in Int
      /\ Rounds \subseteq Int /\ nd[n].round \in Rounds /\ s2.round \in Rounds
      /\ -1 \notin Rounds /\ nd[n].lockedRound \in Rounds \cup {-1}
  BY <1>1, ConstantsAssumption, SMTT(30), Zenon DEF NodeStates, Rounds, ConstantsOK
<1> HIDE DEF nd2
<1>6. Typed(nd2)
  BY <1>1 DEF Typed, Update, nd2
<1>7. OwnSignature(nd2)
  BY <1>2, Zenon DEF OwnSignature, IInv, GoodStep
<1>8. StoreSound(nd2)
  <2> SUFFICES ASSUME NEW k \in Nodes, NEW r \in Rounds, NEW m \in Members,
                      NEW t \in VoteTypes, nd2[k].rd[r].votes[m][t] # None
               PROVE  /\ Vote(m, r, t, nd2[k].rd[r].votes[m][t]) \in Signed(nd2)
                      /\ \/ nd2[k].rd[r].proposal = None
                         \/ nd2[k].rd[r].votes[m][t] \in {NIL, nd2[k].rd[r].proposal}
    BY ZenonT(40) DEF StoreSound
  <2>1. CASE k = n
    BY <2>1, <1>2, <1>3, SMTT(30), Zenon DEF GoodStep, StoreStep
  <2>2. CASE k # n
    BY <2>2, <1>2, <1>3 DEF IInv, StoreSound
  <2> QED BY <2>1, <2>2, SMTT(30), Zenon
<1>9. VotesInOrder(nd2)
  <2> SUFFICES ASSUME NEW k \in Reliable, NEW x \in nd2[k].sent, x.type \in VoteTypes
               PROVE  /\ x.round <= nd2[k].round
                      /\ x.round = nd2[k].round => nd2[k].step \in {x.type, "Precommit"}
    BY DEF VotesInOrder
  <2>1. CASE k # n
    BY <2>1, <1>2, <1>4, Zenon DEF IInv, VotesInOrder
  <2>2. CASE k = n /\ x \notin nd[n].sent
    BY <2>2, <1>2, <1>5, NewVotes
  <2>3. CASE k = n /\ x \in nd[n].sent
    <3>1. /\ x.round <= nd[n].round
          /\ x.round = nd[n].round => nd[n].step \in {x.type, "Precommit"}
      BY <2>3, Zenon DEF IInv, VotesInOrder
    <3>2. x.round \in Int
      BY <2>3, <1>1, <1>5, ZenonT(40) DEF NodeStates, Votes, Proposals
    <3>3. QuietStep(nd, n, s2) \/ PrevoteStep(nd, n, s2) \/ PrecommitStep(nd, n, s2)
      BY <2>3 DEF GoodStep
    <3>4. CASE QuietStep(nd, n, s2)
      BY <3>1, <3>2, <3>4, <1>2, <1>5, <2>3 DEF QuietStep
    <3>5. CASE PrevoteStep(nd, n, s2)
      BY <3>1, <3>5, <1>2, <1>5, <2>3, Zenon DEF PrevoteStep, VoteTypes
    <3>6. CASE PrecommitStep(nd, n, s2)
      BY <3>1, <3>6, <1>2, <1>5, <2>3, Zenon DEF PrecommitStep, VoteTypes
    <3> QED BY <3>3, <3>4, <3>5, <3>6, Zenon
  <2> QED BY <2>1, <2>2, <2>3
<1>10. VoteOnce(nd2)
  <2> SUFFICES ASSUME NEW k \in Reliable, NEW r \in Rounds, NEW t \in VoteTypes,
                      NEW v1 \in VoteValues, NEW v2 \in VoteValues,
                      Vote(k, r, t, v1) \in nd2[k].sent,
                      Vote(k, r, t, v2) \in nd2[k].sent
               PROVE  v1 = v2
    BY Zenon DEF VoteOnce
  <2>1. CASE k # n
    BY <2>1, <1>2, <1>4, Zenon DEF IInv, VoteOnce
  <2>2. CASE k = n
    <3> DEFINE x1 == Vote(n, r, t, v1)
               x2 == Vote(n, r, t, v2)
    <3>1. x1 \in s2.sent /\ x2 \in s2.sent
      BY <2>2, <1>2, Zenon
    <3>2. /\ x1.type = t /\ x1.round = r /\ x1.value = v1
          /\ x2.type = t /\ x2.round = r /\ x2.value = v2
      BY Zenon DEF Vote
    <3>3. CASE x1 \in nd[n].sent /\ x2 \in nd[n].sent
      BY <3>3, <2>2, Zenon DEF IInv, VoteOnce
    \* A vote signed before excludes a new one of the same round and type.
    <3>4. ASSUME NEW y \in s2.sent, NEW z \in nd[n].sent, y \notin nd[n].sent,
                 y.type = t, z.type = t, y.round = r, z.round = r
          PROVE  FALSE
      <4>1. r = nd[n].round
        BY <3>4, <2>2, NewVotes
      <4>2. nd[n].step \in {t, "Precommit"}
        BY <3>4, <4>1, <2>2, Zenon DEF IInv, VotesInOrder
      <4>3. \/ t = "Prevote" /\ PrevoteStep(nd, n, s2)
            \/ t = "Precommit" /\ PrecommitStep(nd, n, s2)
        BY <3>4, <2>2, NewVotes
      <4> QED BY <4>2, <4>3, Zenon DEF PrevoteStep, PrecommitStep
    <3>5. CASE x1 \notin nd[n].sent /\ x2 \notin nd[n].sent
      <4>1. \/ t = "Prevote" /\ PrevoteStep(nd, n, s2)
            \/ t = "Precommit" /\ PrecommitStep(nd, n, s2)
        BY <3>1, <3>2, <3>5, <2>2, NewVotes
      <4> QED BY <4>1, <3>1, <3>2, <3>5, Zenon DEF PrevoteStep, PrecommitStep, Vote
    <3> HIDE DEF x1, x2
    <3> QED BY <3>1, <3>2, <3>3, <3>4, <3>5, Zenon
  <2> QED BY <2>1, <2>2, Zenon
<1>11. LockHeld(nd2)
  <2> SUFFICES ASSUME NEW k \in Reliable, nd2[k].decision = None
               PROVE  /\ \A r \in Rounds, v \in Values :
                           Vote(k, r, "Precommit", v) \in nd2[k].sent =>
                              /\ nd2[k].lockedRound >= r
                              /\ nd2[k].lockedRound = r => nd2[k].locked = v
                      /\ nd2[k].lockedRound # -1 =>
                           /\ nd2[k].locked \in Values
                           /\ HasQuorum(nd2, nd2[k].lockedRound, "Prevote", nd2[k].locked)
    BY Zenon DEF LockHeld
  <2>1. CASE k # n
    BY <2>1, <1>2, <1>3, <1>4 DEF IInv, LockHeld
  <2>2. CASE k = n
    <3>1. /\ \A r \in Rounds, v \in Values :
               Vote(n, r, "Precommit", v) \in nd[n].sent =>
                  /\ nd[n].lockedRound >= r
                  /\ nd[n].lockedRound = r => nd[n].locked = v
          /\ nd[n].lockedRound # -1 =>
               /\ nd[n].locked \in Values
               /\ HasQuorum(nd, nd[n].lockedRound, "Prevote", nd[n].locked)
      BY <2>2, <1>2, Zenon DEF IInv, LockHeld
    <3>2. QuietStep(nd, n, s2) \/ PrevoteStep(nd, n, s2) \/ PrecommitStep(nd, n, s2)
      BY <2>2, Zenon DEF GoodStep
    <3>3. ASSUME NEW r \in Rounds, NEW v \in Values,
                 Vote(n, r, "Precommit", v) \in s2.sent, ~PrecommitStep(nd, n, s2)
          PROVE  Vote(n, r, "Precommit", v) \in nd[n].sent
      <4>1. Vote(n, r, "Precommit", v).type = "Precommit"
        BY Zenon DEF Vote
      <4> QED BY <3>3, <4>1, <2>2, NewVotes, Zenon DEF VoteTypes
    <3>4. CASE QuietStep(nd, n, s2) /\ ~PrecommitStep(nd, n, s2)
      <4>1. s2.locked = nd[n].locked /\ s2.lockedRound = nd[n].lockedRound
        BY <3>4, <2>2, <1>2, Zenon DEF QuietStep
      <4> QED BY <3>1, <3>3, <3>4, <4>1, <2>2, <1>2, <1>3, ZenonT(40)
    <3>5. CASE PrevoteStep(nd, n, s2) /\ ~PrecommitStep(nd, n, s2)
      <4>1. s2.locked = nd[n].locked /\ s2.lockedRound = nd[n].lockedRound
        BY <3>5, Zenon DEF PrevoteStep
      <4> QED BY <3>1, <3>3, <3>5, <4>1, <2>2, <1>2, <1>3
    <3>6. CASE PrecommitStep(nd, n, s2)
      <4>1. PICK v \in VoteValues :
              /\ \A x \in s2.sent : \/ x \in nd[n].sent
                                    \/ x = Vote(n, nd[n].round, "Precommit", v)
              /\ \/ /\ v = NIL
                    /\ s2.locked = nd[n].locked /\ s2.lockedRound = nd[n].lockedRound
                 \/ /\ v \in Values
                    /\ s2.locked = v /\ s2.lockedRound = nd[n].round
                    /\ HasQuorum(nd, nd[n].round, "Prevote", v)
        BY <3>6, Zenon DEF PrecommitStep
      <4>2. CASE v = NIL
        <5>1. s2.locked = nd[n].locked /\ s2.lockedRound = nd[n].lockedRound
          BY <4>1, <4>2, ConstantsAssumption, Zenon DEF ConstantsOK
        <5>2. ASSUME NEW r \in Rounds, NEW u \in Values,
                     Vote(n, r, "Precommit", u) \in s2.sent
              PROVE  Vote(n, r, "Precommit", u) \in nd[n].sent
          <6>1. Vote(n, r, "Precommit", u) # Vote(n, nd[n].round, "Precommit", v)
            BY <4>2, ConstantsAssumption, Zenon DEF Vote, ConstantsOK
          <6> QED BY <5>2, <6>1, <4>1, Zenon
        <5> QED BY <3>1, <5>1, <5>2, <2>2, <1>2, <1>3, Zenon
      <4>3. CASE v # NIL
        <5>1. s2.locked = v /\ s2.lockedRound = nd[n].round /\ v \in Values
              /\ HasQuorum(nd, nd[n].round, "Prevote", v)
          BY <4>1, <4>3, Zenon
        <5>2. ASSUME NEW r \in Rounds, NEW u \in Values,
                     Vote(n, r, "Precommit", u) \in s2.sent
              PROVE  nd[n].round >= r /\ (nd[n].round = r => v = u)
          <6>1. CASE Vote(n, r, "Precommit", u) = Vote(n, nd[n].round, "Precommit", v)
            BY <6>1, <1>5 DEF Vote
          <6>2. CASE Vote(n, r, "Precommit", u) \in nd[n].sent
            <7>1. /\ Vote(n, r, "Precommit", u).type = "Precommit"
                  /\ Vote(n, r, "Precommit", u).round = r
              BY Zenon DEF Vote
            <7>2. r <= nd[n].round /\ (r = nd[n].round => nd[n].step = "Precommit")
              BY <6>2, <7>1, <2>2, Zenon DEF IInv, VotesInOrder, VoteTypes
            <7>3. nd[n].step # "Precommit"
              BY <3>6, Zenon DEF PrecommitStep
            <7> QED BY <7>2, <7>3, <1>5, Zenon
          <6> QED BY <4>1, <5>2, <6>1, <6>2, Zenon
        <5> QED BY <5>1, <5>2, <2>2, <1>2, <1>3, Zenon
      <4> QED BY <4>2, <4>3, Zenon
    <3> QED BY <3>2, <3>4, <3>5, <3>6, Zenon
  <2> QED BY <2>1, <2>2, Zenon
<1>12. PrecommitJustified(nd2)
  <2> SUFFICES ASSUME NEW k \in Reliable, NEW r \in Rounds, NEW v \in Values,
                      Vote(k, r, "Precommit", v) \in nd2[k].sent
               PROVE  HasQuorum(nd2, r, "Prevote", v)
    BY Zenon DEF PrecommitJustified
  <2>1. CASE Vote(k, r, "Precommit", v) \in nd[k].sent
    BY <2>1, <1>3, Zenon DEF IInv, PrecommitJustified
  <2>2. CASE Vote(k, r, "Precommit", v) \notin nd[k].sent
    <3>1. k = n
      BY <2>2, <1>2, <1>4, Zenon
    <3>2. /\ Vote(n, r, "Precommit", v).type = "Precommit"
          /\ Vote(n, r, "Precommit", v).round = r
      BY Zenon DEF Vote
    <3>3. r = nd[n].round /\ PrecommitStep(nd, n, s2)
      BY <2>2, <3>1, <3>2, <1>2, NewVotes DEF VoteTypes
    <3>4. HasQuorum(nd, r, "Prevote", v)
      <4>1. PICK u \in VoteValues :
              /\ Vote(n, r, "Precommit", v) = Vote(n, nd[n].round, "Precommit", u)
              /\ u = NIL \/ HasQuorum(nd, nd[n].round, "Prevote", u)
        BY <2>2, <3>1, <3>3, <1>2, Zenon DEF PrecommitStep
      <4>2. u = v
        BY <4>1, Zenon DEF Vote
      <4> QED BY <4>1, <4>2, <3>3, ConstantsAssumption, Zenon DEF ConstantsOK
    <3> QED BY <3>4, <1>3, Zenon
  <2> QED BY <2>1, <2>2, Zenon
<1>13. PrevoteSafe(nd2)
  <2> SUFFICES ASSUME NEW k \in Reliable, NEW r1 \in Rounds, NEW r2 \in Rounds,
                      NEW v1 \in Values, NEW v2 \in Values, r1 < r2, v1 # v2,
                      Vote(k, r1, "Precommit", v1) \in nd2[k].sent,
                      Vote(k, r2, "Prevote", v2) \in nd2[k].sent
               PROVE  Dead(nd2, r1, v1)
    BY ZenonT(40) DEF PrevoteSafe
  <2>1. SUFFICES Dead(nd, r1, v1)
    BY DeadStable, Zenon DEF nd2
  <2>2. CASE /\ Vote(k, r1, "Precommit", v1) \in nd[k].sent
             /\ Vote(k, r2, "Prevote", v2) \in nd[k].sent
    BY <2>2, Zenon DEF IInv, PrevoteSafe
  <2>3. CASE Vote(k, r1, "Precommit", v1) \notin nd[k].sent
    \* A new precommit is for the current round, and r2 is later.
    <3>1. k = n
      BY <2>3, <1>2, <1>4, Zenon
    <3>2. /\ Vote(n, r1, "Precommit", v1).type = "Precommit"
          /\ Vote(n, r1, "Precommit", v1).round = r1
          /\ Vote(n, r2, "Prevote", v2).type = "Prevote"
          /\ Vote(n, r2, "Prevote", v2).round = r2
      BY Zenon DEF Vote
    <3>3. r1 = s2.round
      BY <2>3, <3>1, <3>2, <1>2, NewVotes DEF VoteTypes
    <3>4. r2 <= s2.round
      BY <3>1, <3>2, <1>2, <1>9, Zenon DEF VotesInOrder, VoteTypes
    <3> QED BY <3>3, <3>4, <1>5
  <2>4. CASE /\ Vote(k, r1, "Precommit", v1) \in nd[k].sent
             /\ Vote(k, r2, "Prevote", v2) \notin nd[k].sent
    <3>1. k = n
      BY <2>4, <1>2, <1>4, Zenon
    <3>2. /\ Vote(n, r2, "Prevote", v2).type = "Prevote"
          /\ Vote(n, r2, "Prevote", v2).round = r2
      BY Zenon DEF Vote
    <3>3. r2 = nd[n].round /\ PrevoteStep(nd, n, s2)
      BY <2>4, <3>1, <3>2, <1>2, NewVotes, ZenonT(40) DEF VoteTypes
    <3>4. PICK u \in VoteValues :
            /\ Vote(n, r2, "Prevote", v2) = Vote(n, nd[n].round, "Prevote", u)
            /\ \/ u = NIL
               \/ nd[n].lockedRound = -1
               \/ nd[n].locked = u
               \/ HasQuorum(nd, nd[n].round, "Prevote", u)
      BY <2>4, <3>1, <3>3, <1>2, Zenon DEF PrevoteStep
    <3>5. u = v2 /\ u # NIL
      BY <3>4, ConstantsAssumption, SMTT(30), Zenon DEF Vote, ConstantsOK
    <3>6. /\ nd[n].lockedRound >= r1
          /\ nd[n].lockedRound = r1 => nd[n].locked = v1
          /\ nd[n].lockedRound # -1 =>
               HasQuorum(nd, nd[n].lockedRound, "Prevote", nd[n].locked)
      BY <2>4, <3>1, <3>3, Zenon DEF IInv, LockHeld, PrevoteStep
    <3>7. CASE HasQuorum(nd, nd[n].round, "Prevote", v2)
      BY <3>3, <3>7, QuorumRulesOut, Zenon
    <3>8. CASE nd[n].lockedRound = -1
      BY <3>6, <3>8, <1>5, ConstantsAssumption, SMTT(30), Zenon DEF Rounds, ConstantsOK
    <3>9. CASE nd[n].locked = v2 /\ nd[n].lockedRound # -1
      <4>1. nd[n].lockedRound \in Rounds /\ r1 < nd[n].lockedRound
        BY <3>6, <3>9, <1>5
      <4> QED BY <4>1, <3>6, <3>9, QuorumRulesOut, Zenon
    <3> QED BY <3>4, <3>5, <3>7, <3>8, <3>9, Zenon
  <2> QED BY <2>2, <2>3, <2>4, Zenon
<1>14. DecisionCertified(nd2)
  <2> SUFFICES ASSUME NEW k \in Nodes, nd2[k].decision # None
               PROVE  /\ nd2[k].decision \in ValidValues
                      /\ \E r \in Rounds : HasQuorum(nd2, r, "Precommit", nd2[k].decision)
    BY Zenon DEF DecisionCertified
  <2>1. CASE k = n
    BY <2>1, <1>2, <1>3, Zenon DEF GoodStep
  <2>2. CASE k # n
    BY <2>2, <1>2, <1>3 DEF IInv, DecisionCertified
  <2> QED BY <2>1, <2>2, Zenon
<1> QED BY <1>6, <1>7, <1>8, <1>9, <1>10, <1>11, <1>12, <1>13, <1>14, Zenon DEF IInv, nd2

-------------------------------------------------------------------------------
(* The round data: what StoreVote and StoreProposal return.                *)

\* check_and_incorporate_msg stores a vote in the one place it is for.
LEMMA StoreVoteKeeps ==
    ASSUME NEW d \in RoundDatas, NEW m \in Members, NEW t \in VoteTypes,
           NEW v \in VoteValues
    PROVE  LET e == StoreVote(d, m, t, v)
           IN  /\ e \in RoundDatas
               /\ e.proposal = d.proposal
               /\ AcceptsVote(d, m, t, v) => e.votes[m][t] = v
               /\ \A k \in Members, u \in VoteTypes :
                    \/ e.votes[k][u] = d.votes[k][u]
                    \/ k = m /\ u = t /\ AcceptsVote(d, m, t, v)
BY Zenon DEF StoreVote, RoundDatas

\* check_and_incorporate_msg keeps no vote for a value other than the proposal
\* it has stored.
LEMMA StoreProposalKeeps ==
    ASSUME NEW d \in RoundDatas, NEW own, NEW v \in Values,
           NEW vr \in Rounds \cup {-1}
    PROVE  LET e == StoreProposal(d, own, v, vr)
           IN  /\ e \in RoundDatas
               /\ e = d \/ e.proposal = v
               /\ \A m \in Members, t \in VoteTypes :
                    \/ e = d
                    \/ e.votes[m][t] = None
                    \/ e.votes[m][t] = d.votes[m][t] /\ e.votes[m][t] \in {NIL, v}
<1> DEFINE e == StoreProposal(d, own, v, vr)
<1>1. PurgeVotes(d.votes, v) \in [Members -> [VoteTypes -> VoteValues \cup {None}]]
  BY DEF PurgeVotes, RoundDatas
<1>2. EmptyVotes \in [Members -> [VoteTypes -> VoteValues \cup {None}]]
  BY Zenon DEF EmptyVotes
<1>3. CASE e = d
  BY <1>3, Zenon
<1>4. CASE e = [d EXCEPT !.proposal = v, !.vr = vr, !.votes = PurgeVotes(@, v)]
  <2>1. e \in RoundDatas /\ e.proposal = v /\ e.votes = PurgeVotes(d.votes, v)
    BY <1>1, <1>4, Zenon DEF RoundDatas
  <2> QED BY <2>1 DEF PurgeVotes
<1>5. CASE e = [d EXCEPT !.proposal = v, !.vr = vr, !.votes = EmptyVotes]
  <2>1. e \in RoundDatas /\ e.proposal = v /\ e.votes = EmptyVotes
    BY <1>2, <1>5, Zenon DEF RoundDatas
  <2> QED BY <2>1 DEF EmptyVotes
<1> QED BY <1>3, <1>4, <1>5 DEF StoreProposal

-------------------------------------------------------------------------------
(* broadcast.                                                              *)

\* Broadcasting a vote signs at most that vote, and changes only the step, the
\* store of the round and what is signed.
LEMMA BroadcastVoteKeeps ==
    ASSUME NEW nd, IInv(nd), NEW n \in Nodes, n \in Members, NEW r \in Rounds,
           NEW t \in VoteTypes, NEW v \in VoteValues, NEW s \in NodeStates,
           s.rd = nd[n].rd, s.sent = nd[n].sent
    PROVE  LET s2 == BroadcastVote(n, r, t, v, s)
           IN  /\ s2 \in NodeStates
               /\ s2.step = t /\ s2.round = s.round /\ s2.decision = s.decision
               /\ s2.locked = s.locked /\ s2.lockedRound = s.lockedRound
               /\ s2.rd[r].proposal = s.rd[r].proposal
               /\ nd[n].sent \subseteq s2.sent
               /\ \A x \in s2.sent : x \in nd[n].sent \/ x = Vote(n, r, t, v)
               /\ \A x \in s2.sent : x.from = n
               /\ StoreStep(nd, n, s2)
<1> DEFINE s2 == BroadcastVote(n, r, t, v, s)
           e == StoreVote(s.rd[r], n, t, v)
           sent2 == IF AcceptsVote(s.rd[r], n, t, v)
                    THEN s.sent \cup {Vote(n, r, t, v)} ELSE s.sent
<1>1. s.rd \in [Rounds -> RoundDatas] /\ s.rd[r] \in RoundDatas
      /\ s.sent \subseteq Votes \cup Proposals
  BY Zenon DEF NodeStates
<1>2. /\ e \in RoundDatas /\ e.proposal = s.rd[r].proposal
      /\ AcceptsVote(s.rd[r], n, t, v) => e.votes[n][t] = v
      /\ \A k \in Members, u \in VoteTypes :
           \/ e.votes[k][u] = s.rd[r].votes[k][u]
           \/ k = n /\ u = t /\ AcceptsVote(s.rd[r], n, t, v)
  <2>1. ASSUME NEW d \in RoundDatas
        PROVE  LET f == StoreVote(d, n, t, v)
               IN  /\ f \in RoundDatas /\ f.proposal = d.proposal
                   /\ AcceptsVote(d, n, t, v) => f.votes[n][t] = v
                   /\ \A k \in Members, u \in VoteTypes :
                        \/ f.votes[k][u] = d.votes[k][u]
                        \/ k = n /\ u = t /\ AcceptsVote(d, n, t, v)
    BY <2>1, StoreVoteKeeps
  <2> QED BY <1>1, <2>1, Zenon
<1>3. Vote(n, r, t, v) \in Votes /\ Vote(n, r, t, v).from = n
  BY DEF Vote, Votes
<1>4. s2 = [s EXCEPT !.step = t, !.rd = [s.rd EXCEPT ![r] = e], !.sent = sent2]
  BY Zenon DEF BroadcastVote
<1>5. sent2 \subseteq Votes \cup Proposals
  BY <1>1, <1>3
<1>6. [s.rd EXCEPT ![r] = e] \in [Rounds -> RoundDatas]
  BY <1>1, <1>2, Zenon
<1> HIDE DEF s2, e, sent2
<1>7. /\ s2 \in NodeStates
      /\ s2.step = t /\ s2.round = s.round /\ s2.decision = s.decision
      /\ s2.locked = s.locked /\ s2.lockedRound = s.lockedRound
      /\ s2.rd = [s.rd EXCEPT ![r] = e] /\ s2.sent = sent2
  BY <1>4, <1>5, <1>6, Zenon DEF NodeStates, VoteTypes, Steps
<1>8. s2.rd[r] = e /\ \A q \in Rounds : q # r => s2.rd[q] = s.rd[q]
  BY <1>1, <1>7
<1>9. \A x \in s2.sent : x \in nd[n].sent \/ x = Vote(n, r, t, v)
  BY <1>7 DEF sent2
<1>10. \A x \in s2.sent : x.from = n
  BY <1>9, <1>3, Zenon DEF IInv, OwnSignature
<1>11. StoreStep(nd, n, s2)
  <2> SUFFICES ASSUME NEW q \in Rounds, NEW k \in Members, NEW u \in VoteTypes,
                      s2.rd[q].votes[k][u] # None
               PROVE  /\ Vote(k, q, u, s2.rd[q].votes[k][u]) \in Signed(nd) \cup s2.sent
                      /\ \/ s2.rd[q].proposal = None
                         \/ s2.rd[q].votes[k][u] \in {NIL, s2.rd[q].proposal}
    BY SMTT(30), Zenon DEF StoreStep
  <2>1. CASE /\ s2.rd[q].votes[k][u] = nd[n].rd[q].votes[k][u]
             /\ s2.rd[q].proposal = nd[n].rd[q].proposal
    BY <2>1, Zenon DEF IInv, StoreSound
  <2>2. CASE q = r /\ k = n /\ u = t /\ AcceptsVote(s.rd[r], n, t, v)
    BY <2>2, <1>2, <1>7, <1>8, Zenon DEF AcceptsVote, sent2
  <2> QED BY <2>1, <2>2, <1>2, <1>8, ZenonT(40)
<1> QED BY <1>2, <1>7, <1>8, <1>9, <1>10, <1>11, Zenon DEF s2, sent2

-------------------------------------------------------------------------------
(* start_round and the restart.                                            *)

\* start_round signs no vote, and keeps the stores sound.
LEMMA StartRoundKeeps ==
    ASSUME NEW nd, NEW n \in Nodes, NEW r \in Rounds, NEW p \in Candidates[n],
           NEW s \in NodeStates, StoreStep(nd, n, s),
           \A x \in s.sent : x.from = n
    PROVE  LET s2 == start_round(n, r, p, s)
           IN  /\ s2 \in NodeStates
               /\ s2.round = r /\ s2.step = "Propose" /\ s2.decision = s.decision
               /\ s2.locked = s.locked /\ s2.lockedRound = s.lockedRound
               /\ s.sent \subseteq s2.sent
               /\ \A x \in s2.sent : x.type \in VoteTypes => x \in s.sent
               /\ \A x \in s2.sent : x.from = n
               /\ StoreStep(nd, n, s2)
<1> DEFINE v == IF s.valid # None THEN s.valid ELSE p
           e == IF Proposer[r] = n /\ v # None
                THEN StoreProposal(s.rd[r], TRUE, v, s.validRound) ELSE s.rd[r]
           e2 == [e EXCEPT !.timeout = "Propose"]
           sent2 == IF Proposer[r] = n /\ v # None
                    THEN s.sent \cup {Proposal(n, r, v, s.validRound)} ELSE s.sent
           s2 == start_round(n, r, p, s)
<1>1. s.rd \in [Rounds -> RoundDatas] /\ s.rd[r] \in RoundDatas
      /\ s.sent \subseteq Votes \cup Proposals
      /\ s.validRound \in Rounds \cup {-1}
  BY Zenon DEF NodeStates
<1>2. v \in Values \cup {None}
  BY ConstantsAssumption, SMTT(30), Zenon DEF NodeStates, ConstantsOK
<1>3. /\ e \in RoundDatas
      /\ e = s.rd[r] \/ e.proposal = v
      /\ \A m \in Members, t \in VoteTypes :
           \/ e = s.rd[r]
           \/ e.votes[m][t] = None
           \/ e.votes[m][t] = s.rd[r].votes[m][t] /\ e.votes[m][t] \in {NIL, v}
  <2>1. CASE Proposer[r] = n /\ v # None
    <3>1. v \in Values /\ e = StoreProposal(s.rd[r], TRUE, v, s.validRound)
      BY <1>2, <2>1, Zenon
    <3> HIDE DEF v, e
    <3> DEFINE e1 == StoreProposal(s.rd[r], TRUE, v, s.validRound)
    <3>2. /\ e1 \in RoundDatas
          /\ e1 = s.rd[r] \/ e1.proposal = v
          /\ \A m \in Members, t \in VoteTypes :
               \/ e1 = s.rd[r]
               \/ e1.votes[m][t] = None
               \/ e1.votes[m][t] = s.rd[r].votes[m][t] /\ e1.votes[m][t] \in {NIL, v}
      BY <1>1, <3>1, StoreProposalKeeps, ZenonT(40)
    <3> QED BY <3>1, <3>2, Zenon
  <2>2. CASE ~(Proposer[r] = n /\ v # None)
    BY <2>2, <1>1, Zenon
  <2> QED BY <2>1, <2>2, Zenon
<1>4. e2 \in RoundDatas /\ e2.proposal = e.proposal /\ e2.votes = e.votes
  BY <1>3, ZenonT(40) DEF RoundDatas, Steps
<1>5. s2 = [s EXCEPT !.round = r, !.step = "Propose",
                     !.rd = [s.rd EXCEPT ![r] = e2], !.sent = sent2]
  <2> DEFINE s1 == [s EXCEPT !.round = r, !.step = "Propose"]
  <2>1. CASE Proposer[r] = n /\ v # None
    <3>1. s2 = [BroadcastProposal(n, r, v, s1) EXCEPT !.rd[r].timeout = "Propose"]
      BY <2>1 DEF start_round
    <3>2. BroadcastProposal(n, r, v, s1)
            = [s EXCEPT !.round = r, !.step = "Propose",
                        !.rd = [s.rd EXCEPT ![r] = e], !.sent = sent2]
      BY <1>1, <2>1 DEF BroadcastProposal, NodeStates
    <3> DEFINE b == [s EXCEPT !.round = r, !.step = "Propose",
                              !.rd = [s.rd EXCEPT ![r] = e], !.sent = sent2]
    <3> HIDE DEF v, e, sent2, s1, s2
    <3>3. b.rd = [s.rd EXCEPT ![r] = e] /\ b.rd[r] = e
      BY <1>1 DEF NodeStates
    <3>4. s2 = [b EXCEPT !.rd = [b.rd EXCEPT ![r] = e2]]
      BY <3>1, <3>2, <3>3, Zenon
    <3>5. s2 = [b EXCEPT !.rd = [s.rd EXCEPT ![r] = e2]]
      BY <1>1, <3>3, <3>4, Zenon
    <3> HIDE DEF e2
    <3> QED BY <1>1, <3>5, Zenon DEF NodeStates
  <2>2. CASE ~(Proposer[r] = n /\ v # None)
    <3>1. s2 = [s1 EXCEPT !.rd[r].timeout = "Propose"]
      BY <2>2, Zenon DEF start_round
    <3>2. e = s.rd[r] /\ sent2 = s.sent
      BY <2>2, Zenon
    <3> HIDE DEF e, sent2
    <3> QED BY <1>1, <3>1, <3>2, Zenon DEF NodeStates
  <2> QED BY <2>1, <2>2
<1>6. /\ sent2 \subseteq Votes \cup Proposals
      /\ \A x \in sent2 : x.type \in VoteTypes => x \in s.sent
      /\ \A x \in sent2 : x.from = n
  <2>1. CASE Proposer[r] = n /\ v # None
    <3>1. n \in Members
      BY <2>1, ConstantsAssumption, Zenon DEF ConstantsOK, Rounds
    <3>2. /\ Proposal(n, r, v, s.validRound) \in Proposals
          /\ Proposal(n, r, v, s.validRound).type = "Proposal"
          /\ Proposal(n, r, v, s.validRound).from = n
      BY <1>1, <1>2, <2>1, <3>1, Zenon DEF Proposal, Proposals
    <3> QED BY <2>1, <3>2, <1>1, Zenon DEF VoteTypes
  <2>2. CASE ~(Proposer[r] = n /\ v # None)
    BY <2>2, <1>1, Zenon
  <2> QED BY <2>1, <2>2, Zenon
<1>7. s.sent \subseteq sent2
  OBVIOUS
<1>8. [s.rd EXCEPT ![r] = e2] \in [Rounds -> RoundDatas]
  BY <1>1, <1>4
<1> HIDE DEF s2, sent2, e2, e, v
<1>9. /\ s2 \in NodeStates
      /\ s2.round = r /\ s2.step = "Propose" /\ s2.decision = s.decision
      /\ s2.locked = s.locked /\ s2.lockedRound = s.lockedRound
      /\ s2.rd = [s.rd EXCEPT ![r] = e2] /\ s2.sent = sent2
  BY <1>5, <1>6, <1>8, Zenon DEF NodeStates, Steps
<1>10. s2.rd[r] = e2 /\ \A q \in Rounds : q # r => s2.rd[q] = s.rd[q]
  BY <1>1, <1>9
<1>11. StoreStep(nd, n, s2)
  <2> SUFFICES ASSUME NEW q \in Rounds, NEW k \in Members, NEW u \in VoteTypes,
                      s2.rd[q].votes[k][u] # None
               PROVE  /\ Vote(k, q, u, s2.rd[q].votes[k][u]) \in Signed(nd) \cup s2.sent
                      /\ \/ s2.rd[q].proposal = None
                         \/ s2.rd[q].votes[k][u] \in {NIL, s2.rd[q].proposal}
    BY Zenon DEF StoreStep
  <2>1. CASE s2.rd[q].votes[k][u] = s.rd[q].votes[k][u]
             /\ s2.rd[q].proposal = s.rd[q].proposal
    BY <2>1, <1>7, <1>9, Zenon DEF StoreStep
  <2>2. CASE q = r /\ e # s.rd[r]
    <3>1. /\ s2.rd[q].votes = e.votes /\ s2.rd[q].proposal = e.proposal
          /\ e.proposal = v
      BY <2>2, <1>3, <1>4, <1>10, Zenon
    <3>2. /\ e.votes[k][u] = s.rd[r].votes[k][u]
          /\ e.votes[k][u] \in {NIL, v}
      BY <2>2, <3>1, <1>3, Zenon
    <3>3. Vote(k, q, u, s.rd[r].votes[k][u]) \in Signed(nd) \cup s.sent
      BY <2>2, <3>1, <3>2, Zenon DEF StoreStep
    <3> QED BY <3>1, <3>2, <3>3, <1>7, <1>9, Zenon
  <2> QED BY <2>1, <2>2, <1>4, <1>10, Zenon
<1> QED BY <1>6, <1>7, <1>9, <1>11, Zenon DEF s2

\* A restart keeps nothing but what was signed.
LEMMA InitStateTyped ==
    ASSUME NEW sent \in SUBSET (Votes \cup Proposals)
    PROVE  /\ InitState(sent) \in NodeStates
           /\ \A nd, n : StoreStep(nd, n, InitState(sent))
<1>1. EmptyVotes \in [Members -> [VoteTypes -> VoteValues \cup {None}]]
  BY Zenon DEF EmptyVotes
<1>2. EmptyRound \in RoundDatas /\ EmptyRound.votes = EmptyVotes
  BY <1>1 DEF EmptyRound, RoundDatas
<1>3. NoRounds \in [Rounds -> RoundDatas] /\ \A r \in Rounds : NoRounds[r] = EmptyRound
  BY <1>2 DEF NoRounds
<1>4. 0 \in Rounds
  BY ConstantsAssumption DEF Rounds, ConstantsOK
<1>5. InitState(sent) \in NodeStates /\ InitState(sent).rd = NoRounds
  BY <1>3, <1>4 DEF InitState, NodeStates, Steps
<1>6. \A m \in Members, t \in VoteTypes : EmptyVotes[m][t] = None
  BY DEF EmptyVotes
<1> QED BY <1>2, <1>3, <1>5, <1>6 DEF StoreStep
===============================================================================
