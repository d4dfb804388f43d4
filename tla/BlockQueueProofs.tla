--------------------------- MODULE BlockQueueProofs ---------------------------
(***************************************************************************)
(* Proofs that the safety properties of BlockQueue hold for every tree of  *)
(* blocks and every value of the limits: every step of the write task keeps*)
(* every part of the inductive invariant, and so every step of a node does.*)
(***************************************************************************)
EXTENDS QueueServiceProofs

-------------------------------------------------------------------------------
\* A checkpoint block goes to disk: its height tells that it is the next one,
\* because checkpoint blocks are all on one chain.
LEMMA WriteCheckpointFollows ==
    ASSUME InductiveInvariant, WriteCheckpoint, db' # db
    PROVE  /\ db' \in Checkpointed /\ db' # Genesis /\ Parent(db') = db /\ sending
           /\ reset' = reset /\ faults' = faults
<1> USE DEF InductiveInvariant
<1> DEFINE h == Head(toDisk)
<1>1. /\ toDisk # <<>> /\ db' = h /\ HeightOf[h] = HeightOf[db] + 1
      /\ reset' = reset /\ faults' = faults
  BY DEF WriteCheckpoint, NextValid
<1>2. h \in Checkpointed
  BY <1>1, HeadTailProperties, Zenon DEF TypeOK
<1> HIDE DEF h
<1>3. h \in Blocks /\ h # Genesis /\ db \in Blocks
  BY <1>2, QueueAssumption, Zenon DEF TypeOK
<1>4. HeightOf[h] \in Nat /\ HeightOf[db] \in Nat
  BY <1>3, HeightType
<1>5. ~Low(h)
  BY <1>1, <1>4 DEF Low
<1>6. sending /\ db \in Checkpointed \cup {Genesis}
  BY <1>2, <1>5 DEF Phases, TypeOK
<1>7. db \in Ancestors[h]
  <2>1. CASE db = Genesis
    BY <1>3, <2>1, TreeAssumption, Zenon
  <2>2. CASE db \in Checkpointed
    <3>1. db \in Ancestors[h] \/ h \in Ancestors[db]
      BY <1>2, <2>2, QueueAssumption, Zenon
    <3>2. h \notin Ancestors[db]
      BY <1>1, <1>3, <1>4, AncestorLower
    <3> QED BY <3>1, <3>2
  <2> QED BY <1>6, <2>1, <2>2
<1>8. Parent(h) = db
  <2>1. /\ Parent(h) \in Blocks /\ Parent(h) \in Ancestors[h]
        /\ HeightOf[h] = HeightOf[Parent(h)] + 1
    BY <1>3, ParentIsBelow
  <2>2. HeightOf[Parent(h)] = HeightOf[db]
    BY <1>1, <1>4, <2>1, HeightType
  <2>3. db \in Ancestors[Parent(h)]
    BY <1>3, <1>4, <1>7, <2>1, <2>2, SameChain
  <2> QED BY <2>1, <2>2, <2>3, AncestorLower, Zenon
<1> QED BY <1>1, <1>2, <1>3, <1>6, <1>8, Zenon

LEMMA WriteCheckpointKeeps ==
    ASSUME InductiveInvariant, WriteCheckpoint
    PROVE  InductiveInvariant'
<1> USE DEF InductiveInvariant, service, checkpoint, channels, crosslink
<1>1. /\ UNCHANGED <<service, checkpoint, toMemory, chains, errors, todo, published,
                     crosslink>>
      /\ UNCHANGED <<queue, byHeight, sent, call, parents, checkpoints, sending, asked,
                     decided>>
      /\ toDisk # <<>> /\ toDisk' = Tail(toDisk)
  BY DEF WriteCheckpoint
<1>2. toDisk' \in Seq(Checkpointed)
  BY <1>1, HeadTailProperties DEF TypeOK
<1>3. db' # db => sending /\ db' \in Checkpointed
  BY WriteCheckpointFollows
<1>4. reset' \in Seq(Blocks) /\ db' \in Blocks /\ faults' \in Nat
  <2>1. reset' = reset \/ reset' = Append(reset, db)
    BY DEF WriteCheckpoint
  <2>2. faults' = faults \/ faults' = faults + 1
    BY DEF WriteCheckpoint
  <2>3. reset \in Seq(Blocks) /\ db \in Blocks /\ faults \in Nat
    BY DEF TypeOK
  <2>4. reset' \in Seq(Blocks)
    BY <2>1, <2>3, AppendProperties
  <2>5. db' \in Blocks
    BY <1>3, <2>3, QueueAssumption, Zenon
  <2> QED BY <2>2, <2>3, <2>4, <2>5
<1>5. TypeOK'
  BY <1>1, <1>2, <1>4, Zenon DEF TypeOK
<1>6. InHand'
  BY <1>1 DEF InHand
<1>7. Phases'
  BY <1>1, <1>3 DEF Phases, Low
<1>8. InMemory'
  <2>1. CASE db' = db
    BY <1>1, <2>1, InMemoryUnchanged, Zenon DEF writer
  <2>2. CASE db' # db
    <3>1. chains' = {} /\ published' = {} /\ todo' = Nothing
      BY <1>1, <1>3, <2>2, Zenon DEF Phases
    <3> QED BY <3>1, FS_EmptySet DEF InMemory, ChainsFrom, PublishedFollows, TodoInChains,
                                     Nothing
  <2> QED BY <2>1, <2>2, Zenon
<1>9. SentAreKnown'
  <2>1. SentOn' = SentOn
    BY <1>1 DEF SentOn, Commits
  <2>2. CASE db' = db
    BY <1>1, <2>1, <2>2, Zenon DEF SentAreKnown, Low
  <2>3. CASE db' # db
    <3>1. SentOn = {}
      BY <1>3, <2>3 DEF Phases, SentOn, Commits
    <3>2. Ancestors[db'] \subseteq Checkpointed \cup {Genesis}
      BY <1>3, <2>3, QueueAssumption, Zenon
    <3>3. \A b \in queue : b \notin Checkpointed \cup {Genesis}
      <4>1. \A b \in queue : ~(HeightOf[b] < HeightOf[b])
        BY HeightType DEF TypeOK
      <4> QED BY <4>1, Zenon DEF InHand
    <3> QED BY <1>1, <2>1, <3>1, <3>2, <3>3, Zenon DEF SentAreKnown
  <2> QED BY <2>2, <2>3, Zenon
<1>10. NothingCommittedTwice'
  <2>1. CASE db' = db
    BY <1>1, <2>1, Zenon DEF NothingCommittedTwice
  <2>2. CASE db' # db
    BY <1>1, <1>3, <2>2 DEF NothingCommittedTwice, Phases
  <2> QED BY <2>1, <2>2, Zenon
<1>11. QueueAgrees'
  BY <1>1 DEF QueueAgrees
<1> QED BY <1>5, <1>6, <1>7, <1>8, <1>9, <1>10, <1>11, Zenon

-------------------------------------------------------------------------------
\* The write task takes a message: what it leaves in the channel was there, and
\* a block that it takes is not there again.
LEMMA ReceivesOnce ==
    ASSUME TypeOK, NothingCommittedTwice, NEW type \in {"commit", "finalize"},
           Receives(type)
    PROVE  /\ Head(toMemory).block \in Blocks
           /\ toMemory' \in Seq([type : {"commit", "finalize"}, block : Blocks])
           /\ Commits' \subseteq Commits
           /\ type = "commit" => /\ Head(toMemory).block \in Commits
                                 /\ Head(toMemory).block \notin Commits'
           /\ \A i, j \in DOMAIN toMemory' :
                toMemory'[i].type = "commit" /\ toMemory'[j] = toMemory'[i] => j = i
<1> DEFINE Msgs == [type : {"commit", "finalize"}, block : Blocks]
           h == Head(toMemory)
<1>1. toMemory \in Seq(Msgs) /\ toMemory # <<>> /\ toMemory' = Tail(toMemory)
      /\ h.type = type
  BY DEF Receives, TypeOK
<1>2. /\ h \in Msgs /\ toMemory' \in Seq(Msgs) /\ Len(toMemory') = Len(toMemory) - 1
      /\ \A i \in 1 .. Len(toMemory') : toMemory'[i] = toMemory[i + 1]
  BY <1>1, HeadTailProperties, Zenon
<1>3. h = toMemory[1] /\ Len(toMemory) \in Nat /\ Len(toMemory) # 0
      /\ DOMAIN toMemory = 1 .. Len(toMemory) /\ DOMAIN toMemory' = 1 .. Len(toMemory')
  BY <1>1, <1>2, EmptySeq
<1>4. 1 \in DOMAIN toMemory
  BY <1>3
<1>5. \A i \in DOMAIN toMemory' :
        /\ i \in Nat /\ i + 1 # 1 /\ i + 1 \in DOMAIN toMemory
        /\ toMemory'[i] = toMemory[i + 1] /\ toMemory'[i] \in Msgs
  <2> SUFFICES ASSUME NEW i \in 1 .. Len(toMemory')
               PROVE  /\ i \in Nat /\ i + 1 # 1 /\ i + 1 \in 1 .. Len(toMemory)
                      /\ toMemory'[i] = toMemory[i + 1] /\ toMemory'[i] \in Msgs
    BY <1>3
  <2>1. i \in Nat /\ i + 1 # 1 /\ i + 1 \in 1 .. Len(toMemory)
    BY <1>2, <1>3
  <2>2. toMemory'[i] \in Msgs
    BY <1>2, ElementOfSeq, Zenon
  <2> QED BY <1>2, <2>1, <2>2
<1>6. h.block \in Blocks
  BY <1>2
<1>7. Commits' \subseteq Commits
  <2> SUFFICES ASSUME NEW b \in Commits' PROVE b \in Commits
    OBVIOUS
  <2>1. PICK i \in DOMAIN toMemory' : toMemory'[i].type = "commit" /\ toMemory'[i].block = b
    BY DEF Commits
  <2>2. /\ i + 1 \in DOMAIN toMemory
        /\ toMemory[i + 1].type = "commit" /\ toMemory[i + 1].block = b
    BY <1>5, <2>1
  <2> QED BY <2>2 DEF Commits
<1>8. type = "commit" => h.block \in Commits
  BY <1>1, <1>3, <1>4, Zenon DEF Commits
<1>9. ASSUME type = "commit", h.block \in Commits' PROVE FALSE
  <2>1. PICK i \in DOMAIN toMemory' : toMemory'[i].type = "commit"
                                      /\ toMemory'[i].block = h.block
    BY <1>9 DEF Commits
  <2>2. toMemory'[i] = h
    <3>1. \A x, y \in Msgs : x.type = y.type /\ x.block = y.block => x = y
      OBVIOUS
    <3> QED BY <1>1, <1>2, <1>5, <1>9, <2>1, <3>1, ZenonT(40)
  <2>3. toMemory[i + 1] = toMemory[1] /\ toMemory[1].type = "commit"
    BY <1>1, <1>3, <1>5, <1>9, <2>2, Zenon
  <2> QED BY <1>4, <1>5, <2>3, Zenon DEF NothingCommittedTwice
<1>10. ASSUME NEW i \in DOMAIN toMemory', NEW j \in DOMAIN toMemory',
              toMemory'[i].type = "commit", toMemory'[j] = toMemory'[i]
       PROVE  j = i
  <2>1. i + 1 = j + 1
    BY <1>5, <1>10 DEF NothingCommittedTwice
  <2> QED BY <1>5, <2>1
<1> QED BY <1>2, <1>6, <1>7, <1>8, <1>9, <1>10, Zenon

\* Nothing is committed twice after a step if the channel holds no block twice,
\* and none that is in the state.
LEMMA CommittedOnce ==
    ASSUME \A i, j \in DOMAIN toMemory' :
             toMemory'[i].type = "commit" /\ toMemory'[j] = toMemory'[i] => j = i,
           Commits' \cap ((UNION chains') \cup Ancestors[db']) = {}
    PROVE  NothingCommittedTwice'
<1>1. \A i \in DOMAIN toMemory' : toMemory'[i].type = "commit" =>
        toMemory'[i].block \in Commits'
  BY DEF Commits
<1> QED BY <1>1 DEF NothingCommittedTwice

LEMMA CommitsAreNew ==
    ASSUME NothingCommittedTwice
    PROVE  Commits \cap ((UNION chains) \cup Ancestors[db]) = {}
BY DEF Commits, NothingCommittedTwice

\* insert_with never drops the best chain.
LEMMA LimitedKeepsTheBest ==
    ASSUME NEW a, NEW cs, ChainsFrom(cs, a), cs # {}
    PROVE  ChainsFrom(Limited(cs), a) /\ Limited(cs) # {} /\ Limited(cs) \subseteq cs
<1> DEFINE best == BestChain(cs)
<1>1. best \in cs /\ \A d \in cs \ {best} : Higher(Tip(best), Tip(d))
  BY BestChainExists
<1>2. \A d \in cs : IsChain(d, a) /\ Tip(d) \in Blocks
  BY ChainTip, Zenon DEF ChainsFrom
<1>3. \A d \in cs : ~Greater(d, best)
  BY <1>1, <1>2, GreaterIsHigher, HigherOrder, Zenon
<1>4. {d \in cs : Greater(d, best)} = {}
  BY <1>3, Zenon
<1>5. Cardinality({d \in cs : Greater(d, best)}) < MaxForks
  <2>1. Cardinality({d \in cs : Greater(d, best)}) = 0
    BY <1>4, FS_EmptySet, Zenon
  <2> QED BY <2>1, QueueAssumption
<1>6. best \in Limited(cs)
  BY <1>1, <1>5 DEF Limited
<1>7. Limited(cs) \subseteq cs
  BY DEF Limited
<1> QED BY <1>6, <1>7, ChainSubset, Zenon

\* commit_block and commit_new_chain: the new chain starts at the finalized tip
\* too, and takes the place of the only one that it contains.
LEMMA ExtendedChains ==
    ASSUME db \in Blocks, ChainsFrom(chains, db), NEW b \in Blocks, Accepted(b),
           b \notin UNION chains
    PROVE  /\ ChainsFrom(Extended(b), db) /\ Extended(b) # {}
           /\ UNION Extended(b) \subseteq (UNION chains) \cup {b}
<1> DEFINE p == Parent(b)
           new == ParentChain(p) \cup {b}
           others == {c \in chains : Tip(c) # p}
<1>1. /\ HeightOf[b] > HeightOf[db] /\ (p = db \/ \E c \in chains : p \in c)
      /\ HeightOf[b] \in Nat /\ HeightOf[db] \in Nat
  BY HeightType, Zenon DEF Accepted
<1>2. b # Genesis
  BY <1>1, HeightType
<1>3. p \in Blocks /\ p \in Ancestors[b] /\ Ancestors[b] = Ancestors[p] \cup {b}
      /\ b \notin Ancestors[p]
  BY <1>2, ParentIsBelow, Zenon
<1> HIDE DEF p
<1>4. b \notin Ancestors[db]
  BY <1>1, AncestorLower
<1>5. /\ db \in Ancestors[p] /\ ParentChain(p) = Ancestors[p] \ Ancestors[db]
      /\ \E c \in chains \cup {{}} : /\ ParentChain(p) \subseteq c
                                     /\ c # {} => p \in c
  <2>1. CASE p = db
    <3>1. ParentChain(p) = {}
      BY <2>1 DEF ParentChain
    <3> QED BY <2>1, <3>1, TreeAssumption, Zenon
  <2>2. CASE p # db
    <3> DEFINE c == CHOOSE c \in chains : p \in c
    <3>1. c \in chains /\ p \in c
      BY <1>1, <2>2
    <3>2. ParentChain(p) = c \cap Ancestors[p]
      BY <2>2, Zenon DEF ParentChain
    <3> HIDE DEF c
    <3>3. /\ c = Ancestors[Tip(c)] \ Ancestors[db] /\ Tip(c) \in Blocks
          /\ db \in Ancestors[p]
      BY <3>1, ChainTip, Zenon DEF ChainsFrom
    <3>4. Ancestors[p] \subseteq Ancestors[Tip(c)]
      BY <3>1, <3>3, AncestorLower, Zenon
    <3> QED BY <3>1, <3>2, <3>3, <3>4
  <2> QED BY <2>1, <2>2, Zenon
<1>6. new = Ancestors[b] \ Ancestors[db]
  BY <1>3, <1>4, <1>5, Zenon
<1>7. db \in Ancestors[b] /\ b # db
  BY <1>3, <1>4, <1>5, TreeAssumption, Zenon
<1>8. IsChain(new, db) /\ Tip(new) = b
  BY <1>6, <1>7, TipIs
<1> HIDE DEF new
<1>9. ASSUME NEW c \in others PROVE Tip(c) \notin new
  <2> SUFFICES ASSUME Tip(c) \in new PROVE FALSE
    OBVIOUS
  <2>1. c \in chains /\ IsChain(c, db) /\ Tip(c) # p
    BY Zenon DEF ChainsFrom
  <2>2. Tip(c) \in c
    BY <2>1, ChainTip, Zenon
  <2>3. Tip(c) # b
    BY <2>1, <2>2, Zenon
  <2>4. Tip(c) \in ParentChain(p)
    BY <2>3, Zenon DEF new
  <2>5. PICK d \in chains \cup {{}} : Tip(c) \in d /\ p \in d
    BY <1>5, <2>4, Zenon
  <2>6. d \in chains
    BY <2>5, Zenon
  <2>7. c = d
    BY <2>1, <2>5, <2>6, Zenon DEF ChainsFrom
  <2>8. HeightOf[p] <= HeightOf[Tip(c)]
    BY <2>1, <2>5, <2>7, ChainTip, Zenon
  <2>9. Tip(c) \in Ancestors[p]
    BY <1>5, <2>4, Zenon
  <2>10. Tip(c) = p
    BY <1>3, <2>8, <2>9, AncestorLower, HeightType
  <2> QED BY <2>1, <2>10, Zenon
<1>10. ASSUME NEW c \in others PROVE b \notin c /\ c \in chains
  BY <1>10, Zenon
<1> DEFINE cs == others \cup {new}
<1>11. ChainsFrom(cs, db)
  <2>1. IsFiniteSet(cs)
    <3>1. IsFiniteSet(others)
      BY FS_Subset DEF ChainsFrom
    <3> QED BY <3>1, FS_AddElement, Zenon
  <2>2. \A c \in cs : IsChain(c, db)
    BY <1>8, <1>10, Zenon DEF ChainsFrom
  <2>3. \A c, d \in cs : Tip(c) \in d => c = d
    BY <1>8, <1>9, <1>10 DEF ChainsFrom
  <2> QED BY <2>1, <2>2, <2>3, Zenon DEF ChainsFrom
<1>12. Extended(b) = Limited(cs)
  BY DEF Extended, p, new
<1>13. ChainsFrom(Limited(cs), db) /\ Limited(cs) # {} /\ Limited(cs) \subseteq cs
  <2> HIDE DEF cs
  <2>1. cs # {}
    BY DEF cs
  <2> QED BY <1>11, <2>1, LimitedKeepsTheBest, Zenon
<1>14. UNION cs \subseteq (UNION chains) \cup {b}
  <2> SUFFICES ASSUME NEW c \in cs, NEW x \in c PROVE x = b \/ \E d \in chains : x \in d
    OBVIOUS
  <2>1. CASE c \in others
    BY <2>1
  <2>2. CASE c = new
    <3> SUFFICES ASSUME x \in ParentChain(p) PROVE \E d \in chains : x \in d
      BY <2>2, Zenon DEF new
    <3>1. PICK d \in chains \cup {{}} : x \in d
      BY <1>5
    <3> QED BY <3>1
  <2> QED BY <2>1, <2>2
<1> QED BY <1>12, <1>13, <1>14, Zenon

\* A block from the channel is committed to memory, or rejected.
LEMMA WriteBlockKeeps ==
    ASSUME InductiveInvariant, WriteBlock
    PROVE  InductiveInvariant'
<1> USE DEF InductiveInvariant, service, checkpoint, channels, crosslink
<1> DEFINE b == Head(toMemory).block
           ok == Parent(b) \notin Range(errors) /\ Accepted(b)
<1>1. /\ UNCHANGED <<service, checkpoint, toDisk, reset, db, crosslink, faults>>
      /\ UNCHANGED <<queue, byHeight, sent, call, parents, checkpoints, sending, decided,
                     asked>>
      /\ Receives("commit") /\ ~sending /\ todo = Nothing
  BY Zenon DEF WriteBlock, Receives
<1>2. /\ b \in Blocks /\ Commits' \subseteq Commits /\ b \in Commits /\ b \notin Commits'
      /\ toMemory' \in Seq([type : {"commit", "finalize"}, block : Blocks])
      /\ \A i, j \in DOMAIN toMemory' :
           toMemory'[i].type = "commit" /\ toMemory'[j] = toMemory'[i] => j = i
  BY <1>1, ReceivesOnce
<1>3. /\ ok => /\ chains' = Extended(b) /\ published' = chains' /\ todo' = PastLimit(chains')
               /\ errors' = errors
      /\ ~ok => /\ UNCHANGED <<chains, published, todo>>
                /\ \/ errors' = Tail(Append(errors, b)) \/ errors' = Append(errors, b)
  BY Zenon DEF WriteBlock
<1> HIDE DEF b
<1>4. b \notin UNION chains /\ b \notin Ancestors[db] /\ db \in Blocks
  BY <1>2, CommitsAreNew, Zenon DEF TypeOK
<1>5. ok => /\ ChainsFrom(chains', db) /\ chains' # {}
            /\ UNION chains' \subseteq (UNION chains) \cup {b}
  BY <1>2, <1>3, <1>4, ExtendedChains, Zenon DEF InMemory
<1> HIDE DEF ok
<1>6. UNION chains' \subseteq (UNION chains) \cup {b}
  BY <1>3, <1>5, Zenon
<1>7. errors' \in Seq(Blocks)
  <2>1. errors \in Seq(Blocks)
    BY DEF TypeOK
  <2>2. Append(errors, b) \in Seq(Blocks) /\ Append(errors, b) # <<>>
    BY <1>2, <2>1, AppendProperties
  <2>3. Tail(Append(errors, b)) \in Seq(Blocks)
    BY <2>2, HeadTailProperties, Zenon
  <2> QED BY <1>3, <2>1, <2>2, <2>3, Zenon
<1>8. ASSUME ok
      PROVE  /\ InMemory' /\ todo' \in [left : Nat, upTo : Blocks]
             /\ chains' \subseteq SUBSET Blocks
  <2> DEFINE cs == chains'
             best == BestChain(cs)
  <2>1. ChainsFrom(cs, db) /\ cs # {} /\ published' = cs /\ todo' = PastLimit(cs)
    BY <1>3, <1>5, <1>8, Zenon
  <2> HIDE DEF cs
  <2>2. best \in cs
    BY <2>1, BestChainExists, Zenon
  <2>3. \A c \in cs : IsChain(c, db)
    BY <2>1, Zenon DEF ChainsFrom
  <2>4. /\ db \in Ancestors[Tip(best)] /\ Tip(best) \in Blocks
        /\ Cardinality(best) = HeightOf[Tip(best)] - HeightOf[db]
        /\ HeightOf[Tip(best)] \in Nat /\ HeightOf[db] \in Nat
    BY <1>4, <2>2, <2>3, ChainTip, HeightType, Zenon
  <2>5. cs \subseteq SUBSET Blocks
    BY <2>3, ChainTip, Zenon
  <2>6. Genesis \in Blocks /\ db \in Ancestors[db]
    BY <1>4, TreeAssumption, Zenon
  <2> DEFINE n == Cardinality(best) - ReorgLimit
  <2>7. \/ todo' = [left |-> 0, upTo |-> Genesis]
        \/ todo' = [left |-> n, upTo |-> Genesis] /\ Cardinality(best) > ReorgLimit
    <3>1. Cardinality(best) \in Int /\ ReorgLimit \in Int
      BY <2>4, QueueAssumption
    <3>2. ~(Cardinality(best) <= ReorgLimit) => Cardinality(best) > ReorgLimit
      BY <3>1
    <3> HIDE DEF best
    <3> QED BY <2>1, <3>2, Zenon DEF PastLimit, Nothing, best
  <2>8. Cardinality(best) > ReorgLimit =>
          n \in Nat /\ n > 0 /\ n < HeightOf[Tip(best)] - HeightOf[db]
    BY <2>4, QueueAssumption
  <2> HIDE DEF best, n
  <2>9. todo' \in [left : Nat, upTo : Blocks]
    BY <2>6, <2>7, <2>8
  <2>10. TodoInChains' /\ (todo'.left = 0 => todo' = Nothing)
    <3>1. CASE todo' = [left |-> 0, upTo |-> Genesis]
      BY <3>1 DEF TodoInChains, Nothing
    <3>2. CASE todo' = [left |-> n, upTo |-> Genesis] /\ Cardinality(best) > ReorgLimit
      <4>1. todo'.left = n /\ todo'.upTo = Genesis
        BY <3>2, Zenon
      <4>2. n # 0 /\ n < HeightOf[Tip(best)] - HeightOf[db]
        BY <2>8, <3>2
      <4>3. todo'.left < HeightOf[Tip(BestChain(chains'))] - HeightOf[db']
        BY <1>1, <4>1, <4>2, Zenon DEF best, cs
      <4>4. TodoInChains'
        BY <2>1, <4>1, <4>3, Zenon DEF TodoInChains, cs
      <4> QED BY <4>1, <4>2, <4>4, Zenon
    <3> QED BY <2>7, <3>1, <3>2, Zenon
  <2>11. PublishedFollows'
    BY <1>1, <2>1, <2>4, <2>6, Zenon DEF PublishedFollows, cs, best
  <2>12. ChainsFrom(chains, db)'
    BY <1>1, <2>1, Zenon DEF ChainsFrom, cs
  <2> QED BY <2>5, <2>9, <2>10, <2>11, <2>12, Zenon DEF InMemory, cs
<1>9. ASSUME ~ok
      PROVE  /\ InMemory' /\ todo' \in [left : Nat, upTo : Blocks]
             /\ chains' \subseteq SUBSET Blocks /\ published' \subseteq SUBSET Blocks
  <2>1. UNCHANGED <<db, chains, published, todo>>
    BY <1>1, <1>3, <1>9
  <2> QED BY <2>1, Zenon
             DEF InMemory, ChainsFrom, PublishedFollows, TodoInChains, Nothing, TypeOK
<1>10. InMemory' /\ todo' \in [left : Nat, upTo : Blocks]
       /\ chains' \subseteq SUBSET Blocks /\ published' \subseteq SUBSET Blocks
  BY <1>3, <1>8, <1>9
<1>11. TypeOK'
  BY <1>1, <1>2, <1>7, <1>10, Zenon DEF TypeOK
<1>12. InHand'
  BY <1>1, Zenon DEF InHand
<1>13. Phases'
  BY <1>1 DEF Phases, Low
<1>14. SentAreKnown'
  <2>1. SentOn' \subseteq SentOn
    BY <1>2, <1>6, Zenon DEF SentOn
  <2> QED BY <1>1, <2>1, Zenon DEF SentAreKnown, Low
<1>15. NothingCommittedTwice'
  <2>1. Commits' \cap ((UNION chains') \cup Ancestors[db']) = {}
    BY <1>1, <1>2, <1>6, CommitsAreNew, ZenonT(40)
  <2> QED BY <1>2, <2>1, CommittedOnce, Zenon
<1>16. QueueAgrees'
  BY <1>1, Zenon DEF QueueAgrees
<1> QED BY <1>10, <1>11, <1>12, <1>13, <1>14, <1>15, <1>16, Zenon

\* Crosslink's request: the chains without the block go, and the others have
\* the same blocks up to it.
LEMMA WriteFinalizeKeeps ==
    ASSUME InductiveInvariant, WriteFinalize
    PROVE  InductiveInvariant'
<1> USE DEF InductiveInvariant, service, checkpoint, channels, crosslink
<1> DEFINE b == Head(toMemory).block
           cs == Kept(b)
           best == BestChain(cs)
<1>1. /\ UNCHANGED <<service, checkpoint, toDisk, reset, db, errors, crosslink, faults>>
      /\ UNCHANGED <<queue, byHeight, sent, call, parents, checkpoints, sending, decided,
                     asked>>
      /\ Receives("finalize") /\ ~sending
  BY Zenon DEF WriteFinalize, Receives
<1>2. /\ b \in Blocks /\ Commits' \subseteq Commits
      /\ toMemory' \in Seq([type : {"commit", "finalize"}, block : Blocks])
      /\ \A i, j \in DOMAIN toMemory' :
           toMemory'[i].type = "commit" /\ toMemory'[j] = toMemory'[i] => j = i
  BY <1>1, ReceivesOnce, Zenon
<1>3. /\ cs = {} => UNCHANGED <<chains, published, todo>>
      /\ cs # {} => /\ chains' = cs /\ published' = cs
                    /\ todo' = [left |-> Cardinality(best \cap Ancestors[b]), upTo |-> b]
  BY DEF WriteFinalize
<1> HIDE DEF b
<1>4. cs \subseteq chains /\ \A c \in cs : b \in c
  BY Zenon DEF Kept
<1> HIDE DEF cs
<1>5. chains' \subseteq chains
  BY <1>3, <1>4, Zenon
<1>6. ASSUME cs # {}
      PROVE  InMemory' /\ todo' \in [left : Nat, upTo : Blocks]
  <2>1. ChainsFrom(cs, db)
    BY <1>4, ChainSubset, Zenon DEF InMemory
  <2>2. best \in cs
    BY <1>6, <2>1, BestChainExists, Zenon
  <2>3. IsChain(best, db) /\ b \in best
    BY <1>4, <2>1, <2>2, Zenon DEF ChainsFrom
  <2> HIDE DEF best
  <2>4. /\ db \in Ancestors[Tip(best)] /\ Tip(best) \in Blocks /\ db \in Blocks
        /\ best = Ancestors[Tip(best)] \ Ancestors[db]
        /\ db \in Ancestors[b] /\ HeightOf[db] < HeightOf[b]
    BY <2>3, ChainTip, Zenon
  <2>5. Ancestors[b] \subseteq Ancestors[Tip(best)]
    BY <2>3, <2>4, AncestorLower, Zenon
  <2>6. best \cap Ancestors[b] = Ancestors[b] \ Ancestors[db]
    BY <2>4, <2>5, Zenon
  <2>7. HeightOf[b] \in Nat /\ HeightOf[db] \in Nat
    BY <1>2, <2>4, HeightType, Zenon
  <2>8. b # db /\ b # Genesis
    BY <2>4, <2>7, HeightType
  <2> DEFINE n == Cardinality(best \cap Ancestors[b])
  <2>9. n = HeightOf[b] - HeightOf[db]
    BY <1>2, <2>4, <2>6, <2>8, SegmentBlocks, Zenon
  <2> HIDE DEF n
  <2>10. n \in Nat /\ n # 0
    BY <2>4, <2>7, <2>9
  <2>11. todo' = [left |-> n, upTo |-> b]
    BY <1>3, <1>6 DEF n
  <2>12. todo'.left = n /\ todo'.upTo = b /\ todo' \in [left : Nat, upTo : Blocks]
    BY <1>2, <2>10, <2>11, Zenon
  <2>13. TodoInChains' /\ (todo'.left = 0 => todo' = Nothing)
    BY <1>1, <1>3, <1>4, <1>6, <2>8, <2>9, <2>10, <2>12, Zenon DEF TodoInChains
  <2>14. ChainsFrom(chains, db)'
    BY <1>1, <1>3, <1>6, <2>1, Zenon DEF ChainsFrom
  <2>15. PublishedFollows'
    <3>1. db \in Ancestors[db]
      BY <2>4, TreeAssumption, Zenon
    <3> QED BY <1>1, <1>3, <1>6, <2>1, <2>4, <3>1, Zenon DEF PublishedFollows, best
  <2> QED BY <2>12, <2>13, <2>14, <2>15, Zenon DEF InMemory
<1>7. ASSUME cs = {}
      PROVE  InMemory' /\ todo' \in [left : Nat, upTo : Blocks]
  <2>1. UNCHANGED <<db, chains, published, todo>>
    BY <1>1, <1>3, <1>7, Zenon
  <2> QED BY <2>1, Zenon
             DEF InMemory, ChainsFrom, PublishedFollows, TodoInChains, Nothing, TypeOK
<1>8. InMemory' /\ todo' \in [left : Nat, upTo : Blocks]
      /\ published' \subseteq SUBSET Blocks /\ chains' \subseteq SUBSET Blocks
  BY <1>3, <1>4, <1>5, <1>6, <1>7, Zenon DEF TypeOK
<1>9. TypeOK'
  BY <1>1, <1>2, <1>8, Zenon DEF TypeOK
<1>10. InHand'
  BY <1>1, Zenon DEF InHand
<1>11. Phases'
  BY <1>1 DEF Phases, Low
<1>12. SentAreKnown'
  <2>1. UNION chains' \subseteq UNION chains
    BY <1>5, Zenon
  <2>2. SentOn' \subseteq SentOn
    BY <1>2, <2>1, Zenon DEF SentOn
  <2> QED BY <1>1, <2>2, Zenon DEF SentAreKnown, Low
<1>13. NothingCommittedTwice'
  <2>1. UNION chains' \subseteq UNION chains
    BY <1>5
  <2>2. Commits' \cap ((UNION chains') \cup Ancestors[db']) = {}
    BY <1>1, <1>2, <2>1, CommitsAreNew, Zenon
  <2> QED BY <1>2, <2>2, CommittedOnce, Zenon
<1>14. QueueAgrees'
  BY <1>1, Zenon DEF QueueAgrees
<1> QED BY <1>8, <1>9, <1>10, <1>11, <1>12, <1>13, <1>14

\* The root of the best chain goes to disk: it is the child of the finalized
\* tip, and the best chain that readers see goes through it.
LEMMA FinalizeRootFollows ==
    ASSUME InductiveInvariant, FinalizeRoot
    PROVE  /\ chains # {} /\ ~sending /\ db' # Genesis /\ Parent(db') = db
           /\ db' \in Blocks /\ db' \in UNION chains
           /\ HeightOf[db'] = HeightOf[db] + 1
           /\ Ancestors[db'] = Ancestors[db] \cup {db'}
<1> USE DEF InductiveInvariant
<1>1. chains # {} /\ db' = Root(BestChain(chains))
  BY Zenon DEF FinalizeRoot, InMemory, TodoInChains
<1>2. BestChain(chains) \in chains /\ IsChain(BestChain(chains), db)
  BY <1>1, BestChainExists, Zenon DEF InMemory, ChainsFrom
<1>3. /\ db' \in BestChain(chains) /\ db' # Genesis /\ Parent(db') = db
      /\ HeightOf[db'] = HeightOf[db] + 1 /\ Ancestors[db'] = Ancestors[db] \cup {db'}
  BY <1>1, <1>2, ChainRoot
<1>4. db' \in Blocks
  BY <1>2, <1>3, ChainTip
<1>5. ~sending
  BY <1>1, Zenon DEF Phases
<1> QED BY <1>1, <1>2, <1>3, <1>4, <1>5, Zenon

LEMMA FinalizeRootKeeps ==
    ASSUME InductiveInvariant, FinalizeRoot
    PROVE  InductiveInvariant'
<1> USE DEF InductiveInvariant, service, checkpoint, channels, crosslink
<1> DEFINE best == BestChain(chains)
           t == Tip(best)
<1>1. /\ UNCHANGED <<service, checkpoint, channels, errors, published, crosslink, faults>>
      /\ UNCHANGED <<queue, byHeight, sent, call, parents, checkpoints, sending, toMemory,
                     decided, asked>>
      /\ todo.left > 0 /\ db' = Root(best) /\ chains' = Popped(chains)
      /\ todo' = IF todo.left = 1 THEN Nothing ELSE [todo EXCEPT !.left = @ - 1]
  BY Zenon DEF FinalizeRoot
<1>2. /\ chains # {} /\ ~sending /\ db' \in Blocks /\ db' \in UNION chains
      /\ HeightOf[db'] = HeightOf[db] + 1 /\ Ancestors[db'] = Ancestors[db] \cup {db'}
      /\ HeightOf[db] \in Nat
  BY FinalizeRootFollows, HeightType, Zenon DEF TypeOK
<1>3. ChainsFrom(chains, db) /\ best \in chains /\ IsChain(best, db)
  BY <1>2, BestChainExists, Zenon DEF InMemory, ChainsFrom
<1> HIDE DEF best
<1>4. /\ ChainsFrom(chains', db')
      /\ \A c \in chains' : \E d \in chains : c = d \ {db'} /\ Tip(c) = Tip(d)
      /\ t = db' => chains' = {}
      /\ t # db' => chains' # {} /\ Tip(BestChain(chains')) = t
  BY <1>1, <1>2, <1>3, PoppedChains DEF best
<1>5. /\ t \in Blocks /\ HeightOf[t] \in Nat /\ db' \in best /\ best \subseteq Blocks
      /\ best = Ancestors[t] \ Ancestors[db]
      /\ \A x \in best : HeightOf[x] <= HeightOf[t]
  BY <1>1, <1>3, ChainTip, ChainRoot, HeightType
<1> HIDE DEF t
<1>6. UNION chains' \subseteq UNION chains
  BY <1>4
<1>7. \A x : Low(x) /\ x \in Blocks => Low(x)'
  BY <1>2, HeightType DEF Low
<1>8. todo \in [left : Nat, upTo : Blocks] /\ todo.left \in Nat /\ todo.left # 0
      /\ todo.upTo \in Blocks
  BY <1>1 DEF TypeOK
<1>9. /\ todo.left = 1 => todo' = Nothing
      /\ todo.left # 1 => /\ todo' \in [left : Nat, upTo : Blocks]
                          /\ todo'.left = todo.left - 1 /\ todo'.upTo = todo.upTo
  BY <1>1, <1>8
<1>10. InMemory'
  <2>1. ChainsFrom(chains, db)'
    BY <1>4, Zenon DEF ChainsFrom
  <2>2. PublishedFollows'
    <3>1. /\ published # {} /\ db \in Ancestors[Tip(BestChain(published))]
          /\ t = Tip(BestChain(published))
      BY <1>2, Zenon DEF InMemory, PublishedFollows, t, best
    <3>2. PICK a \in Ancestors[db] : ChainsFrom(published, a)
      BY <3>1, Zenon DEF InMemory, PublishedFollows
    <3>3. a \in Ancestors[db'] /\ db' \in Ancestors[t]
      BY <1>2, <1>5, Zenon
    <3>4. chains' # {} => Tip(BestChain(chains')) = t
      BY <1>4, Zenon
    <3> QED BY <1>1, <3>1, <3>2, <3>3, <3>4, Zenon DEF PublishedFollows
  <2>3. TodoInChains' /\ (todo'.left = 0 => todo' = Nothing)
    <3>1. CASE todo.left = 1
      BY <1>9, <3>1 DEF TodoInChains, Nothing
    <3>2. CASE todo.left # 1 /\ todo.upTo = Genesis
      <4>1. todo.left < HeightOf[t] - HeightOf[db] /\ todo.left >= 2
        BY <1>8, <3>2 DEF InMemory, TodoInChains, t, best
      <4>2. todo.left - 1 < HeightOf[t] - HeightOf[db'] /\ t # db'
        BY <1>2, <1>5, <1>8, <4>1
      <4>3. todo'.left < HeightOf[Tip(BestChain(chains'))] - HeightOf[db'] /\ chains' # {}
        BY <1>4, <1>9, <3>2, <4>2, Zenon
      <4>4. todo'.left # 0
        BY <1>8, <1>9, <3>2, <4>1
      <4> QED BY <1>9, <3>2, <4>3, <4>4, Zenon DEF TodoInChains
    <3>3. CASE todo.left # 1 /\ todo.upTo # Genesis
      <4> DEFINE u == todo.upTo
      <4>1. (\A c \in chains : u \in c) /\ todo.left = HeightOf[u] - HeightOf[db]
        BY <1>8, <3>3 DEF InMemory, TodoInChains
      <4>2. u \in best /\ HeightOf[u] \in Nat
        BY <1>3, <1>8, <4>1, HeightType
      <4>3. HeightOf[u] # HeightOf[db'] /\ HeightOf[t] # HeightOf[db']
        BY <1>2, <1>5, <1>8, <3>3, <4>1, <4>2
      <4>4. chains' # {} /\ \A c \in chains' : u \in c
        <5>1. u # db' /\ t # db'
          BY <4>3, Zenon
        <5> HIDE DEF u
        <5>2. ASSUME NEW c \in chains' PROVE u \in c
          <6>1. PICK d \in chains : c = d \ {db'}
            BY <1>4, Zenon
          <6> QED BY <4>1, <5>1, <6>1, Zenon
        <5> QED BY <1>4, <5>1, <5>2, Zenon
      <4>5. todo.left - 1 = HeightOf[u] - HeightOf[db'] /\ todo.left - 1 # 0
        BY <1>2, <1>8, <3>3, <4>1, <4>2
      <4> QED BY <1>9, <3>3, <4>4, <4>5, Zenon DEF TodoInChains
    <3> QED BY <3>1, <3>2, <3>3, Zenon
  <2> QED BY <2>1, <2>2, <2>3, Zenon DEF InMemory
<1>11. TypeOK'
  <2>1. chains' \subseteq SUBSET Blocks
    BY <1>4 DEF TypeOK
  <2>2. todo' \in [left : Nat, upTo : Blocks]
    BY <1>9, TreeAssumption DEF Nothing
  <2> QED BY <1>1, <1>2, <2>1, <2>2, Zenon DEF TypeOK
<1>12. InHand'
  BY <1>1, Zenon DEF InHand
<1>13. Phases'
  <2>1. \A a \in Checkpointed : Low(a) /\ a \in Blocks
    BY <1>2, QueueAssumption, Zenon DEF Phases
  <2> QED BY <1>1, <1>2, <1>7, <2>1 DEF Phases
<1>14. SentAreKnown'
  <2>1. SentOn' \subseteq SentOn /\ db' \in SentOn
    BY <1>1, <1>2, <1>6, Zenon DEF SentOn, Commits
  <2>2. SentOn \subseteq Blocks
    <3>1. \A i \in DOMAIN toMemory : toMemory[i].block \in Blocks
      <4> DEFINE Msgs == [type : {"commit", "finalize"}, block : Blocks]
      <4>1. toMemory \in Seq(Msgs)
        BY DEF TypeOK
      <4>2. \A m \in Msgs : m.block \in Blocks
        OBVIOUS
      <4> HIDE DEF Msgs
      <4>3. \A i \in DOMAIN toMemory : toMemory[i] \in Msgs
        BY <4>1
      <4> QED BY <4>2, <4>3, Zenon
    <3>2. Commits \subseteq Blocks
      BY <3>1, Zenon DEF Commits
    <3>3. UNION chains \subseteq Blocks
      BY DEF TypeOK
    <3> QED BY <3>2, <3>3, Zenon DEF SentOn
  <2> HIDE DEF SentOn
  <2>3. \A b \in SentOn' : b \in sent' \/ Low(b)'
    BY <1>1, <1>7, <2>1, <2>2, Zenon DEF SentAreKnown
  <2>4. queue' \cap (SentOn' \cup Ancestors[db']) = {}
    BY <1>1, <1>2, <2>1, Zenon DEF SentAreKnown
  <2> QED BY <2>3, <2>4, Zenon DEF SentAreKnown
<1>15. NothingCommittedTwice'
  <2>1. Commits' = Commits /\ Commits \cap ((UNION chains) \cup Ancestors[db]) = {}
    BY <1>1, CommitsAreNew, Zenon DEF Commits
  <2>2. Commits' \cap ((UNION chains') \cup Ancestors[db']) = {}
    BY <1>2, <1>6, <2>1
  <2>3. \A i, j \in DOMAIN toMemory' :
          toMemory'[i].type = "commit" /\ toMemory'[j] = toMemory'[i] => j = i
    BY <1>1, Zenon DEF NothingCommittedTwice
  <2> QED BY <2>2, <2>3, CommittedOnce, Zenon
<1>16. QueueAgrees'
  BY <1>1, Zenon DEF QueueAgrees
<1> QED BY <1>10, <1>11, <1>12, <1>13, <1>14, <1>15, <1>16, Zenon

\* A restart starts again from what is on disk.
LEMMA RestartKeeps ==
    ASSUME InductiveInvariant, Restart
    PROVE  InductiveInvariant'
<1> USE DEF InductiveInvariant
<1>1. asked' \in Nat /\ asked' <= Len(Decisions)
  <2>1. asked \in Nat /\ asked <= Len(Decisions) /\ Len(Decisions) \in Nat
    BY QueueAssumption DEF TypeOK, InHand
  <2>2. asked' = asked \/ (asked > 0 /\ asked' = asked - 1)
    BY Zenon DEF Restart
  <2> QED BY <2>1, <2>2
<1>2. TypeOK'
  <2>1. faults' \in Nat /\ db' \in Blocks /\ Genesis \in Blocks
    BY TreeAssumption DEF TypeOK, Restart
  <2>2. /\ queue' = {} /\ byHeight' = {} /\ sent' = {} /\ bufs' = {} /\ batch' = <<>>
        /\ call' = Idle /\ parents' = <<>> /\ checkpoints' = {} /\ last_sent' = db'
        /\ sending' = TRUE /\ toDisk' = <<>> /\ toMemory' = <<>> /\ reset' = <<>>
    BY Zenon DEF Restart
  <2>3. /\ chains' = {} /\ errors' = <<>> /\ todo' = Nothing /\ published' = {}
        /\ decided' = asked'
    BY Zenon DEF Restart
  <2>4. todo' \in [left : Nat, upTo : Blocks]
    BY <2>1, <2>3 DEF Nothing
  <2> QED BY <1>1, <2>1, <2>2, <2>3, <2>4, EmptySeq, Zenon DEF TypeOK
<1>3. InHand'
  BY <1>1, FS_EmptySet, Zenon DEF InHand, Restart, Idle
<1>4. Phases'
  BY Zenon DEF Phases, Low, Restart, Idle
<1>5. InMemory'
  <2>1. chains' = {} /\ published' = {} /\ todo' = Nothing /\ db' = db
    BY DEF Restart
  <2>2. ChainsFrom(chains', db')
    BY <2>1, FS_EmptySet, Zenon DEF ChainsFrom
  <2>3. ~(todo'.left > 0)
    BY <2>1 DEF Nothing
  <2> QED BY <2>1, <2>2, <2>3, Zenon DEF InMemory, PublishedFollows, TodoInChains
<1>6. SentAreKnown' /\ NothingCommittedTwice' /\ QueueAgrees'
  BY DEF SentAreKnown, SentOn, Commits, NothingCommittedTwice, QueueAgrees, Restart
<1> QED BY <1>2, <1>3, <1>4, <1>5, <1>6, Zenon

-------------------------------------------------------------------------------
\* Every step keeps the invariant.
LEMMA StepKeeps ==
    ASSUME InductiveInvariant, [Next]_vars
    PROVE  InductiveInvariant'
<1>1. CASE UNCHANGED vars
  <2>1. UNCHANGED <<queue, byHeight, sent, bufs, batch, call, parents, checkpoints,
                    last_sent, sending>>
        /\ UNCHANGED <<toDisk, toMemory, reset, db, chains, errors, todo, published,
                       decided, asked, faults>>
    BY <1>1, Zenon DEF vars, service, checkpoint, channels, writer, crosslink
  <2>2. InMemory'
    BY <2>1, InMemoryUnchanged, Zenon DEF InductiveInvariant, writer
  <2>3. TypeOK' /\ InHand'
    BY <2>1, Zenon DEF InductiveInvariant, TypeOK, InHand
  <2>4. Phases' /\ SentAreKnown'
    <3>1. Phases'
      BY <2>1 DEF InductiveInvariant, Phases, Low
    <3>2. SentAreKnown /\ SentOn' = SentOn /\ \A b : Low(b)' = Low(b)
      BY <2>1 DEF InductiveInvariant, SentOn, Commits, Low
    <3>3. SentAreKnown'
      BY <2>1, <3>2, Zenon DEF SentAreKnown
    <3> QED BY <3>1, <3>3, Zenon
  <2>5. NothingCommittedTwice' /\ QueueAgrees'
    BY <2>1 DEF InductiveInvariant, NothingCommittedTwice, QueueAgrees
  <2> QED BY <2>2, <2>3, <2>4, <2>5, Zenon DEF InductiveInvariant
<1>2. CASE Serve
  <2>1. Check \/ Send \/ Prune
    BY <1>2 DEF Serve
  <2> QED BY <2>1, CheckKeeps, SendKeeps, PruneKeeps
<1>3. CASE Write
  <2>1. WriteCheckpoint \/ WriteBlock \/ WriteFinalize \/ FinalizeRoot
    BY <1>3, Zenon DEF Write
  <2> QED BY <2>1, WriteCheckpointKeeps, WriteBlockKeeps, WriteFinalizeKeeps,
             FinalizeRootKeeps
<1>4. CASE Next
  <2>1. \/ Serve \/ Write \/ Restart \/ Decide \/ CrosslinkFinalize
        \/ \E b \in Blocks : Submit(b) \/ SubmitCheckpoint(b)
    BY <1>4 DEF Next, Crosslink
  <2> QED BY <1>2, <1>3, <2>1, SubmitKeeps, SubmitCheckpointKeeps, RestartKeeps, DecideKeeps,
             CrosslinkFinalizeKeeps, Zenon
<1> QED BY <1>1, <1>4, Zenon

\* The invariant holds in every state that a node can reach, whatever blocks it
\* is given, in whatever order, and whenever it stops and starts again.
THEOREM InvariantHolds == Spec => []InductiveInvariant
<1>1. Init => InductiveInvariant
  BY InitInvariant
<1>2. InductiveInvariant /\ [Next]_vars => InductiveInvariant'
  BY StepKeeps
<1> QED BY <1>1, <1>2, PTL DEF Spec

\* The variables keep their types.
THEOREM TypesHold == Spec => []TypeOK
<1>1. InductiveInvariant => TypeOK
  BY Zenon DEF InductiveInvariant
<1> QED BY <1>1, InvariantHolds, PTL

\* The chains in memory go on from the finalized tip.
THEOREM ChainsStartAtTheTipHolds == Spec => []ChainsStartAtTheTip
<1>1. InductiveInvariant => ChainsStartAtTheTip
  <2> SUFFICES ASSUME InductiveInvariant, NEW c \in chains
               PROVE  /\ c # {} /\ db \in Ancestors[Tip(c)]
                      /\ c = Ancestors[Tip(c)] \ Ancestors[db]
    BY DEF ChainsStartAtTheTip
  <2>1. IsChain(c, db)
    BY Zenon DEF InductiveInvariant, InMemory, ChainsFrom
  <2> QED BY <2>1, ChainTip, Zenon
<1> QED BY <1>1, InvariantHolds, PTL

\* Readers of the published chains and of the database see one chain.
THEOREM ReadersSeeOneChainHolds == Spec => []ReadersSeeOneChain
<1>1. InductiveInvariant => ReadersSeeOneChain
  <2> SUFFICES ASSUME InductiveInvariant, published # {}
               PROVE  BestChain(published) \cup Ancestors[db]
                        = Ancestors[Tip(BestChain(published))]
    BY Zenon DEF ReadersSeeOneChain
  <2> DEFINE best == BestChain(published)
             t == Tip(best)
  <2>1. db \in Blocks /\ db \in Ancestors[t]
    BY Zenon DEF InductiveInvariant, TypeOK, InMemory, PublishedFollows
  <2>2. PICK a \in Ancestors[db] : ChainsFrom(published, a)
    BY Zenon DEF InductiveInvariant, InMemory, PublishedFollows
  <2>3. IsChain(best, a)
    BY <2>2, BestChainExists, Zenon DEF ChainsFrom
  <2>4. best = Ancestors[t] \ Ancestors[a] /\ t \in Blocks
    BY <2>3, ChainTip, Zenon
  <2> HIDE DEF best, t
  <2>5. Ancestors[a] \subseteq Ancestors[db] /\ Ancestors[db] \subseteq Ancestors[t]
    BY <2>1, <2>2, <2>4, AncestorLower, Zenon
  <2>6. best \cup Ancestors[db] = Ancestors[t]
    BY <2>4, <2>5, Zenon
  <2> QED BY <2>6, Zenon DEF best, t
<1> QED BY <1>1, InvariantHolds, PTL

\* No block is sent to the write task twice, or when it is in the state.
THEOREM NothingCommittedTwiceHolds == Spec => []NothingCommittedTwice
<1>1. InductiveInvariant => NothingCommittedTwice
  BY Zenon DEF InductiveInvariant
<1> QED BY <1>1, InvariantHolds, PTL

\* The two indexes of the queue, and SentHashes, agree.
THEOREM QueueAgreesHolds == Spec => []QueueAgrees
<1>1. InductiveInvariant => QueueAgrees
  BY Zenon DEF InductiveInvariant
<1> QED BY <1>1, InvariantHolds, PTL

\* What is finalized for Crosslink is what it asked for, on whichever chain.
THEOREM FinalizesTheDecisionHolds == Spec => []FinalizesTheDecision
<1>1. InductiveInvariant => FinalizesTheDecision
  <2> SUFFICES ASSUME InductiveInvariant, todo.upTo # Genesis, NEW c \in chains
               PROVE  /\ todo.upTo \in c
                      /\ todo.left = Cardinality(c \cap Ancestors[todo.upTo])
    BY Zenon DEF FinalizesTheDecision
  <2> DEFINE u == todo.upTo
  <2>1. todo.left > 0 /\ u \in Blocks
    BY DEF InductiveInvariant, InMemory, TypeOK, Nothing
  <2>2. u \in c /\ todo.left = HeightOf[u] - HeightOf[db]
    BY <2>1, Zenon DEF InductiveInvariant, InMemory, TodoInChains
  <2>3. IsChain(c, db)
    BY Zenon DEF InductiveInvariant, InMemory, ChainsFrom
  <2> HIDE DEF u
  <2>4. /\ c = Ancestors[Tip(c)] \ Ancestors[db] /\ Tip(c) \in Blocks
        /\ db \in Ancestors[u] /\ u # db
    BY <2>2, <2>3, ChainTip, TreeAssumption
  <2>5. Ancestors[u] \subseteq Ancestors[Tip(c)]
    BY <2>2, <2>4, AncestorLower, Zenon
  <2>6. c \cap Ancestors[u] = Ancestors[u] \ Ancestors[db]
    BY <2>4, <2>5, Zenon
  <2>7. Cardinality(c \cap Ancestors[u]) = HeightOf[u] - HeightOf[db]
    BY <2>1, <2>4, <2>6, SegmentBlocks, Zenon
  <2> QED BY <2>2, <2>7, Zenon DEF u
<1> QED BY <1>1, InvariantHolds, PTL

\* Only children of the finalized tip go to disk.
THEOREM CommitsFollowTheTipHolds == Spec => CommitsFollowTheTip
<1>1. InductiveInvariant /\ [Next]_vars
        => [db' # db => db' # Genesis /\ Parent(db') = db]_vars
  <2> SUFFICES ASSUME InductiveInvariant, Next, db' # db
               PROVE  db' # Genesis /\ Parent(db') = db
    BY Zenon
  <2>1. ~Serve
    BY Zenon DEF Serve, Check, Send, Prune, writer
  <2>2. \A b \in Blocks : ~Submit(b) /\ ~SubmitCheckpoint(b)
    BY Zenon DEF Submit, SubmitCheckpoint, writer
  <2>3. ~CrosslinkFinalize /\ ~Decide /\ ~Restart
    BY Zenon DEF CrosslinkFinalize, Decide, Restart, writer
  <2>4. ~WriteBlock /\ ~WriteFinalize
    BY DEF WriteBlock, WriteFinalize
  <2>5. WriteCheckpoint \/ FinalizeRoot
    BY <2>1, <2>2, <2>3, <2>4, Zenon DEF Next, Write, Crosslink
  <2> QED BY <2>5, WriteCheckpointFollows, FinalizeRootFollows
<1> QED BY <1>1, InvariantHolds, PTL DEF Spec, CommitsFollowTheTip
===============================================================================
