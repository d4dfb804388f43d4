-------------------------- MODULE QueueServiceProofs --------------------------
(***************************************************************************)
(* What StateService and Crosslink do keeps the inductive invariant of     *)
(* BlockQueue, for every tree of blocks and every value of the limits.     *)
(***************************************************************************)
EXTENDS BlockQueue, ChainSetProofs, SequenceTheorems

\* Only steps of the write task change what it has in hand.
LEMMA InMemoryUnchanged ==
    ASSUME InMemory, UNCHANGED writer
    PROVE  InMemory'
BY DEF InMemory, writer, ChainsFrom, PublishedFollows, TodoInChains, Nothing

\* A request that is being served has the fields of its stage.
LEMMA CallFields ==
    ASSUME TypeOK
    PROVE  /\ call.at = "check" => call.block \in Blocks /\ call.found \in BOOLEAN
           /\ call.at = "send" => call.prune \in BOOLEAN
BY DEF TypeOK, Idle

\* The initial states satisfy the invariant.
LEMMA InitInvariant ==
    ASSUME Init
    PROVE  InductiveInvariant
<1>1. Genesis \in Blocks /\ HeightOf[Genesis] = 0
  BY TreeAssumption, HeightType
<1>2. TypeOK
  BY <1>1 DEF Init, TypeOK, Idle, Nothing
<1>3. IsFiniteSet({})
  BY FS_EmptySet
<1>4. InHand
  BY <1>3, QueueAssumption DEF Init, InHand, Idle
<1>5. Phases
  BY DEF Init, Phases, Idle
<1>6. InMemory
  BY <1>3 DEF Init, InMemory, ChainsFrom, PublishedFollows, TodoInChains, Nothing
<1>7. SentAreKnown /\ NothingCommittedTwice /\ QueueAgrees
  BY DEF Init, SentAreKnown, SentOn, Commits, NothingCommittedTwice, QueueAgrees
<1> QED BY <1>2, <1>4, <1>5, <1>6, <1>7, Zenon DEF InductiveInvariant

-------------------------------------------------------------------------------
\* A new request: what is in memory, on disk or on its way is in SentHashes or
\* too low, so none of it is queued again.
LEMMA SubmitKeeps ==
    ASSUME InductiveInvariant, NEW b \in Blocks, Submit(b)
    PROVE  InductiveInvariant'
<1> USE DEF InductiveInvariant, service, checkpoint, channels, crosslink
<1>1. UNCHANGED <<sent, bufs, batch, parents, checkpoint, channels, writer, crosslink,
                  faults>>
      /\ queue' = queue \cup {b} /\ b \notin sent /\ ~Low(b)
      /\ \A c \in Checkpointed \cup {Genesis} : HeightOf[b] > HeightOf[c]
  <2>1. HeightOf[b] \in Nat /\ HeightOf[db] \in Nat
    BY HeightType DEF TypeOK
  <2> QED BY <2>1 DEF Submit, Low
<1>2. UNCHANGED <<db, chains, todo, published, toMemory, toDisk, sending, decided, asked>>
  BY <1>1 DEF writer
<1>3. b # Genesis
  <2>1. HeightOf[b] > HeightOf[Genesis] /\ HeightOf[b] \in Nat
    BY <1>1, HeightType, Zenon
  <2> QED BY <2>1
<1>4. TypeOK'
  BY <1>1, <1>2 DEF TypeOK, Submit, writer
<1>5. InHand'
  <2>1. IsFiniteSet(queue')
    BY <1>1, FS_AddElement, Zenon DEF InHand
  <2> QED BY <1>1, <1>2, <1>3, <2>1, Zenon DEF InHand, Submit
<1>6. Phases'
  BY <1>1, <1>2 DEF Phases, Low, Submit
<1>7. InMemory'
  BY <1>1, InMemoryUnchanged, Zenon
<1>8. SentAreKnown'
  <2>1. SentOn' = SentOn /\ Ancestors[db'] = Ancestors[db]
    BY <1>2 DEF SentOn, Commits
  <2>2. b \notin SentOn
    BY <1>1, Zenon DEF SentAreKnown
  <2>3. b \notin Ancestors[db]
    BY <1>1, AncestorLower, Zenon DEF TypeOK, Low
  <2> QED BY <1>1, <1>2, <2>1, <2>2, <2>3, Zenon DEF SentAreKnown, Low
<1>9. NothingCommittedTwice'
  BY <1>2, Zenon DEF NothingCommittedTwice
<1>10. QueueAgrees'
  BY <1>1 DEF QueueAgrees, Submit
<1> QED BY <1>4, <1>5, <1>6, <1>7, <1>8, <1>9, <1>10, Zenon

\* The check of a request: SentHashes starts anew only while nothing has been
\* sent to memory.
LEMMA CheckKeeps ==
    ASSUME InductiveInvariant, Check
    PROVE  InductiveInvariant'
<1> USE DEF InductiveInvariant, service, checkpoint, channels, crosslink
<1>1. /\ UNCHANGED <<queue, byHeight, last_sent, channels, writer, crosslink, faults>>
      /\ UNCHANGED <<db, chains, todo, published, toMemory, toDisk, decided, asked>>
      /\ call.at = "check" /\ call.block \in Blocks /\ call.block # Genesis
  BY CallFields DEF Check, writer, InHand
<1>2. Parent(call.block) \in Blocks
  BY <1>1, ParentIsBelow, Zenon
<1> DEFINE ends == EndsCheckpoints /\ Ready(call.block)
<1>3. ends => /\ sending' = FALSE /\ checkpoints' = {} /\ sent' = {} /\ bufs' = {}
              /\ batch' = <<>> /\ parents' = <<last_sent>>
              /\ call' = [at |-> "send", prune |-> FALSE]
  BY DEF Check
<1>4. ~ends => /\ UNCHANGED <<sending, checkpoints, sent, bufs, batch>>
               /\ \/ /\ ~sending /\ parents' = <<Parent(call.block)>>
                     /\ call' = [at |-> "send", prune |-> TRUE]
                  \/ call' = Idle /\ UNCHANGED parents
  BY DEF Check
<1>5. ends => sending /\ \A a \in Checkpointed : Low(a)
  <2> SUFFICES ASSUME ends, NEW a \in Checkpointed PROVE sending /\ Low(a)
    BY DEF EndsCheckpoints
  <2>1. sending /\ db = last_sent
    BY DEF EndsCheckpoints
  <2>2. PICK k \in queue : k # Genesis /\ Parent(k) = db
    BY <2>1, Zenon DEF EndsCheckpoints, Children
  <2>3. HeightOf[a] < HeightOf[k] /\ k \in Blocks /\ a \in Blocks
    BY QueueAssumption DEF InHand, TypeOK
  <2>4. HeightOf[k] = HeightOf[db] + 1 /\ HeightOf[db] \in Nat /\ HeightOf[a] \in Nat
    BY <2>2, <2>3, ParentIsBelow, HeightType, Zenon
  <2> QED BY <2>1, <2>3, <2>4 DEF Low
<1> HIDE DEF ends
<1>6. TypeOK'
  <2>1. /\ sent' \in {sent, {}} /\ bufs' \in {bufs, {}} /\ batch' \in {batch, <<>>}
        /\ checkpoints' \in {checkpoints, {}}
        /\ parents' \in {parents, <<last_sent>>, <<Parent(call.block)>>}
    BY <1>3, <1>4, Zenon
  <2>2. call' \in {Idle, [at |-> "send", prune |-> FALSE], [at |-> "send", prune |-> TRUE]}
    BY <1>3, <1>4, Zenon
  <2>3. call' = Idle \/ call' \in [at : {"send"}, prune : BOOLEAN]
    <3>1. \A q \in BOOLEAN :
            [at |-> "send", prune |-> q] \in [at : {"send"}, prune : BOOLEAN]
      OBVIOUS
    <3> QED BY <2>2, <3>1, Zenon
  <2>4. sending' \in BOOLEAN
    BY <1>3, <1>4, Zenon DEF TypeOK
  <2>5. /\ sent' \subseteq Blocks /\ bufs' \subseteq Seq(Blocks) /\ batch' \in Seq(Blocks)
        /\ checkpoints' \subseteq Checkpointed /\ parents' \in Seq(Blocks)
    <3>1. /\ sent \subseteq Blocks /\ bufs \subseteq Seq(Blocks) /\ batch \in Seq(Blocks)
          /\ checkpoints \subseteq Checkpointed /\ parents \in Seq(Blocks)
          /\ last_sent \in Blocks
      BY DEF TypeOK
    <3>2. \A x \in Blocks : <<x>> \in Seq(Blocks)
      OBVIOUS
    <3>3. <<>> \in Seq(Blocks)
      OBVIOUS
    <3> QED BY <1>2, <2>1, <3>1, <3>2, <3>3, Zenon
  <2> QED BY <1>1, <2>3, <2>4, <2>5, Zenon DEF TypeOK, writer
<1>7. InHand'
  <2>1. IsFiniteSet(checkpoints')
    BY <1>3, <1>4, FS_EmptySet, Zenon DEF InHand
  <2>2. call'.at # "check" /\ (call'.at = "send" => parents' # <<>>)
    BY <1>3, <1>4 DEF Idle
  <2> QED BY <1>1, <2>1, <2>2, Zenon DEF InHand
<1>8. Phases'
  <2>1. CASE ends
    <3>1. ~sending'
      BY <1>3, <2>1, Zenon
    <3> QED BY <1>1, <1>5, <2>1, <3>1, Zenon DEF Phases, Low
  <2>2. CASE ~ends
    <3>1. sending' = sending /\ (~sending \/ call' = Idle)
      BY <1>4, <2>2
    <3> QED BY <1>1, <3>1 DEF Phases, Low, Idle
  <2> QED BY <2>1, <2>2, Zenon
<1>9. InMemory'
  BY <1>1, InMemoryUnchanged, Zenon
<1>10. SentAreKnown'
  <2>1. SentOn' = SentOn
    BY <1>1 DEF SentOn, Commits
  <2>2. ends => SentOn = {}
    BY <1>5 DEF Phases, SentOn, Commits
  <2> QED BY <1>1, <1>4, <2>1, <2>2, Zenon DEF SentAreKnown, Low
<1>11. NothingCommittedTwice'
  BY <1>1, Zenon DEF NothingCommittedTwice
<1>12. QueueAgrees'
  BY <1>1, <1>3, <1>4, Zenon DEF QueueAgrees
<1> QED BY <1>6, <1>7, <1>8, <1>9, <1>10, <1>11, <1>12, Zenon

\* One round of the loop that empties the queue: what it sends was only in the
\* queue, and it sends each block once.
LEMMA SendKeeps ==
    ASSUME InductiveInvariant, Send
    PROVE  InductiveInvariant'
<1> USE DEF InductiveInvariant, service, checkpoint, channels, crosslink
<1> DEFINE kids == Children(parents[Len(parents)])
           Msgs == [type : {"commit", "finalize"}, block : Blocks]
<1>1. PICK order \in Bijection(1 .. Cardinality(kids), kids) :
        LET all == batch \o order
            stack == SubSeq(parents, 1, Len(parents) - 1) \o order
        IN  /\ Dequeue(kids)
            /\ sent' = sent \cup kids
            /\ toMemory' = toMemory \o [i \in DOMAIN order |-> Commit(order[i])]
            /\ parents' = stack
            /\ IF stack # <<>>
               THEN batch' = all /\ UNCHANGED <<bufs, call>>
               ELSE /\ batch' = <<>>
                    /\ bufs' = bufs \cup ({all} \ {<<>>})
                    /\ call' = IF call.prune THEN [at |-> "prune"] ELSE Idle
  BY Zenon DEF Send
<1>2. /\ UNCHANGED <<checkpoint, toDisk, reset, writer, crosslink, faults>>
      /\ UNCHANGED <<checkpoints, sending, db, chains, todo, published, decided, asked>>
      /\ call.at = "send" /\ parents # <<>> /\ ~sending
  BY Zenon DEF Send, writer, InHand, Phases
<1>3. kids \subseteq queue /\ kids \subseteq Blocks /\ IsFiniteSet(kids)
  <2>1. kids \subseteq queue
    BY DEF Children
  <2> QED BY <2>1, FS_Subset, Zenon DEF InHand, TypeOK
<1> HIDE DEF kids
<1> DEFINE n == Cardinality(kids)
<1>4. /\ n \in Nat /\ DOMAIN order = 1 .. n /\ order \in Seq(Blocks) /\ Len(order) = n
      /\ \A i \in 1 .. n : order[i] \in kids
      /\ \A i, j \in 1 .. n : order[i] = order[j] => i = j
  <2>1. n \in Nat
    BY <1>3, FS_CardinalityType, Zenon
  <2> HIDE DEF n
  <2>2. order \in [1 .. n -> kids] /\ \A i, j \in 1 .. n : order[i] = order[j] => i = j
    BY <1>1 DEF n, Bijection, Injection, IsInjective
  <2>3. order \in [1 .. n -> Blocks]
    BY <1>3, <2>2, Zenon
  <2> QED BY <2>1, <2>2, <2>3
<1> HIDE DEF n
<1> DEFINE new == [i \in DOMAIN order |-> Commit(order[i])]
           L == Len(toMemory)
<1>5. /\ new \in Seq(Msgs) /\ Len(new) = n
      /\ \A i \in 1 .. n : new[i] = Commit(order[i])
  <2>1. new = [i \in 1 .. n |-> Commit(order[i])]
    BY <1>4, Zenon
  <2>2. \A i \in 1 .. n : Commit(order[i]) \in Msgs
    BY <1>3, <1>4, Zenon DEF Commit
  <2>3. new \in [1 .. n -> Msgs]
    BY <2>1, <2>2, Zenon
  <2> QED BY <1>4, <2>1, <2>3
<1>6. toMemory \in Seq(Msgs) /\ L \in Nat /\ DOMAIN toMemory = 1 .. L
  BY DEF TypeOK
<1>7. toMemory' = toMemory \o new
  BY <1>1, Zenon
<1> HIDE DEF new, Msgs
<1>8. /\ toMemory' \in Seq(Msgs) /\ DOMAIN toMemory' = 1 .. (L + n)
      /\ \A i \in 1 .. (L + n) :
           toMemory'[i] = IF i <= L THEN toMemory[i] ELSE Commit(order[i - L])
  <2>1. /\ toMemory' \in Seq(Msgs) /\ Len(toMemory') = L + n
        /\ \A i \in 1 .. (L + n) :
             toMemory'[i] = IF i <= L THEN toMemory[i] ELSE new[i - L]
    BY <1>5, <1>6, <1>7, ConcatProperties, Zenon
  <2>2. \A i \in 1 .. (L + n) : ~(i <= L) => i - L \in 1 .. n
    BY <1>4, <1>6
  <2> QED BY <1>5, <2>1, <2>2
<1> HIDE DEF L
<1>9. ASSUME NEW i \in DOMAIN toMemory', toMemory'[i].type = "commit"
      PROVE  \/ i \in DOMAIN toMemory /\ toMemory'[i] = toMemory[i]
             \/ /\ i - L \in 1 .. n /\ toMemory'[i] = Commit(order[i - L])
                /\ toMemory'[i].block \in kids
  <2>1. CASE i <= L
    BY <1>4, <1>6, <1>8, <2>1
  <2>2. CASE ~(i <= L)
    <3>1. i - L \in 1 .. n /\ toMemory'[i] = Commit(order[i - L])
      <4>1. i \in 1 .. (L + n)
        BY <1>8, Zenon
      <4>2. toMemory'[i] = Commit(order[i - L])
        BY <1>8, <2>2, <4>1, Zenon
      <4>3. i - L \in 1 .. n
        BY <1>4, <1>6, <2>2, <4>1
      <4> QED BY <4>2, <4>3, Zenon
    <3>2. Commit(order[i - L]).block = order[i - L]
      BY DEF Commit
    <3> QED BY <1>4, <3>1, <3>2, Zenon
  <2> QED BY <2>1, <2>2, Zenon
<1>10. queue' = queue \ kids /\ sent' = sent \cup kids
       /\ byHeight' = {b \in byHeight : \A k \in kids : HeightOf[b] # HeightOf[k]}
  BY <1>1 DEF Dequeue
<1>11. /\ parents' \in Seq(Blocks) /\ batch' \in Seq(Blocks) /\ bufs' \subseteq Seq(Blocks)
       /\ call' \in {call, Idle, [at |-> "prune"]}
       /\ call'.at = "send" => parents' # <<>>
  <2> DEFINE stack == SubSeq(parents, 1, Len(parents) - 1) \o order
             all == batch \o order
  <2>1. batch \in Seq(Blocks) /\ parents \in Seq(Blocks) /\ bufs \subseteq Seq(Blocks)
    BY DEF TypeOK
  <2>2. SubSeq(parents, 1, Len(parents) - 1) \in Seq(Blocks)
    <3>1. 1 \in Int /\ Len(parents) - 1 \in Int
          /\ \A i \in 1 .. Len(parents) - 1 : parents[i] \in Blocks
      BY <2>1
    <3> QED BY <3>1, SubSeqProperties, Zenon
  <2>3. stack \in Seq(Blocks) /\ all \in Seq(Blocks)
    BY <1>4, <2>1, <2>2, ConcatProperties, Zenon
  <2>4. /\ parents' = stack
        /\ \/ stack # <<>> /\ batch' = all /\ bufs' = bufs /\ call' = call
           \/ /\ batch' = <<>> /\ bufs' = bufs \cup ({all} \ {<<>>})
              /\ call' \in {Idle, [at |-> "prune"]}
    BY <1>1, Zenon
  <2> HIDE DEF stack, all
  <2>5. parents' \in Seq(Blocks) /\ batch' \in Seq(Blocks) /\ bufs' \subseteq Seq(Blocks)
    BY <2>1, <2>3, <2>4, EmptySeq, Zenon
  <2>6. call' \in {call, Idle, [at |-> "prune"]} /\ (call'.at = "send" => parents' # <<>>)
    BY <2>4 DEF Idle
  <2> QED BY <2>5, <2>6, Zenon
<1>12. TypeOK'
  <2>1. queue' \subseteq Blocks /\ byHeight' \subseteq Blocks /\ sent' \subseteq Blocks
    BY <1>3, <1>10, Zenon DEF TypeOK
  <2> QED BY <1>2, <1>8, <1>11, <2>1 DEF TypeOK, writer, Msgs
<1>13. InHand'
  <2>1. IsFiniteSet(queue')
    BY <1>10, FS_Subset, Zenon DEF InHand
  <2>2. call'.at # "check"
    BY <1>2, <1>11 DEF Idle
  <2> QED BY <1>2, <1>10, <1>11, <2>1, <2>2, Zenon DEF InHand
<1>14. Phases'
  BY <1>2 DEF Phases, Low
<1>15. InMemory'
  BY <1>2, InMemoryUnchanged, Zenon
<1>16. SentAreKnown'
  <2>1. ASSUME NEW b \in SentOn' PROVE b \in SentOn \/ b \in kids
    <3>1. CASE b \in UNION chains
      BY <3>1, Zenon DEF SentOn
    <3>2. CASE b \in Commits'
      <4>1. PICK i \in DOMAIN toMemory' : toMemory'[i].type = "commit" /\ b = toMemory'[i].block
        BY <3>2, Zenon DEF Commits
      <4> QED BY <1>9, <4>1, Zenon DEF SentOn, Commits
    <3> QED BY <1>2, <3>1, <3>2, Zenon DEF SentOn
  <2>2. \A b \in SentOn' : b \in sent' \/ Low(b)'
    BY <1>2, <1>10, <2>1, Zenon DEF SentAreKnown, Low
  <2>3. queue' \cap (SentOn' \cup Ancestors[db']) = {}
    BY <1>2, <1>10, <2>1, Zenon DEF SentAreKnown
  <2> QED BY <2>2, <2>3, Zenon DEF SentAreKnown
<1>17. NothingCommittedTwice'
  <2> SUFFICES ASSUME NEW i \in DOMAIN toMemory', toMemory'[i].type = "commit"
               PROVE  /\ toMemory'[i].block \notin (UNION chains) \cup Ancestors[db]
                      /\ \A j \in DOMAIN toMemory' : toMemory'[j] = toMemory'[i] => j = i
    BY <1>2, Zenon DEF NothingCommittedTwice
  <2>1. \A k \in kids : k \notin (UNION chains) \cup Ancestors[db] /\ k \notin Commits
    <3>1. \A k \in queue : k \notin SentOn \cup Ancestors[db]
      BY DEF SentAreKnown
    <3>2. \A k : k \in Commits \/ k \in UNION chains => k \in SentOn
      BY DEF SentOn
    <3>3. \A k \in kids : k \notin SentOn /\ k \notin Ancestors[db]
      BY <1>3, <3>1, Zenon
    <3>4. \A k \in kids : k \notin Commits /\ k \notin UNION chains
      BY <3>2, <3>3, Zenon
    <3> QED BY <3>3, <3>4, Zenon
  <2>2. toMemory'[i].block \notin (UNION chains) \cup Ancestors[db]
    BY <1>9, <2>1, Zenon DEF NothingCommittedTwice
  <2>3. ASSUME NEW j \in DOMAIN toMemory', toMemory'[j] = toMemory'[i] PROVE j = i
    <3>1. CASE i \in DOMAIN toMemory /\ toMemory'[i] = toMemory[i]
      <4>1. toMemory'[i].block \in Commits
        BY <3>1, Zenon DEF Commits
      <4>2. j \in DOMAIN toMemory /\ toMemory'[j] = toMemory[j]
        BY <1>9, <2>1, <2>3, <4>1, Zenon
      <4> QED BY <2>3, <3>1, <4>2, Zenon DEF NothingCommittedTwice
    <3>2. CASE /\ i - L \in 1 .. n /\ toMemory'[i] = Commit(order[i - L])
               /\ toMemory'[i].block \in kids
      <4>1. ~(j \in DOMAIN toMemory /\ toMemory'[j] = toMemory[j])
        BY <2>1, <2>3, <3>2, Zenon DEF Commits
      <4>2. j - L \in 1 .. n /\ toMemory'[j] = Commit(order[j - L])
        BY <1>9, <2>3, <4>1, Zenon
      <4>3. order[i - L] = order[j - L]
        BY <2>3, <3>2, <4>2 DEF Commit
      <4>4. i - L = j - L
        BY <1>4, <3>2, <4>2, <4>3, Zenon
      <4>5. i \in Int /\ j \in Int /\ L \in Int
        BY <1>6, <1>8
      <4> QED BY <4>4, <4>5
    <3> QED BY <1>9, <3>1, <3>2, Zenon
  <2> QED BY <2>2, <2>3, Zenon
<1>18. QueueAgrees'
  BY <1>3, <1>10, Zenon DEF QueueAgrees
<1> QED BY <1>12, <1>13, <1>14, <1>15, <1>16, <1>17, <1>18, Zenon

\* Pruning: SentHashes only forgets blocks at or below the finalized tip.
LEMMA PruneKeeps ==
    ASSUME InductiveInvariant, Prune
    PROVE  InductiveInvariant'
<1> USE DEF InductiveInvariant, service, checkpoint, channels, crosslink
<1> DEFINE old == UNION {{s[i] : i \in Expired(s)} : s \in bufs}
<1>1. /\ UNCHANGED <<batch, parents, checkpoint, channels, writer, crosslink, faults>>
      /\ UNCHANGED <<db, chains, todo, published, toMemory, sending, checkpoints>>
      /\ queue' = queue \ {b \in byHeight : Low(b)}
      /\ byHeight' = {b \in byHeight : ~Low(b)}
      /\ sent' = sent \ old /\ bufs' = {Rest(s) : s \in bufs} \ {<<>>} /\ call' = Idle
  BY DEF Prune, writer
<1>2. \A b \in old : Low(b)
  <2> SUFFICES ASSUME NEW s \in bufs, NEW i \in Expired(s) PROVE Low(s[i])
    BY Zenon
  <2>1. i \in DOMAIN s /\ s \in Seq(Blocks) /\ \A j \in 1 .. i : Low(s[j])
    BY Zenon DEF Expired, TypeOK
  <2>2. i \in 1 .. i
    BY <2>1
  <2> QED BY <2>1, <2>2, Zenon
<1> HIDE DEF old
<1>3. bufs' \subseteq Seq(Blocks)
  <2> SUFFICES ASSUME NEW s \in bufs PROVE Rest(s) \in Seq(Blocks)
    BY <1>1, Zenon
  <2>1. s \in Seq(Blocks) /\ Len(s) \in Nat /\ DOMAIN s = 1 .. Len(s)
    BY DEF TypeOK
  <2>2. Cardinality(Expired(s)) \in Nat
    <3>1. IsFiniteSet(1 .. Len(s))
      BY <2>1, FS_Interval
    <3>2. Expired(s) \subseteq 1 .. Len(s)
      BY <2>1 DEF Expired
    <3> QED BY <3>1, <3>2, FS_Subset, FS_CardinalityType, Zenon
  <2>3. \A i \in Cardinality(Expired(s)) + 1 .. Len(s) : s[i] \in Blocks
    BY <2>1, <2>2
  <2>4. Cardinality(Expired(s)) + 1 \in Int /\ Len(s) \in Int
    BY <2>1, <2>2
  <2> QED BY <2>3, <2>4, SubSeqProperties DEF Rest
<1>4. TypeOK'
  BY <1>1, <1>3, Zenon DEF TypeOK, writer
<1>5. InHand'
  <2>1. IsFiniteSet(queue')
    BY <1>1, FS_Subset, Zenon DEF InHand
  <2> QED BY <1>1, <2>1, Zenon DEF InHand, Idle
<1>6. Phases'
  BY <1>1 DEF Phases, Low, Idle
<1>7. InMemory'
  BY <1>1, InMemoryUnchanged, Zenon
<1>8. SentAreKnown'
  <2>1. SentOn' = SentOn
    BY <1>1, Zenon DEF SentOn, Commits
  <2> QED BY <1>1, <1>2, <2>1, Zenon DEF SentAreKnown, Low
<1>9. NothingCommittedTwice'
  BY <1>1, Zenon DEF NothingCommittedTwice
<1>10. QueueAgrees'
  BY <1>1, Zenon DEF QueueAgrees
<1> QED BY <1>4, <1>5, <1>6, <1>7, <1>8, <1>9, <1>10, Zenon

-------------------------------------------------------------------------------
\* What is sent for checkpoint blocks that follow on: all of them are ones.
LEMMA DrainTypes ==
    ASSUME TypeOK, IsFiniteSet(checkpoints), NEW b \in Checkpointed,
           Drain(checkpoints \cup {b})
    PROVE  /\ reset' \in Seq(Blocks) /\ checkpoints' \subseteq Checkpointed
           /\ IsFiniteSet(checkpoints')
           /\ last_sent' \in Blocks /\ toDisk' \in Seq(Checkpointed)
<1> DEFINE cs == checkpoints \cup {b}
           from == IF reset = <<>> THEN last_sent ELSE Head(reset)
           run == Following(from, cs)
<1>1. cs \subseteq Checkpointed /\ IsFiniteSet(cs) /\ Checkpointed \subseteq Blocks
  BY FS_AddElement, QueueAssumption, Zenon DEF TypeOK
<1>2. from \in Blocks /\ reset' \in Seq(Blocks)
  BY DEF TypeOK, Drain
<1>3. /\ checkpoints' = cs \ run
      /\ last_sent' = IF run = {} THEN from ELSE Tip(run)
      /\ toDisk' = toDisk \o Between(from, last_sent')
  BY Zenon DEF Drain
<1> HIDE DEF cs, from
<1>4. run \subseteq cs /\ \A c \in run : from \in Ancestors[c]
  BY DEF Following, Above
<1> HIDE DEF run
<1>5. IsFiniteSet(run) /\ IsFiniteSet(checkpoints') /\ checkpoints' \subseteq Checkpointed
  BY <1>1, <1>3, <1>4, FS_Subset, Zenon
<1>6. run # {} => Tip(run) \in run
  <2> SUFFICES ASSUME run # {} PROVE Tip(run) \in run
    OBVIOUS
  <2> DEFINE R == {p \in run \X run : HeightOf[p[2]] <= HeightOf[p[1]]}
  <2>1. \A c \in run : HeightOf[c] \in Nat
    BY <1>1, <1>4, HeightType, Zenon
  <2>2. \A x, y \in run : <<x, y>> \in R <=> HeightOf[y] <= HeightOf[x]
    OBVIOUS
  <2> HIDE DEF R
  <2>3. \A x, y \in run : x # y => <<x, y>> \in R \/ <<y, x>> \in R
    BY <2>1, <2>2
  <2>4. \A x, y, z \in run : <<x, y>> \in R /\ <<y, z>> \in R => <<x, z>> \in R
    BY <2>1, <2>2
  <2>5. \E m \in run : \A x \in run \ {m} : <<m, x>> \in R
    BY <1>5, <2>3, <2>4, GreatestExists, Zenon
  <2>6. \E m \in run : \A x \in run : HeightOf[x] <= HeightOf[m]
    <3>1. PICK m \in run : \A x \in run \ {m} : <<m, x>> \in R
      BY <2>5
    <3>2. \A x \in run : x = m \/ HeightOf[x] <= HeightOf[m]
      BY <2>2, <3>1, Zenon
    <3>3. \A x \in run : HeightOf[x] <= HeightOf[m]
      BY <2>1, <3>2
    <3> QED BY <3>3
  <2> QED BY <2>6 DEF Tip
<1>7. last_sent' = from \/ last_sent' \in run
  BY <1>3, <1>6, Zenon
<1>8. last_sent' \in Blocks
  BY <1>1, <1>2, <1>4, <1>7
<1> DEFINE more == Between(from, last_sent')
           n == HeightOf[last_sent'] - HeightOf[from]
<1>9. more \in Seq(Checkpointed)
  <2>1. CASE run = {}
    <3>1. more = [i \in 1 .. HeightOf[from] - HeightOf[from] |-> BlockAt(from, HeightOf[from] + i)]
      BY <1>3, <2>1, Zenon DEF Between
    <3>2. 1 .. HeightOf[from] - HeightOf[from] = {}
      BY <1>2, HeightType
    <3>3. more = <<>>
      BY <3>1, <3>2
    <3> QED BY <3>3, EmptySeq
  <2>2. CASE run # {}
    <3>0. last_sent' \in run
      BY <1>3, <1>6, <2>2, Zenon
    <3>1. last_sent' \in Checkpointed /\ from \in Ancestors[last_sent']
      BY <1>1, <1>4, <3>0, Zenon
    <3>2. HeightOf[from] \in Nat /\ HeightOf[last_sent'] \in Nat
          /\ HeightOf[from] <= HeightOf[last_sent']
      BY <1>2, <1>8, <3>1, HeightType, AncestorLower, Zenon
    <3>3. ASSUME NEW i \in 1 .. n
          PROVE  BlockAt(last_sent', HeightOf[from] + i) \in Checkpointed
      <4>1. HeightOf[from] + i \in 0 .. HeightOf[last_sent'] /\ HeightOf[from] + i # 0
        BY <3>2
      <4>2. /\ BlockAt(last_sent', HeightOf[from] + i) \in Ancestors[last_sent']
            /\ HeightOf[BlockAt(last_sent', HeightOf[from] + i)] # 0
        BY <1>8, <4>1, BlockAtHeight, Zenon
      <4> QED BY <3>1, <4>2, HeightType, QueueAssumption, Zenon
    <3>4. n \in Nat
      BY <3>2
    <3>5. more \in [1 .. n -> Checkpointed]
      BY <3>3, Zenon DEF Between
    <3> QED BY <3>4, <3>5
  <2> QED BY <2>1, <2>2
<1>10. toDisk' \in Seq(Checkpointed)
  <2>1. toDisk \in Seq(Checkpointed)
    BY DEF TypeOK
  <2>2. toDisk' = toDisk \o more
    BY <1>3, Zenon
  <2> HIDE DEF more
  <2> QED BY <1>9, <2>1, <2>2, ConcatProperties, Zenon
<1> QED BY <1>2, <1>5, <1>8, <1>10, Zenon

\* A checkpoint verified block: it is never one that the queue holds.
LEMMA SubmitCheckpointKeeps ==
    ASSUME InductiveInvariant, NEW b \in Blocks, SubmitCheckpoint(b)
    PROVE  InductiveInvariant'
<1> USE DEF InductiveInvariant, service, checkpoint, channels, crosslink
<1>1. /\ UNCHANGED <<queue, byHeight, bufs, call, parents, sending, toMemory, writer,
                     crosslink, faults>>
      /\ UNCHANGED <<db, chains, todo, published, decided, asked>>
      /\ b \in Checkpointed
  BY DEF SubmitCheckpoint, writer
<1>2. /\ sent \subseteq sent' /\ sent' \subseteq sent \cup {b}
      /\ batch' \in Seq(Blocks) /\ sent' \subseteq Blocks
  <2>1. \/ sent' = sent \cup {b} /\ batch' = Append(batch, b)
        \/ sent' = sent /\ batch' = batch
    BY Zenon DEF SubmitCheckpoint
  <2>2. batch \in Seq(Blocks) /\ sent \subseteq Blocks /\ Append(batch, b) \in Seq(Blocks)
    BY AppendProperties DEF TypeOK
  <2> QED BY <2>1, <2>2, Zenon
<1>3. /\ reset' \in Seq(Blocks) /\ checkpoints' \subseteq Checkpointed
      /\ IsFiniteSet(checkpoints')
      /\ last_sent' \in Blocks /\ toDisk' \in Seq(Checkpointed)
  <2>1. CASE sending
    BY <1>1, <2>1, DrainTypes, Zenon DEF SubmitCheckpoint, InHand
  <2>2. CASE ~sending
    <3>1. checkpoints' = {} /\ UNCHANGED <<last_sent, toDisk, reset>>
      BY <2>2, Zenon DEF SubmitCheckpoint
    <3> QED BY <3>1, FS_EmptySet, Zenon DEF TypeOK
  <2> QED BY <2>1, <2>2, Zenon
<1>4. b \notin queue
  <2>1. ~(HeightOf[b] < HeightOf[b])
    BY HeightType
  <2> QED BY <1>1, <2>1, Zenon DEF InHand
<1>5. TypeOK'
  BY <1>1, <1>2, <1>3, Zenon DEF TypeOK, writer
<1>6. InHand'
  BY <1>1, <1>3, Zenon DEF InHand
<1>7. Phases'
  BY <1>1 DEF Phases, Low
<1>8. InMemory'
  BY <1>1, InMemoryUnchanged, Zenon
<1>9. SentAreKnown'
  <2>1. SentOn' = SentOn
    BY <1>1, Zenon DEF SentOn, Commits
  <2> QED BY <1>1, <1>2, <2>1, Zenon DEF SentAreKnown, Low
<1>10. NothingCommittedTwice'
  BY <1>1, Zenon DEF NothingCommittedTwice
<1>11. QueueAgrees'
  BY <1>1, <1>2, <1>4, Zenon DEF QueueAgrees
<1> QED BY <1>5, <1>6, <1>7, <1>8, <1>9, <1>10, <1>11, Zenon

\* The Crosslink service asks for the block of the last decision.
LEMMA CrosslinkFinalizeKeeps ==
    ASSUME InductiveInvariant, CrosslinkFinalize
    PROVE  InductiveInvariant'
<1> USE DEF InductiveInvariant, service, checkpoint, channels, crosslink
<1> DEFINE m == Finalize(Decisions[decided])
           Msgs == [type : {"commit", "finalize"}, block : Blocks]
<1>1. /\ UNCHANGED <<service, checkpoint, toDisk, reset, writer, decided, faults>>
      /\ UNCHANGED <<queue, byHeight, sent, call, parents, checkpoints, sending, db,
                     chains, todo, published>>
      /\ asked < decided /\ asked' = decided
      /\ toMemory' = IF sending THEN toMemory ELSE Append(toMemory, m)
  BY Zenon DEF CrosslinkFinalize, writer
<1>2. decided \in 1 .. Len(Decisions) /\ toMemory \in Seq(Msgs)
  BY <1>1, QueueAssumption DEF TypeOK, InHand
<1>3. m \in Msgs /\ m.type # "commit"
  <2>1. Decisions[decided] \in Blocks
    BY <1>2, QueueAssumption
  <2> QED BY <2>1, Zenon DEF Finalize
<1> HIDE DEF m, Msgs
<1>4. toMemory' \in Seq(Msgs)
  BY <1>1, <1>2, <1>3, AppendProperties, Zenon
<1>5. \A i \in DOMAIN toMemory' : toMemory'[i].type = "commit" =>
        i \in DOMAIN toMemory /\ toMemory'[i] = toMemory[i]
  <2>1. CASE toMemory' = toMemory
    BY <2>1
  <2>2. CASE toMemory' = Append(toMemory, m)
    <3>1. /\ Len(toMemory') = Len(toMemory) + 1
          /\ \A i \in 1 .. Len(toMemory) : toMemory'[i] = toMemory[i]
          /\ toMemory'[Len(toMemory) + 1] = m
      BY <1>2, <1>3, <2>2, AppendProperties
    <3>2. /\ Len(toMemory) \in Nat /\ DOMAIN toMemory = 1 .. Len(toMemory)
          /\ DOMAIN toMemory' = 1 .. Len(toMemory')
      BY <1>2, <1>4
    <3> QED BY <1>3, <3>1, <3>2
  <2> QED BY <1>1, <2>1, <2>2, Zenon
<1>6. TypeOK'
  BY <1>1, <1>4, Zenon DEF TypeOK, writer, Msgs
<1>7. InHand'
  BY <1>1, Zenon DEF InHand
<1>8. Phases'
  BY <1>1 DEF Phases, Low
<1>9. InMemory'
  BY <1>1, InMemoryUnchanged, Zenon
<1>10. SentAreKnown'
  <2>1. SentOn' \subseteq SentOn
    BY <1>1, <1>5, Zenon DEF SentOn, Commits
  <2> QED BY <1>1, <2>1, Zenon DEF SentAreKnown, Low
<1>11. NothingCommittedTwice'
  <2>1. ASSUME NEW i \in DOMAIN toMemory', toMemory'[i].type = "commit",
               NEW j \in DOMAIN toMemory', toMemory'[j] = toMemory'[i]
        PROVE  j = i
    BY <1>5, <2>1, Zenon DEF NothingCommittedTwice
  <2> QED BY <1>1, <1>5, <2>1, Zenon DEF NothingCommittedTwice
<1>12. QueueAgrees'
  BY <1>1, Zenon DEF QueueAgrees
<1> QED BY <1>6, <1>7, <1>8, <1>9, <1>10, <1>11, <1>12

\* Tenderlink decides.
LEMMA DecideKeeps ==
    ASSUME InductiveInvariant, Decide
    PROVE  InductiveInvariant'
<1> USE DEF InductiveInvariant, service, checkpoint, channels, crosslink
<1>1. /\ UNCHANGED <<service, checkpoint, channels, writer, asked, faults>>
      /\ UNCHANGED <<queue, byHeight, sent, call, parents, checkpoints, sending, toMemory,
                     db, chains, todo, published>>
      /\ decided < Len(Decisions) /\ decided' = decided + 1
  BY Zenon DEF Decide, writer
<1>2. TypeOK'
  BY <1>1 DEF TypeOK, writer
<1>3. InHand'
  <2>1. decided \in Nat /\ Len(Decisions) \in Nat
    BY QueueAssumption DEF TypeOK
  <2>2. decided' <= Len(Decisions)
    BY <1>1, <2>1
  <2> QED BY <1>1, <2>2, Zenon DEF InHand
<1>4. Phases'
  BY <1>1 DEF Phases, Low
<1>5. InMemory'
  BY <1>1, InMemoryUnchanged, Zenon
<1>6. SentAreKnown'
  BY <1>1, Zenon DEF SentAreKnown, Low, SentOn, Commits
<1>7. NothingCommittedTwice' /\ QueueAgrees'
  BY <1>1 DEF NothingCommittedTwice, QueueAgrees
<1> QED BY <1>2, <1>3, <1>4, <1>5, <1>6, <1>7, Zenon
===============================================================================
