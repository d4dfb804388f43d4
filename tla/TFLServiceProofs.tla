--------------------------- MODULE TFLServiceProofs ---------------------------
(***************************************************************************)
(* Proofs that the PoS store file and the rosters in it follow the decided *)
(* chain through any number of blocks, crashes and restarts, for every PoW *)
(* tree.                                                                   *)
(***************************************************************************)
EXTENDS TFLService, ChainSetProofs, SequenceTheorems

(* The points at which the task has the decided block of its height in     *)
(* hand, and those at which it has inserted it and not yet stored it.      *)
Handling == {"validate_known", "handle_known", "handle_height",
             "handle_insert", "handle_finalize", "handle_store"}
Inserted == {"handle_finalize", "handle_store"}

(* The file: its valid records are those of the first decided blocks. *)
FileInvariant ==
    LET n == ValidCount(file) IN
    /\ decided \in Seq(Blocks)
    /\ file \in Seq(Records \cup {Torn})
    /\ n \in 0 .. Len(file) /\ n <= Len(decided)
    /\ \A i \in 1 .. n : Follows(file, i) /\ file[i].block = DecidedBlock(i)

(* The memory of a running node, whose file has m records. *)
Memory(n, m) ==
    /\ height = n + 1 /\ Len(file) = n /\ m <= Len(decided)
    /\ bft_blocks = [i \in 1 .. m |-> DecidedBlock(i)]
    /\ fat_pointer_to_tip = SubSeq(decided, 1, m)

(* StoreFollowsConsensus, with what makes it inductive: the types, and     *)
(* that the block in hand is the next decided one.                         *)
StoreInvariant ==
    LET n == ValidCount(file) IN
    /\ FileInvariant
    /\ roster \in Rosters
    /\ pc = "handle_store" => arg \in Blocks \cup {None}
    /\ pc # "down" /\ pc \notin Inserted => Memory(n, n)
    /\ pc \in Inserted => Memory(n, n + 1)
    /\ pc \in Handling => n + 1 <= Len(decided) /\ block = DecidedBlock(n + 1)

-------------------------------------------------------------------------------
(* Sequences *)

(* What a prefix of a sequence is. *)
LEMMA PrefixFacts ==
    ASSUME NEW S, NEW d \in Seq(S), NEW h \in 0 .. Len(d)
    PROVE  /\ SubSeq(d, 1, h) \in Seq(S)
           /\ Len(SubSeq(d, 1, h)) = h
           /\ \A i \in 1 .. h : SubSeq(d, 1, h)[i] = d[i]
  BY SubSeqProperties

(* The block before a decided one: PreviousHash undoes one decision. *)
LEMMA PrefixOfPrefix ==
    ASSUME NEW S, NEW d \in Seq(S), NEW h \in 1 .. Len(d)
    PROVE  SubSeq(SubSeq(d, 1, h), 1, h - 1) = SubSeq(d, 1, h - 1)
  <1> DEFINE e == SubSeq(d, 1, h)
  <1>1. e \in Seq(S) /\ Len(e) = h /\ \A i \in 1 .. h : e[i] = d[i]
    BY PrefixFacts
  <1>2. h - 1 \in 0 .. Len(e) /\ h - 1 \in 0 .. Len(d)
    BY <1>1
  <1> HIDE DEF e
  <1>3. /\ SubSeq(e, 1, h - 1) \in Seq(S) /\ Len(SubSeq(e, 1, h - 1)) = h - 1
        /\ \A i \in 1 .. h - 1 : SubSeq(e, 1, h - 1)[i] = e[i]
    BY <1>1, <1>2, PrefixFacts
  <1>4. /\ SubSeq(d, 1, h - 1) \in Seq(S) /\ Len(SubSeq(d, 1, h - 1)) = h - 1
        /\ \A i \in 1 .. h - 1 : SubSeq(d, 1, h - 1)[i] = d[i]
    BY <1>2, PrefixFacts
  <1>5. SubSeq(e, 1, h - 1) = SubSeq(d, 1, h - 1)
    BY <1>1, <1>3, <1>4, SeqEqual
  <1> QED BY <1>5 DEF e

(* A decision changes no earlier prefix. *)
LEMMA PrefixOfAppend ==
    ASSUME NEW S, NEW d \in Seq(S), NEW c \in S, NEW h \in 0 .. Len(d)
    PROVE  SubSeq(Append(d, c), 1, h) = SubSeq(d, 1, h)
  <1>1. Append(d, c) \in Seq(S) /\ Len(Append(d, c)) = Len(d) + 1
    BY AppendProperties
  <1>2. \A i \in 1 .. Len(d) : Append(d, c)[i] = d[i]
    BY AppendProperties
  <1>3. /\ SubSeq(Append(d, c), 1, h) \in Seq(S)
        /\ Len(SubSeq(Append(d, c), 1, h)) = h
        /\ \A i \in 1 .. h : SubSeq(Append(d, c), 1, h)[i] = Append(d, c)[i]
    BY <1>1, PrefixFacts
  <1>4. /\ SubSeq(d, 1, h) \in Seq(S) /\ Len(SubSeq(d, 1, h)) = h
        /\ \A i \in 1 .. h : SubSeq(d, 1, h)[i] = d[i]
    BY PrefixFacts
  <1> QED BY <1>2, <1>3, <1>4, SeqEqual

(* ValidCount is the only count that startup can stop at. *)
LEMMA ValidCountUnique ==
    ASSUME NEW f, Len(f) \in Nat, NEW n \in 0 .. Len(f),
           \A i \in 1 .. n : Follows(f, i),
           n < Len(f) => ~Follows(f, n + 1)
    PROVE  ValidCount(f) = n
  <1> DEFINE P(k) == /\ \A i \in 1 .. k : Follows(f, i)
                     /\ k < Len(f) => ~Follows(f, k + 1)
  <1> HIDE DEF P
  <1>1. P(n)
    BY DEF P
  <1>2. \A k \in 0 .. Len(f) : P(k) => k = n
    <2> SUFFICES ASSUME NEW k \in 0 .. Len(f), P(k), k # n PROVE FALSE
      OBVIOUS
    <2>1. CASE k < n
      BY <2>1 DEF P
    <2>2. CASE n < k
      BY <2>2 DEF P
    <2> QED BY <2>1, <2>2
  <1>3. ValidCount(f) = CHOOSE k \in 0 .. Len(f) : P(k)
    BY DEF ValidCount, P
  <1> QED BY <1>1, <1>2, <1>3

(* Whether a record follows depends on it and the one before it only. *)
LEMMA FollowsSame ==
    ASSUME NEW f, NEW g, NEW n \in Nat,
           \A i \in 1 .. n : g[i] = f[i],
           \A i \in 1 .. n : Follows(f, i)
    PROVE  \A i \in 1 .. n : Follows(g, i)
  <1> SUFFICES ASSUME NEW i \in 1 .. n PROVE Follows(g, i)
    OBVIOUS
  <1>1. g[i] = f[i] /\ Follows(f, i)
    OBVIOUS
  <1>2. CASE i = 1
    BY <1>1, <1>2 DEF Follows
  <1>3. CASE i > 1
    <2>1. g[i - 1] = f[i - 1]
      BY <1>3
    <2> QED BY <1>1, <1>3, <2>1 DEF Follows
  <1> QED BY <1>2, <1>3

-------------------------------------------------------------------------------
(* Steps that leave the file alone *)

fileVars == <<decided, file>>
memory == <<decided, file, height, bft_blocks, fat_pointer_to_tip, roster>>

LEMMA FileKept ==
    ASSUME FileInvariant, UNCHANGED fileVars
    PROVE  FileInvariant' /\ ValidCount(file)' = ValidCount(file)
  BY DEF FileInvariant, fileVars, DecidedBlock

(* The process stops: by a crash, or by a panic of its task. *)
LEMMA DownKeeps ==
    ASSUME FileInvariant', roster' = ConfigRoster, pc' = "down"
    PROVE  StoreInvariant'
  BY DEF StoreInvariant, Inserted, Handling, Rosters

(* The task moves between points at which it has inserted nothing. *)
LEMMA MoveKeeps ==
    ASSUME StoreInvariant, UNCHANGED memory,
           pc # "down", pc \notin Inserted, pc' # "down", pc' \notin Inserted,
           pc' \in Handling =>
              /\ height <= Len(decided)
              /\ block' = DecidedBlock(height)
    PROVE  StoreInvariant'
  <1>1. FileInvariant' /\ ValidCount(file)' = ValidCount(file)
    BY FileKept DEF StoreInvariant, memory, fileVars
  <1>2. Memory(ValidCount(file), ValidCount(file))
    BY DEF StoreInvariant
  <1>3. Memory(ValidCount(file), ValidCount(file))'
    BY <1>1, <1>2, Zenon DEF Memory, memory, DecidedBlock
  <1>4. pc' \in Handling =>
           /\ ValidCount(file)' + 1 <= Len(decided)'
           /\ block' = DecidedBlock(ValidCount(file) + 1)'
    BY <1>1, <1>2, Zenon DEF Memory, memory, DecidedBlock
  <1> QED
    BY <1>1, <1>3, <1>4, Zenon DEF StoreInvariant, memory, Inserted

-------------------------------------------------------------------------------
(* Steps of the network and of the task *)

(* Nothing that the invariant is about changes. *)
LEMMA OthersKeep ==
    ASSUME StoreInvariant, UNCHANGED <<memory, pc, arg, block>>
    PROVE  StoreInvariant'
  <1>1. FileInvariant' /\ ValidCount(file)' = ValidCount(file)
    BY FileKept, Zenon DEF StoreInvariant, memory, fileVars
  <1>2. /\ DecidedBlock(ValidCount(file) + 1)' = DecidedBlock(ValidCount(file) + 1)
        /\ Memory(ValidCount(file), ValidCount(file))'
              <=> Memory(ValidCount(file), ValidCount(file))
        /\ Memory(ValidCount(file), ValidCount(file) + 1)'
              <=> Memory(ValidCount(file), ValidCount(file) + 1)
    BY <1>1 DEF Memory, memory, DecidedBlock
  <1> QED
    BY <1>1, <1>2 DEF StoreInvariant, memory

(* The decided chain grows under a node that stores an earlier part of it. *)
LEMMA NetworkKeeps ==
    ASSUME StoreInvariant, NEW c \in Blocks, NetworkDecides(c)
    PROVE  StoreInvariant'
  <1> SUFFICES ASSUME NEW n \in Nat, n = ValidCount(file)
               PROVE  StoreInvariant'
    BY DEF StoreInvariant, FileInvariant
  <1>1. /\ decided \in Seq(Blocks) /\ decided' = Append(decided, c)
        /\ UNCHANGED <<pc, arg, block, height, internal, file>>
    BY DEF StoreInvariant, FileInvariant, NetworkDecides
  <1>2. /\ decided' \in Seq(Blocks) /\ Len(decided') = Len(decided) + 1
        /\ Len(decided) \in Nat
    BY <1>1
  <1>3. \A h \in 0 .. Len(decided) : DecidedBlock(h)' = DecidedBlock(h)
    BY <1>1, PrefixOfAppend, Zenon DEF DecidedBlock
  <1>4. \A h \in 0 .. Len(decided) :
           SubSeq(decided', 1, h) = SubSeq(decided, 1, h)
    BY <1>1, PrefixOfAppend
  <1>5. ValidCount(file)' = n /\ n \in Nat /\ n <= Len(decided)
    BY <1>1 DEF StoreInvariant, FileInvariant
  <1>6. FileInvariant'
    BY <1>1, <1>2, <1>3, <1>5 DEF StoreInvariant, FileInvariant
  <1>7. ASSUME NEW m \in {n, n + 1}, Memory(n, m)
        PROVE  Memory(n, m)'
    <2>1. m \in 0 .. Len(decided)
      BY <1>2, <1>5, <1>7 DEF Memory
    <2>2. \A i \in 1 .. m : DecidedBlock(i)' = DecidedBlock(i)
      BY <2>1, <1>2, <1>3
    <2> QED
      BY <2>1, <2>2, <1>1, <1>2, <1>4, <1>7 DEF Memory, internal
  <1>8. n + 1 <= Len(decided) =>
           n + 1 <= Len(decided') /\ DecidedBlock(n + 1)' = DecidedBlock(n + 1)
    BY <1>2, <1>3, <1>5
  <1> QED
    BY <1>1, <1>5, <1>6, <1>7, <1>8, Zenon DEF StoreInvariant, internal

(* Inserting the decided block at its index passes the asserts of          *)
(* handle_new_decided_bft_block, and makes it the tip.                     *)
LEMMA InsertKeeps ==
    ASSUME StoreInvariant, HandleInsert
    PROVE  StoreInvariant'
  <1> SUFFICES ASSUME NEW n \in Nat, n = ValidCount(file)
               PROVE  StoreInvariant'
    BY DEF StoreInvariant, FileInvariant
  <1> DEFINE blocks == Padded(block.height)
  <1>1. pc = "handle_insert"
    BY DEF HandleInsert
  <1>2. CASE Abort /\ UNCHANGED <<db, file>>
    <2>1. FileInvariant'
      BY <1>2, FileKept, Zenon DEF StoreInvariant, Abort, fileVars
    <2> QED BY <1>2, <2>1, DownKeeps, Zenon DEF Abort
  <1>3. CASE /\ bft_blocks' = [blocks EXCEPT ![block.height] = block]
             /\ fat_pointer_to_tip' = HashOf(block)
             /\ Take("handle_finalize", block)
             /\ UNCHANGED <<decided, height, roster, file>>
    <2>1. /\ Memory(n, n) /\ n \in Nat /\ n + 1 <= Len(decided)
          /\ block = DecidedBlock(n + 1) /\ Len(decided) \in Nat
      BY <1>1 DEF StoreInvariant, FileInvariant, Inserted, Handling
    <2>2. block.height = n + 1 /\ HashOf(block) = SubSeq(decided, 1, n + 1)
      BY <2>1 DEF DecidedBlock, Block, HashOf
    <2>3. FileInvariant' /\ ValidCount(file)' = n
      BY <1>3, FileKept DEF StoreInvariant, fileVars
    <2>4. Len(bft_blocks) = n /\ bft_blocks = [i \in 1 .. n |-> DecidedBlock(i)]
      BY <2>1 DEF Memory
    <2>5. blocks = [i \in 1 .. n + 1 |->
                      IF i <= n THEN DecidedBlock(i) ELSE Empty]
      BY <2>1, <2>2, <2>4 DEF Padded
    <2>6. bft_blocks' = [i \in 1 .. n + 1 |-> DecidedBlock(i)]
      BY <1>3, <2>1, <2>2, <2>5, SMTT(30), Zenon
    <2>7. \A i \in 1 .. n + 1 : DecidedBlock(i)' = DecidedBlock(i)
      BY <1>3 DEF DecidedBlock
    <2>8. Memory(n, n + 1)'
      BY <1>3, <2>1, <2>2, <2>6, <2>7, Zenon DEF Memory
    <2>9. n + 1 <= Len(decided)' /\ block' = DecidedBlock(n + 1)'
      BY <1>3, <2>1 DEF Take, DecidedBlock
    <2> QED
      BY <1>3, <2>3, <2>8, <2>9, Zenon DEF StoreInvariant, Take, Inserted
  <1> QED
    BY <1>2, <1>3, Zenon DEF HandleInsert

(* The answer of the PoW state changes nothing of the chain in memory. *)
LEMMA FinalizeKeeps ==
    ASSUME StoreInvariant, HandleFinalize
    PROVE  StoreInvariant'
  <1> SUFFICES ASSUME NEW n \in Nat, n = ValidCount(file)
               PROVE  StoreInvariant'
    BY DEF StoreInvariant, FileInvariant
  <1>1. /\ pc = "handle_finalize" /\ pc' = "handle_store"
        /\ UNCHANGED <<decided, height, internal, file, block>>
        /\ arg' \in {FinalOf(block), None}
        /\ arg' # None => FinalOf(block) \in Bonded
    BY DEF HandleFinalize, Goto
  <1>2. arg' \in Blocks \cup {None}
    BY <1>1, ServiceAssumption, Zenon
  <1>3. FileInvariant' /\ ValidCount(file)' = n
    BY <1>1, FileKept, Zenon DEF StoreInvariant, fileVars
  <1>4. Memory(n, n + 1) /\ n + 1 <= Len(decided) /\ block = DecidedBlock(n + 1)
    BY <1>1, Zenon DEF StoreInvariant, Inserted, Handling
  <1>5. Memory(n, n + 1)'
    BY <1>1, <1>4, Zenon DEF Memory, internal, DecidedBlock
  <1>6. n + 1 <= Len(decided)' /\ block' = DecidedBlock(n + 1)'
    BY <1>1, <1>4, Zenon DEF DecidedBlock
  <1> QED
    BY <1>1, <1>2, <1>3, <1>5, <1>6 DEF StoreInvariant, internal, Inserted

(* A record is not a torn one, and follows the record before it. *)
LEMMA RecordFollows ==
    ASSUME FileInvariant, NEW n \in Nat, n = ValidCount(file), n = Len(file),
           n + 1 <= Len(decided), NEW r \in Rosters
    PROVE  LET f == Append(file, Record(DecidedBlock(n + 1), r)) IN
           /\ f \in Seq(Records \cup {Torn})
           /\ ValidCount(f) = n + 1 /\ Len(f) = n + 1
           /\ \A i \in 1 .. n : f[i] = file[i]
           /\ f[n + 1] = Record(DecidedBlock(n + 1), r)
           /\ \A i \in 1 .. n + 1 : Follows(f, i)
  <1> DEFINE b == DecidedBlock(n + 1)
             f == Append(file, Record(b, r))
  <1>1. decided \in Seq(Blocks) /\ file \in Seq(Records \cup {Torn})
    BY DEF FileInvariant
  <1>2. b \in BftBlocks
    BY <1>1, PrefixFacts DEF DecidedBlock, Block, BftBlocks
  <1>3. Record(b, r) \in Records /\ Record(b, r).block = b
    BY <1>2, Zenon DEF Record, Records
  <1>4. Record(b, r) # Torn
    BY <1>3, ServiceAssumption, SMTT(30), Zenon
  <1>5. /\ f \in Seq(Records \cup {Torn}) /\ Len(f) = n + 1
        /\ \A i \in 1 .. n : f[i] = file[i]
        /\ f[n + 1] = Record(b, r)
    BY <1>1, <1>3, AppendProperties, SMTT(30), Zenon
  <1>6. PreviousHash(b) = SubSeq(decided, 1, n)
    <2>1. b.chain = SubSeq(decided, 1, n + 1)
      BY Zenon DEF DecidedBlock, Block
    <2>2. Len(b.chain) = n + 1
      BY <1>1, <2>1, PrefixFacts
    <2>3. n + 1 \in 1 .. Len(decided) /\ (n + 1) - 1 = n
      BY <1>1
    <2>4. SubSeq(SubSeq(decided, 1, n + 1), 1, (n + 1) - 1)
             = SubSeq(decided, 1, (n + 1) - 1)
      BY <1>1, <2>3, PrefixOfPrefix, Zenon
    <2> QED BY <2>1, <2>2, <2>3, <2>4, SMTT(30), Zenon DEF PreviousHash
  <1>7. ASSUME n = 0 PROVE SubSeq(decided, 1, n) = Null
    BY <1>1, <1>7, SubSeqEmpty DEF Null
  <1>8. ASSUME n > 0 PROVE HashOf(f[n].block) = SubSeq(decided, 1, n)
    <2>1. f[n] = file[n] /\ file[n].block = DecidedBlock(n)
      BY <1>5, <1>8 DEF FileInvariant
    <2> HIDE DEF f
    <2> QED BY <2>1 DEF DecidedBlock, Block, HashOf
  <1> HIDE DEF b
  <1>9. Follows(f, n + 1)
    <2>1. f[n + 1] # Torn /\ PreviousHash(f[n + 1].block) = SubSeq(decided, 1, n)
      BY <1>3, <1>4, <1>5, <1>6, SMTT(30), Zenon
    <2>2. CASE n = 0
      BY <2>1, <2>2, <1>7, SMTT(30), Zenon DEF Follows
    <2>3. CASE n > 0
      BY <2>1, <2>3, <1>8 DEF Follows
    <2> QED BY <2>2, <2>3
  <1>10. \A i \in 1 .. n : Follows(file, i)
    BY DEF FileInvariant
  <1> HIDE DEF f
  <1>11. \A i \in 1 .. n : Follows(f, i)
    BY <1>5, <1>10, FollowsSame, Zenon
  <1>12. \A i \in 1 .. n + 1 : Follows(f, i)
    BY <1>9, <1>11
  <1>13. ValidCount(f) = n + 1
    BY <1>5, <1>12, ValidCountUnique, SMTT(30), Zenon
  <1> QED
    BY <1>5, <1>12, <1>13, Zenon DEF f, b

(* The block becomes the next valid record, and memory and file agree. *)
LEMMA StoreKeeps ==
    ASSUME StoreInvariant, HandleStore
    PROVE  StoreInvariant' /\ ValidCount(file)' = ValidCount(file) + 1
  <1> SUFFICES ASSUME NEW n \in Nat, n = ValidCount(file)
               PROVE  StoreInvariant' /\ ValidCount(file)' = n + 1
    BY DEF StoreInvariant, FileInvariant
  <1>1. /\ pc = "handle_store" /\ pc' = "idle"
        /\ roster' = NewRoster /\ file' = Append(file, Record(block, NewRoster))
        /\ height' = height + 1
        /\ UNCHANGED <<decided, bft_blocks, fat_pointer_to_tip>>
    BY DEF HandleStore, Idle, AppendRecord
  <1>2. /\ FileInvariant /\ Memory(n, n + 1) /\ roster \in Rosters
        /\ n + 1 <= Len(decided) /\ block = DecidedBlock(n + 1)
        /\ arg \in Blocks \cup {None}
    BY <1>1 DEF StoreInvariant, Inserted, Handling
  <1>3. NewRoster \in Rosters /\ Len(file) = n
    BY <1>2, Zenon DEF NewRoster, Rosters, Memory
  <1>4. /\ file' \in Seq(Records \cup {Torn})
        /\ ValidCount(file') = n + 1 /\ Len(file') = n + 1
        /\ \A i \in 1 .. n : file'[i] = file[i]
        /\ file'[n + 1] = Record(DecidedBlock(n + 1), NewRoster)
        /\ \A i \in 1 .. n + 1 : Follows(file', i)
    BY <1>1, <1>2, <1>3, RecordFollows, SMTT(30), Zenon
  <1>5. \A i \in 1 .. n + 1 : file'[i].block = DecidedBlock(i)
    <2>1. \A i \in 1 .. n : file[i].block = DecidedBlock(i)
      BY <1>2, Zenon DEF FileInvariant
    <2>2. file'[n + 1].block = DecidedBlock(n + 1)
      BY <1>4 DEF Record
    <2> QED BY <1>4, <2>1, <2>2
  <1>6. \A i \in 1 .. n + 1 : DecidedBlock(i)' = DecidedBlock(i)
    BY <1>1, Zenon DEF DecidedBlock
  <1>7. FileInvariant'
    <2>1. \A i \in 1 .. n + 1 : Follows(file', i) /\ file'[i].block = DecidedBlock(i)'
      BY <1>4, <1>5, <1>6, SMTT(30), Zenon
    <2>2. n + 1 \in 0 .. Len(file') /\ n + 1 <= Len(decided') /\ decided' \in Seq(Blocks)
      BY <1>1, <1>2, <1>4, SMTT(30), Zenon DEF FileInvariant
    <2> QED BY <1>4, <2>1, <2>2, Zenon DEF FileInvariant
  <1>8. Memory(n + 1, n + 1)'
    BY <1>1, <1>2, <1>4, <1>6, Zenon DEF Memory
  <1> QED
    BY <1>1, <1>3, <1>4, <1>7, <1>8, Zenon DEF StoreInvariant, Inserted, Handling

(* A crash leaves the file as it is, or with a torn record at its end,     *)
(* which is not valid.                                                     *)
LEMMA CrashKeeps ==
    ASSUME StoreInvariant, Crash
    PROVE  /\ StoreInvariant' /\ ValidCount(file)' = ValidCount(file)
           /\ \A i \in 1 .. ValidCount(file) : file'[i] = file[i]
  <1> SUFFICES ASSUME NEW n \in Nat, n = ValidCount(file)
               PROVE  /\ StoreInvariant' /\ ValidCount(file)' = n
                      /\ \A i \in 1 .. n : file'[i] = file[i]
    BY DEF StoreInvariant, FileInvariant
  <1>1. /\ pc # "down" /\ pc' = "down" /\ roster' = ConfigRoster
        /\ UNCHANGED decided /\ FileInvariant
    BY DEF Crash, StoreInvariant
  <1>2. CASE UNCHANGED file
    BY <1>1, <1>2, FileKept, DownKeeps, SMTT(30), Zenon DEF fileVars
  <1>3. CASE pc = "handle_store" /\ file' = Append(file, Torn)
    <2>1. Len(file) = n /\ file \in Seq(Records \cup {Torn})
      BY <1>3 DEF StoreInvariant, FileInvariant, Memory, Inserted
    <2>2. /\ file' \in Seq(Records \cup {Torn}) /\ Len(file') = n + 1
          /\ \A i \in 1 .. n : file'[i] = file[i]
          /\ file'[n + 1] = Torn
      BY <1>3, <2>1, AppendProperties
    <2>3. \A i \in 1 .. n : Follows(file', i)
      <3>1. \A i \in 1 .. n : Follows(file, i)
        BY <1>1, Zenon DEF FileInvariant
      <3> QED BY <2>2, <3>1, FollowsSame, SMTT(30), Zenon
    <2>4. ~Follows(file', n + 1)
      BY <2>2, Zenon DEF Follows
    <2>5. ValidCount(file') = n
      BY <2>2, <2>3, <2>4, ValidCountUnique, SMTT(30), Zenon
    <2>6. \A i \in 1 .. n : file'[i].block = DecidedBlock(i)'
      BY <1>1, <2>2, Zenon DEF FileInvariant, DecidedBlock
    <2>7. FileInvariant'
      BY <1>1, <2>2, <2>3, <2>5, <2>6 DEF FileInvariant
    <2> QED BY <1>1, <2>2, <2>5, <2>7, DownKeeps, SMTT(30), Zenon
  <1> QED
    BY <1>2, <1>3, SMTT(30), Zenon DEF Crash

(* Startup cuts the file to its valid records and rebuilds the memory from *)
(* them.                                                                   *)
LEMMA StartupKeeps ==
    ASSUME StoreInvariant, Startup
    PROVE  /\ StoreInvariant' /\ ValidCount(file)' = ValidCount(file)
           /\ \A i \in 1 .. ValidCount(file) : file'[i] = file[i]
  <1> SUFFICES ASSUME NEW n \in Nat, n = ValidCount(file)
               PROVE  /\ StoreInvariant' /\ ValidCount(file)' = n
                      /\ \A i \in 1 .. n : file'[i] = file[i]
    BY DEF StoreInvariant, FileInvariant
  <1>1. /\ file \in Seq(Records \cup {Torn}) /\ n \in 0 .. Len(file)
        /\ decided \in Seq(Blocks) /\ n <= Len(decided)
        /\ \A i \in 1 .. n : Follows(file, i)
        /\ \A i \in 1 .. n : file[i].block = DecidedBlock(i)
    BY DEF StoreInvariant, FileInvariant
  <1>2. /\ Valid(file) \in Seq(Records \cup {Torn}) /\ Len(Valid(file)) = n
        /\ \A i \in 1 .. n : Valid(file)[i] = file[i]
    BY <1>1, PrefixFacts, SMTT(30), Zenon DEF Valid
  <1>3. /\ file' = Valid(file) /\ pc' = "idle" /\ UNCHANGED decided
        /\ height' = n + 1
        /\ bft_blocks' = [i \in 1 .. n |-> Valid(file)[i].block]
        /\ fat_pointer_to_tip' =
              IF n = 0 THEN Null ELSE HashOf(Valid(file)[n].block)
        /\ roster' = IF n = 0 THEN ConfigRoster ELSE Valid(file)[n].roster
    BY <1>2, Zenon DEF Startup, Truncated, Idle
  <1>4. \A i \in 1 .. n : Follows(file', i)
    BY <1>1, <1>2, <1>3, FollowsSame, Zenon
  <1>5. ValidCount(file') = n /\ Len(file') = n
    BY <1>2, <1>3, <1>4, ValidCountUnique
  <1>6. \A i \in 1 .. n : DecidedBlock(i)' = DecidedBlock(i)
    BY <1>3 DEF DecidedBlock
  <1>7. FileInvariant'
    <2>1. \A i \in 1 .. n : file'[i].block = DecidedBlock(i)'
      BY <1>1, <1>2, <1>3, <1>6, SMTT(30), Zenon
    <2> QED BY <1>1, <1>2, <1>3, <1>4, <1>5, <2>1 DEF FileInvariant
  <1>8. fat_pointer_to_tip' = SubSeq(decided, 1, n)
    <2>1. CASE n = 0
      BY <1>1, <1>3, <2>1, SubSeqEmpty, SMTT(30), Zenon DEF Null
    <2>2. CASE n > 0
      <3>1. Valid(file)[n].block = DecidedBlock(n)
        BY <1>1, <1>2, <2>2, SMTT(30), Zenon
      <3> QED BY <1>3, <2>2, <3>1, SMTT(30), Zenon DEF HashOf, DecidedBlock, Block
    <2> QED BY <2>1, <2>2
  <1>9. Memory(n, n)'
    <2>1. bft_blocks' = [i \in 1 .. n |-> DecidedBlock(i)]
      BY <1>1, <1>2, <1>3, Zenon
    <2> QED BY <1>1, <1>3, <1>5, <1>6, <1>8, <2>1, SMTT(30), Zenon DEF Memory
  <1>10. roster' \in Rosters
    <2>1. CASE n = 0
      BY <1>3, <2>1, Zenon DEF Rosters
    <2>2. CASE n > 0
      <3>1. file[n] \in Records
        BY <1>1, <2>2, ElementOfSeq DEF Follows
      <3> QED BY <1>2, <1>3, <2>2, <3>1, SMTT(30), Zenon DEF Records
    <2> QED BY <2>1, <2>2
  <1> QED
    BY <1>2, <1>3, <1>5, <1>7, <1>9, <1>10, SMTT(30), Zenon
       DEF StoreInvariant, Inserted, Handling

-------------------------------------------------------------------------------
(* The theorems *)

LEMMA InitEstablishes ==
    Init => StoreInvariant
  <1> SUFFICES ASSUME Init PROVE StoreInvariant
    OBVIOUS
  <1>1. /\ decided = <<>> /\ file = <<>> /\ pc = "down" /\ roster = ConfigRoster
    BY DEF Init
  <1>2. ValidCount(file) = 0
    BY <1>1, ValidCountUnique
  <1>3. FileInvariant
    BY <1>1, <1>2 DEF FileInvariant
  <1> QED
    BY <1>1, <1>3 DEF StoreInvariant, Rosters, Inserted, Handling

(* A panic of the task. *)
LEMMA AbortKeeps ==
    ASSUME StoreInvariant, Abort, UNCHANGED <<db, file>>
    PROVE  StoreInvariant'
  BY FileKept, DownKeeps, Zenon DEF StoreInvariant, Abort, fileVars

(* Each step keeps the invariant, and the valid records. *)
LEMMA StepKeeps ==
    ASSUME StoreInvariant, [Next]_vars
    PROVE  StoreInvariant'
  <1>1. ASSUME NEW b \in Blocks, CommitPowBlock(b) PROVE StoreInvariant'
    BY <1>1, OthersKeep, Zenon DEF CommitPowBlock, memory, internal
  <1>2. ASSUME NEW b \in Blocks, NetworkDecides(b) PROVE StoreInvariant'
    BY <1>2, NetworkKeeps, Zenon
  <1>3. CASE ProposeTip
    BY <1>3, MoveKeeps, Zenon
       DEF ProposeTip, Idle, Goto, memory, internal, Inserted, Handling
  <1>4. CASE ProposeFinal
    BY <1>4, MoveKeeps, Zenon
       DEF ProposeFinal, Idle, Goto, memory, internal, Inserted, Handling
  <1>5. CASE ProposeHeader
    BY <1>5, MoveKeeps, AbortKeeps, Zenon
       DEF ProposeHeader, Goto, memory, internal, Inserted, Handling
  <1>6. CASE ProposeFind
    BY <1>6, MoveKeeps, Zenon DEF ProposeFind, Goto, memory, internal, Inserted, Handling
  <1>7. CASE ProposeBuild
    BY <1>7, MoveKeeps, Zenon DEF ProposeBuild, Idle, memory, internal, Inserted, Handling
  <1>8. CASE ValidatePrevious
    BY <1>8, MoveKeeps, OthersKeep, Zenon
       DEF ValidatePrevious, Take, memory, internal, Inserted, Handling
  <1>9. CASE ValidateKnown
    BY <1>9, MoveKeeps, Zenon
       DEF ValidateKnown, Idle, memory, internal, Inserted, Handling
  <1>10. CASE HandleDecided
    BY <1>10, MoveKeeps, AbortKeeps, Zenon
       DEF HandleDecided, Take, memory, internal, Inserted, Handling
  <1>11. ASSUME pc \in Handling, pc \notin Inserted, pc # "down"
         PROVE  height <= Len(decided) /\ block = DecidedBlock(height)
    BY <1>11, Zenon DEF StoreInvariant, Memory
  <1>12. CASE HandleKnown
    BY <1>11, <1>12, MoveKeeps, AbortKeeps, Zenon
       DEF HandleKnown, Take, memory, internal, Inserted, Handling
  <1>13. CASE HandleHeight
    BY <1>11, <1>13, MoveKeeps, AbortKeeps, SMTT(30), Zenon
       DEF HandleHeight, Take, memory, internal, Inserted, Handling
  <1>14. CASE UNCHANGED vars
    BY <1>14, OthersKeep, Zenon DEF vars, memory
  <1> QED
    BY SMTT(30), Zenon, <1>1, <1>2, <1>3, <1>4, <1>5, <1>6, <1>7, <1>8, <1>9, <1>10, <1>12, <1>13,
       <1>14, InsertKeeps, FinalizeKeeps, StoreKeeps, CrashKeeps, StartupKeeps
       DEF Next, Propose, Validate, Handle

(* The file and the memory of a node follow the decided chain, for any     *)
(* number of blocks and crashes (handle_new_decided_bft_block and the      *)
(* startup of tfl_service_main_loop).                                      *)
THEOREM StoreInvariantHolds == Spec => []StoreInvariant
  <1>1. Init => StoreInvariant
    BY InitEstablishes
  <1>2. StoreInvariant /\ [Next]_vars => StoreInvariant'
    BY StepKeeps
  <1> QED
    BY <1>1, <1>2, PTL DEF Spec

(* What startup will read, and what is in memory, is what was decided. *)
THEOREM StoreFollowsConsensusHolds == Spec => []StoreFollowsConsensus
  <1>1. StoreInvariant => StoreFollowsConsensus
    <2> SUFFICES ASSUME StoreInvariant PROVE StoreFollowsConsensus
      BY Zenon
    <2>1. \A i \in 1 .. ValidCount(file) : Stored[i] = DecidedBlock(i)
      BY Zenon DEF StoreInvariant, FileInvariant, Stored
    <2>2. CASE pc \in Inserted
      BY <2>1, <2>2, SMTT(30), Zenon
         DEF StoreInvariant, FileInvariant, Memory, StoreFollowsConsensus, Inserted
    <2>3. CASE pc \notin Inserted
      BY <2>1, <2>3, SMTT(30), Zenon
         DEF StoreInvariant, FileInvariant, Memory, StoreFollowsConsensus, Inserted
    <2> QED BY <2>2, <2>3, Zenon
  <1> QED
    BY <1>1, StoreInvariantHolds, PTL

(* The valid records stay, and one is added only when a block is stored.   *)
LEMMA RecordsStay ==
    ASSUME StoreInvariant, [Next]_vars, NEW n \in Nat, n = ValidCount(file)
    PROVE  /\ \A i \in 1 .. n : file'[i] = file[i]
           /\ \/ ValidCount(file)' = n
              \/ HandleStore /\ ValidCount(file)' = n + 1
  <1>1. CASE UNCHANGED file
    BY <1>1
  <1>2. CASE HandleStore
    <2>1. file' = Append(file, Record(block, NewRoster)) /\ n <= Len(file)
      BY <1>2 DEF HandleStore, AppendRecord, StoreInvariant, FileInvariant
    <2>2. file \in Seq(Records \cup {Torn})
      BY DEF StoreInvariant, FileInvariant
    <2>3. \A i \in 1 .. n : file'[i] = file[i]
      BY <2>1, <2>2, AppendProperties
    <2> QED BY <1>2, <2>3, StoreKeeps, SMTT(30), Zenon
  <1>3. CASE Crash
    BY <1>3, CrashKeeps, Zenon
  <1>4. CASE Startup
    BY <1>4, StartupKeeps
  <1> QED
    BY <1>1, <1>2, <1>3, <1>4, Zenon
       DEF Next, vars, Propose, Validate, Handle, CommitPowBlock,
           NetworkDecides, ProposeTip, ProposeFinal, ProposeHeader, ProposeFind,
           ProposeBuild, ValidatePrevious, ValidateKnown, HandleDecided,
           HandleKnown, HandleHeight, HandleInsert, HandleFinalize

(* No step, crash or restart loses or changes a block of the store.        *)
THEOREM StoreOnlyGrowsHolds == Spec => StoreOnlyGrows
  <1>1. ASSUME StoreInvariant, [Next]_vars
        PROVE  /\ DOMAIN Stored \subseteq DOMAIN Stored'
               /\ \A i \in DOMAIN Stored : Stored'[i] = Stored[i]
    <2> SUFFICES ASSUME NEW n \in Nat, n = ValidCount(file)
                 PROVE  /\ DOMAIN Stored \subseteq DOMAIN Stored'
                        /\ \A i \in DOMAIN Stored : Stored'[i] = Stored[i]
      BY <1>1 DEF StoreInvariant, FileInvariant
    <2>1. /\ \A i \in 1 .. n : file'[i] = file[i]
          /\ ValidCount(file)' \in {n, n + 1}
      BY <1>1, RecordsStay, Zenon
    <2>2. 1 .. n \subseteq 1 .. ValidCount(file)'
      BY <2>1
    <2> QED BY <2>1, <2>2, Zenon DEF Stored
  <1>2. StoreInvariant /\ [Next]_vars
          => [/\ DOMAIN Stored \subseteq DOMAIN Stored'
              /\ \A i \in DOMAIN Stored : Stored'[i] = Stored[i]]_vars
    BY <1>1, Zenon
  <1> QED
    BY <1>2, StoreInvariantHolds, PTL DEF Spec, StoreOnlyGrows

-------------------------------------------------------------------------------
(* The roster *)

(* What TypeOK says that the other invariants do not. *)
TaskTypes ==
    /\ pc \in {"down", "idle", "propose_final", "propose_header",
               "propose_find", "propose_build", "validate_known",
               "handle_known", "handle_height", "handle_insert",
               "handle_finalize", "handle_store"}
    /\ pc = "down" => height = 0
    /\ Len(decided) <= MaxDecided
    /\ answers \in [1 .. MaxDecided -> {None, "finalized", "already", "refused"}]
    /\ crashes \in 0 .. MaxCrashes

LEMMA StepKeepsTypes ==
    ASSUME StoreInvariant, TaskTypes, [Next]_vars
    PROVE  TaskTypes'
  <1> USE DEF TaskTypes
  <1>1. CASE UNCHANGED <<pc, height, decided, answers, crashes>>
    BY <1>1, Zenon
  <1>2. CASE Abort \/ Crash
    BY <1>2, ServiceAssumption DEF Abort, Crash
  <1>3. CASE Propose
    BY <1>2, <1>3, Zenon
       DEF Propose, ProposeTip, ProposeFinal, ProposeHeader, ProposeFind,
           ProposeBuild, Goto, Idle
  <1>4. CASE Validate
    BY <1>4, Zenon DEF Validate, ValidatePrevious, ValidateKnown, Take, Idle
  <1>5. CASE HandleDecided \/ HandleKnown \/ HandleHeight \/ HandleInsert
    BY <1>2, <1>5, Zenon
       DEF HandleDecided, HandleKnown, HandleHeight, HandleInsert, Take
  <1>6. CASE HandleFinalize
    <2>1. /\ pc' = "handle_store" /\ UNCHANGED <<decided, height, crashes>>
          /\ answers' = [answers EXCEPT ![block.height] = Answer(FinalOf(block))]
      BY <1>6 DEF HandleFinalize, Goto
    <2>2. Answer(FinalOf(block)) \in {None, "finalized", "already", "refused"}
      BY DEF Answer
    <2> QED BY <2>1, <2>2, Zenon
  <1>7. CASE HandleStore \/ Startup
    BY <1>7, Zenon DEF HandleStore, Startup, Idle
  <1>8. ASSUME NEW b \in Blocks, NetworkDecides(b)
        PROVE  TaskTypes'
    <2>1. /\ decided' = Append(decided, b) /\ Len(decided) < MaxDecided
          /\ UNCHANGED <<pc, height, answers, crashes>>
      BY <1>8, Zenon DEF NetworkDecides
    <2>2. Len(decided') = Len(decided) + 1 /\ Len(decided) \in Nat
      BY <2>1, AppendProperties DEF StoreInvariant, FileInvariant
    <2> QED BY <2>1, <2>2, ServiceAssumption
  <1>9. ASSUME NEW b \in Blocks, CommitPowBlock(b) PROVE TaskTypes'
    BY <1>1, <1>9, Zenon DEF CommitPowBlock
  <1> QED
    BY <1>1, <1>2, <1>3, <1>4, <1>5, <1>6, <1>7, <1>8, <1>9, Zenon
       DEF Next, vars, Handle

(* They hold, for any number of blocks and crashes. *)
LEMMA TaskTypesHold == Spec => []TaskTypes
  <1>1. Init => TaskTypes
    BY ServiceAssumption DEF Init, TaskTypes
  <1>2. StoreInvariant /\ TaskTypes /\ [Next]_vars => TaskTypes'
    BY StepKeepsTypes, Zenon
  <1> QED BY <1>1, <1>2, StoreInvariantHolds, PTL DEF Spec

(* The last block of the decided chain up to height h. *)
LEMMA FinalOfDecided ==
    ASSUME decided \in Seq(Blocks), NEW h \in 1 .. Len(decided)
    PROVE  FinalOf(DecidedBlock(h)) = decided[h] /\ decided[h] \in Blocks
  <1>1. Len(SubSeq(decided, 1, h)) = h /\ SubSeq(decided, 1, h)[h] = decided[h]
    BY PrefixFacts
  <1>2. FinalOf(DecidedBlock(h)) = decided[h]
    BY <1>1, Zenon DEF FinalOf, DecidedBlock, Block
  <1> QED BY <1>2, ElementOfSeq, Zenon

LEMMA DecidedStays ==
    ASSUME StoreInvariant, [Next]_vars
    PROVE  \A i \in 1 .. Len(decided) : decided'[i] = decided[i]
  <1>1. CASE UNCHANGED decided
    BY <1>1, Zenon
  <1>2. ASSUME NEW c \in Blocks, NetworkDecides(c)
        PROVE  \A i \in 1 .. Len(decided) : decided'[i] = decided[i]
    BY <1>2, AppendProperties, SMTT(30), Zenon
       DEF NetworkDecides, StoreInvariant, FileInvariant
  <1> QED
    BY <1>1, <1>2, Zenon
       DEF Next, vars, Propose, Validate, Handle, CommitPowBlock, ProposeTip,
           ProposeFinal, ProposeHeader, ProposeFind, ProposeBuild,
           ValidatePrevious, ValidateKnown, HandleDecided, HandleKnown,
           HandleHeight, HandleInsert, HandleFinalize, HandleStore, Crash,
           Startup, Abort

(* RosterFollowsFinality, with what makes it inductive: the stakes that    *)
(* are about to be stored are those of the block in hand.                  *)
RosterInvariant ==
    LET n == ValidCount(file) IN
    /\ \A i \in 1 .. n : file[i].roster = RosterAfter(i)
    /\ pc # "down" => roster = RosterAfter(n)
    /\ pc = "handle_store" =>
          arg = IF n + 1 \in Staked(n + 1) THEN decided[n + 1] ELSE None

(* The roster after a block is its own, or the one before it. *)
LEMMA RosterStep ==
    ASSUME NEW n \in Nat
    PROVE  RosterAfter(n + 1) = IF n + 1 \in Staked(n + 1) THEN decided[n + 1]
                                                          ELSE RosterAfter(n)
  <1>1. CASE n + 1 \in Staked(n + 1)
    <2>1. \A i \in Staked(n + 1) : i \in Nat /\ i <= n + 1
      BY DEF Staked
    <2>2. Newest(Staked(n + 1)) = n + 1
      BY <1>1, <2>1 DEF Newest
    <2> QED BY <1>1, <2>2, Zenon DEF RosterAfter
  <1>2. CASE n + 1 \notin Staked(n + 1)
    <2>1. Staked(n + 1) = Staked(n)
      BY <1>2 DEF Staked
    <2> QED BY <1>2, <2>1, Zenon DEF RosterAfter
  <1> QED BY <1>1, <1>2, Zenon

(* It depends on the blocks up to that one only. *)
LEMMA RosterSame ==
    ASSUME NEW n \in Nat,
           \A i \in 1 .. n : answers'[i] = answers[i] /\ decided'[i] = decided[i]
    PROVE  RosterAfter(n)' = RosterAfter(n)
  <1>1. Staked(n)' = Staked(n)
    BY Zenon DEF Staked
  <1>2. ASSUME Staked(n) # {}, NEW m, m = Newest(Staked(n))
        PROVE  decided'[m] = decided[m]
    <2>1. Staked(n) \subseteq 1 .. n /\ \A i \in Staked(n) : i \in Nat
      BY DEF Staked
    <2>2. IsFiniteSet(Staked(n))
      <3>1. 1 \in Int /\ n \in Int
        OBVIOUS
      <3>2. IsFiniteSet(1 .. n)
        BY <3>1, FS_Interval, Zenon
      <3> QED BY <2>1, <3>2, FS_Subset, Zenon
    <2>3. \E i \in Staked(n) : \A j \in Staked(n) : j <= i
      BY <1>2, <2>1, <2>2, MaxExists, Zenon
    <2>4. m \in Staked(n)
      BY <1>2, <2>3, Zenon DEF Newest
    <2> QED BY <2>1, <2>4, Zenon
  <1> QED BY <1>1, <1>2, Zenon DEF RosterAfter

(* How the roster and the answers change. *)
RosterMove ==
    \/ pc' = "down" /\ UNCHANGED answers
    \/ /\ pc # "down" /\ pc' # "handle_store"
       /\ UNCHANGED <<roster, answers>>
    \/ UNCHANGED <<pc, arg, roster, answers>>
    \/ HandleFinalize \/ HandleStore \/ Startup
LEMMA RosterMoves ==
    ASSUME [Next]_vars
    PROVE  RosterMove
  <1> USE DEF RosterMove
  <1>1. CASE UNCHANGED vars
    BY <1>1, Zenon DEF vars
  <1>2. CASE Abort \/ Crash
    BY <1>2, Zenon DEF Abort, Crash
  <1>3. CASE Propose
    BY <1>2, <1>3, Zenon
       DEF Propose, ProposeTip, ProposeFinal, ProposeHeader, ProposeFind,
           ProposeBuild, Goto, Idle, internal
  <1>4. CASE Validate
    BY <1>4, Zenon DEF Validate, ValidatePrevious, ValidateKnown, Take, Idle, internal
  <1>5. CASE HandleDecided \/ HandleKnown \/ HandleHeight \/ HandleInsert
    BY <1>2, <1>5, Zenon
       DEF HandleDecided, HandleKnown, HandleHeight, HandleInsert, Take, internal
  <1>6. ASSUME NEW b \in Blocks, CommitPowBlock(b) \/ NetworkDecides(b)
        PROVE  RosterMove
    BY <1>6, Zenon DEF CommitPowBlock, NetworkDecides, internal
  <1> QED
    BY <1>1, <1>2, <1>3, <1>4, <1>5, <1>6, Zenon DEF Next, Handle

LEMMA StepKeepsRoster ==
    ASSUME StoreInvariant, TaskTypes, RosterInvariant, [Next]_vars
    PROVE  RosterInvariant'
  <1> SUFFICES ASSUME NEW n \in Nat, n = ValidCount(file) PROVE RosterInvariant'
    BY DEF StoreInvariant, FileInvariant
  <1>1. /\ decided \in Seq(Blocks) /\ Len(decided) \in Nat /\ n <= Len(decided)
        /\ file \in Seq(Records \cup {Torn}) /\ n \in 0 .. Len(file)
        /\ pc \in Handling => n + 1 <= Len(decided) /\ block = DecidedBlock(n + 1)
    BY DEF StoreInvariant, FileInvariant
  <1>2. \A i \in 1 .. Len(decided) : decided'[i] = decided[i] /\ decided[i] \in Blocks
    BY <1>1, DecidedStays, ElementOfSeq, Zenon
  <1>3. \A i \in 1 .. n : answers'[i] = answers[i]
    <2>1. CASE HandleFinalize
      <3>1. pc = "handle_finalize" /\ block.height = n + 1
        BY <1>1, <2>1 DEF HandleFinalize, Handling, DecidedBlock, Block
      <3>2. answers' = [answers EXCEPT ![n + 1] = Answer(FinalOf(block))]
        BY <2>1, <3>1, Zenon DEF HandleFinalize
      <3> QED BY <3>2 DEF TaskTypes
    <2>2. CASE ~HandleFinalize
      BY <2>2, RosterMoves, Zenon DEF RosterMove, HandleStore, Startup
    <2> QED BY <2>1, <2>2, Zenon
  <1>4. \A i \in 0 .. n : RosterAfter(i)' = RosterAfter(i)
    <2> SUFFICES ASSUME NEW i \in 0 .. n PROVE RosterAfter(i)' = RosterAfter(i)
      BY Zenon
    <2>1. \A j \in 1 .. i : answers'[j] = answers[j] /\ decided'[j] = decided[j]
      BY <1>1, <1>2, <1>3
    <2> QED BY <2>1, RosterSame
  <1>5. CASE HandleStore
    <2>1. /\ pc = "handle_store" /\ pc' = "idle" /\ ValidCount(file)' = n + 1
          /\ UNCHANGED <<decided, answers>>
          /\ roster' = NewRoster /\ file' = Append(file, Record(block, NewRoster))
      BY <1>5, StoreKeeps DEF HandleStore, Idle, AppendRecord
    <2>2. Len(file) = n
      BY <2>1, Zenon DEF StoreInvariant, Memory, Inserted
    <2>3. NewRoster = RosterAfter(n + 1)
      <3>1. /\ arg = IF n + 1 \in Staked(n + 1) THEN decided[n + 1] ELSE None
            /\ roster = RosterAfter(n)
        BY <2>1, Zenon DEF RosterInvariant
      <3>2. decided[n + 1] # None
        BY <1>1, <1>2, <2>1, ServiceAssumption DEF Handling
      <3> QED BY <3>1, <3>2, RosterStep, Zenon DEF NewRoster
    <2>4. RosterAfter(n + 1)' = RosterAfter(n + 1)
      BY <2>1, RosterSame
    <2>5. /\ \A i \in 1 .. n : file'[i] = file[i]
          /\ file'[n + 1] = Record(block, NewRoster)
      BY <1>1, <2>1, <2>2, AppendProperties
    <2>6. file'[n + 1].roster = RosterAfter(n + 1)'
      BY <2>3, <2>4, <2>5 DEF Record
    <2>7. \A i \in 1 .. n + 1 : file'[i].roster = RosterAfter(i)'
      BY <1>4, <2>5, <2>6 DEF RosterInvariant
    <2> QED BY <2>1, <2>3, <2>4, <2>7, Zenon DEF RosterInvariant
  <1>6. CASE ~HandleStore
    <2>1. ValidCount(file)' = n /\ \A i \in 1 .. n : file'[i] = file[i]
      BY <1>6, RecordsStay, Zenon
    <2>2. \A i \in 1 .. n : file'[i].roster = RosterAfter(i)'
      BY <1>4, <2>1 DEF RosterInvariant
    <2>0. RosterAfter(n)' = RosterAfter(n)
      BY <1>1, <1>4
    <2>3. CASE pc' = "down"
      BY <2>1, <2>2, <2>3, Zenon DEF RosterInvariant
    <2>4. CASE pc # "down" /\ pc' # "handle_store" /\ UNCHANGED roster
      BY <2>0, <2>1, <2>2, <2>4, Zenon DEF RosterInvariant
    <2>5. CASE UNCHANGED <<pc, arg, roster, answers>>
      <3>1. ASSUME pc = "handle_store"
            PROVE  /\ decided'[n + 1] = decided[n + 1]
                   /\ n + 1 \in Staked(n + 1)' <=> n + 1 \in Staked(n + 1)
        <4>1. n + 1 \in 1 .. Len(decided)
          BY <1>1, <3>1 DEF Handling
        <4>2. decided'[n + 1] = decided[n + 1]
          BY <1>2, <4>1, Zenon
        <4> QED BY <2>5, <4>2, Zenon DEF Staked
      <3> QED BY <2>0, <2>1, <2>2, <2>5, <3>1, Zenon DEF RosterInvariant
    <2>6. CASE HandleFinalize
      <3>1. /\ pc = "handle_finalize" /\ pc' = "handle_store"
            /\ UNCHANGED <<roster, decided>>
            /\ arg' = IF Answer(FinalOf(block)) = "finalized" /\ FinalOf(block) \in Bonded
                      THEN FinalOf(block) ELSE None
            /\ answers' = [answers EXCEPT ![block.height] = Answer(FinalOf(block))]
        BY <2>6, Zenon DEF HandleFinalize, Goto, internal
      <3>2. n + 1 \in 1 .. Len(decided) /\ block = DecidedBlock(n + 1)
        BY <1>1, <3>1 DEF Handling
      <3>3. block.height = n + 1 /\ FinalOf(block) = decided[n + 1]
        BY <1>1, <3>2, FinalOfDecided, Zenon DEF DecidedBlock, Block
      <3>4. answers'[n + 1] = Answer(FinalOf(block))
        BY <1>1, <3>1, <3>2, <3>3, ServiceAssumption DEF TaskTypes
      <3>5. n + 1 \in Staked(n + 1)'
              <=> Answer(FinalOf(block)) = "finalized" /\ FinalOf(block) \in Bonded
        BY <3>1, <3>3, <3>4 DEF Staked
      <3> QED BY <2>0, <2>1, <2>2, <3>1, <3>3, <3>5, Zenon DEF RosterInvariant
    <2>7. CASE Startup
      <3>1. /\ Valid(file) \in Seq(Records \cup {Torn}) /\ Len(Valid(file)) = n
            /\ \A i \in 1 .. n : Valid(file)[i] = file[i]
        BY <1>1, PrefixFacts, Zenon DEF Valid
      <3>2. pc' = "idle"
            /\ roster' = IF n = 0 THEN ConfigRoster ELSE Valid(file)[n].roster
        BY <2>7, <3>1, Zenon DEF Startup, Idle
      <3>3. RosterAfter(0) = ConfigRoster
        BY DEF RosterAfter, Staked
      <3>4. roster' = RosterAfter(n)
        BY <3>1, <3>2, <3>3 DEF RosterInvariant
      <3> QED BY <2>0, <2>1, <2>2, <3>2, <3>4, Zenon DEF RosterInvariant
    <2> QED BY <1>6, <2>3, <2>4, <2>5, <2>6, <2>7, RosterMoves, Zenon DEF RosterMove
  <1> QED BY <1>5, <1>6, Zenon

(* The roster of each record, and the one in memory, is that of the last   *)
(* decided block whose finalization was answered with stakes, through      *)
(* crashes and restarts (handle_new_decided_bft_block and the startup of   *)
(* tfl_service_main_loop).                                                 *)
THEOREM RosterFollowsFinalityHolds == Spec => []RosterFollowsFinality
  <1>1. Init => RosterInvariant
    <2> SUFFICES ASSUME Init PROVE RosterInvariant
      OBVIOUS
    <2>1. ValidCount(file) = 0 /\ pc = "down"
      BY ValidCountUnique DEF Init
    <2> QED BY <2>1 DEF RosterInvariant
  <1>2. StoreInvariant /\ TaskTypes /\ RosterInvariant /\ [Next]_vars => RosterInvariant'
    BY StepKeepsRoster, Zenon
  <1>3. StoreInvariant /\ RosterInvariant => RosterFollowsFinality
    <2> SUFFICES ASSUME StoreInvariant, RosterInvariant PROVE RosterFollowsFinality
      BY Zenon
    <2>1. pc # "down" => Len(file) = ValidCount(file)
      BY DEF StoreInvariant, Memory
    <2> QED BY <2>1 DEF RosterInvariant, RosterFollowsFinality
  <1> QED
    BY <1>1, <1>2, <1>3, StoreInvariantHolds, TaskTypesHold, PTL DEF Spec
===============================================================================
