---------------------------- MODULE FinalityProofs ----------------------------
(***************************************************************************)
(* Proofs that the TFL service implements Finality, that the final block   *)
(* that it reports is settled in the PoW state, and that what it proposes  *)
(* goes beyond that block, for every PoW tree and any number of blocks and *)
(* crashes.                                                                *)
(***************************************************************************)
EXTENDS TFLServiceProofs

(* tip has b below it, or on another chain: neither will change. *)
Apart(b, tip) == b \notin Ancestors[tip] /\ tip \notin Ancestors[b]
Settled(b, tip) == b \in Ancestors[tip] \/ Apart(b, tip)

(* The PoW state is a tree on the finalized chain, decided blocks extend   *)
(* each other, and the final block in hand is in the state until it is     *)
(* finalized, or has been dropped from it for good.                        *)
PowInvariant ==
    /\ known \subseteq Blocks /\ db \in known
    /\ \A b \in known : b \in Ancestors[db] \/ db \in Ancestors[b]
DecidedInvariant ==
    /\ decided \in Seq(Blocks)
    /\ \A i \in 1 .. Len(decided) - 1 : Above(decided[i + 1], decided[i])
InHand(b) ==
    /\ pc \in {"handle_insert", "handle_finalize"} => b \in known \/ Apart(b, db)
    /\ pc = "handle_store" => Settled(b, db)
SettleInvariant ==
    /\ PowInvariant /\ DecidedInvariant
    /\ pc \in Handling => InHand(FinalOf(block))
FinalInHand == pc \in Handling => FinalOf(block) \in Blocks

(* Growing the finalized chain unsettles nothing. *)
LEMMA GrowthSettles ==
    ASSUME NEW b \in Blocks, NEW d \in Blocks, NEW e \in Blocks,
           d \in Ancestors[e]
    PROVE  /\ Apart(b, d) => Apart(b, e)
           /\ Settled(b, d) => Settled(b, e)
  <1>1. Ancestors[d] \subseteq Ancestors[e]
    BY TreeAssumption
  <1>2. ASSUME Apart(b, d), b \in Ancestors[e] PROVE FALSE
    BY <1>2, TreeAssumption DEF Apart
  <1>3. ASSUME Apart(b, d), e \in Ancestors[b] PROVE FALSE
    BY <1>3, TreeAssumption DEF Apart
  <1> QED BY <1>1, <1>2, <1>3, Zenon DEF Settled, Apart

(* What the state drops when it finalizes a block is apart from it. *)
LEMMA RetainSettles ==
    ASSUME NEW S \in SUBSET Blocks, NEW d \in Blocks, NEW e \in S,
           d \in Ancestors[e]
    PROVE  /\ Retain(S, e) \subseteq Blocks /\ e \in Retain(S, e)
           /\ \A b \in Retain(S, e) : b \in Ancestors[e] \/ e \in Ancestors[b]
           /\ \A b \in Blocks :
                 b \in S \/ Apart(b, d) => b \in Retain(S, e) \/ Apart(b, e)
  <1>1. e \in Blocks /\ e \in Ancestors[e]
    BY TreeAssumption
  <1>2. \A b \in Blocks : Apart(b, d) => Apart(b, e)
    BY <1>1, GrowthSettles
  <1> QED BY <1>1, <1>2 DEF Retain, Apart

LEMMA FinalIsInHand == StoreInvariant => FinalInHand
  BY FinalOfDecided DEF StoreInvariant, FileInvariant, FinalInHand

(* A move of the task that leaves the PoW state and the decided chain. *)
LEMMA MoveSettles ==
    ASSUME SettleInvariant, UNCHANGED <<known, db, decided>>,
           pc' \in Handling => InHand(FinalOf(block))'
    PROVE  SettleInvariant' /\ db' \in Blocks /\ db \in Ancestors[db']
  BY TreeAssumption DEF SettleInvariant, PowInvariant, DecidedInvariant

(* The process stops with db' as its finalized tip. *)
LEMMA DownSettles ==
    ASSUME SettleInvariant, pc' = "down", UNCHANGED decided,
           db' \in Blocks, db \in Ancestors[db'], known' = Ancestors[db']
    PROVE  SettleInvariant'
  BY TreeAssumption DEF SettleInvariant, PowInvariant, DecidedInvariant, Handling

LEMMA AbortSettles ==
    ASSUME SettleInvariant, Abort, UNCHANGED <<db, file>>
    PROVE  SettleInvariant' /\ db' \in Blocks /\ db \in Ancestors[db']
  <1>1. db' \in Blocks /\ db \in Ancestors[db'] /\ known' = Ancestors[db']
    BY TreeAssumption DEF Abort, SettleInvariant, PowInvariant
  <1> QED BY <1>1, DownSettles, Zenon DEF Abort

LEMMA CommitSettles ==
    ASSUME SettleInvariant, FinalInHand, NEW b \in Blocks, CommitPowBlock(b)
    PROVE  SettleInvariant' /\ db' \in Blocks /\ db \in Ancestors[db']
  <1>1. PICK root \in known \cup {b} :
           /\ db \in Ancestors[root] /\ db' = root
           /\ known' = Retain(known \cup {b}, root)
    BY DEF CommitPowBlock
  <1>2. /\ known \cup {b} \in SUBSET Blocks /\ db \in Blocks /\ root \in Blocks
        /\ UNCHANGED <<pc, block, decided>>
    BY <1>1 DEF CommitPowBlock, SettleInvariant, PowInvariant
  <1>3. /\ PowInvariant'
        /\ \A c \in Blocks : c \in known \/ Apart(c, db) => c \in known' \/ Apart(c, db')
    BY <1>1, <1>2, RetainSettles, Zenon DEF PowInvariant
  <1>4. \A c \in Blocks : Settled(c, db) => Settled(c, db')
    BY <1>1, <1>2, GrowthSettles
  <1>5. pc' \in Handling => InHand(FinalOf(block))'
    BY <1>2, <1>3, <1>4 DEF SettleInvariant, FinalInHand, InHand
  <1>6. DecidedInvariant'
    BY <1>2 DEF SettleInvariant, DecidedInvariant
  <1> QED BY <1>1, <1>2, <1>3, <1>5, <1>6, Zenon DEF SettleInvariant

LEMMA NetworkSettles ==
    ASSUME SettleInvariant, NEW c \in Blocks, NetworkDecides(c)
    PROVE  SettleInvariant' /\ db' \in Blocks /\ db \in Ancestors[db']
  <1>1. /\ decided' = Append(decided, c) /\ decided \in Seq(Blocks)
        /\ UNCHANGED <<known, db, pc, block>> /\ Extends(c, LastDecided)
    BY DEF NetworkDecides, pow, SettleInvariant, DecidedInvariant
  <1>2. /\ decided' \in Seq(Blocks) /\ Len(decided') = Len(decided) + 1
        /\ \A i \in 1 .. Len(decided) : decided'[i] = decided[i]
        /\ decided'[Len(decided) + 1] = c
    BY <1>1, AppendProperties
  <1>3. Len(decided) > 0 => Above(c, decided[Len(decided)])
    <2> SUFFICES ASSUME Len(decided) > 0 PROVE Above(c, decided[Len(decided)])
      OBVIOUS
    <2>1. decided # <<>> /\ decided[Len(decided)] \in Blocks
      BY <1>1, ElementOfSeq
    <2>2. LastDecided = decided[Len(decided)] /\ LastDecided # None
      BY <2>1, ServiceAssumption, Zenon DEF LastDecided
    <2> QED BY <1>1, <2>2, Zenon DEF Extends
  <1>4. DecidedInvariant'
    <2> SUFFICES ASSUME NEW i \in 1 .. Len(decided)
                 PROVE  Above(decided'[i + 1], decided'[i])
      BY <1>2 DEF DecidedInvariant, Above
    <2>1. CASE i = Len(decided)
      BY <1>1, <1>2, <1>3, <2>1, SMTT(30), Zenon
    <2>2. CASE i < Len(decided)
      BY <1>1, <1>2, <2>2 DEF SettleInvariant, DecidedInvariant
    <2> QED BY <1>1, <2>1, <2>2
  <1> QED
    BY <1>1, <1>4, TreeAssumption, Zenon DEF SettleInvariant, PowInvariant, InHand

(* CrosslinkFinalizeBlock settles the block, whatever it answers. *)
LEMMA FinalizeSettles ==
    ASSUME SettleInvariant, FinalInHand, HandleFinalize
    PROVE  SettleInvariant' /\ db' \in Blocks /\ db \in Ancestors[db']
  <1> DEFINE b == FinalOf(block)
             e == FinalizedTip(b)
  <1>1. /\ pc = "handle_finalize" /\ pc' = "handle_store" /\ db' = e
        /\ known' = Retain(known, e) /\ UNCHANGED <<block, decided>>
    BY DEF HandleFinalize, Goto
  <1>2. /\ b \in Blocks /\ (b \in known \/ Apart(b, db))
        /\ PowInvariant /\ DecidedInvariant
    BY <1>1, Zenon DEF SettleInvariant, FinalInHand, InHand, Handling
  <1>3. known \in SUBSET Blocks /\ db \in Blocks
    BY <1>2, Zenon DEF PowInvariant
  <1> HIDE DEF b
  <1>4. e \in Blocks /\ db \in Ancestors[e] /\ Settled(b, e)
    BY <1>2, <1>3, TreeAssumption, Zenon
       DEF FinalizedTip, Answer, PowInvariant, Settled, Apart
  <1>5. PowInvariant'
    <2>1. known' \subseteq Blocks /\ e \in known
      BY <1>1, <1>2, Zenon DEF Retain, PowInvariant, FinalizedTip, Answer
    <2>2. \A c \in known' : c \in Ancestors[db'] \/ db' \in Ancestors[c]
      BY <1>1, Zenon DEF Retain
    <2>3. db' \in known'
      BY <1>1, <1>4, <2>1, TreeAssumption, Zenon DEF Retain
    <2> QED BY <2>1, <2>2, <2>3, Zenon DEF PowInvariant
  <1>6. InHand(b)'
    BY <1>1, <1>4, Zenon DEF InHand, b
  <1> QED
    BY <1>1, <1>2, <1>4, <1>5, <1>6, SMTT(30), Zenon
       DEF SettleInvariant, DecidedInvariant, b

(* A crash may leave the finalization of the block half done. *)
LEMMA CrashSettles ==
    ASSUME SettleInvariant, FinalInHand, Crash
    PROVE  SettleInvariant' /\ db' \in Blocks /\ db \in Ancestors[db']
  <1>1. pc' = "down" /\ UNCHANGED decided /\ known' = Ancestors[db'] /\ db \in Blocks
    BY DEF Crash, SettleInvariant, PowInvariant
  <1>2. CASE db' = db
    BY <1>1, <1>2, DownSettles, TreeAssumption, Zenon
  <1>3. CASE /\ pc = "handle_finalize"
             /\ db' \in {b \in Ancestors[FinalOf(block)] : db \in Ancestors[b]}
    <2>1. FinalOf(block) \in Blocks
      BY <1>3 DEF FinalInHand, Handling
    <2>2. db' \in Blocks /\ db \in Ancestors[db']
      BY <1>3, <2>1, TreeAssumption, SMTT(30), Zenon
    <2> QED BY <1>1, <2>2, DownSettles, Zenon
  <1> QED
    BY <1>2, <1>3, Zenon DEF Crash

(* No step unsettles a final block, and the finalized chain only grows. *)
LEMMA StepSettles ==
    ASSUME SettleInvariant, FinalInHand, [Next]_vars
    PROVE  SettleInvariant' /\ db' \in Blocks /\ db \in Ancestors[db']
  <1>1. ASSUME NEW b \in Blocks, CommitPowBlock(b) \/ NetworkDecides(b)
        PROVE  SettleInvariant' /\ db' \in Blocks /\ db \in Ancestors[db']
    BY <1>1, CommitSettles, NetworkSettles, SMTT(30), Zenon
  <1>2. CASE ProposeTip \/ ProposeFinal \/ ProposeFind \/ ProposeBuild
    BY <1>2, MoveSettles, Zenon
       DEF ProposeTip, ProposeFinal, ProposeFind, ProposeBuild, Idle, Goto, pow, Handling
  <1>3. CASE ProposeHeader
    BY <1>3, MoveSettles, AbortSettles, Zenon DEF ProposeHeader, Goto, pow, Handling
  <1>4. CASE Validate
    <2>1. CASE UNCHANGED <<pc, block, known, db, decided>>
      BY <2>1, MoveSettles, Zenon DEF SettleInvariant, InHand
    <2>2. CASE UNCHANGED <<known, db, decided>> /\ pc' \in {"idle", "validate_known"}
      BY <2>2, MoveSettles, Zenon DEF InHand, Handling
    <2> QED
      BY <1>4, <2>1, <2>2, Zenon
         DEF Validate, ValidatePrevious, ValidateKnown, Take, Idle, pow
  <1>5. CASE HandleDecided
    BY <1>5, MoveSettles, AbortSettles, SMTT(30), Zenon
       DEF HandleDecided, Take, pow, InHand
  <1>6. CASE HandleKnown
    BY <1>6, MoveSettles, AbortSettles, Zenon DEF HandleKnown, Take, pow, InHand
  <1>7. CASE HandleHeight
    BY <1>7, MoveSettles, AbortSettles, SMTT(30), Zenon
       DEF HandleHeight, Take, pow, InHand
  <1>8. CASE HandleInsert
    <2>1. CASE /\ pc = "handle_insert" /\ pc' = "handle_finalize"
               /\ UNCHANGED <<known, db, decided, block>>
      BY <2>1, MoveSettles, Zenon DEF SettleInvariant, InHand, Handling
    <2> QED
      BY <1>8, <2>1, AbortSettles, SMTT(30), Zenon DEF HandleInsert, Take, pow
  <1>9. CASE HandleStore \/ Startup
    BY <1>9, MoveSettles, Zenon DEF HandleStore, Startup, Idle, pow, Handling
  <1>10. CASE UNCHANGED vars
    BY <1>10, MoveSettles, Zenon DEF vars, SettleInvariant, InHand
  <1> QED
    BY SMTT(30), Zenon, <1>1, <1>2, <1>3, <1>4, <1>5, <1>6, <1>7, <1>8, <1>9, <1>10,
       FinalizeSettles, CrashSettles
       DEF Next, Propose, Handle

(* The records name the decided blocks, so that storing the block in hand  *)
(* logs the next decided one.                                              *)
LEMMA StoreLogs ==
    ASSUME StoreInvariant, SettleInvariant, [Next]_vars, HandleStore
    PROVE  F!Log
  <1> SUFFICES ASSUME NEW n \in Nat, n = ValidCount(file) PROVE F!Log
    BY DEF StoreInvariant, FileInvariant
  <1> DEFINE L == [i \in 1 .. n |-> FinalOf(file[i].block)]
             M == [i \in 1 .. n + 1 |-> FinalOf(file'[i].block)]
  <1>1. /\ pc = "handle_store" /\ UNCHANGED db
        /\ file' = Append(file, Record(block, NewRoster))
    BY DEF HandleStore, AppendRecord, pow
  <1>2. /\ ValidCount(file)' = n + 1 /\ \A i \in 1 .. n : file'[i] = file[i]
    BY RecordsStay, StoreKeeps
  <1>3. /\ block = DecidedBlock(n + 1) /\ n + 1 <= Len(decided) /\ Len(file) = n
        /\ decided \in Seq(Blocks) /\ Len(decided) \in Nat
        /\ file \in Seq(Records \cup {Torn})
        /\ \A i \in 1 .. n : file[i].block = DecidedBlock(i)
    BY <1>1 DEF StoreInvariant, FileInvariant, Memory, Handling, Inserted
  <1>4. FinalOf(block) = decided[n + 1] /\ decided[n + 1] \in Blocks
    BY <1>3, FinalOfDecided
  <1>5. \A i \in 1 .. n : L[i] = decided[i] /\ decided[i] \in Blocks
    BY <1>3, FinalOfDecided
  <1>6. file'[n + 1].block = block
    BY <1>1, <1>3, AppendProperties DEF Record
  <1>7. /\ L \in Seq(Blocks) /\ Len(L) = n
        /\ M = Append(L, decided[n + 1])
    BY <1>2, <1>4, <1>5, <1>6, SMTT(30), Zenon
  <1>8. n > 0 => Above(decided[n + 1], decided[n])
    BY <1>3 DEF SettleInvariant, DecidedInvariant
  <1>9. Settled(decided[n + 1], db)
    BY <1>1, <1>4, Zenon DEF SettleInvariant, InHand, Handling
  <1>10. L # <<>> => n > 0
    BY <1>7
  <1> HIDE DEF L, M
  <1>11. L # <<>> => F!Above(decided[n + 1], L[Len(L)])
    BY <1>5, <1>7, <1>8, <1>10 DEF F!Above, Above
  <1>12. F!Settled(decided[n + 1], db)
    BY <1>9, Zenon DEF F!Settled, F!OffChain, Settled, Apart
  <1> QED
    BY <1>1, <1>2, <1>4, <1>7, <1>11, <1>12, Zenon DEF F!Log, L, M

LEMMA InitSettles == Init => SettleInvariant
  BY TreeAssumption
     DEF Init, SettleInvariant, PowInvariant, DecidedInvariant, Handling

(* Every step is a step of Finality, or leaves its state alone. *)
LEMMA StepImplements ==
    ASSUME StoreInvariant, SettleInvariant, FinalInHand, [Next]_vars
    PROVE  F!Log \/ F!Advance
           \/ UNCHANGED <<db, [i \in 1 .. ValidCount(file) |-> FinalOf(file[i].block)]>>
  <1> SUFFICES ASSUME NEW n \in Nat, n = ValidCount(file), ~HandleStore
               PROVE  F!Advance
                      \/ UNCHANGED <<db, [i \in 1 .. ValidCount(file) |->
                                            FinalOf(file[i].block)]>>
    BY StoreLogs DEF StoreInvariant, FileInvariant
  <1>1. ValidCount(file)' = n /\ \A i \in 1 .. n : file'[i] = file[i]
    BY RecordsStay
  <1>2. [i \in 1 .. ValidCount(file)' |-> FinalOf(file'[i].block)]
           = [i \in 1 .. ValidCount(file) |-> FinalOf(file[i].block)]
    BY <1>1
  <1>3. db' \in Blocks /\ db \in Ancestors[db']
    BY StepSettles
  <1> QED
    BY <1>2, <1>3, SMTT(30), Zenon DEF F!Advance, F!Above

(* The service of a node implements Finality, through crashes and torn     *)
(* writes, for every PoW tree: the log of final blocks that the PoS store  *)
(* file holds only grows, along one chain, and only with blocks that the   *)
(* PoW state has settled.                                                  *)
THEOREM ServiceImplementsFinality == Spec => ImplementsFinality
  <1>1. Init => SettleInvariant
    BY InitSettles
  <1>2. Init => F!Init
    <2> SUFFICES ASSUME Init PROVE F!Init
      OBVIOUS
    <2>1. file = <<>> /\ db = Genesis
      BY DEF Init
    <2>2. ValidCount(file) = 0
      BY <2>1, ValidCountUnique, SMTT(30), Zenon
    <2> QED BY <2>1, <2>2 DEF F!Init
  <1>3. StoreInvariant => FinalInHand
    BY FinalIsInHand
  <1>4. SettleInvariant /\ FinalInHand /\ [Next]_vars => SettleInvariant'
    BY StepSettles, Zenon
  <1>5. StoreInvariant /\ SettleInvariant /\ FinalInHand /\ [Next]_vars
           => [F!Advance \/ F!Log]_<<db, [i \in 1 .. ValidCount(file) |->
                                            FinalOf(file[i].block)]>>
    BY StepImplements, SMTT(30), Zenon
  <1> QED
    BY <1>1, <1>2, <1>3, <1>4, <1>5, StoreInvariantHolds, PTL
       DEF Spec, ImplementsFinality, F!Spec

-------------------------------------------------------------------------------
(* The final block that the service reports *)

(* The final blocks of the file are settled, and the one in memory is that *)
(* of the last block that was inserted, the m-th.                          *)
Latest(m) == latest_final_block = IF m = 0 THEN None ELSE decided[m]
LatestInvariant ==
    LET n == ValidCount(file) IN
    /\ \A i \in 1 .. n : Settled(decided[i], db)
    /\ IF pc = "down" THEN latest_final_block = None
                      ELSE Latest(IF pc \in Inserted THEN n + 1 ELSE n)

(* How the final block in memory changes as blocks are inserted. *)
LatestMove ==
    \/ /\ pc' = "down"
       /\ \/ latest_final_block' = None
          \/ pc = "down" /\ latest_final_block' = latest_final_block
    \/ /\ UNCHANGED latest_final_block /\ pc # "down" /\ pc' # "down"
       /\ pc' \in Inserted <=> pc \in Inserted
    \/ /\ pc = "handle_insert" /\ pc' \in Inserted
       /\ latest_final_block' = FinalOf(block)
    \/ Startup
    \/ HandleStore
LEMMA LatestMoves ==
    ASSUME [Next]_vars
    PROVE  LatestMove
  <1>1. CASE UNCHANGED <<pc, latest_final_block>>
    BY <1>1, SMTT(30), Zenon DEF LatestMove
  <1>2. CASE Abort \/ Crash
    BY <1>2, SMTT(30), Zenon DEF Abort, Crash, LatestMove
  <1>3. CASE Propose
    BY <1>2, <1>3, SMTT(30), Zenon
       DEF Propose, ProposeTip, ProposeFinal, ProposeHeader, ProposeFind,
           ProposeBuild, Goto, Idle, internal, Inserted, LatestMove
  <1>4. CASE Validate
    BY <1>4, SMTT(30), Zenon
       DEF Validate, ValidatePrevious, ValidateKnown, Take, Idle, internal,
           Inserted, LatestMove
  <1>5. CASE HandleDecided \/ HandleKnown \/ HandleHeight
    BY <1>2, <1>5, Zenon
       DEF HandleDecided, HandleKnown, HandleHeight, Take, internal, Inserted,
           LatestMove
  <1>6. CASE HandleInsert
    BY <1>2, <1>6, Zenon DEF HandleInsert, Take, Inserted, LatestMove
  <1>7. CASE HandleFinalize
    BY <1>7, SMTT(30), Zenon DEF HandleFinalize, Goto, internal, Inserted, LatestMove
  <1>8. ASSUME NEW b \in Blocks, CommitPowBlock(b) \/ NetworkDecides(b)
        PROVE  LatestMove
    BY <1>8, <1>1, Zenon DEF CommitPowBlock, NetworkDecides, internal
  <1> QED
    BY <1>1, <1>2, <1>3, <1>4, <1>5, <1>6, <1>7, <1>8, SMTT(30), Zenon
       DEF Next, vars, Handle, LatestMove

LEMMA StepKeepsLatest ==
    ASSUME StoreInvariant, SettleInvariant, FinalInHand, LatestInvariant, [Next]_vars
    PROVE  LatestInvariant'
  <1> SUFFICES ASSUME NEW n \in Nat, n = ValidCount(file) PROVE LatestInvariant'
    BY DEF StoreInvariant, FileInvariant
  <1>1. /\ decided \in Seq(Blocks) /\ Len(decided) \in Nat /\ n <= Len(decided)
        /\ \A i \in 1 .. n : file[i].block = DecidedBlock(i)
        /\ file \in Seq(Records \cup {Torn}) /\ n \in 0 .. Len(file)
        /\ pc \in Handling => n + 1 <= Len(decided) /\ block = DecidedBlock(n + 1)
    BY DEF StoreInvariant, FileInvariant
  <1>2. \A i \in 1 .. Len(decided) : decided'[i] = decided[i] /\ decided[i] \in Blocks
    BY <1>1, DecidedStays, ElementOfSeq, SMTT(30), Zenon
  <1>3. db \in Blocks /\ db' \in Blocks /\ db \in Ancestors[db']
    BY StepSettles, Zenon DEF SettleInvariant, PowInvariant
  <1>4. \A i \in 1 .. n : Settled(decided[i], db)'
    <2>1. \A i \in 1 .. n : Settled(decided[i], db')
      BY <1>1, <1>2, <1>3, GrowthSettles DEF LatestInvariant
    <2>2. \A i \in 1 .. n : decided'[i] = decided[i]
      BY <1>1, <1>2, SMTT(30), Zenon
    <2> QED BY <2>1, <2>2, Zenon DEF Settled, Apart
  <1>5. CASE HandleStore
    <2>1. /\ pc = "handle_store" /\ pc' = "idle" /\ ValidCount(file)' = n + 1
          /\ UNCHANGED <<db, decided, latest_final_block>>
      BY <1>5, StoreKeeps, Zenon DEF HandleStore, Idle, pow
    <2>2. FinalOf(block) = decided[n + 1]
      BY <1>1, <2>1, FinalOfDecided, SMTT(30), Zenon DEF Handling
    <2>3. Settled(decided[n + 1], db)
      BY <2>1, <2>2, Zenon DEF SettleInvariant, InHand, Handling
    <2>4. \A i \in 1 .. n + 1 : Settled(decided[i], db)
      BY <2>3 DEF LatestInvariant
    <2>5. Latest(n + 1)
      BY <2>1, Zenon DEF LatestInvariant, Inserted
    <2> QED BY <2>1, <2>4, <2>5, SMTT(30), Zenon
               DEF LatestInvariant, Latest, Settled, Apart, Inserted
  <1>6. CASE ~HandleStore
    <2>1. ValidCount(file)' = n
      BY <1>6, RecordsStay, Zenon
    <2>2. CASE /\ pc' = "down"
               /\ \/ latest_final_block' = None
                  \/ pc = "down" /\ latest_final_block' = latest_final_block
      BY <1>4, <2>1, <2>2, SMTT(30), Zenon DEF LatestInvariant
    <2>3. CASE /\ UNCHANGED latest_final_block /\ pc # "down" /\ pc' # "down"
               /\ pc' \in Inserted <=> pc \in Inserted
      <3>1. pc \in Inserted => n + 1 \in 1 .. Len(decided)
        BY <1>1 DEF Inserted, Handling
      <3>2. Latest(IF pc \in Inserted THEN n + 1 ELSE n)
        BY <2>3, Zenon DEF LatestInvariant
      <3>3. Latest(IF pc \in Inserted THEN n + 1 ELSE n)'
        BY <1>1, <1>2, <2>3, <3>1, <3>2, SMTT(30), Zenon DEF Latest
      <3> QED BY <1>4, <2>1, <2>3, <3>3, SMTT(30), Zenon DEF LatestInvariant
    <2>4. CASE /\ pc = "handle_insert" /\ pc' \in Inserted
               /\ latest_final_block' = FinalOf(block)
      <3>1. FinalOf(block) = decided[n + 1] /\ decided'[n + 1] = decided[n + 1]
        BY <1>1, <1>2, <2>4, FinalOfDecided, SMTT(30), Zenon DEF Handling
      <3> QED BY <1>4, <2>1, <2>4, <3>1, SMTT(30), Zenon
                 DEF LatestInvariant, Latest, Inserted
    <2>5. CASE Startup
      <3>1. /\ Valid(file) \in Seq(Records \cup {Torn}) /\ Len(Valid(file)) = n
            /\ \A i \in 1 .. n : Valid(file)[i] = file[i]
        BY <1>1, PrefixFacts, SMTT(30), Zenon DEF Valid
      <3>2. /\ pc' = "idle"
            /\ latest_final_block' =
                  IF n = 0 THEN None ELSE FinalOf(Valid(file)[n].block)
        BY <2>5, <3>1, SMTT(30), Zenon DEF Startup, Idle
      <3>3. n > 0 => FinalOf(Valid(file)[n].block) = decided[n]
                     /\ decided'[n] = decided[n]
        BY <1>1, <1>2, <3>1, FinalOfDecided, SMTT(30), Zenon
      <3> QED BY <1>4, <2>1, <3>2, <3>3, SMTT(30), Zenon
                 DEF LatestInvariant, Latest, Inserted
    <2> QED BY <1>6, <2>2, <2>3, <2>4, <2>5, LatestMoves, Zenon DEF LatestMove
  <1> QED BY <1>5, <1>6, Zenon

LEMMA InitLatest == Init => LatestInvariant
  <1> SUFFICES ASSUME Init PROVE LatestInvariant
    OBVIOUS
  <1>1. ValidCount(file) = 0 /\ pc = "down" /\ latest_final_block = None
    BY ValidCountUnique DEF Init
  <1> QED BY <1>1 DEF LatestInvariant

(* The invariants of the service. *)
ServiceInvariant ==
    StoreInvariant /\ SettleInvariant /\ FinalInHand /\ LatestInvariant /\ TaskTypes

(* They hold together, for any number of blocks, crashes and restarts      *)
(* (tfl_service_main_loop and the closures that it gives to tenderlink).   *)
THEOREM ServiceInvariantHolds == Spec => []ServiceInvariant
  <1>1. StoreInvariant /\ SettleInvariant /\ FinalInHand /\ LatestInvariant
          /\ [Next]_vars => SettleInvariant' /\ LatestInvariant'
    BY StepSettles, StepKeepsLatest, SMTT(30), Zenon
  <1> QED
    BY <1>1, InitSettles, InitLatest, FinalIsInHand, StoreInvariantHolds, TaskTypesHold,
       PTL DEF Spec, ServiceInvariant

(* The final block that the service reports is settled in the PoW state,   *)
(* and so is the one that a restart will find.                             *)
THEOREM FinalityIsSettledHolds == Spec => []FinalityIsSettled
  <1>1. StoreInvariant /\ SettleInvariant /\ LatestInvariant => FinalityIsSettled
    <2> SUFFICES ASSUME StoreInvariant, SettleInvariant, LatestInvariant,
                        NEW n \in Nat, n = ValidCount(file)
                 PROVE  FinalityIsSettled
      BY DEF StoreInvariant, FileInvariant
    <2>1. /\ decided \in Seq(Blocks) /\ n <= Len(decided)
          /\ \A i \in 1 .. n : file[i].block = DecidedBlock(i)
          /\ pc \in Handling => n + 1 <= Len(decided) /\ block = DecidedBlock(n + 1)
      BY DEF StoreInvariant, FileInvariant
    <2>2. ASSUME pc # "handle_finalize", latest_final_block # None, pc # "down"
          PROVE  Settled(latest_final_block, db)
      <3>1. CASE pc = "handle_store"
        <4>1. FinalOf(block) = decided[n + 1]
          BY <2>1, <3>1, FinalOfDecided, SMTT(30), Zenon DEF Handling
        <4>2. Settled(FinalOf(block), db) /\ latest_final_block = decided[n + 1]
          BY <3>1 DEF SettleInvariant, InHand, Handling, LatestInvariant, Latest, Inserted
        <4> QED BY <4>1, <4>2, Zenon
      <3>2. CASE pc \notin Inserted
        BY <2>2, <3>2 DEF LatestInvariant, Latest
      <3> QED BY <2>2, <3>1, <3>2, SMTT(30), Zenon DEF Inserted
    <2>3. n > 0 => Settled(FinalOf(Stored[n]), db)
      <3> SUFFICES ASSUME n > 0 PROVE Settled(FinalOf(Stored[n]), db)
        OBVIOUS
      <3>1. Stored[n] = DecidedBlock(n)
        BY <2>1 DEF Stored
      <3>2. FinalOf(Stored[n]) = decided[n]
        BY <2>1, <3>1, FinalOfDecided
      <3> QED BY <3>2 DEF LatestInvariant
    <2> QED
      BY <2>2, <2>3, SMTT(30), Zenon
         DEF FinalityIsSettled, LatestInvariant, Settled, Apart, OffChain
  <1> QED
    BY <1>1, ServiceInvariantHolds, PTL DEF ServiceInvariant

-------------------------------------------------------------------------------
(* The types *)

(* The service keeps its types. *)
THEOREM TypesHold == Spec => []TypeOK
  <1>1. StoreInvariant /\ SettleInvariant /\ LatestInvariant /\ TaskTypes => TypeOK
    <2> SUFFICES ASSUME StoreInvariant, SettleInvariant, LatestInvariant, TaskTypes
                 PROVE  TypeOK
      BY Zenon
    <2> DEFINE n == ValidCount(file)
    <2>1. /\ decided \in Seq(Blocks) /\ n \in Nat /\ n <= Len(decided)
          /\ pc \in Inserted => n + 1 <= Len(decided)
          /\ file \in Seq(Records \cup {Torn}) /\ roster \in Rosters
      BY DEF StoreInvariant, FileInvariant, Inserted, Handling
    <2>2. height \in 0 .. MaxDecided + 1
      <3>1. pc # "down" => height = n + 1
        BY DEF StoreInvariant, Memory
      <3> QED BY <2>1, <3>1, ServiceAssumption DEF TaskTypes
    <2>3. latest_final_block \in Blocks \cup {None}
      <3>1. \A i \in 1 .. Len(decided) : decided[i] \in Blocks
        BY <2>1, ElementOfSeq, Zenon
      <3> QED BY <2>1, <3>1 DEF LatestInvariant, Latest
    <2>4. \A i \in 1 .. Len(file) : file[i] # Torn => file[i].roster \in Rosters
      BY <2>1, ElementOfSeq DEF Records
    <2> QED
      BY <2>1, <2>2, <2>3, <2>4, Zenon
         DEF TypeOK, TaskTypes, SettleInvariant, PowInvariant
  <1> QED
    BY <1>1, ServiceInvariantHolds, PTL DEF ServiceInvariant

-------------------------------------------------------------------------------
(* Proposals *)

(* What propose_new_bft_block has in hand at each of its awaits: a height  *)
(* and then a block that are Sigma below the tip of a best chain that      *)
(* still has them, and above the final block.                              *)
Proposing == {"propose_final", "propose_header", "propose_find", "propose_build"}
Deep(h) == h \in Nat /\ h + Sigma <= HeightOf[Best]
Advances(h) ==
    latest_final_block # None =>
        /\ HeightOf[latest_final_block] < h
        /\ h <= HeightOf[latest_final_block] + MaxAdvance
Improves(c) ==
    /\ c \in Blocks
    /\ \/ Extends(c, latest_final_block)
       \/ latest_final_block # None /\ OffChain(latest_final_block)
ProposeInvariant ==
    /\ pc = "propose_final" => Deep(arg)
    /\ pc = "propose_header" => Deep(arg) /\ Advances(arg)
    /\ pc = "propose_find" =>
          arg \in Ancestors[Best] /\ Deep(HeightOf[arg]) /\ Advances(HeightOf[arg])
    /\ pc = "propose_build" /\ arg # None => Improves(arg)

(* The state has finitely many blocks. *)
LEMMA KnownStaysFinite ==
    ASSUME SettleInvariant, FinalInHand, IsFiniteSet(known), [Next]_vars
    PROVE  IsFiniteSet(known)'
  <1>1. CASE \E b \in Blocks : known' \subseteq known \cup {b}
    BY <1>1, FS_AddElement, FS_Subset, Zenon
  <1>2. CASE known' \subseteq known
    BY <1>2, FS_Subset
  <1>3. CASE known' = Ancestors[db']
    BY <1>3, StepSettles, HeightAssumption
  <1>4. ASSUME NEW b \in Blocks, CommitPowBlock(b) PROVE known' \subseteq known \cup {b}
    BY <1>4, Zenon DEF CommitPowBlock, Retain
  <1>5. HandleFinalize => known' \subseteq known
    BY DEF HandleFinalize, Retain
  <1>6. Abort /\ UNCHANGED <<db, file>> => known' = Ancestors[db']
    BY Zenon DEF Abort
  <1>7. Crash => known' = Ancestors[db']
    BY Zenon DEF Crash
  <1>8. ~(\E b \in Blocks : CommitPowBlock(b)) /\ ~HandleFinalize /\ ~Crash
          => known' = known \/ (Abort /\ UNCHANGED <<db, file>>)
    BY Zenon DEF Next, vars, pow, Propose, Validate, Handle, NetworkDecides, ProposeTip,
           ProposeFinal, ProposeHeader, ProposeFind, ProposeBuild, ValidatePrevious,
           ValidateKnown, HandleDecided, HandleKnown, HandleHeight, HandleInsert,
           HandleStore, Startup
  <1> QED BY <1>1, <1>2, <1>3, <1>4, <1>5, <1>6, <1>7, <1>8, Zenon

(* The best chain goes on from the finalized tip. *)
LEMMA BestIsAboveFinal ==
    ASSUME PowInvariant, IsFiniteSet(known)
    PROVE  /\ Best \in known /\ Best \in Blocks /\ HeightOf[Best] \in Nat
           /\ db \in Ancestors[Best]
  <1>1. known \in SUBSET Blocks /\ db \in known
    BY DEF PowInvariant
  <1>2. Best \in known /\ \A u \in known \ {Best} : Higher(Best, u)
    BY <1>1, BestTipExists, Zenon DEF Best
  <1>3. Best \in Blocks /\ HeightOf[Best] \in Nat /\ db \in Blocks
        /\ HeightOf[db] \in Nat
    BY <1>1, <1>2, HeightType, Zenon
  <1>4. HeightOf[db] <= HeightOf[Best]
    BY <1>1, <1>2, <1>3 DEF Higher
  <1>5. CASE Best \in Ancestors[db]
    <2>1. HeightOf[Best] <= HeightOf[db] /\ (HeightOf[Best] = HeightOf[db] => Best = db)
      BY <1>3, <1>5, AncestorLower, Zenon
    <2>2. Best = db
      BY <1>3, <1>4, <2>1
    <2> QED BY <1>2, <1>3, <2>2, TreeAssumption, Zenon
  <1> QED BY <1>2, <1>3, <1>5, Zenon DEF PowInvariant

(* A committed block may reorganize the best chain, but what is ReorgDepth *)
(* below its tip stays on it.                                              *)
LEMMA CommitKeepsDeep ==
    ASSUME PowInvariant, IsFiniteSet(known), NEW b \in Blocks, CommitPowBlock(b)
    PROVE  /\ Best' \in Blocks /\ HeightOf[Best'] \in Nat
           /\ HeightOf[Best] <= HeightOf[Best']
           /\ \A a \in Ancestors[Best] :
                 HeightOf[a] + ReorgDepth <= HeightOf[Best] => a \in Ancestors[Best']
  <1> DEFINE S == known \cup {b}
             new == BestTip(S)
  <1>1. known \in SUBSET Blocks /\ S \in SUBSET Blocks /\ Best \in known
        /\ Best \in Blocks /\ HeightOf[Best] \in Nat
    BY BestIsAboveFinal, Zenon DEF PowInvariant
  <1>2. IsFiniteSet(S) /\ S # {}
    BY FS_AddElement, Zenon
  <1>3. new \in S /\ \A u \in S \ {new} : Higher(new, u)
    BY <1>1, <1>2, BestTipExists, Zenon
  <1>4. PICK root \in S : root \in Ancestors[new] /\ known' = Retain(S, root)
    BY Zenon DEF CommitPowBlock
  <1>5. PICK a \in Ancestors[Best] \cap Ancestors[new] :
           HeightOf[Best] - HeightOf[a] <= ReorgDepth
    BY Zenon DEF CommitPowBlock, Shallow
  <1> HIDE DEF S, new
  <1>6. known' \in SUBSET Blocks /\ known' \subseteq S /\ new \in known'
    BY <1>1, <1>3, <1>4, Zenon DEF Retain
  <1>7. IsFiniteSet(known') /\ known' # {}
    BY <1>2, <1>6, FS_Subset, Zenon
  <1>8. Best' \in known' /\ \A u \in known' \ {Best'} : Higher(Best', u)
    BY <1>6, <1>7, BestTipExists, Zenon DEF Best
  <1>9. Best' = new
    BY <1>1, <1>3, <1>6, <1>8, HigherOrder, Zenon
  <1>10. new \in Blocks /\ HeightOf[new] \in Nat
    BY <1>1, <1>3, HeightType, Zenon
  <1>11. HeightOf[Best] <= HeightOf[new]
    BY <1>1, <1>3, <1>10 DEF S, Higher
  <1>12. ASSUME NEW c \in Ancestors[Best], HeightOf[c] + ReorgDepth <= HeightOf[Best]
         PROVE  c \in Ancestors[new]
    <2>1. /\ c \in Blocks /\ HeightOf[c] \in Nat
          /\ a \in Blocks /\ HeightOf[a] \in Nat
      BY <1>1, AncestorLower, HeightType, Zenon
    <2>2. HeightOf[c] <= HeightOf[a]
      BY <1>1, <1>5, <1>12, <2>1, ServiceAssumption
    <2>3. c \in Ancestors[a]
      BY <1>1, <2>2, SameChain, Zenon
    <2> QED BY <1>10, <2>3, AncestorsTrans, Zenon
  <1> QED BY <1>9, <1>10, <1>11, <1>12, ZenonT(40)

(* The final block that a proposal is compared with is settled. *)
LEMMA ProposingIsSettled ==
    ASSUME StoreInvariant, LatestInvariant, pc \in Proposing, latest_final_block # None
    PROVE  latest_final_block \in Blocks /\ Settled(latest_final_block, db)
  <1> DEFINE n == ValidCount(file)
  <1>1. decided \in Seq(Blocks) /\ n \in Nat /\ n <= Len(decided)
    BY DEF StoreInvariant, FileInvariant
  <1>2. n # 0 /\ latest_final_block = decided[n] /\ n \in 1 .. n
    BY <1>1 DEF LatestInvariant, Latest, Proposing, Inserted
  <1>3. Settled(decided[n], db)
    BY <1>2, Zenon DEF LatestInvariant
  <1> QED BY <1>1, <1>2, <1>3, ElementOfSeq

(* The steps that lead to an await of propose_new_bft_block. *)
ProposeMove ==
    \/ pc' \notin Proposing
    \/ UNCHANGED <<pc, arg, latest_final_block, known, db>>
    \/ ProposeTip \/ ProposeFinal \/ ProposeHeader \/ ProposeFind
    \/ \E b \in Blocks : CommitPowBlock(b)
LEMMA ProposeMoves ==
    ASSUME [Next]_vars
    PROVE  ProposeMove
  <1> USE DEF ProposeMove, Proposing
  <1>1. CASE UNCHANGED vars
    BY <1>1, Zenon DEF vars
  <1>2. CASE Abort \/ Crash
    BY <1>2, Zenon DEF Abort, Crash
  <1>3. CASE Propose
    BY <1>3, Zenon DEF Propose, ProposeBuild, Idle
  <1>4. CASE Validate
    BY <1>4, Zenon
       DEF Validate, ValidatePrevious, ValidateKnown, Take, Idle, internal, pow
  <1>5. CASE Handle
    BY <1>2, <1>5, Zenon
       DEF Handle, HandleDecided, HandleKnown, HandleHeight, HandleInsert,
           HandleFinalize, HandleStore, Take, Goto, Idle
  <1>6. CASE Startup
    BY <1>6, Zenon DEF Startup, Idle
  <1>7. ASSUME NEW b \in Blocks, CommitPowBlock(b) \/ NetworkDecides(b)
        PROVE  ProposeMove
    BY <1>7, Zenon DEF NetworkDecides, internal, pow
  <1> QED
    BY <1>1, <1>2, <1>3, <1>4, <1>5, <1>6, <1>7, Zenon DEF Next

(* The candidate is asked for by its height, and its headers by its hash:  *)
(* it is still on the best chain then.                                     *)
LEMMA FindImproves ==
    ASSUME StoreInvariant, SettleInvariant, LatestInvariant, IsFiniteSet(known),
           ProposeInvariant, ProposeFind
    PROVE  pc' = "propose_build" /\ UNCHANGED <<known, db, latest_final_block>>
           /\ (arg' # None => Improves(arg'))
  <1> DEFINE h == HeightOf[arg]
             c == BlockAt(Best, h + 1)
  <1>1. /\ pc = "propose_find" /\ pc' = "propose_build"
        /\ UNCHANGED <<known, db, latest_final_block>>
        /\ arg' = None \/ arg' = BlockAt(Best, FirstAfter(arg))
    BY Zenon DEF ProposeFind, Goto, pow, internal
  <1>2. arg \in Ancestors[Best] /\ h \in Nat /\ h + Sigma <= HeightOf[Best] /\ Advances(h)
    BY <1>1, Zenon DEF ProposeInvariant, Deep
  <1>3. Best \in Blocks /\ HeightOf[Best] \in Nat /\ db \in Ancestors[Best]
    BY BestIsAboveFinal, Zenon DEF SettleInvariant
  <1>4. FirstAfter(arg) = h + 1 /\ h + 1 \in 0 .. HeightOf[Best]
    BY <1>2, <1>3, ServiceAssumption DEF FirstAfter
  <1>5. c \in Ancestors[Best] /\ HeightOf[c] = h + 1
    BY <1>3, <1>4, BlockAtHeight, Zenon
  <1> HIDE DEF h, c
  <1>6. c \in Blocks /\ c # Genesis
    BY <1>2, <1>3, <1>5, AncestorLower, HeightType
  <1>7. Improves(c)
    <2> DEFINE f == latest_final_block
    <2>1. CASE f = None
      BY <1>6, <2>1, Zenon DEF Improves, Extends
    <2>2. CASE f # None
      <3>1. f \in Blocks /\ Settled(f, db) /\ HeightOf[f] \in Nat
        BY <1>1, <2>2, ProposingIsSettled, HeightType, Zenon DEF Proposing
      <3>2. HeightOf[f] < h /\ h <= HeightOf[f] + MaxAdvance
        BY <1>2, <2>2, Zenon DEF Advances
      <3> HIDE DEF f
      <3>3. CASE f \in Ancestors[db]
        <4>1. f \in Ancestors[Best]
          BY <1>3, <3>3, AncestorsTrans, Zenon
        <4>2. f \in Ancestors[c] /\ f # c
          BY <1>2, <1>3, <1>5, <3>1, <3>2, <4>1, SameChain
        <4>3. HeightOf[c] <= HeightOf[f] + MaxAdvance + 1
          BY <1>2, <1>5, <3>1, <3>2, ServiceAssumption
        <4>4. Extends(c, f)
          BY <2>2, <4>2, <4>3, Zenon DEF Extends, Above
        <4> QED BY <1>6, <4>4, Zenon DEF Improves, f
      <3>4. CASE Apart(f, db)
        BY <1>6, <2>2, <3>4, Zenon DEF Improves, OffChain, Apart, f
      <3> QED BY <3>1, <3>3, <3>4, Zenon DEF Settled
    <2> QED BY <2>1, <2>2, Zenon
  <1> QED BY <1>1, <1>4, <1>7, Zenon DEF c

(* The PoW chain grows and reorganizes while propose_new_bft_block awaits. *)
LEMMA CommitKeepsPropose ==
    ASSUME ReorgDepth <= Sigma, StoreInvariant, SettleInvariant, LatestInvariant,
           FinalInHand, IsFiniteSet(known), ProposeInvariant,
           NEW b \in Blocks, CommitPowBlock(b)
    PROVE  ProposeInvariant'
  <1>1. UNCHANGED <<pc, arg, latest_final_block>>
    BY Zenon DEF CommitPowBlock, internal
  <1>2. Best \in Blocks /\ HeightOf[Best] \in Nat
    BY BestIsAboveFinal, Zenon DEF SettleInvariant
  <1>3. /\ Best' \in Blocks /\ HeightOf[Best'] \in Nat
        /\ HeightOf[Best] <= HeightOf[Best']
        /\ \A a \in Ancestors[Best] :
              HeightOf[a] + ReorgDepth <= HeightOf[Best] => a \in Ancestors[Best']
    BY CommitKeepsDeep, Zenon DEF SettleInvariant
  <1>4. \A h : Deep(h) => Deep(h)'
    BY <1>2, <1>3, ServiceAssumption DEF Deep
  <1>5. \A h : Advances(h) <=> Advances(h)'
    BY <1>1, Zenon DEF Advances
  <1>6. ASSUME pc = "propose_find" PROVE arg \in Ancestors[Best']
    <2>1. arg \in Ancestors[Best] /\ HeightOf[arg] \in Nat
          /\ HeightOf[arg] + Sigma <= HeightOf[Best]
      BY <1>6, Zenon DEF ProposeInvariant, Deep
    <2>2. HeightOf[arg] + ReorgDepth <= HeightOf[Best]
      BY <1>2, <2>1, ServiceAssumption
    <2> QED BY <1>3, <2>1, <2>2, Zenon
  <1>7. ASSUME pc = "propose_build", arg # None PROVE Improves(arg)'
    <2>1. Improves(arg)
      BY <1>7, Zenon DEF ProposeInvariant
    <2>2. ASSUME latest_final_block # None, OffChain(latest_final_block)
          PROVE  OffChain(latest_final_block)'
      <3>1. latest_final_block \in Blocks
        BY <1>7, <2>2, ProposingIsSettled, Zenon DEF Proposing
      <3>2. db \in Blocks /\ db' \in Blocks /\ db \in Ancestors[db']
        BY CommitSettles, Zenon DEF SettleInvariant, PowInvariant
      <3>3. Apart(latest_final_block, db')
        BY <2>2, <3>1, <3>2, GrowthSettles, Zenon DEF OffChain, Apart
      <3> QED BY <1>1, <3>3, Zenon DEF OffChain, Apart
    <2> QED BY <1>1, <2>1, <2>2, Zenon DEF Improves
  <1> QED BY <1>1, <1>4, <1>5, <1>6, <1>7, ZenonT(40) DEF ProposeInvariant

LEMMA StepKeepsPropose ==
    ASSUME ReorgDepth <= Sigma, StoreInvariant, SettleInvariant, LatestInvariant,
           FinalInHand, IsFiniteSet(known), ProposeInvariant, [Next]_vars
    PROVE  ProposeInvariant'
  <1>1. Best \in Blocks /\ HeightOf[Best] \in Nat
    BY BestIsAboveFinal, Zenon DEF SettleInvariant
  <1>2. CASE pc' \notin Proposing
    BY <1>2, Zenon DEF ProposeInvariant, Proposing
  <1>3. CASE UNCHANGED <<pc, arg, latest_final_block, known, db>>
    BY <1>3, Zenon DEF ProposeInvariant, Deep, Advances, Improves, OffChain, Best
  <1>4. CASE ProposeTip
    <2>1. /\ UNCHANGED known
          /\ pc' = "propose_final" => arg' = HeightOf[Best] - Sigma /\ Sigma <= HeightOf[Best]
          /\ pc' \in {"idle", "propose_final"}
      BY <1>1, <1>4, ServiceAssumption DEF ProposeTip, Goto, Idle, pow
    <2>2. Best' = Best
      BY <2>1, Zenon DEF Best
    <2>3. pc' = "propose_final" => Deep(arg)'
      BY <1>1, <2>1, <2>2, ServiceAssumption DEF Deep
    <2> QED BY <2>1, <2>3, Zenon DEF ProposeInvariant
  <1>5. CASE ProposeFinal
    <2>1. /\ UNCHANGED <<known, latest_final_block>> /\ pc = "propose_final"
          /\ pc' = "propose_header" => arg' = Capped(arg) /\ Improved(arg)
          /\ pc' \in {"idle", "propose_header"}
      BY <1>5, Zenon DEF ProposeFinal, Goto, Idle, pow, internal
    <2>2. Best' = Best
      BY <2>1, Zenon DEF Best
    <2>3. arg \in Nat /\ arg + Sigma <= HeightOf[Best]
      BY <2>1, Zenon DEF ProposeInvariant, Deep
    <2>4. latest_final_block # None => HeightOf[latest_final_block] \in Nat
      BY <2>1, ProposingIsSettled, HeightType, Zenon DEF Proposing
    <2>5. ASSUME pc' = "propose_header" PROVE Deep(arg)' /\ Advances(arg)'
      <3>1. arg' \in Nat /\ arg' <= arg
        BY <2>1, <2>3, <2>4, <2>5, ServiceAssumption DEF Capped
      <3>2. Deep(arg)'
        BY <1>1, <2>2, <2>3, <3>1, ServiceAssumption DEF Deep
      <3>3. Advances(arg)'
        <4>1. arg' = Capped(arg) /\ Improved(arg) /\ latest_final_block' = latest_final_block
          BY <2>1, <2>5, Zenon
        <4> QED BY <2>3, <2>4, <4>1, ServiceAssumption DEF Capped, Improved, Advances
      <3> QED BY <3>2, <3>3, Zenon
    <2> QED BY <2>1, <2>5, Zenon DEF ProposeInvariant
  <1>6. CASE ProposeHeader
    <2>1. /\ pc = "propose_header" /\ pc' \in {"down", "propose_find"}
          /\ pc' = "propose_find" =>
                UNCHANGED <<known, latest_final_block>> /\ arg' = BlockAt(Best, arg)
      BY <1>6, Zenon DEF ProposeHeader, Abort, Goto, pow, internal
    <2>2. arg \in Nat /\ arg + Sigma <= HeightOf[Best] /\ Advances(arg)
      BY <2>1, Zenon DEF ProposeInvariant, Deep
    <2>3. arg \in 0 .. HeightOf[Best]
      BY <1>1, <2>2, ServiceAssumption
    <2>4. BlockAt(Best, arg) \in Ancestors[Best] /\ HeightOf[BlockAt(Best, arg)] = arg
      BY <1>1, <2>3, BlockAtHeight, Zenon
    <2>5. ASSUME pc' = "propose_find"
          PROVE  /\ arg' \in Ancestors[Best'] /\ Deep(HeightOf[arg])'
                 /\ Advances(HeightOf[arg])'
      <3>1. Best' = Best /\ HeightOf[arg'] = arg /\ arg' \in Ancestors[Best]
        BY <2>1, <2>4, <2>5, Zenon DEF Best
      <3> QED BY <2>1, <2>2, <2>5, <3>1, Zenon DEF Deep, Advances
    <2> QED BY <2>1, <2>5, Zenon DEF ProposeInvariant
  <1>7. CASE ProposeFind
    <2>1. /\ pc' = "propose_build" /\ UNCHANGED <<known, db, latest_final_block>>
          /\ arg' # None => Improves(arg')
      BY <1>7, FindImproves, Zenon
    <2>2. arg' # None => Improves(arg)'
      BY <2>1, Zenon DEF Improves, OffChain
    <2> QED BY <2>1, <2>2, Zenon DEF ProposeInvariant
  <1> QED
    BY <1>2, <1>3, <1>4, <1>5, <1>6, <1>7, CommitKeepsPropose, ProposeMoves, ZenonT(40)
       DEF ProposeMove

(* What propose_new_bft_block builds. *)
LEMMA BuildExtends ==
    ASSUME StoreInvariant, ProposeInvariant, ProposeBuild, proposal' # None
    PROVE  /\ proposal'.height = height
           /\ PreviousHash(proposal') = SubSeq(decided, 1, height - 1)
           /\ \/ Extends(FinalOf(proposal'), latest_final_block)
              \/ latest_final_block # None /\ OffChain(latest_final_block)
  <1> DEFINE n == ValidCount(file)
             s == SubSeq(decided, 1, n)
             t == Append(s, arg)
  <1>1. pc = "propose_build"
    BY Zenon DEF ProposeBuild
  <1>2. /\ decided \in Seq(Blocks) /\ n \in Nat /\ n <= Len(decided) /\ Memory(n, n)
    BY <1>1 DEF StoreInvariant, FileInvariant, Inserted
  <1>3. height = n + 1 /\ Len(bft_blocks) = n /\ fat_pointer_to_tip = s
    BY <1>2 DEF Memory
  <1>4. arg # None /\ proposal' = Block(n + 1, t)
    BY <1>3, Zenon DEF ProposeBuild
  <1>5. Improves(arg)
    BY <1>1, <1>4, Zenon DEF ProposeInvariant
  <1>6. s \in Seq(Blocks) /\ Len(s) = n /\ arg \in Blocks
    <2>1. s \in Seq(Blocks) /\ Len(s) = n
      BY <1>2, PrefixFacts
    <2> QED BY <1>5, <2>1, Zenon DEF Improves
  <1> HIDE DEF n, s
  <1>7. Len(t) = n + 1 /\ t[n + 1] = arg /\ t \in Seq(Blocks)
    BY <1>2, <1>6, AppendProperties, ZenonT(40)
  <1>8. SubSeq(t, 1, n) = s
    <2>1. /\ SubSeq(t, 1, n) \in Seq(Blocks) /\ Len(SubSeq(t, 1, n)) = n
          /\ \A i \in 1 .. n : SubSeq(t, 1, n)[i] = t[i]
      BY <1>2, <1>7, PrefixFacts
    <2>2. \A i \in 1 .. n : t[i] = s[i]
      BY <1>6, AppendProperties
    <2> QED BY <1>6, <2>1, <2>2, SeqEqual, Zenon
  <1> HIDE DEF t
  <1>9. proposal'.height = n + 1 /\ proposal'.chain = t
    BY <1>4, Zenon DEF Block
  <1>10. PreviousHash(proposal') = s /\ FinalOf(proposal') = arg
    BY <1>2, <1>7, <1>8, <1>9 DEF PreviousHash, FinalOf
  <1>11. height - 1 = n
    BY <1>2, <1>3
  <1> QED BY <1>3, <1>5, <1>9, <1>10, <1>11, Zenon DEF Improves, s

(* What a node proposes is built on the decided chain and goes beyond the  *)
(* final block, for every PoW tree and every way in which the PoW chain    *)
(* grows and reorganizes while propose_new_bft_block awaits, if no         *)
(* reorganization is deeper than the confirmation depth.                   *)
THEOREM ProposalsExtendFinalityHolds ==
    ASSUME ReorgDepth <= Sigma
    PROVE  Spec => ProposalsExtendFinality
  <1> DEFINE Inv == IsFiniteSet(known) /\ ProposeInvariant
  <1>1. Init => Inv
    BY FS_Singleton, Zenon DEF Init, ProposeInvariant
  <1>2. ServiceInvariant /\ Inv /\ [Next]_vars => Inv'
    BY StepKeepsPropose, KnownStaysFinite DEF ServiceInvariant
  <1>3. ServiceInvariant /\ Inv /\ [Next]_vars
          => [proposal' # proposal /\ proposal' # None =>
                /\ proposal'.height = height
                /\ PreviousHash(proposal') = SubSeq(decided, 1, height - 1)
                /\ \/ Extends(FinalOf(proposal'), latest_final_block)
                   \/ latest_final_block # None /\ OffChain(latest_final_block)]_vars
    <2> SUFFICES ASSUME ServiceInvariant, Inv, Next, proposal' # proposal, proposal' # None
                 PROVE  /\ proposal'.height = height
                        /\ PreviousHash(proposal') = SubSeq(decided, 1, height - 1)
                        /\ \/ Extends(FinalOf(proposal'), latest_final_block)
                           \/ latest_final_block # None /\ OffChain(latest_final_block)
      BY Zenon
    <2>1. ProposeBuild
      <3>1. ~Abort /\ ~Crash /\ ~Startup
        BY Zenon DEF Abort, Crash, Startup
      <3>2. ~Validate
        BY Zenon DEF Validate, ValidatePrevious, ValidateKnown
      <3>3. ~Handle
        BY <3>1, Zenon DEF Handle, HandleDecided, HandleKnown, HandleHeight, HandleInsert,
                    HandleFinalize, HandleStore
      <3>4. ~ProposeTip /\ ~ProposeFinal /\ ~ProposeHeader /\ ~ProposeFind
        BY <3>1, Zenon DEF ProposeTip, ProposeFinal, ProposeHeader, ProposeFind
      <3>5. \A b \in Blocks : ~CommitPowBlock(b) /\ ~NetworkDecides(b)
        BY Zenon DEF CommitPowBlock, NetworkDecides
      <3> QED BY <3>1, <3>2, <3>3, <3>4, <3>5, Zenon DEF Next, Propose
    <2> QED BY <2>1, BuildExtends DEF ServiceInvariant
  <1> HIDE DEF Inv
  <1> QED
    BY <1>1, <1>2, <1>3, ServiceInvariantHolds, PTL DEF Spec, ProposalsExtendFinality
===============================================================================
