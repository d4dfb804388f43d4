------------------------------ MODULE TFLService ------------------------------
(***************************************************************************)
(* The TFL service of one node (zebra-crosslink/src/lib.rs): it proposes   *)
(* BFT blocks from the PoW chain, validates those of others, and when      *)
(* tenderlink decides one, finalizes its PoW block and appends it to the   *)
(* PoS store file, which is all that the BFT side keeps over a restart.    *)
(*                                                                         *)
(* Tenderlink awaits each of its closures, so they run one after the other *)
(* in one task; but each of them awaits the state service and the mutex    *)
(* of TFLServiceInternal, and between two awaits the PoW chain may grow,   *)
(* reorganize and finalize, and the process may crash.  A step here is the *)
(* code from one await to the next.                                        *)
(*                                                                         *)
(* A BFT block commits to all the blocks before it, so its hash is the     *)
(* sequence of the PoW blocks that it and its predecessors finalize.  That *)
(* consensus decides one block at each height is shown in TenderlinkSafety *)
(* and assumed here: decided is what the network has decided.  A roster is *)
(* named by the PoW block whose bonds it aggregates.                       *)
(***************************************************************************)
EXTENDS PowTree, Sequences

CONSTANTS
    Sigma,        \* bc_confirmation_depth_sigma
    MaxAdvance,   \* how far a proposal may go beyond the final block: 10
    ReorgLimit,   \* MAX_BLOCK_REORG_HEIGHT
    ReorgDepth,   \* bound on the depth of the reorganizations that happen
    Bonded,       \* the PoW blocks after which there are active bonds
    ConfigRoster, \* the roster of the configuration
    MaxDecided,   \* bound on the BFT blocks
    MaxCrashes,   \* bound on the crashes
    None,         \* the absence of a block
    Torn          \* a record that was written in part

BftBlocks == [height : Nat, chain : Seq(Blocks)]
Rosters == Blocks \cup {ConfigRoster}
Records == [block : BftBlocks, roster : Rosters]

ASSUME ServiceAssumption ==
    /\ Sigma \in Nat \ {0} /\ MaxAdvance \in Nat \ {0}
    /\ ReorgLimit \in Nat /\ ReorgDepth \in Nat
    /\ Bonded \subseteq Blocks /\ MaxDecided \in Nat /\ MaxCrashes \in Nat
    /\ None \notin Blocks /\ Torn \notin Records

VARIABLES
    known,        \* the PoW blocks of the state, finalized or not
    db,           \* the finalized PoW tip
    decided,      \* the PoW blocks finalized by the decided BFT blocks
    pc,           \* where tenderlink's task is
    arg,          \* its local value: a height, a candidate, or the stakes
    block,        \* the BFT block that it validates or handles
    height,       \* tenderlink's height
    passed,       \* the proposals whose cached validity is Pass
    proposal,     \* what propose_new_bft_block returned last
    bft_blocks, fat_pointer_to_tip, latest_final_block, roster,
                  \* TFLServiceInternal
    file,         \* the records of the PoS store file
    answers,      \* history: how the PoW state answered at each height
    crashes       \* how many crashes there have been

pow == <<known, db>>
internal == <<bft_blocks, fat_pointer_to_tip, latest_final_block, roster>>
vars == <<known, db, decided, pc, arg, block, height, passed, proposal,
          bft_blocks, fat_pointer_to_tip, latest_final_block, roster, file,
          answers, crashes>>

-------------------------------------------------------------------------------
(* BFT blocks and the records of the store *)

Block(h, chain) == [height |-> h, chain |-> chain]
HashOf(b) == b.chain
PreviousHash(b) == SubSeq(b.chain, 1, Len(b.chain) - 1)
FinalOf(b) == b.chain[Len(b.chain)]
Null == <<>>
DecidedBlock(h) == Block(h, SubSeq(decided, 1, h))

Empty == Block(0, Null)

Record(b, r) == [block |-> b, roster |-> r]

(* Startup reads records until one is cut short or does not follow the     *)
(* block before it, and truncates the file there.                          *)
Follows(f, i) ==
    /\ f[i] # Torn
    /\ PreviousHash(f[i].block) = IF i = 1 THEN Null ELSE HashOf(f[i - 1].block)
ValidCount(f) ==
    CHOOSE n \in 0 .. Len(f) :
        /\ \A i \in 1 .. n : Follows(f, i)
        /\ n < Len(f) => ~Follows(f, n + 1)
Valid(f) == SubSeq(f, 1, ValidCount(f))

\* Faults, for the runs to detect: set_len is not called, or is called with
\* the position before the last record that was read.
Truncated_Not(f) == f
Truncated_Before(f) ==
    IF Valid(f) = <<>> THEN <<>> ELSE SubSeq(f, 1, ValidCount(f) - 1)

Truncated(f) == Valid(f)

-------------------------------------------------------------------------------
(* The PoW state (external to this service; BlockQueue has its detail) *)

Best == BestTip(known)

(* Reorganizations go no deeper than ReorgDepth: the confirmation depth is *)
(* chosen so that this is so.                                              *)
Shallow(b) ==
    LET new == BestTip(known \cup {b}) IN
    \E a \in Ancestors[Best] \cap Ancestors[new] :
        HeightOf[Best] - HeightOf[a] <= ReorgDepth

(* A block is committed on top of a known one, and the blocks that are     *)
(* more than ReorgLimit below the best tip are finalized.                  *)
CommitPowBlock(b) ==
    /\ b \in Blocks \ known /\ b # Genesis
    /\ Parent(b) \in known /\ db \in Ancestors[b]
    /\ Shallow(b)
    /\ LET best   == BestTip(known \cup {b})
           excess == HeightOf[best] - HeightOf[db] - ReorgLimit
       IN  \E root \in known \cup {b} :
              /\ root \in Ancestors[best] /\ db \in Ancestors[root]
              /\ HeightOf[root] = HeightOf[db] + IF excess > 0 THEN excess ELSE 0
              /\ db' = root
              /\ known' = Retain(known \cup {b}, root)
    /\ UNCHANGED <<decided, pc, arg, block, height, passed, proposal, internal, file,
                   answers, crashes>>

-------------------------------------------------------------------------------
(* propose_new_bft_block *)

Idle == pc' = "idle" /\ arg' = None /\ block' = None
Goto(label, value) == pc' = label /\ arg' = value /\ UNCHANGED block
Take(label, b) == pc' = label /\ block' = b /\ UNCHANGED arg
Abort ==
    /\ pc' = "down" /\ arg' = None /\ block' = None
    /\ known' = Ancestors[db]
    /\ height' = 0 /\ passed' = {} /\ proposal' = None
    /\ bft_blocks' = <<>> /\ fat_pointer_to_tip' = Null
    /\ latest_final_block' = None /\ roster' = ConfigRoster
    /\ UNCHANGED <<decided, answers, crashes>>

(* The tip, and the height that is Sigma below it. *)
ProposeTip ==
    /\ pc = "idle"
    /\ IF HeightOf[Best] < Sigma
       THEN proposal' = None /\ Idle
       ELSE UNCHANGED proposal /\ Goto("propose_final", HeightOf[Best] - Sigma)
    /\ UNCHANGED <<pow, decided, height, passed, internal, file, answers,
                   crashes>>

\* Fault, for the runs to detect: a proposal need not improve finality.
Improved_Always(h) == TRUE

Improved(h) ==
    latest_final_block # None => h > HeightOf[latest_final_block]
Capped(h) ==
    IF latest_final_block # None /\ h > HeightOf[latest_final_block] + MaxAdvance
    THEN HeightOf[latest_final_block] + MaxAdvance ELSE h

(* Under the lock: it must be above the final block, and is cut to at most *)
(* MaxAdvance above it.                                                    *)
ProposeFinal ==
    /\ pc = "propose_final"
    /\ IF Improved(arg)
       THEN UNCHANGED proposal /\ Goto("propose_header", Capped(arg))
       ELSE proposal' = None /\ Idle
    /\ UNCHANGED <<pow, decided, height, passed, internal, file, answers,
                   crashes>>

(* StateRequest::BlockHeader: the block of the best chain at that height.  *)
ProposeHeader ==
    /\ pc = "propose_header"
    /\ IF arg <= HeightOf[Best]
       THEN /\ Goto("propose_find", BlockAt(Best, arg))
            /\ UNCHANGED <<pow, decided, height, passed, proposal, internal,
                           file, answers, crashes>>
       ELSE Abort /\ UNCHANGED <<db, file>>

(* StateRequest::FindBlockHeaders: the blocks of the best chain after the  *)
(* candidate, or from the genesis block if the candidate is not on it.     *)
FirstAfter(b) == IF b \in Ancestors[Best] THEN HeightOf[b] + 1 ELSE 0
ProposeFind ==
    /\ pc = "propose_find"
    /\ LET first == FirstAfter(arg) IN
       Goto("propose_build", IF HeightOf[Best] + 1 - first < Sigma THEN None
                             ELSE BlockAt(Best, first))
    /\ UNCHANGED <<pow, decided, height, passed, proposal, internal, file,
                   answers, crashes>>

(* Under the lock again: the block is built on the tip of now, from the    *)
(* first Sigma headers, if there are so many.                              *)
ProposeBuild ==
    /\ pc = "propose_build"
    /\ proposal' = IF arg = None THEN None
                   ELSE Block(Len(bft_blocks) + 1,
                              Append(fat_pointer_to_tip, arg))
    /\ Idle
    /\ UNCHANGED <<pow, decided, height, passed, internal, file, answers,
                   crashes>>

-------------------------------------------------------------------------------
(* Other validators run this code too: what they propose, and so what is   *)
(* decided, extends the finalized chain as a proposal does here            *)
(* (ProposalsExtendFinality).                                              *)
Extends(c, final) ==
    IF final = None THEN c # Genesis
    ELSE Above(c, final) /\ HeightOf[c] <= HeightOf[final] + MaxAdvance + 1
Headed(c) ==
    \E b \in Blocks : c \in Ancestors[b] /\ HeightOf[b] + 1 = HeightOf[c] + Sigma
LastDecided == IF decided = <<>> THEN None ELSE decided[Len(decided)]

NetworkDecides(c) ==
    /\ Len(decided) < MaxDecided
    /\ c \in Blocks /\ Extends(c, LastDecided) /\ Headed(c)
    /\ decided' = Append(decided, c)
    /\ UNCHANGED <<pow, pc, arg, block, height, passed, proposal, internal, file,
                   answers, crashes>>

(* validate_bft_block on the proposal that will be decided, for its votes. *)
ValidatePrevious ==
    /\ pc = "idle" /\ height <= Len(decided)
    /\ DecidedBlock(height) \notin passed
    /\ IF PreviousHash(DecidedBlock(height)) = fat_pointer_to_tip
       THEN Take("validate_known", DecidedBlock(height))
       ELSE UNCHANGED <<pc, arg, block>>
    /\ UNCHANGED <<pow, decided, height, passed, proposal, internal, file,
                   answers, crashes>>

ValidateKnown ==
    /\ pc = "validate_known"
    /\ passed' = IF FinalOf(block) \in known THEN passed \cup {block} ELSE passed
    /\ Idle
    /\ UNCHANGED <<pow, decided, height, proposal, internal, file, answers,
                   crashes>>

-------------------------------------------------------------------------------
(* handle_new_decided_bft_block: first it validates the block again, and   *)
(* panics unless it passes.                                                *)
HandleDecided ==
    /\ pc = "idle" /\ height <= Len(decided)
    /\ DecidedBlock(height) \in passed
    /\ IF PreviousHash(DecidedBlock(height)) = fat_pointer_to_tip
       THEN /\ Take("handle_known", DecidedBlock(height))
            /\ UNCHANGED <<pow, decided, height, passed, proposal, internal,
                           file, answers, crashes>>
       ELSE Abort /\ UNCHANGED <<db, file>>

HandleKnown ==
    /\ pc = "handle_known"
    /\ IF FinalOf(block) \in known
       THEN /\ Take("handle_height", block)
            /\ UNCHANGED <<pow, decided, height, passed, proposal, internal,
                           file, answers, crashes>>
       ELSE Abort /\ UNCHANGED <<db, file>>

(* block_height_from_hash asks the state once more. *)
HandleHeight ==
    /\ pc = "handle_height"
    /\ IF FinalOf(block) \in known
       THEN /\ Take("handle_insert", block)
            /\ UNCHANGED <<pow, decided, height, passed, proposal, internal,
                           file, answers, crashes>>
       ELSE Abort /\ UNCHANGED <<db, file>>

(* Under the lock: bft_blocks is padded with empty blocks up to the height *)
(* of the block, which must follow the one before it and take an empty     *)
(* place.                                                                  *)
Padded(h) ==
    [i \in 1 .. IF h > Len(bft_blocks) THEN h ELSE Len(bft_blocks) |->
        IF i <= Len(bft_blocks) THEN bft_blocks[i] ELSE Empty]
HandleInsert ==
    /\ pc = "handle_insert"
    /\ LET blocks == Padded(block.height) IN
       IF /\ block.height > 1 =>
                /\ HashOf(blocks[block.height - 1]) = PreviousHash(block)
                /\ PreviousHash(block) # Null
          /\ HashOf(blocks[block.height]) = Null
       THEN /\ bft_blocks' = [blocks EXCEPT ![block.height] = block]
            /\ fat_pointer_to_tip' = HashOf(block)
            /\ latest_final_block' = FinalOf(block)
            /\ Take("handle_finalize", block)
            /\ UNCHANGED <<pow, decided, height, passed, proposal, roster,
                           file, answers, crashes>>
       ELSE Abort /\ UNCHANGED <<db, file>>

(* CrosslinkFinalizeBlock: a block of a chain is finalized with those      *)
(* below it, and answered with the stakes after it.  One that is finalized *)
(* already is answered without stakes, and so is one that the state does   *)
(* not have: that error is only logged.                                    *)
Answer(b) ==
    IF b \in Ancestors[db] THEN "already"
    ELSE IF b \in known THEN "finalized" ELSE "refused"

\* Faults, for the runs to detect: the chain is finalized up to the block
\* below, or only if there are bonds.
FinalizedTip_Below(b) == IF Answer(b) = "finalized" THEN Parent(b) ELSE db
FinalizedTip_IfBonded(b) ==
    IF Answer(b) = "finalized" /\ b \in Bonded THEN b ELSE db

FinalizedTip(b) == IF Answer(b) = "finalized" THEN b ELSE db
HandleFinalize ==
    /\ pc = "handle_finalize"
    /\ LET final  == FinalOf(block)
           answer == Answer(final)
       IN  /\ db' = FinalizedTip(final)
           /\ known' = Retain(known, FinalizedTip(final))
           /\ Goto("handle_store",
                   IF answer = "finalized" /\ final \in Bonded THEN final
                                                              ELSE None)
           /\ answers' = [answers EXCEPT ![block.height] = answer]
    /\ UNCHANGED <<decided, height, passed, proposal, internal, file, crashes>>

\* Faults, for the runs to detect: an answer without stakes empties the
\* roster; the record keeps the roster of before the block.
NewRoster_Unchecked == arg
AppendRecord_OldRoster == Append(file, Record(block, roster))

NewRoster == IF arg # None THEN arg ELSE roster
AppendRecord == Append(file, Record(block, NewRoster))

(* Under the lock: stakes, if any, become the roster; the block is         *)
(* appended to the file with the roster after it.  Tenderlink goes on to   *)
(* the next height.                                                        *)
HandleStore ==
    /\ pc = "handle_store"
    /\ roster' = NewRoster
    /\ file' = AppendRecord
    /\ height' = height + 1 /\ passed' = {}
    /\ Idle
    /\ UNCHANGED <<pow, decided, proposal, bft_blocks, fat_pointer_to_tip,
                   latest_final_block, answers, crashes>>

-------------------------------------------------------------------------------
(* A crash loses what is in memory, the PoW blocks that are not finalized  *)
(* included.  It may cut short the finalization of several PoW blocks, or  *)
(* the record that is being appended.                                      *)
Crash ==
    /\ pc # "down" /\ crashes < MaxCrashes
    /\ db' \in IF pc = "handle_finalize" /\ Answer(FinalOf(block)) = "finalized"
               THEN {b \in Ancestors[FinalOf(block)] : db \in Ancestors[b]}
               ELSE {db}
    /\ file' \in IF pc = "handle_store" THEN {file, Append(file, Torn)}
                                        ELSE {file}
    /\ pc' = "down" /\ arg' = None /\ block' = None
    /\ known' = Ancestors[db']
    /\ height' = 0 /\ passed' = {} /\ proposal' = None
    /\ bft_blocks' = <<>> /\ fat_pointer_to_tip' = Null
    /\ latest_final_block' = None /\ roster' = ConfigRoster
    /\ crashes' = crashes + 1
    /\ UNCHANGED <<decided, answers>>

\* Fault, for the runs to detect: a file with a torn record is not loaded.
Loadable_Whole(records) == records = file

(* The state must have the last final block, else startup panics. *)
Loadable(records) ==
    records # <<>> => FinalOf(records[Len(records)].block) \in known

(* tfl_service_main_loop up to the start of tenderlink. *)
Startup ==
    /\ pc = "down"
    /\ LET records == Valid(file)
           n       == Len(records)
       IN  /\ Loadable(records)
           /\ file' = Truncated(file)
           /\ bft_blocks' = [i \in 1 .. n |-> records[i].block]
           /\ fat_pointer_to_tip' =
                IF n = 0 THEN Null ELSE HashOf(records[n].block)
           /\ latest_final_block' =
                IF n = 0 THEN None ELSE FinalOf(records[n].block)
           /\ roster' = IF n = 0 THEN ConfigRoster ELSE records[n].roster
           /\ height' = n + 1
    /\ Idle
    /\ UNCHANGED <<pow, decided, passed, proposal, answers, crashes>>

Init ==
    /\ known = {Genesis} /\ db = Genesis
    /\ decided = <<>>
    /\ pc = "down" /\ arg = None /\ block = None
    /\ height = 0 /\ passed = {} /\ proposal = None
    /\ bft_blocks = <<>> /\ fat_pointer_to_tip = Null
    /\ latest_final_block = None /\ roster = ConfigRoster
    /\ file = <<>>
    /\ answers = [h \in 1 .. MaxDecided |-> None]
    /\ crashes = 0

Propose == ProposeTip \/ ProposeFinal \/ ProposeHeader \/ ProposeFind \/ ProposeBuild
Validate == ValidatePrevious \/ ValidateKnown
Handle ==
    \/ HandleDecided \/ HandleKnown \/ HandleHeight \/ HandleInsert
    \/ HandleFinalize \/ HandleStore

Next ==
    \/ \E b \in Blocks : CommitPowBlock(b) \/ NetworkDecides(b)
    \/ Propose \/ Validate \/ Handle
    \/ Crash \/ Startup

Spec == Init /\ [][Next]_vars

-------------------------------------------------------------------------------
(* The decided chain that the PoS store file holds. *)
Stored == [i \in 1 .. ValidCount(file) |-> file[i].block]

(* TFLServiceInternal, the task and the store keep their types. *)
TypeOK ==
    /\ known \subseteq Blocks /\ db \in known
    /\ decided \in Seq(Blocks) /\ Len(decided) <= MaxDecided
    /\ pc \in {"down", "idle", "propose_final", "propose_header",
               "propose_find", "propose_build", "validate_known",
               "handle_known", "handle_height", "handle_insert",
               "handle_finalize", "handle_store"}
    /\ height \in 0 .. MaxDecided + 1
    /\ latest_final_block \in Blocks \cup {None}
    /\ roster \in Rosters
    /\ \A i \in 1 .. Len(file) :
          file[i] # Torn => file[i].roster \in Rosters
    /\ answers \in [1 .. MaxDecided -> {None, "finalized", "already", "refused"}]
    /\ crashes \in 0 .. MaxCrashes

(* What the PoS store file holds is what the network has decided, in       *)
(* order, and the blocks in memory are the same with at most the one that  *)
(* is being handled beyond them: crashes, torn records and the truncation  *)
(* at startup never make a node continue from another chain.               *)
StoreFollowsConsensus ==
    LET n == ValidCount(file)
        m == IF pc \in {"handle_finalize", "handle_store"} THEN n + 1 ELSE n
    IN  /\ n <= Len(decided) /\ \A i \in 1 .. n : Stored[i] = DecidedBlock(i)
        /\ pc # "down" =>
              /\ height = n + 1 /\ Len(file) = n /\ m <= Len(decided)
              /\ bft_blocks = [i \in 1 .. m |-> DecidedBlock(i)]
              /\ fat_pointer_to_tip = SubSeq(decided, 1, m)

(* No step, and no crash, loses or changes a block that a reader of the    *)
(* PoS store file could have seen: set_len at startup only removes what    *)
(* was never complete.                                                     *)
StoreOnlyGrows ==
    [][/\ DOMAIN Stored \subseteq DOMAIN Stored'
       /\ \A i \in DOMAIN Stored : Stored'[i] = Stored[i]]_vars

(* The final block that the service reports, and the one that a restart    *)
(* will look for, is finalized in the PoW state, or was refused by it,     *)
(* except while CrosslinkFinalizeBlock is under way.                       *)
OffChain(b) == b \notin Ancestors[db] /\ db \notin Ancestors[b]
FinalityIsSettled ==
    LET n == ValidCount(file) IN
    /\ pc # "handle_finalize" /\ latest_final_block # None =>
          latest_final_block \in Ancestors[db] \/ OffChain(latest_final_block)
    /\ pc = "down" /\ n > 0 =>
          FinalOf(Stored[n]) \in Ancestors[db] \/ OffChain(FinalOf(Stored[n]))

(* The roster of each record is that of the last decided block whose       *)
(* finalization was answered with stakes: the blocks that the PoW state    *)
(* had finalized before it was asked (after a crash, or by the reorg       *)
(* limit) or refused are the only ones that leave an old roster in place.  *)
Staked(n) == {i \in 1 .. n : answers[i] = "finalized" /\ decided[i] \in Bonded}
Newest(S) == CHOOSE i \in S : \A j \in S : j <= i
RosterAfter(n) == IF Staked(n) = {} THEN ConfigRoster ELSE decided[Newest(Staked(n))]
RosterFollowsFinality ==
    /\ \A i \in 1 .. ValidCount(file) : file[i].roster = RosterAfter(i)
    /\ pc # "down" => roster = RosterAfter(Len(file))

(* A proposal is built on the decided chain and makes a block final that   *)
(* is above the final one, although the tip, the final block, the          *)
(* candidate and its headers are read before and after awaits while the    *)
(* PoW chain reorganizes (unless the PoW state refused the final block).   *)
ProposalsExtendFinality ==
    [][proposal' # proposal /\ proposal' # None =>
         /\ proposal'.height = height
         /\ PreviousHash(proposal') = SubSeq(decided, 1, height - 1)
         /\ \/ Extends(FinalOf(proposal'), latest_final_block)
            \/ latest_final_block # None /\ OffChain(latest_final_block)]_vars

(* "At least this many PoW blocks must be atop the PoW block used to       *)
(* obtain a finalized view" (ZcashCrosslinkParameters, of Sigma).          *)
ProposalsAreSigmaDeep ==
    [][proposal' # proposal /\ proposal' # None =>
         HeightOf[Best] >= HeightOf[FinalOf(proposal')] + Sigma]_vars

(* The service implements Finality: the PoS store file is its log. *)
F == INSTANCE Finality WITH
        finalized <- db,
        log <- [i \in 1 .. ValidCount(file) |-> FinalOf(file[i].block)]
ImplementsFinality == F!Spec

-------------------------------------------------------------------------------
(* The runtime polls the task of tenderlink, which in every turn of its    *)
(* loop looks at the proposals it has, whatever it proposes itself; a node *)
(* that crashed is started again.                                          *)
Fairness ==
    /\ WF_vars(Startup)
    /\ WF_vars(pc \notin {"down", "idle"} /\ (Propose \/ Validate \/ Handle))
    /\ SF_vars(ValidatePrevious) /\ SF_vars(HandleDecided)

FairSpec == Spec /\ Fairness

(* A node does not stay behind for ever: a decided block whose PoW block   *)
(* the node keeps is in the PoS store file in the end, through panics,     *)
(* crashes and restarts.                                                   *)
CatchesUp ==
    \A h \in 1 .. MaxDecided :
        []<>(h <= Len(decided) /\ decided[h] \in known => ValidCount(file) >= h)
===============================================================================
