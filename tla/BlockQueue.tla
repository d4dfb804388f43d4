------------------------------ MODULE BlockQueue ------------------------------
(***************************************************************************)
(* How PoW blocks get into the state of one node: StateService queues the  *)
(* blocks that it is given until their parent has been sent on, and sends  *)
(* them over a channel to the block write task, a thread of its own, which *)
(* commits them in memory and moves the oldest to the database.  First the *)
(* checkpoint verified blocks go straight to the database; the first child *)
(* of the last of them ends that.  The Crosslink service asks for blocks   *)
(* to be finalized, and is asked whether it knows the BFT blocks that a    *)
(* new block and its parent point to.                                      *)
(*                                                                         *)
(* StateService reads the database and the chains that the write task last *)
(* published while the write task goes on, so a commit request takes       *)
(* several steps here: "check" and "prune" each start with such a read,    *)
(* and "send" is one round of the loop that empties the queue.             *)
(***************************************************************************)
EXTENDS ChainSet, Sequences, Functions

CONSTANTS
    Checkpointed, \* the blocks that the checkpoint verifier commits
    Lookahead,    \* full_verifier_utxo_lookahead
    Pointer,      \* the BFT block of each header: 0 none, n the nth decided
    Invalid,      \* the blocks that break a contextual rule
    Decisions,    \* the blocks that the BFT blocks finalize, in order
    ReorgLimit,   \* MAX_BLOCK_REORG_HEIGHT
    MaxForks,     \* MAX_NON_FINALIZED_CHAIN_FORKS
    MaxErrors,    \* PARENT_ERROR_MAP_LIMIT
    MaxFaults     \* bound on the restarts and the failed checkpoint commits

ASSUME QueueAssumption ==
    /\ Checkpointed \subseteq Blocks \ {Genesis}
    /\ \A a, b \in Checkpointed : a \in Ancestors[b] \/ b \in Ancestors[a]
    /\ \A a \in Checkpointed : Ancestors[a] \subseteq Checkpointed \cup {Genesis}
    /\ Pointer \in [Blocks -> Nat] /\ Invalid \subseteq Blocks
    /\ Decisions \in Seq(Blocks \ {Genesis})
    /\ Lookahead \in Nat /\ ReorgLimit \in Nat \ {0} /\ MaxForks \in Nat \ {0}
    /\ MaxErrors \in Nat \ {0} /\ MaxFaults \in Nat

VARIABLES
    \* StateService
    queue,        \* QueuedBlocks: the blocks, which are also those by parent
    byHeight,     \* QueuedBlocks: those that by_height still lists
    sent,         \* SentHashes: the hashes
    bufs,         \* SentHashes: the finished batches
    batch,        \* SentHashes: the current batch
    call,         \* the commit request that is being served
    parents,      \* new_parents of send_ready_non_finalized_queued
    checkpoints,  \* finalized_state_queued_blocks
    last_sent,    \* finalized_block_write_last_sent_hash
    sending,      \* whether the sender of checkpoint blocks is still there
    \* the channels
    toDisk,       \* checkpoint verified blocks for the write task
    toMemory,     \* messages for the write task
    reset,        \* hashes for StateService to start again from
    \* the block write task
    db,           \* the finalized tip on disk
    chains,       \* chain_set: the blocks of each non-finalized chain
    errors,       \* parent_error_map
    todo,         \* the blocks that are still to be finalized, and why
    published,    \* the chain_set that the rest of the node sees
    \* the rest
    decided,      \* how many BFT blocks Crosslink knows
    asked,        \* for how many of them it asked to finalize
    faults        \* the restarts and failed commits so far

service == <<queue, byHeight, sent, bufs, batch, call, parents>>
checkpoint == <<checkpoints, last_sent, sending>>
channels == <<toDisk, toMemory, reset>>
writer == <<db, chains, errors, todo, published>>
crosslink == <<decided, asked>>
vars == <<service, checkpoint, channels, writer, crosslink, faults>>

-------------------------------------------------------------------------------
(* Chains of the non-finalized state. *)

(* insert_with, after the filter: the lowest chains go. *)
Limited(cs) == {c \in cs : Cardinality({d \in cs : Greater(d, c)}) < MaxForks}

(* The chain that a block extends: a whole chain, or a fork of one. *)
ParentChain(p) ==
    IF p = db THEN {} ELSE
    LET c == CHOOSE c \in chains : p \in c IN c \cap Ancestors[p]

-------------------------------------------------------------------------------
(* StateService: CommitSemanticallyVerifiedBlock. *)

Idle == [at |-> "idle"]
Nothing == [left |-> 0, upTo |-> Genesis]
Commit(b) == [type |-> "commit", block |-> b]
Finalize(b) == [type |-> "finalize", block |-> b]

Children(p) == {b \in queue : b # Genesis /\ Parent(b) = p}

(* can_fork_chain_at: SentHashes counts once the checkpoints are done. *)
CanFork(p) == p = db \/ (~sending /\ p \in sent)

(* call_from_state_to_crosslink_to_ask_about_fat_pointers: no pointer and  *)
(* the pointer to the first block have the same height.                    *)
Position(n) == IF n = 0 THEN 0 ELSE n - 1
Confirmed(b, p) ==
    /\ Pointer[p] <= decided /\ Pointer[b] <= decided
    /\ Position(Pointer[b]) >= Position(Pointer[p])

(* Fault, for the runs to detect: a request that takes the place of an     *)
(* older one is not looked at again.                                       *)
Submit_Replaces(b) ==
    /\ call = Idle
    /\ \A c \in Checkpointed \cup {Genesis} : HeightOf[b] > HeightOf[c]
    /\ b \notin sent \cup queue /\ HeightOf[b] > HeightOf[db]
    /\ queue' = queue \cup {b} /\ byHeight' = byHeight \cup {b}
    /\ call' = [at |-> "check", block |-> b,
                found |-> Parent(b) \in (UNION published) \cup Ancestors[db]]
    /\ UNCHANGED <<sent, bufs, batch, parents, checkpoint, channels, writer,
                   crosslink, faults>>

(* A new request looks its parent up, in the published chains and then on  *)
(* disk, and is queued unless it was sent on before or is too low.  One    *)
(* that is already queued takes the place of the older request.            *)
Submit(b) ==
    /\ call = Idle
    /\ \A c \in Checkpointed \cup {Genesis} : HeightOf[b] > HeightOf[c]
    /\ b \notin sent /\ HeightOf[b] > HeightOf[db]
    /\ queue' = queue \cup {b}
    /\ byHeight' = IF b \in queue THEN byHeight ELSE byHeight \cup {b}
    /\ call' = [at |-> "check", block |-> b,
                found |-> Parent(b) \in (UNION published) \cup Ancestors[db]]
    /\ UNCHANGED <<sent, bufs, batch, parents, checkpoint, channels, writer,
                   crosslink, faults>>

(* The first child of the last checkpoint block closes the sender of those *)
(* blocks and starts SentHashes anew; a later block is sent on when its    *)
(* parent was, or is the finalized tip.  Both only if Crosslink confirms   *)
(* the pointer: if not, the caller is told so and the block stays queued.  *)
EndsCheckpoints == sending /\ Children(last_sent) # {} /\ db = last_sent
Ready(b) == call.found /\ Confirmed(b, Parent(b))

Check ==
    /\ call.at = "check"
    /\ IF EndsCheckpoints /\ Ready(call.block)
       THEN /\ sending' = FALSE /\ checkpoints' = {}
            /\ sent' = {} /\ bufs' = {} /\ batch' = <<>>
            /\ parents' = <<last_sent>>
            /\ call' = [at |-> "send", prune |-> FALSE]
       ELSE /\ UNCHANGED <<sending, checkpoints, sent, bufs, batch>>
            /\ IF ~sending /\ CanFork(Parent(call.block)) /\ Ready(call.block)
               THEN /\ parents' = <<Parent(call.block)>>
                    /\ call' = [at |-> "send", prune |-> TRUE]
               ELSE call' = Idle /\ UNCHANGED parents
    /\ UNCHANGED <<queue, byHeight, last_sent, channels, writer, crosslink, faults>>

(* Fault, for the runs to detect: by_height keeps the blocks. *)
Dequeue_KeepsHeight(kids) == queue' = queue \ kids /\ UNCHANGED byHeight

(* dequeue_children drops the whole entry of a height from by_height. *)
Dequeue(kids) ==
    /\ queue' = queue \ kids
    /\ byHeight' = {b \in byHeight : \A k \in kids : HeightOf[b] # HeightOf[k]}

(* One round of send_ready_non_finalized_queued: the parent on top of the  *)
(* stack, and its children in the order of a hash set.  The last round     *)
(* finishes the batch.                                                     *)
Send ==
    /\ call.at = "send"
    /\ LET kids == Children(parents[Len(parents)]) IN
       \E order \in Bijection(1 .. Cardinality(kids), kids) :
          LET all == batch \o order
              stack == SubSeq(parents, 1, Len(parents) - 1) \o order
          IN  /\ Dequeue(kids)
              /\ sent' = sent \cup kids
              /\ toMemory' = toMemory \o [i \in DOMAIN order |-> Commit(order[i])]
              /\ parents' = stack
              /\ IF stack # <<>>
                 THEN batch' = all /\ UNCHANGED <<bufs, call>>
                 ELSE /\ batch' = <<>>
                      /\ bufs' = bufs \cup ({all} \ {<<>>})
                      /\ call' = IF call.prune THEN [at |-> "prune"] ELSE Idle
    /\ UNCHANGED <<checkpoint, toDisk, reset, writer, crosslink, faults>>

(* prune_by_height: what by_height lists up to the finalized height leaves *)
(* the queue, and each batch of SentHashes loses its front up to the first *)
(* block above that height.                                                *)
Low(b) == HeightOf[b] <= HeightOf[db]

(* Fault, for the runs to detect: SentHashes loses one height more. *)
Expired_OneMore(s) ==
    {i \in DOMAIN s : \A j \in 1..i : HeightOf[s[j]] <= HeightOf[db] + 1}

Expired(s) == {i \in DOMAIN s : \A j \in 1..i : Low(s[j])}
Rest(s) == SubSeq(s, Cardinality(Expired(s)) + 1, Len(s))

Prune ==
    /\ call.at = "prune"
    /\ queue' = queue \ {b \in byHeight : Low(b)}
    /\ byHeight' = {b \in byHeight : ~Low(b)}
    /\ sent' = sent \ UNION {{s[i] : i \in Expired(s)} : s \in bufs}
    /\ bufs' = {Rest(s) : s \in bufs} \ {<<>>}
    /\ call' = Idle
    /\ UNCHANGED <<batch, parents, checkpoint, channels, writer, crosslink, faults>>

-------------------------------------------------------------------------------
(* StateService: CommitCheckpointVerifiedBlock and CrosslinkFinalizeBlock. *)

(* The queued blocks that follow on from a. *)
Following(a, cs) ==
    {b \in cs : Above(b, a) /\ Ancestors[b] \ Ancestors[a] \subseteq cs}

(* The blocks after a on the chain that ends in b, in order. *)
Between(a, b) ==
    [i \in 1 .. HeightOf[b] - HeightOf[a] |-> BlockAt(b, HeightOf[a] + i)]

(* drain_finalized_queue_and_commit: after a failed commit it starts again *)
(* from the hash that the write task sent.                                 *)
Drain(cs) ==
    LET from == IF reset = <<>> THEN last_sent ELSE Head(reset)
        run == Following(from, cs)
    IN  /\ reset' = IF reset = <<>> THEN reset ELSE Tail(reset)
        /\ checkpoints' = cs \ run
        /\ last_sent' = IF run = {} THEN from ELSE Tip(run)
        /\ toDisk' = toDisk \o Between(from, last_sent')

(* The verifier gives a block again after a failure, not while it is on    *)
(* its way; a late duplicate is bounded by SentHashes.                     *)
SubmitCheckpoint(b) ==
    /\ call = Idle
    /\ b \in Checkpointed
    /\ IF sending THEN b \notin Ancestors[db] \cup Range(toDisk) \cup checkpoints
                  ELSE b \notin sent
    /\ IF HeightOf[b] >= Lookahead
       THEN sent' = sent \cup {b} /\ batch' = Append(batch, b)
       ELSE UNCHANGED <<sent, batch>>
    /\ IF sending
       THEN Drain(checkpoints \cup {b})
       ELSE checkpoints' = {} /\ UNCHANGED <<last_sent, toDisk, reset>>
    /\ UNCHANGED <<queue, byHeight, bufs, call, parents, sending, toMemory, writer,
                   crosslink, faults>>

(* The service asks for each BFT block once its PoW block is known, and    *)
(* waits for the answer.                                                   *)
Answered == todo = Nothing /\ \A i \in DOMAIN toMemory : toMemory[i].type = "commit"

CrosslinkFinalize ==
    /\ call = Idle /\ asked < decided
    /\ Decisions[decided] \in (UNION published) \cup Ancestors[db]
    /\ asked' = decided
    /\ toMemory' = IF sending THEN toMemory
                   ELSE Append(toMemory, Finalize(Decisions[decided]))
    /\ UNCHANGED <<service, checkpoint, toDisk, reset, writer, decided, faults>>

(* Tenderlink decides another BFT block. *)
Decide ==
    /\ asked = decided /\ Answered
    /\ decided < Len(Decisions)
    /\ decided' = decided + 1
    /\ UNCHANGED <<service, checkpoint, channels, writer, asked, faults>>

-------------------------------------------------------------------------------
(* The block write task. *)

(* Fault, for the runs to detect: any block above the tip will do. *)
NextValid_AnyHigher(b) == HeightOf[b] > HeightOf[db]

(* The write task asks only for the height of a checkpoint block. *)
NextValid(b) == HeightOf[b] = HeightOf[db] + 1

(* commit_finalized, for a checkpoint block: one that does not follow the  *)
(* finalized tip is dropped, and a failure starts the queue again there.   *)
WriteCheckpoint ==
    /\ toDisk # <<>>
    /\ toDisk' = Tail(toDisk)
    /\ IF ~NextValid(Head(toDisk))
       THEN UNCHANGED <<db, reset, faults>>
       ELSE \/ db' = Head(toDisk) /\ UNCHANGED <<reset, faults>>
            \/ /\ faults < MaxFaults
               /\ faults' = faults + 1
               /\ reset' = Append(reset, db)
               /\ UNCHANGED db
    /\ UNCHANGED <<service, checkpoint, toMemory, chains, errors, todo, published,
                   crosslink>>

(* The task turns to the second channel when the first one is closed. *)
Receives(type) ==
    /\ ~sending /\ toDisk = <<>> /\ todo = Nothing
    /\ toMemory # <<>> /\ Head(toMemory).type = type
    /\ toMemory' = Tail(toMemory)

(* validate_and_commit_non_finalized. *)
Accepted(b) ==
    /\ HeightOf[b] > HeightOf[db]
    /\ Parent(b) = db \/ \E c \in chains : Parent(b) \in c
    /\ b \notin Invalid

(* commit_new_chain and commit_block: the extended chain takes the place   *)
(* of the one that ended in the parent.                                    *)
Extended(b) ==
    Limited({c \in chains : Tip(c) # Parent(b)} \cup {ParentChain(Parent(b)) \cup {b}})

(* Fault, for the runs to detect: the length is not compared. *)
PastLimit_Unchecked(cs) ==
    [left |-> Cardinality(BestChain(cs)) - ReorgLimit, upTo |-> Genesis]

(* The blocks past the reorg limit are to be finalized. *)
PastLimit(cs) ==
    IF Cardinality(BestChain(cs)) <= ReorgLimit THEN Nothing
    ELSE [left |-> Cardinality(BestChain(cs)) - ReorgLimit, upTo |-> Genesis]

(* A block whose parent was rejected is rejected too, and remembered. *)
WriteBlock ==
    /\ Receives("commit")
    /\ LET b == Head(toMemory).block IN
       IF Parent(b) \notin Range(errors) /\ Accepted(b)
       THEN /\ chains' = Extended(b)
            /\ published' = chains'
            /\ todo' = PastLimit(chains')
            /\ UNCHANGED errors
       ELSE /\ errors' = LET es == Append(errors, b) IN
                         IF Len(es) > MaxErrors THEN Tail(es) ELSE es
            /\ UNCHANGED <<chains, published, todo>>
    /\ UNCHANGED <<service, checkpoint, toDisk, reset, db, crosslink, faults>>

(* Fault, for the runs to detect: the other chains stay. *)
Kept_All(b) == IF \E c \in chains : b \in c THEN chains ELSE {}

(* crosslink_finalize: the chains without the block go. *)
Kept(b) == {c \in chains : b \in c}

(* Fault, for the runs to detect: the chains that are left are not         *)
(* published.                                                              *)
WriteFinalize_Unpublished ==
    /\ Receives("finalize")
    /\ LET b == Head(toMemory).block IN
       IF Kept(b) = {} THEN UNCHANGED <<chains, todo>>
       ELSE /\ chains' = Kept(b)
            /\ todo' = [left |-> Cardinality(BestChain(Kept(b)) \cap Ancestors[b]),
                        upTo |-> b]
    /\ UNCHANGED <<service, checkpoint, toDisk, reset, db, errors, published,
                   crosslink, faults>>

(* The chains with the block are published, and what is up to the block is *)
(* to be finalized.  A block that is in no chain is on disk already or     *)
(* unknown: nothing changes.                                               *)
WriteFinalize ==
    /\ Receives("finalize")
    /\ LET b == Head(toMemory).block IN
       IF Kept(b) = {} THEN UNCHANGED <<chains, published, todo>>
       ELSE /\ chains' = Kept(b)
            /\ published' = chains'
            /\ todo' = [left |-> Cardinality(BestChain(Kept(b)) \cap Ancestors[b]),
                        upTo |-> b]
    /\ UNCHANGED <<service, checkpoint, toDisk, reset, db, errors, crosslink, faults>>

(* finalize and commit_finalized_direct, once. *)
FinalizeRoot ==
    /\ todo.left > 0
    /\ db' = Root(BestChain(chains))
    /\ chains' = Popped(chains)
    /\ todo' = IF todo.left = 1 THEN Nothing ELSE [todo EXCEPT !.left = @ - 1]
    /\ UNCHANGED <<service, checkpoint, channels, errors, published, crosslink, faults>>

-------------------------------------------------------------------------------
(* The process stops, and starts again with what is on disk.  The last BFT *)
(* block that it asked for may not have been stored yet.                   *)
Restart ==
    /\ faults < MaxFaults
    /\ faults' = faults + 1
    /\ asked' \in {asked} \cup (IF asked = decided /\ asked > 0 THEN {asked - 1} ELSE {})
    /\ queue' = {} /\ byHeight' = {} /\ sent' = {} /\ bufs' = {} /\ batch' = <<>>
    /\ call' = Idle /\ parents' = <<>>
    /\ checkpoints' = {} /\ last_sent' = db /\ sending' = TRUE
    /\ toDisk' = <<>> /\ toMemory' = <<>> /\ reset' = <<>>
    /\ chains' = {} /\ errors' = <<>> /\ todo' = Nothing /\ published' = {}
    /\ decided' = asked'
    /\ UNCHANGED db

Init ==
    /\ queue = {} /\ byHeight = {} /\ sent = {} /\ bufs = {} /\ batch = <<>>
    /\ call = Idle /\ parents = <<>>
    /\ checkpoints = {} /\ last_sent = Genesis /\ sending = TRUE
    /\ toDisk = <<>> /\ toMemory = <<>> /\ reset = <<>>
    /\ db = Genesis /\ chains = {} /\ errors = <<>> /\ todo = Nothing
    /\ published = {} /\ decided = 0 /\ asked = 0 /\ faults = 0

Serve == Check \/ Send \/ Prune
Write == WriteCheckpoint \/ WriteBlock \/ WriteFinalize \/ FinalizeRoot

Crosslink == CrosslinkFinalize \/ Decide

Next ==
    \/ \E b \in Blocks : Submit(b) \/ SubmitCheckpoint(b)
    \/ Serve \/ Write \/ Crosslink \/ Restart

Spec == Init /\ [][Next]_vars

(* A block that is valid, and so are those below it, and whose pointers    *)
(* Crosslink will confirm.                                                 *)
Committable(b) ==
    \A a \in Ancestors[b] \ {Genesis} :
        /\ a \notin Invalid
        /\ Pointer[a] <= Len(Decisions)
        /\ Position(Pointer[a]) >= Position(Pointer[Parent(a)])

(* The write task is a thread of its own.  StateService goes on with a     *)
(* request until it is answered.  Whoever gives it blocks asks KnownBlock  *)
(* first, which does not look into the queue, and so gives a block that is *)
(* not in the state again and again.  Tenderlink goes on deciding, and the *)
(* service gets its turn to ask.                                           *)
Fairness ==
    /\ WF_vars(Write) /\ WF_vars(Serve) /\ SF_vars(Crosslink)
    /\ SF_vars(\E b \in Checkpointed : SubmitCheckpoint(b))
    /\ \A b \in {a \in Blocks \ Checkpointed : Committable(a)} : SF_vars(Submit(b))

FairSpec == Spec /\ Fairness

-------------------------------------------------------------------------------
(* The variables have their types. *)
TypeOK ==
    /\ queue \subseteq Blocks /\ byHeight \subseteq Blocks /\ sent \subseteq Blocks
    /\ bufs \subseteq Seq(Blocks) /\ batch \in Seq(Blocks)
    /\ \/ call \in {Idle, [at |-> "prune"]}
       \/ call \in [at : {"send"}, prune : BOOLEAN]
       \/ call \in [at : {"check"}, block : Blocks, found : BOOLEAN]
    /\ parents \in Seq(Blocks) /\ checkpoints \subseteq Checkpointed
    /\ last_sent \in Blocks /\ sending \in BOOLEAN
    /\ toDisk \in Seq(Checkpointed) /\ reset \in Seq(Blocks)
    /\ toMemory \in Seq([type : {"commit", "finalize"}, block : Blocks])
    /\ db \in Blocks /\ chains \subseteq SUBSET Blocks /\ errors \in Seq(Blocks)
    /\ todo \in [left : Nat, upTo : Blocks] /\ published \subseteq SUBSET Blocks
    /\ decided \in Nat /\ asked \in Nat /\ faults \in Nat

(* Every non-finalized chain goes on from the finalized tip, and has a     *)
(* block: finalize, which pops the root of each chain and inserts the side *)
(* chains without asking whether they are empty, keeps it so, and its      *)
(* expects and its assertion on the roots hold (non_finalized_state.rs).   *)
ChainsStartAtTheTip ==
    \A c \in chains :
        /\ c # {}
        /\ db \in Ancestors[Tip(c)]
        /\ c = Ancestors[Tip(c)] \ Ancestors[db]

(* A reader that takes the best chain last published together with the     *)
(* database sees one chain, at every moment, although the database moves   *)
(* on after the chains were published: "Committing blocks to the finalized *)
(* state keeps the same chain" (write.rs).                                 *)
ReadersSeeOneChain ==
    published # {} =>
        LET tip == Tip(BestChain(published)) IN
        BestChain(published) \cup Ancestors[db] = Ancestors[tip]

(* No block is sent to the write task twice, or after it is in the state:  *)
(* chain_set panics on two equal chains (Ord for Chain).  SentHashes is    *)
(* pruned and started anew, and blocks leave memory for the disk, while    *)
(* requests for the same block may come at any time.                       *)
NothingCommittedTwice ==
    \A i \in DOMAIN toMemory : toMemory[i].type = "commit" =>
        /\ toMemory[i].block \notin (UNION chains) \cup Ancestors[db]
        /\ \A j \in DOMAIN toMemory : toMemory[j] = toMemory[i] => j = i

(* What by_height lists is in the queue, which prune_by_height expects,    *)
(* and what is in the queue was not sent on.                               *)
QueueAgrees == byHeight \subseteq queue /\ queue \cap sent = {}

(* The blocks that the write task goes on to finalize for Crosslink are    *)
(* those up to the block that it was asked for, whichever chain is best:   *)
(* the loop of write.rs counts them on one chain and pops them off the     *)
(* best one.                                                               *)
FinalizesTheDecision ==
    todo.upTo # Genesis => \A c \in chains :
        todo.upTo \in c /\ todo.left = Cardinality(c \cap Ancestors[todo.upTo])

(* A block that can be committed gets into the state, or the finalized     *)
(* chain leaves it behind: requests that came before their parent, that    *)
(* Crosslink could not confirm yet, or that met a restart, are not lost.   *)
BlocksArrive ==
    <>(\A b \in {a \in Blocks : Committable(a)} :
         b \in (UNION chains) \cup Ancestors[db] \/ db \notin Ancestors[b])

(* Only a child of the finalized tip is ever committed to disk, whether it *)
(* comes over the channel for checkpoint blocks, where the write task asks *)
(* for its height alone, or out of memory: "committed block must be a      *)
(* child of the finalized tip" (finalized_state.rs) never panics.          *)
CommitsFollowTheTip == [][db' # db => db' # Genesis /\ Parent(db') = db]_vars

-------------------------------------------------------------------------------
(* The inductive invariant behind the safety properties. *)

(* The channels for checkpoint blocks and for memory are used one after    *)
(* the other, and no checkpoint block is above the tip after the first.    *)
Phases ==
    /\ sending => /\ toMemory = <<>> /\ chains = {} /\ published = {}
                  /\ todo = Nothing /\ call.at # "send"
    /\ ~sending => \A a \in Checkpointed : Low(a)
    /\ db \in Checkpointed \cup {Genesis} \/ \A a \in Checkpointed : Low(a)

(* What StateService has in hand. *)
InHand ==
    /\ IsFiniteSet(queue) /\ IsFiniteSet(checkpoints)
    /\ \A b \in queue, a \in Checkpointed \cup {Genesis} : HeightOf[a] < HeightOf[b]
    /\ call.at = "check" => call.block # Genesis
    /\ call.at = "send" => parents # <<>>
    /\ asked <= Len(Decisions) /\ decided <= Len(Decisions)

(* The best chain that readers see is the best chain in memory, with what  *)
(* went to disk since it was published.                                    *)
PublishedFollows ==
    /\ published = {} => chains = {}
    /\ published # {} =>
         /\ \E a \in Ancestors[db] : ChainsFrom(published, a)
         /\ db \in Ancestors[Tip(BestChain(published))]
         /\ chains # {} => Tip(BestChain(chains)) = Tip(BestChain(published))

(* There is a block to finalize for each one that is left: for Crosslink   *)
(* up to the block that it asked for, otherwise short of the best tip.     *)
TodoInChains ==
    todo.left > 0 =>
        /\ chains # {}
        /\ IF todo.upTo = Genesis
           THEN todo.left < HeightOf[Tip(BestChain(chains))] - HeightOf[db]
           ELSE /\ \A c \in chains : todo.upTo \in c
                /\ todo.left = HeightOf[todo.upTo] - HeightOf[db]

(* The blocks that were sent on: SentHashes has them, unless they are at   *)
(* or below the finalized tip, and the queue does not.                     *)
Commits == {toMemory[i].block : i \in {j \in DOMAIN toMemory : toMemory[j].type = "commit"}}
SentOn == Commits \cup UNION chains
SentAreKnown ==
    /\ \A b \in SentOn : b \in sent \/ Low(b)
    /\ queue \cap (SentOn \cup Ancestors[db]) = {}

(* What the write task has in hand. *)
InMemory ==
    /\ ChainsFrom(chains, db) /\ PublishedFollows /\ TodoInChains
    /\ todo.left = 0 => todo = Nothing

InductiveInvariant ==
    /\ TypeOK /\ InHand /\ Phases /\ InMemory
    /\ SentAreKnown /\ NothingCommittedTwice /\ QueueAgrees
===============================================================================
