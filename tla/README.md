# Crosslink: a TLA+ model of the finality layer

The repository is a monolith of a Zebra node with the Crosslink hybrid consensus:
a proof-of-work chain (Zebra), and beside it a chain of BFT blocks, decided by a
roster of stakers with the Tendermint-style protocol of `tenderlink`, each of which
names a PoW block to finalize. This directory models the parts that Crosslink adds.
Paths below are relative to `src/`; `T` stands for `tenderlink/src/lib.rs` and `X`
for `zebra-crosslink/zebra-crosslink/src/lib.rs`.

## The system and its parts

| Part | Source | Its job | Module |
|---|---|---|---|
| BFT protocol of one height | T:80-1057 | proposals, votes, locks, rounds, decision | `Tenderlink` and those around it |
| Round store | T:181-340, 579-820 | proposal chunks, votes, incremental stake counts | in `Tenderlink`, with the counts derived |
| Heights, roster, proposer | T:502-577, 985-1004, X:668-698, 858-879 | the roster of the next height, the proposer of a round | heights and rosters of one node in `TFLService` |
| Peer protocol | T:1152-1179, 1417-1924 | statuses, vote packets, serving old heights | what is served is in `TenderlinkLiveness` |
| TFL service | X:451-731 | builds, validates and applies BFT blocks | `TFLService`, with `Finality` as its promise |
| PoS store file | X:641-666, 942-1048 | persists decided blocks, reads them at startup | `TFLService` |
| Lock between service and state | X:229-251, 407-424, 1057-1329 | one mutex, taken by a callback from the state | `CallbackLock` |
| Block queue and fat pointer check | Z`service.rs`, Z`service/queued_blocks.rs`, X:229-250 | queues PoW blocks until their parent is there and asks X about their BFT pointers | `BlockQueue` |
| Block write task | Z`service/write.rs`, Z`service/non_finalized_state.rs` | commits PoW blocks, prunes and finalizes the chains on a decision | `BlockQueue`, `ChainSet`, `Bonds` |
| Bonds and rewards | Z`.../chain.rs`, Z`check/delegation.rs`, Z`.../zebra_db/delegation.rs` | the stake that makes the next roster | `Bonds` |
| Transport, formats, GUI, wallet, upstream Zebra, vendored crates | elsewhere | | not modelled |

`Z` is `zebra-crosslink/zebra-state/src/`. `PowTree` has the tree of PoW blocks that
the last rows share, `ChainSet` the side chains in memory and their order.

How they interact: `entry_point` (T) runs one loop for each node, which reads packets
into the round store, ticks `bft_update` and sends what is stored to its peers. On a
decision it calls `push_block_closure`, that is `handle_new_decided_bft_block` (X),
which has the state service finalize a PoW block, appends to the store file and
returns the roster of the next height. `propose_closure` and `validate_closure` are
the other two calls into X. The state service calls back into X when a PoW block is
queued, to compare fat pointers. The stakes that make the next roster are the active
bonds of the database when the block write task has finalized the decided block.

`PROJECT.json` lists all parts, the hazards of each with the line where it bites, and
for each definition of the models the lines it stands for.

## The model of one height

`Tenderlink.tla` models a height for a set `Nodes` of processes that run the code and
a roster `Members` with stake. A node that is not in the roster is an observer; a
member that is not in `Nodes` does not run the code and may have signed anything in
`ByzMsgs`.

**State.** `node[n]` is the node's `TMState`: `round`, `step`, `locked`/`lockedRound`,
`valid`/`validRound`, the round data `rd[r]` (`RoundData`: the proposal with its valid
round, a prevote and a precommit of each member, the one timer slot, which of the
two timers of lines 34 and 47 were triggered), the position of the loop of
`bft_update` (`scan`, `left`), the `decision`, and the ghost `sent`, everything the
node ever signed. `synced[n]` is the set of values whose PoW block the node has.

**Actions.**

| Action | Code |
|---|---|
| `Init`, `Restart(n)` | `entry_point`, T:1363-1380: `TMState::init` and `start_round` of round 0. A restart keeps nothing but the decided blocks |
| `Receive(n)` | a packet of the socket through `check_and_incorporate_msg`, T:579-820 |
| `bft_update(n)` | one iteration of the loop over the rounds, T:863-1056 |
| `Sync(n)` | a PoW block arrives, so that `validate_bft_block` (X:700-731) passes instead of being indeterminate |

`Iteration` composes the rules in the order of the code, `Line22` to `Line55` and
`OnTimeout` (the numbers are those of the Tendermint paper, which the code's comments
use). Each is a function from a node state to the next. `Snapshot` is what the code
copies at the start of an iteration (`counts`, the validity of the proposal, the
timer): the rules of one iteration go on using it after earlier rules of the same
iteration have voted or changed the round. `left` is the loop bound that is
read once per tick, so that a round inserted on the way takes the place of the last.
A node does not receive in the middle of a tick.

**The network.** A message is sent by storing it: each tick a node sends its peers what
it has stored. So the network is the set of all messages ever signed, any of which may
arrive at any node at any time, many times, in any order or never.

**Abstractions.** A proposal is one message, not chunks of a blob with a signature
each. A block is a model value; a block that `validate_bft_block` fails is one outside
`ValidValues`. The stake counts are derived from the stored votes; the code updates
them with each vote, and that the two agree is not shown. A packet of votes is
several `Receive`s. The code caches the result of the validation, Pass or Fail, in the
round; validity only goes from indeterminate to one of them, so that evaluating it
again gives the same. PoW blocks that arrive while an iteration awaits count as
arriving between iterations. A refused message may make the code insert an empty
round, which no rule can tell from no round. A decided node's height is over; the next
height starts from the state of `Init`.

`Thresholds.tla` has the three functions of the total stake; `OneDecision.tla` is the
abstract specification of a height: every node decides at most once, for good, and all
decide the same. `TenderlinkSafety.tla` has the safety properties and the inductive
invariant, `TenderlinkLiveness.tla` fairness and liveness.

Operators named with a suffix, such as `Line22_NoLock`, are faulty variants of the
operator that follows them. Nothing uses them; replacing the operator by its variant
shows that the property `PROJECT.json` names notices the fault.

## The model of the TFL service

`TFLService.tla` is one node's service. Tenderlink awaits its closures one after the
other, so one program counter `pc` is enough for them; a step is the code from one
await to the next, and between two steps the PoW chain may grow, reorganize and
finalize, the network may decide, and the process may crash.

| Action | Code |
|---|---|
| `ProposeTip`, `ProposeFinal`, `ProposeHeader`, `ProposeFind`, `ProposeBuild` | `propose_new_bft_block`, X:451-554 |
| `ValidatePrevious`, `ValidateKnown` | `validate_bft_block`, X:700-731; what passes is cached by tenderlink in `passed` |
| `HandleDecided`, `HandleKnown`, `HandleHeight`, `HandleInsert`, `HandleFinalize`, `HandleStore` | `handle_new_decided_bft_block`, X:556-666, with the validation it repeats |
| `CommitPowBlock` | the PoW state, of which `BlockQueue` has the detail |
| `NetworkDecides` | a decision of the roster; this node may be behind |
| `Crash`, `Startup` | the process stops at any step, a record half written or not, a finalization half done; X:942-1048 |

A BFT block commits to those before it, so its hash is the sequence of the PoW blocks
that they finalize. A roster is named by the PoW block whose bonds it was made from.
`NetworkDecides` takes what a proposer that runs this code may propose: a block above
the last decided one (`Extends`), no further than `MaxAdvance`, with the number of
headers that `BftBlock::try_from` asks for. That there is one decision at each height is
what `TenderlinkProofs` proves. A `panic!` or a failed `unwrap` aborts the process
(`panic = "abort"`), which is a crash in the model.

`Finality.tla` is the abstract specification: the finalized PoW tip moves up, and a log
of final blocks grows, each above the one before and settled when it is logged: final,
or refused because it is off the finalized chain. `ImplementsFinality` maps the log to
the PoS store file.

## The model of the lock

`CallbackLock.tla` has every task as the sequences of state calls and sections under
the internal mutex that its code makes, with the calls made inside a section. State
calls go through the buffer of zebrad's `start.rs` to one worker. The worker, when it
commits a block, takes the mutex with `blocking_lock`
(`call_from_state_to_crosslink_to_ask_about_fat_pointers`). The mutex is fair, as
tokio's is. What the calls do is left to the other modules.

## The model of the block queue

`BlockQueue.tla` has two processes and what is between them. `StateService` serves one
request at a time: `Submit` and `SubmitCheckpoint` queue a block, `Check` compares
pointers and ends the checkpoint phase, `Send` empties the queue one parent at a time,
`Prune` forgets what the database has. It is split where it reads the database or the
published chains, which the other process changes meanwhile. The block write task
receives from two channels: `WriteCheckpoint`, `WriteBlock`, `WriteFinalize`, and
`FinalizeRoot` for each block it then moves to disk. `CrosslinkFinalize` and `Decide` are
the service's side, `Restart` keeps the disk alone, and a checkpoint commit may fail,
which resets the sender.

Left out: InvalidateBlock and ReconsiderBlock, which an operator sends; UTXOs that wait
for their block; and the contextual rules, which are a set `Invalid` of blocks that break
one (a block is also refused when its parent is not there any more, which happens in the
run, and its descendants with it).

## The model of bonds

`Bonds.tla` has every chain with its bonds, statuses, pools, and what each block paid and
retargeted, and the database with the same for the finalized tip. `CommitBlock`
validates a block against its parent chain, which may have to be forked by popping
blocks off a copy (`Fork`, `PopTip`, `Revert`), pushes it with its rewards, and
finalizes a root past the reorg limit; `CrosslinkFinalize` finalizes up to a block.
`Committed` is the batch for the database, which is computed another way than a push: from
the database before the block, the rewards the chain kept and the amounts that
`pop_root` extracted. An assertion or a check of the batch that fails sets `failed`.

A popped block goes back transaction by transaction, and each assertion of
`revert_delegation_bond` (`Asserted`) is about what the transactions before it have
left. After a panic the node is restarted.

`Contents` are the staking actions that blocks may have. Nothing is assumed of how they
combine: what a block may do to a bond twice is for `Valid` to say, which remembers the
creations and unbondings of the block and not its withdrawals, as the code does. The
delay that `check_staking_action_delay` asks for since the last action on a bond is not
modelled: it is up to the instance to have blocks that pass it, and a second withdrawal
does, because every transaction is looked at alone, before the block is committed.
`created_at` is kept but not compared: an unbonding replaces it on the chain, a revert
does not restore it and the database keeps that of the creation, so neither
`ForkEqualsPushed` nor `FinalizedEqualsPushed` holds of it, although `response.rs:444`
calls it "The block height of the last staking action on this bond".
`MAX_NON_FINALIZED_CHAIN_FORKS` is in `BlockQueue` and not here.

## What the runs check

| Run | Instance | Properties | Result |
|---|---|---|---|
| `locking` | stakes 2,1,1; two rounds; the member of stake 1 that proposes the second one does not run the code and signs a conflicting proposal with two valid rounds; timers | `InductiveInvariant`, `NoEquivocation`, `SafeUnlocking`, `LocksAdvance` | hold, 144,014 states |
| `amnesia` | one round; all three members run the code; the proposer may restart, forget what it signed and propose and vote for another value | `Agreement`, `DecisionsValid`, `DecidesOnce` (refinement of `OneDecision`) | hold, 252,045 states up to symmetry of the two values |
| `goodcase` | one round, no timers; a stopped member has voted for another value; an observer whose PoW block is late | `EveryoneDecides` | holds, 5,132 states |
| `progress` | stakes 3,1; two rounds with timers | `RoundsAdvance` | holds, 15,320 states |
| `six` | stakes 3,3; two rounds; all run the code | `Agreement` | violated, see Findings |
| `line28` | stakes 2,1,1; two rounds | `Line28AsCommented` | violated, see Findings |
| `finality` | PoW chain of five blocks with a fork of two; two decisions; two crashes; Sigma 2, reorg limit 3 | `TypeOK`, `StoreFollowsConsensus`, `StoreOnlyGrows`, `FinalityIsSettled`, `RosterFollowsFinality`, `ProposalsExtendFinality`, `ImplementsFinality`, `CatchesUp` | hold, 90,369 states |
| `depth` | the same | `ProposalsAreSigmaDeep` | violated, see Findings |
| `heldlock` | tenderlink, the main loop, a request and a block commit; two places in the buffer | `WorkerIsNotWaitedFor` | violated, see Findings |
| `queue` | two checkpoint blocks, then a chain of three and a fork of two; one decision; one restart or failed checkpoint commit; reorg limit 2 | `TypeOK`, `ChainsStartAtTheTip`, `ReadersSeeOneChain`, `NothingCommittedTwice`, `QueueAgrees`, `FinalizesTheDecision`, `CommitsFollowTheTip`, `InductiveInvariant`, `BlocksArrive` | hold, 53,601 states |
| `bonds` | a chain of five blocks and two forks; 192 choices of staking actions on three bonds, in a third of which a block withdraws a bond twice; reorg limit 3 | `TypeOK`, `ForkEqualsPushed`, `FinalizedEqualsPushed`, `PoolsHoldTheBonds`, `OnlyRepeatsPanic`, `BondsGoForward` | hold, 6,778 states |
| `withdrawals` | the same | `NothingPanics` | violated, see Findings |

**Bounds of the runs of a height.** `MaxRound`, the number of values, `MaxRestarts` and the content of `ByzMsgs`
are the bounds. Stakes 2,1,1 give a quorum of 3: the large member with either small
one, so that a quorum can be formed in two ways and one small member can be faulty.
Two rounds are what a lock needs to be taken and then tested. One round is enough
where the question is within a round: which proposal a node pins, votes that come
before the proposal, a restart after which the proposer signs against what it signed
before. Unlocking by a quorum of a third round and more
values or faulty members are beyond these instances; the theorems below cover every
instance. Deadlock is not checked, because a height is over when all have decided.

**Bounds of the other runs.** In `finality`, `MaxDecided` 2 and `MaxCrashes` 2 let a crash
hit the handling of a first block, its repetition, and that of a second block on top of
it. `Sigma` 2 and `ReorgLimit` 3 stand for the code's 3 and 99: blocks reach the disk by
the limit as well as by a decision. `MaxAdvance` is 10 in the code and 1 here, so
that it does limit proposals. `ReorgDepth` bounds reorganizations by the confirmation
depth; of the theorems only `ProposalsExtendFinalityHolds` depends on it. `Bonded` leaves some decided blocks without
stakes. Deadlock is not checked, because the tree of blocks ends, and a node whose final
block was refused panics at every start. In `queue` the fork is better than the chain
that is decided, so that finalization drops the best chain, and the reorg limit is
reached as well; `MaxFaults` 1 is a restart or a failed checkpoint commit. In `bonds`
the amounts are chosen so that a withdrawal fits the rewards of one branch and is refused
on another, and all the actions meet a fork, a revert and a finalization. `heldlock`
needs two places in the buffer and one task of each kind.

**Fairness of `finality`.** The runtime polls a task that has been woken and a crashed
node is started again (weakly fair). The loop of tenderlink looks at the proposals and
votes it has in every turn, whatever it proposes itself, so validation and handling are
strongly fair. Neither decisions, PoW blocks nor crashes are fair.

**Fairness of `queue`.** The write task is a thread of its own and `StateService` goes on
with a request until it is answered (weakly fair). Tenderlink goes on deciding and asking.
Requests for a block are strongly fair: `KnownBlock` does not look into the queue,
so that whoever gives blocks to the state gives one again that is not in it. A block
that was answered with `CrosslinkNotReady` stays in the queue until another request moves
it, so `BlocksArrive` rests on this.

**Fairness of the runs of a height.** The loop of `entry_point` never stops, so a node whose iteration would
change something ticks in the end (weakly fair), and PoW blocks arrive. Receiving is
strongly fair, because it is possible only between ticks, and only for messages that
some node has in store: in each tick a node sends its rounds to every peer (T:1745-
1784), but nobody sends what has been purged or belongs to a decided height, beyond
the one round that `recent_commit_round_cache` keeps. A packet of votes names one value
besides nil (T:1660-1667), which `ServesVote` takes into account. `TimerFairness` says
that a timer that is not replaced elapses: a node that goes on visiting a round does
not see its timer unelapsed for ever. Fairness is written with the state predicates
`CanReceive` and `CanTick`, which say when the actions change something, because
`ENABLED` of an iteration is expensive to evaluate.

**What `RoundsAdvance` is about.** A round has one timer slot. When a quorum of
precommits arrives before a quorum of prevotes, line 47 sets the Precommit timer once,
and line 34 may overwrite it later: that node has no timer left that starts the next
round. It is not stuck, because those whose precommits came first have gone through
line 34 before line 47, so that they do start the next round, and line 55 takes the
others along.

## What is proved

### A height

`TenderlinkProofs.tla` holds the theorems, with one lemma for each rule of `bft_update`.
It rests on `QuorumProofs.tla`: the thresholds, the stake of sets of members, quorums,
what a step may do and the operators that the rules share. The theorems hold for every
finite roster, distribution of stake, number of rounds, values and restarts, and every
set of messages that members who do not run the code may sign.

*Assumptions.* `ConstantsAssumption` types the constants. `ByzMsgsAssumption` says
that signatures cannot be forged. `FaultAssumption` is the real one: the members that do
not run the code or may be restarted have less stake than two quorums share. The theorems
about thresholds say when the usual "less than a third" gives that. That the stake of
sets of members adds up is not assumed: `WeightAddsUp` proves it of the sum that the
model folds over a set. The library's induction theorems cannot be used for that, so the
lemmas take the smallest set of which the claim would fail.

*Argument.* Agreement is not inductive. `IInv` (checked by TLC in `locking` as
`InductiveInvariant`) strengthens it by:

- `StoreSound`: a stored vote was signed, and once the proposal is known is for nil or
  the proposal. So `yesPrevotes`, which the code counts without looking at the value,
  is a quorum for the proposal.
- `VotesInOrder`, `VoteOnce`: a reliable node votes in the round and step it has
  reached, and once. Otherwise two quorums in one round could be for two values.
- `LockHeld`, `PrecommitJustified`: the lock is the last value precommitted, and each
  precommit had a quorum of prevotes.
- `PrevoteSafe`: a reliable node that precommitted `v1` prevotes `v2` in a later round
  only if `v1` is `Dead` in the earlier round: every quorum has a reliable member that
  left that round without precommitting `v1`. `Dead` is stable, which is what makes the
  invariant inductive.
- `DecisionCertified`: a decision has a quorum of precommits.

The central lemma, `QuorumRulesOut`, is that a quorum of prevotes for `v2` in a round
makes every other value dead in the earlier rounds: a quorum that may have precommitted
`v1` shares a reliable member with it, to which `PrevoteSafe` applies. Line 28 relies on
it too, with the prevotes of the current round that the code counts. Each rule has a
lemma that it keeps `IInv`, and `IterationKeeps` composes them; the lemmas speak of a
state `nd` rather than of the variable because the states between the rules of one
iteration are not states of the specification.

*Theorems.* `InvariantHolds`, and from it `AgreementHolds`,
`NoEquivocationHolds`, `SafeUnlockingHolds`, `DecisionsValidHolds`, and `Refinement`:
`Spec` implements `OneDecision`. `LocksAdvanceHolds` is about steps, and needs besides
that a node has no lock of a later round than its own, and none of its own round before
it has precommitted (`LocksBehind`): then line 36, the only rule that sets a lock,
replaces an earlier one. Each rule has a second lemma for that.

*Thresholds.* For a total stake n > 0: the threshold can be reached without the
f = (n-1)/3 that may be faulty (`QuorumReachable`); the catch-up threshold is more than
the faulty stake and at most a quorum (`CatchUpIsHonest`); two quorums share more than f
exactly if n <= 3 or n = 3f+1 (`OverlapBeyondFaulty`); they can be disjoint only if
n = 6 (`DisjointOnlyAtSix`).

### The TFL service

The theorems of `TFLServiceProofs` and `FinalityProofs` hold for every tree of PoW
blocks, any number of decisions, crashes and reorganizations, every confirmation depth
and reorg limit. `TreeAssumption` and `HeightAssumption` say that the blocks are a tree in
which every chain is finite; `ServiceAssumption` types the constants. That the network decides one block at each height, above the one
before, is built into `NetworkDecides`; it is what the proofs of a height and
`ProposalsExtendFinality` are about.

`StoreFollowsConsensus` is not inductive: it says nothing of the block in hand.
`StoreInvariant` adds that from validation to the append this is the next decided block,
that memory is ahead of the file by it exactly from the insertion to the append, and
that each valid record follows the one before, whatever is torn behind them. The lemmas
about `ValidCount` say that appending a record that follows adds one, and that a torn one
adds none. From it: `StoreInvariantHolds`, `StoreFollowsConsensusHolds`,
`StoreOnlyGrowsHolds`.

`ServiceImplementsFinality` needs more: what the PoW state has is on or above
the finalized chain (`PowInvariant`), decided blocks go up (`DecidedInvariant`), and the
final block in hand is known, or off the finalized chain for good, from the check to
the finalization, and settled after it (`InHand`): between the check and the
finalization the reorg limit may finalize another branch. `GrowthSettles` is the reason
that this is stable. Then a step of the append is a step `Log` of `Finality`, a commit or a
finalization is `Advance`, a crash that cuts a finalization short is one too, and all
other steps stutter. `FinalityIsSettledHolds` adds `LatestInvariant`, which ties
`latest_final_block` to the file and to the block in hand. `ServiceInvariantHolds` has all
of them together, and `TypesHold` the types.

`RosterFollowsFinalityHolds` (in `TFLServiceProofs`) adds that the stakes about to be
stored are those of the block in hand (`RosterInvariant`). A crash between finalizing and
storing is the exception that it states: the block is handled again, is answered without
stakes, and the roster stays that of the newest block that was answered with some. The
theorem says that there is no other exception but a block that the reorg limit finalized
or that was refused; it does not say that the roster is the one of the final block.

`ProposalsExtendFinalityHolds` follows a proposal through its awaits (`ProposeInvariant`):
the height that `ProposeTip` computed stays `Sigma` below the tip of the best chain, and
above the final block; so the header that is fetched for it, and the one found after that,
are still above it, or the final block has been refused. It has the hypothesis
`ReorgDepth <= Sigma`, no reorganization deeper than the confirmation depth, and needs it:
with `ReorgDepth` 3 and `Sigma` 1 TLC finds a proposal that does not extend the final
block, because the chain under the height that was read has been replaced.

### The block queue

`ChainSetProofs`, `QueueServiceProofs` and `BlockQueueProofs` prove the safety properties of
`BlockQueue` for every tree of blocks, every choice of checkpoint, invalid and decided
blocks, any order of requests, any limits, and any number of restarts and failed commits.
`QueueAssumption` types the constants and says that the checkpoint blocks are one chain
from genesis.

None of the properties is inductive alone. `InductiveInvariant`, which the run `queue`
checks too, puts together:

- `Phases`: while checkpoint blocks are sent, nothing is in memory or on its way there; and
  once this has ended, every checkpoint block is on disk. So a checkpoint block can be
  recognized as the next one by its height alone.
- `ChainsFrom`: the chains start at the finalized tip and none is a part of another. So the
  order of `chain_set` is total, there is one best chain, and popping its root leaves chains
  of the same kind.
- `PublishedFollows`: the best chain readers see has the tip of the best chain in memory,
  and starts at or below the finalized tip.
- `TodoInChains`: as many blocks remain to be finalized as lie up to the decided one, which
  every chain has, or fewer than the best chain is long.
- `SentAreKnown`: what was sent on and is above the finalized tip is in `SentHashes`, and
  nothing of it is in the queue.

`ChainSetProofs` has the facts about trees, chains and the best chain, among them that a
finite set ordered by a transitive total relation has a greatest element, again by the
smallest set that would have none. `QueueServiceProofs` shows that the steps of
`StateService` and of Crosslink keep the invariant, `BlockQueueProofs` the same of the
write task, and has the theorems: `InvariantHolds`, `TypesHold`, and one for each of
`ChainsStartAtTheTip`, `ReadersSeeOneChain`, `NothingCommittedTwice`, `QueueAgrees`,
`FinalizesTheDecision` and the action property `CommitsFollowTheTip`.

### The lock

`DisciplineSuffices`: for any tasks and any size of the buffer, if no program makes
a state call under the mutex, then whenever the worker waits for the mutex its holder
can release it without the worker. The invariant has the callers in the buffer apart from
those who hold or wait for the mutex, and the worker among the latter exactly while it
checks a block. `OnlyFinalityRequestsBlock` applies it to the programs of the node: with the
closures of tenderlink, the main loop, the requests that only read and block commits, in
any number, the deadlock of the run `heldlock` is out of reach, so that the requests for
the finality of a block are what causes it.

### Only model-checked

The liveness properties, `EveryoneDecides`, `RoundsAdvance`, `CatchesUp` and
`BlocksArrive`: liveness under fairness and `ENABLED` are out of the prover's reach. The
properties of `Bonds`: they compare states that are computed by folds over the blocks of a
chain and the actions of a block, forwards and backwards, and what a fold computes needs
an induction for each of them; they are checked for the 192 choices of actions of the run.

## Findings

- **A total stake of six** (run `six`). f = 1 and the threshold is 3, half of the stake:
  two halves decide different values, with no faulty member. T:641-643 says "There will
  never be multiple proposals with 2f+1 precommits unless the BFT network is faulty". The
  rounding matters for larger totals too: for n = 3f+2 two quorums share f, and for
  n = 3f+3 they share f-1, less than the protocol tolerates.
- **Line 28 counts the prevotes of the current round** (run `line28`), where its comment
  (T:907) asks for those of the valid round. This is safe, as the proof shows, but nobody
  prevotes a value that is proposed again until a quorum has: once the proposers hold a
  valid value, later rounds end in nil votes, and the height is decided only if the
  precommits of an earlier round arrive.
- **A proposal is one block short of the confirmation depth** (run `depth`).
  `propose_new_bft_block` asks `FindBlockHeaders` for the headers from the block that is
  Sigma below the tip (X:521-537); the answer starts after that block
  (`find_chain_height_range`), and its first header is the block that becomes final. It
  has Sigma - 1 blocks on top, where
  `librustzcash/zcash_primitives/src/bft.rs:218` says "At least this many PoW blocks must
  be atop the PoW block used to obtain a finalized view."
- **Two requests keep the mutex over a state call** (run `heldlock`).
  `tfl_set_finality_by_hash` (X:1315-1319) and `tfl_final_block_height_hash` (X:410-411),
  which the finality requests of the RPC server use, await the state under the mutex of
  `TFLServiceInternal`. If the worker of the state is about to ask about the fat pointers
  of a block, both wait for ever. X:625 says "IT IS VERY IMPORTANT THAT WE DROP THE LOCK
  BECAUSE ZEBRA_STATE MAY CALL US BACK"; `handle_new_decided_bft_block` does.

- **A block may withdraw a bond twice** (run `withdrawals`). `validate_delegation_bonds`
  remembers what a block creates and unbonds but not what it withdraws
  (Z`check/delegation.rs`, 203-244), and the verifier looks at each transaction alone. If
  the unbonded pool holds the amount twice the block is accepted, and the pool is
  short of it from then on: `PoolsHoldTheBonds` says by how much. A fork
  that pops the block panics at Z`.../chain.rs`:1749, "bond should be withdrawn if
  withdrawal was added to chain", because the first withdrawal has been reverted already.
  `OnlyRepeatsPanic` says that a block which acts on a bond twice is the only way there.

Seen while modelling, without a run: the hazards of `PROJECT.json` with a note and no
property. Among them are pointers that are not compared when a block comes before its
parent, hashes that stay in `SentHashes` after their chain was dropped, and `created_at`.

## Not modelled

- The chunks of a proposal and the incremental counts of a round (T:181-340): `Tenderlink`
  derives the counts from the votes.
- Several heights of the protocol at once, `proposer_from_height_round` and what past
  heights leave in memory (T:502-577, 1000): a height is modelled at a time, and
  `TFLService` has the sequence of heights of one node without votes.
- Statuses of peers, the packing of votes into datagrams and the ranges they ask for
  (T:1417-1924): any message may be lost, late or repeated, and fairness states what
  they achieve.
- `force_feed_pos` and the other test instructions, and what the service keeps for the
  user interface.
- InvalidateBlock, ReconsiderBlock and UTXOs that wait for blocks in the state service.
- Contextual rules other than those of bonds; signatures, serialization and proof-of-work.
- The delay of staking actions in `zebra-consensus`.
- Sockets and Noise encryption, the GUI and visualiser, the wallet, the upstream Zebra
  node and the vendored libraries, which add no state to the finality protocol. They are
  most of the repository's code.
