-------------------------------- MODULE Bonds --------------------------------
(***************************************************************************)
(* Delegation bonds in the state of one node.  Every non-finalized chain   *)
(* keeps all the bonds as of its tip, together with two pools of value;    *)
(* the database keeps those of the finalized tip.  A block is validated    *)
(* against its parent chain and pushed onto it, where every active bond    *)
(* gets a share of the block's reward.  A chain is forked by popping       *)
(* blocks off a copy of it; finalizing pops the root off every chain and   *)
(* writes its changes to the database, from what is there already and the  *)
(* rewards that the chain kept for the block.                              *)
(***************************************************************************)
EXTENDS PowTree, Integers, Sequences, SequencesExt, FiniteSetsExt

CONSTANTS
    Contents,     \* the staking actions that the blocks may have, in order
    Keys,         \* bond keys, as numbers that can be compared
    Finalizers,   \* what a bond can be delegated to
    Reward,       \* bond_reward_total
    ReorgLimit    \* MAX_BLOCK_REORG_HEIGHT

(* Contents are what check_staking_action_delay of the transaction         *)
(* verifier lets through, which looks at one transaction at a time: a      *)
(* block may act on a bond more than once.                                 *)
ASSUME BondsAssumption ==
    /\ Keys \subseteq Nat /\ IsFiniteSet(Keys)
    /\ Reward \in Nat /\ ReorgLimit \in Nat \ {0}
    /\ \A t \in Contents, b \in Blocks : \A i \in 1 .. Len(t[b]) :
          t[b][i].key \in Keys /\ t[b][i].target \in Finalizers /\ t[b][i].amount \in Nat

VARIABLES
    txs,          \* the staking actions that each block has
    db,           \* the finalized tip, bonds, statuses and pools
    chains,       \* chain_set
    failed        \* whether an assertion or a batch has failed

vars == <<txs, db, chains, failed>>

-------------------------------------------------------------------------------
(* A chain: the blocks from its root to its tip, the bonds and the pools   *)
(* as of the tip, and what each block paid and which targets it replaced.  *)

Empty == [k \in {} |-> 0]

(* Chain::new, with the bonds of the database d. *)
NewChain(d) ==
    [blocks |-> <<>>, rewards |-> <<>>, retargets |-> <<>>,
     bonds |-> [k \in DOMAIN d.bonds |->
                  [bond |-> d.bonds[k], status |-> d.status[k]]],
     bonded |-> d.bonded, unbonded |-> d.unbonded]

Tip(c) == Last(c.blocks)
Sum(f) == MapThenSumSet(LAMBDA k : f[k], DOMAIN f)
AmountOf(b, kind) ==
    LET Of(i) == IF txs[b][i].kind = kind THEN txs[b][i].amount ELSE 0
    IN  MapThenSumSet(Of, DOMAIN txs[b])
KeysOf(b, kind) == {txs[b][i].key : i \in {j \in DOMAIN txs[b] : txs[b][j].kind = kind}}

-------------------------------------------------------------------------------
(* validate_delegation_bonds: the status of a bond before the block, and   *)
(* what the block did to it so far.                                        *)

Status(c, k) == IF k \in DOMAIN c.bonds THEN c.bonds[k].status ELSE "None"

Earlier(b, i, kind) ==
    \E j \in 1 .. i - 1 : txs[b][j].kind = kind /\ txs[b][j].key = txs[b][i].key

(* A chain has all the bonds of the database, so that the lookups in the   *)
(* finalized state find nothing more.                                      *)

(* Fault, for the runs to detect: a withdrawn key may be used again. *)
ValidCreate_Again(c, b, i) ==
    ~Earlier(b, i, "create") /\ Status(c, txs[b][i].key) \in {"None", "Withdrawn"}

ValidCreate(c, b, i) ==
    ~Earlier(b, i, "create") /\ Status(c, txs[b][i].key) = "None"

(* Fault, for the runs to detect: unbonding in a second block. *)
ValidUnbond_Twice(c, b, i) ==
    /\ ~Earlier(b, i, "unbond")
    /\ Earlier(b, i, "create") \/ Status(c, txs[b][i].key) \in {"Active", "Unbonding"}

ValidUnbond(c, b, i) ==
    /\ ~Earlier(b, i, "unbond")
    /\ Earlier(b, i, "create") \/ Status(c, txs[b][i].key) = "Active"

(* Fault, for the runs to detect: withdrawing any amount. *)
ValidWithdraw_AnyAmount(c, b, i) == Status(c, txs[b][i].key) = "Unbonding"

ValidWithdraw(c, b, i) ==
    LET k == txs[b][i].key
    IN  Status(c, k) = "Unbonding" /\ c.bonds[k].bond.amount = txs[b][i].amount

ValidRetarget(c, b, i) ==
    Earlier(b, i, "create") \/ Status(c, txs[b][i].key) = "Active"

Valid(c, b) ==
    \A i \in DOMAIN txs[b] :
       CASE txs[b][i].kind = "create" -> ValidCreate(c, b, i)
         [] txs[b][i].kind = "unbond" -> ValidUnbond(c, b, i)
         [] txs[b][i].kind = "withdraw" -> ValidWithdraw(c, b, i)
         [] OTHER -> ValidRetarget(c, b, i)

-------------------------------------------------------------------------------
(* push. *)

NewBond(t, h) == [amount |-> t.amount, target |-> t.target, created_at |-> h]

(* update_chain_tip_with_delegation_bond, at height h. *)
Update(c, t, h) ==
    LET k == t.key
        last == Len(c.retargets)
        amount == c.bonds[k].bond.amount
    IN  CASE t.kind = "create" ->
               [c EXCEPT !.bonds = (k :> [bond |-> NewBond(t, h), status |-> "Active"]) @@ @]
          [] t.kind = "unbond" ->
               [c EXCEPT !.bonds[k].status = "Unbonding", !.bonds[k].bond.created_at = h,
                         !.bonded = @ - amount, !.unbonded = @ + amount]
          [] t.kind = "withdraw" ->
               [c EXCEPT !.bonds[k].status = "Withdrawn", !.bonds[k].bond.created_at = h]
          [] OTHER ->
               [c EXCEPT !.bonds[k].bond.target = t.target,
                         !.retargets[last] = @ @@ (k :> c.bonds[k].bond.target)]

(* The reward of a block: the active bonds share it by amount, rounded     *)
(* down, and the biggest one gets what remains.                            *)
Rewards(bonds) ==
    LET active == {k \in DOMAIN bonds : bonds[k].status = "Active"}
        amount == [k \in active |-> bonds[k].bond.amount]
        max_staker == CHOOSE k \in active : \A j \in active \ {k} :
                        amount[k] > amount[j] \/ (amount[k] = amount[j] /\ k < j)
        share == [k \in active \ {max_staker} |-> (amount[k] * Reward) \div Sum(amount)]
    IN  [k \in active |-> IF k = max_staker THEN Reward - Sum(share) ELSE share[k]]

Paid(bonds, rewards) ==
    [k \in DOMAIN rewards |-> [bonds[k] EXCEPT !.bond.amount = @ + rewards[k]]] @@ bonds

(* The transactions of a block, before the pools get its value balance. *)
Updated(c, b) ==
    FoldLeft(LAMBDA d, t : Update(d, t, HeightOf[b]),
             [c EXCEPT !.retargets = Append(@, Empty)], txs[b])

(* The pools never go below zero, which would make the block invalid. *)
Balanced(c, b) ==
    LET d == Updated(c, b)
    IN  d.bonded >= 0 /\ d.unbonded >= AmountOf(b, "withdraw")

Push(c, b) ==
    LET d == Updated(c, b)
        rewards == Rewards(d.bonds)
    IN  [d EXCEPT !.blocks = Append(@, b),
                  !.bonds = Paid(@, rewards), !.rewards = Append(@, rewards),
                  !.bonded = @ + AmountOf(b, "create") + Sum(rewards),
                  !.unbonded = @ - AmountOf(b, "withdraw")]

-------------------------------------------------------------------------------
(* pop_tip. *)

(* Fault, for the runs to detect: the pools are left as they are. *)
Revert_KeepsPools(c, t) ==
    LET k == t.key IN
    CASE t.kind = "create" -> [c EXCEPT !.bonds = Restrict(@, DOMAIN @ \ {k})]
      [] t.kind = "unbond" -> [c EXCEPT !.bonds[k].status = "Active"]
      [] t.kind = "withdraw" -> [c EXCEPT !.bonds[k].status = "Unbonding"]
      [] OTHER -> c

(* revert_delegation_bond: created_at stays that of the reverted action. *)
Revert(c, t) ==
    LET k == t.key
        amount == c.bonds[k].bond.amount
    IN  CASE t.kind = "create" -> [c EXCEPT !.bonds = Restrict(@, DOMAIN @ \ {k})]
          [] t.kind = "unbond" ->
               [c EXCEPT !.bonds[k].status = "Active",
                         !.bonded = @ + amount, !.unbonded = @ - amount]
          [] t.kind = "withdraw" -> [c EXCEPT !.bonds[k].status = "Unbonding"]
          [] OTHER -> c

(* What the assertions of revert_delegation_bond want of the chain that is *)
(* left by the transactions before t.                                      *)
Asserted(c, t) ==
    CASE t.kind = "create" -> t.key \in DOMAIN c.bonds
      [] t.kind = "unbond" ->
           Status(c, t.key) = "Unbonding" /\ c.unbonded >= c.bonds[t.key].bond.amount
      [] t.kind = "withdraw" -> Status(c, t.key) = "Withdrawn"
      [] OTHER -> TRUE

(* The rewards and the targets go back first, then the transactions in the *)
(* order of the block, here the first n, and then its value balance.       *)
Unpaid(c) ==
    LET rewards == Last(c.rewards)
        targets == Last(c.retargets)
        Reverted(k, bond) ==
            [bond EXCEPT !.amount = IF k \in DOMAIN rewards THEN @ - rewards[k] ELSE @,
                         !.target = IF k \in DOMAIN targets THEN targets[k] ELSE @]
    IN  [c EXCEPT !.blocks = Front(@), !.rewards = Front(@), !.retargets = Front(@),
                  !.bonded = @ - Sum(rewards),
                  !.bonds = [k \in DOMAIN @ |-> [@[k] EXCEPT !.bond = Reverted(k, @)]]]

RevertedTo(c, n) == FoldLeft(Revert, Unpaid(c), SubSeq(txs[Tip(c)], 1, n))

Revertible(c) ==
    \A i \in DOMAIN txs[Tip(c)] : Asserted(RevertedTo(c, i - 1), txs[Tip(c)][i])

PopTip(c) ==
    [RevertedTo(c, Len(txs[Tip(c)])) EXCEPT
        !.bonded = @ - AmountOf(Tip(c), "create"),
        !.unbonded = @ + AmountOf(Tip(c), "withdraw")]

(* fork, and the chains that it goes through. *)
Pops(c, p) == Len(c.blocks) - (CHOOSE i \in DOMAIN c.blocks : c.blocks[i] = p)
Popped(c, n) == FoldLeft(LAMBDA d, i : PopTip(d), c, [i \in 1 .. n |-> i])
Fork(c, p) == Popped(c, Pops(c, p))

-------------------------------------------------------------------------------
(* Finalizing. *)

(* Fault, for the runs to detect: the targets of the root are kept. *)
PopRoot_KeepsRetargets(c) ==
    [c EXCEPT !.blocks = Tail(@), !.rewards = Tail(@)]

(* pop_root: the bonds and the pools are those of the tip and stay. *)
PopRoot(c) ==
    [c EXCEPT !.blocks = Tail(@), !.rewards = Tail(@), !.retargets = Tail(@)]

(* The amounts of the bonds that the root unbonds. *)
UnbondingAmounts(c) ==
    [k \in KeysOf(Head(c.blocks), "unbond") |-> c.bonds[k].bond.amount]

(* prepare_delegation_bonds_batch, for the bonds: those that the block has *)
(* created or retargeted, and then the rewards on top of them.             *)
Known(d, modified, k) == IF k \in DOMAIN modified THEN modified[k] ELSE d.bonds[k]

Modified(d, b) ==
    LET Step(m, t) ==
            CASE t.kind = "create" -> (t.key :> NewBond(t, HeightOf[b])) @@ m
              [] t.kind = "retarget" ->
                   (t.key :> [Known(d, m, t.key) EXCEPT !.target = t.target]) @@ m
              [] OTHER -> m
    IN  FoldLeft(Step, Empty, txs[b])

(* Fault, for the runs to detect: a reward goes to the bond as it was on   *)
(* disk before the block.                                                  *)
WithRewards_Stale(d, modified, rewards) ==
    [k \in DOMAIN rewards \cap DOMAIN d.bonds |->
       [d.bonds[k] EXCEPT !.amount = @ + rewards[k]]]

WithRewards(d, modified, rewards) ==
    [k \in DOMAIN rewards \cap (DOMAIN modified \cup DOMAIN d.bonds) |->
       [Known(d, modified, k) EXCEPT !.amount = @ + rewards[k]]]

BondsBatch(d, b, rewards) ==
    WithRewards(d, Modified(d, b), rewards) @@ Modified(d, b) @@ d.bonds

(* The same for the statuses, which are a column family of their own. *)
StatusBatch(d, b) ==
    LET New == [create |-> "Active", unbond |-> "Unbonding", withdraw |-> "Withdrawn"]
        Step(m, t) == IF t.kind = "retarget" THEN m ELSE (t.key :> New[t.kind]) @@ m
    IN  FoldLeft(Step, d.status, txs[b])

(* The checks of the batch, all against what is on disk. *)
Writable(d, b) ==
    \A i \in DOMAIN txs[b] :
       LET t == txs[b][i]
           status == IF t.key \in DOMAIN d.status THEN d.status[t.key] ELSE "None"
       IN  CASE t.kind = "unbond" -> status = "Active"
             [] t.kind = "withdraw" -> status = "Unbonding"
             [] t.kind = "retarget" -> Earlier(b, i, "create") \/ status # "None"
             [] OTHER -> TRUE

(* The block batch: bonds, and prepare_chain_value_pools_batch. *)
Committed(d, b, rewards, unbonding_amounts) ==
    [tip |-> b, bonds |-> BondsBatch(d, b, rewards), status |-> StatusBatch(d, b),
     bonded |-> d.bonded + AmountOf(b, "create") + Sum(rewards) - Sum(unbonding_amounts),
     unbonded |-> d.unbonded - AmountOf(b, "withdraw") + Sum(unbonding_amounts)]

(* The order of chain_set. *)
Greater(c, d) ==
    \/ Len(c.blocks) > Len(d.blocks)
    \/ Len(c.blocks) = Len(d.blocks) /\ Hash[Tip(c)] > Hash[Tip(d)]
BestChain(cs) == CHOOSE c \in cs : \A d \in cs \ {c} : Greater(c, d)

(* finalize, and the commit of its root to the database, unless the batch  *)
(* is refused, which the write task does not expect.                       *)
Finalize(s) ==
    LET best == BestChain(s.chains)
        root == Head(best.blocks)
        kept == {c \in s.chains : Head(c.blocks) = root /\ Len(c.blocks) > 1}
    IN  IF s.failed \/ ~Writable(s.db, root) THEN [s EXCEPT !.failed = TRUE]
        ELSE [db |-> Committed(s.db, root, Head(best.rewards), UnbondingAmounts(best)),
              chains |-> {PopRoot(c) : c \in kept}, failed |-> FALSE]

Become(s) ==
    /\ db' = s.db /\ chains' = s.chains /\ failed' = s.failed
    /\ UNCHANGED txs

-------------------------------------------------------------------------------
(* The block write task. *)

(* The chain to fork: the best one that has p. *)
Forked(p) == BestChain({c \in chains : Contains(c.blocks, p)})

ParentChain(p) ==
    IF p = db.tip THEN NewChain(db)
    ELSE IF \E c \in chains : Tip(c) = p THEN CHOOSE c \in chains : Tip(c) = p
    ELSE Fork(Forked(p), p)

(* The root goes to the database when the best chain is past the limit. *)
Limited(s) ==
    IF Len(BestChain(s.chains).blocks) > ReorgLimit THEN Finalize(s) ELSE s

(* An assertion fails while the chain is forked. *)
ForkPanics(p) ==
    /\ p # db.tip /\ \A c \in chains : Tip(c) # p
    /\ LET c == Forked(p)
       IN  \E n \in 0 .. Pops(c, p) - 1 : ~Revertible(Popped(c, n))

(* validate_and_commit_non_finalized: a new chain, or commit_block. *)
CommitBlock(b) ==
    LET p == Parent(b)
        c == ParentChain(p)
        others == {d \in chains : Tip(d) # p}
    IN  /\ ~failed /\ b # Genesis /\ \A d \in chains : ~Contains(d.blocks, b)
        /\ p \in {db.tip} \cup UNION {ToSet(d.blocks) : d \in chains}
        /\ ~ForkPanics(p) => Valid(c, b) /\ Balanced(c, b)
        /\ Become(IF ForkPanics(p) THEN [db |-> db, chains |-> chains, failed |-> TRUE]
                  ELSE Limited([db |-> db, chains |-> others \cup {Push(c, b)},
                                failed |-> FALSE]))

(* CrosslinkFinalized: the chains without the block go, and the blocks up  *)
(* to it are finalized one by one.                                         *)
CrosslinkFinalize(b) ==
    LET kept == {c \in chains : Contains(c.blocks, b)}
        start == [db |-> db, chains |-> kept, failed |-> failed]
    IN  /\ ~failed /\ kept # {}
        /\ Become(FoldLeft(LAMBDA s, i : Finalize(s), start,
                           [i \in 1 .. HeightOf[b] - HeightOf[db.tip] |-> i]))

(* The chains are in memory alone, and a node that panicked starts again. *)
Restart == chains' = {} /\ failed' = FALSE /\ UNCHANGED <<txs, db>>

Start == [tip |-> Genesis, bonds |-> Empty, status |-> Empty, bonded |-> 0, unbonded |-> 0]

Init == txs \in Contents /\ db = Start /\ chains = {} /\ failed = FALSE

Next == Restart \/ \E b \in Blocks : CommitBlock(b) \/ CrosslinkFinalize(b)

Spec == Init /\ [][Next]_vars

-------------------------------------------------------------------------------
(* Properties. *)

Bonds == [amount : Nat, target : Finalizers, created_at : Nat]
Statuses == {"Active", "Unbonding", "Withdrawn"}

(* Pools are never negative and bonds are made of what the code stores. *)
TypeOK ==
    /\ txs \in Contents /\ failed \in BOOLEAN
    /\ db.tip \in Blocks /\ DOMAIN db.bonds = DOMAIN db.status
    /\ \A k \in DOMAIN db.bonds : db.bonds[k] \in Bonds /\ db.status[k] \in Statuses
    /\ \A c \in chains :
          /\ ToSet(c.blocks) \subseteq Blocks /\ c.bonded \in Nat /\ c.unbonded \in Nat
          /\ Len(c.rewards) = Len(c.blocks) /\ Len(c.retargets) = Len(c.blocks)
          /\ \A k \in DOMAIN c.bonds :
                c.bonds[k] \in [bond : Bonds, status : Statuses]

(* Two chains with the same bonds, but for the time of the last action. *)
Same(c, d) ==
    LET Value(e) == [k \in DOMAIN e.bonds |->
            <<e.bonds[k].status, e.bonds[k].bond.amount, e.bonds[k].bond.target>>]
    IN  /\ Value(c) = Value(d) /\ c.bonded = d.bonded /\ c.unbonded = d.unbonded
        /\ c.rewards = d.rewards /\ c.retargets = d.retargets

(* A chain, however often it was forked and its root finalized, has the    *)
(* bonds, pools and rewards of one that starts from the database and gets  *)
(* the same blocks pushed: fork, pop_tip and pop_root undo or keep exactly *)
(* what push did.  forked_equals_pushed_genesis and its siblings test it   *)
(* without staking actions, which their generator does not make.           *)
ForkEqualsPushed ==
    \A c \in chains : Same(c, FoldLeft(Push, NewChain(db), c.blocks))

(* The database, which is written from batches that read it before the     *)
(* block, has the bonds and pools of a chain that gets every finalized     *)
(* block pushed: rewards of bonds that a block creates or retargets and    *)
(* the amounts that it unbonds included.                                   *)
FinalizedEqualsPushed ==
    LET blocks == [i \in 1 .. HeightOf[db.tip] |-> BlockAt(db.tip, i)]
        c == FoldLeft(Push, NewChain(Start), blocks)
    IN  Same(NewChain(db), [c EXCEPT !.rewards = <<>>, !.retargets = <<>>])

(* The withdrawals of a block after its first one of the same bond. *)
Repeats(b) == {i \in DOMAIN txs[b] : txs[b][i].kind = "withdraw" /\ Earlier(b, i, "withdraw")}

Overdrawn(tip) ==
    MapThenSumSet(LAMBDA b : MapThenSumSet(LAMBDA i : txs[b][i].amount, Repeats(b)),
                  Ancestors[tip])

(* In the database and in every chain the bonded pool is the sum of the    *)
(* active bonds and the unbonded pool that of the bonds to be withdrawn,   *)
(* although the transfer between them, the rewards and the value balance   *)
(* of the block are added in different places.  What a block withdraws     *)
(* again, which validate_bond_for_withdrawal does not refuse, and nothing  *)
(* else is missing from the unbonded pool.                                 *)
PoolsHoldTheBonds ==
    \A c \in chains \cup {NewChain(db)} :
       LET Held(s) == MapThenSumSet(LAMBDA k : c.bonds[k].bond.amount,
                                    {k \in DOMAIN c.bonds : c.bonds[k].status = s})
           tip == IF c.blocks = <<>> THEN db.tip ELSE Tip(c)
       IN  c.bonded = Held("Active") /\ c.unbonded + Overdrawn(tip) = Held("Unbonding")

ActsTwice(b) ==
    \E i, j \in DOMAIN txs[b] :
       /\ i # j /\ txs[b][i].key = txs[b][j].key
       /\ "retarget" \notin {txs[b][i].kind, txs[b][j].kind}

(* Nothing but a block that acts on a bond twice besides retargeting it,   *)
(* in the chains or below them, ever makes an assertion of                 *)
(* revert_delegation_bond or a check of prepare_delegation_bonds_batch     *)
(* fail: every other block that validate_delegation_bonds has accepted can *)
(* be reverted and written to the database.                                *)
OnlyRepeatsPanic ==
    failed => \E c \in chains : \E b \in Ancestors[Tip(c)] : ActsTwice(b)

(* "bond should be withdrawn if withdrawal was added to chain", and the    *)
(* like: no assertion of revert_delegation_bond fails, and no check of     *)
(* prepare_delegation_bonds_batch.                                         *)
NothingPanics == ~failed

(* In the database a bond is never lost, goes from active to unbonding to  *)
(* withdrawn, and keeps its amount once it is no longer active.            *)
BondsGoForward ==
    [][\A k \in DOMAIN db.bonds :
          /\ k \in DOMAIN db'.bonds
          /\ db.status[k] # db'.status[k] =>
                <<db.status[k], db'.status[k]>> \in
                    {<<"Active", "Unbonding">>, <<"Active", "Withdrawn">>,
                     <<"Unbonding", "Withdrawn">>}
          /\ IF db.status[k] = "Active" THEN db'.bonds[k].amount >= db.bonds[k].amount
             ELSE db'.bonds[k].amount = db.bonds[k].amount]_vars
=============================================================================
