--------------------------- MODULE TenderlinkSafety ---------------------------
(***************************************************************************)
(* What keeps one height of tenderlink safe: the assumption on the stake   *)
(* that does not follow the protocol, the safety properties, and the       *)
(* inductive invariant behind them.  The conjuncts of the invariant are    *)
(* stated of a state nd of all nodes, because an iteration of bft_update   *)
(* composes several rules and each one has to keep them.                   *)
(***************************************************************************)
EXTENDS Tenderlink

\* The members that run this code and never lose their state.
Reliable == (Nodes \cap Members) \ Amnesiac

\* Two quorums share more stake than the members have that do not run this
\* code, or that may forget what they signed.
ASSUME FaultAssumption ==
    Weight[Members \ Reliable] < QuorumOverlap(Weight[Members])

Quorums == {Q \in SUBSET Members : Big <= Weight[Q]}

-------------------------------------------------------------------------------
Signed(nd) == ByzMsgs \cup UNION {nd[n].sent : n \in Nodes}

HasQuorum(nd, r, t, v) ==
    \E Q \in Quorums : \A m \in Q : Vote(m, r, t, v) \in Signed(nd)

\* v can no longer get a quorum of precommits in round r: every quorum has a
\* reliable member that left the round without precommitting v.
Dead(nd, r, v) ==
    \A Q \in Quorums : \E m \in Q \cap Reliable :
        nd[m].round > r /\ Vote(m, r, "Precommit", v) \notin nd[m].sent

Typed(nd) == nd \in [Nodes -> NodeStates]

OwnSignature(nd) == \A n \in Nodes : \A x \in nd[n].sent : x.from = n

\* check_and_incorporate_msg stores only votes that were signed, and once the
\* proposal is known only those for nil or for the proposal.
StoreSound(nd) ==
    \A n \in Nodes, r \in Rounds, m \in Members, t \in VoteTypes :
        LET d == nd[n].rd[r]
            v == d.votes[m][t]
        IN  v # None =>
                /\ Vote(m, r, t, v) \in Signed(nd)
                /\ d.proposal = None \/ v \in {NIL, d.proposal}

\* A vote is for a round that was reached, in a step that was reached.
VotesInOrder(nd) ==
    \A n \in Reliable : \A x \in nd[n].sent :
        x.type \in VoteTypes =>
            /\ x.round <= nd[n].round
            /\ x.round = nd[n].round => nd[n].step \in {x.type, "Precommit"}

VoteOnce(nd) ==
    \A n \in Reliable, r \in Rounds, t \in VoteTypes, v1, v2 \in VoteValues :
        Vote(n, r, t, v1) \in nd[n].sent /\ Vote(n, r, t, v2) \in nd[n].sent
            => v1 = v2

\* The lock is the last value precommitted, and it had a quorum of prevotes.
LockHeld(nd) ==
    \A n \in Reliable :
        nd[n].decision = None =>
            /\ \A r \in Rounds, v \in Values :
                 Vote(n, r, "Precommit", v) \in nd[n].sent =>
                    /\ nd[n].lockedRound >= r
                    /\ nd[n].lockedRound = r => nd[n].locked = v
            /\ nd[n].lockedRound # -1 =>
                 /\ nd[n].locked \in Values
                 /\ HasQuorum(nd, nd[n].lockedRound, "Prevote", nd[n].locked)

PrecommitJustified(nd) ==
    \A n \in Reliable, r \in Rounds, v \in Values :
        Vote(n, r, "Precommit", v) \in nd[n].sent
            => HasQuorum(nd, r, "Prevote", v)

PrevoteSafe(nd) ==
    \A n \in Reliable, r1, r2 \in Rounds, v1, v2 \in Values :
        (/\ r1 < r2 /\ v1 # v2
         /\ Vote(n, r1, "Precommit", v1) \in nd[n].sent
         /\ Vote(n, r2, "Prevote", v2) \in nd[n].sent)
            => Dead(nd, r1, v1)

DecisionCertified(nd) ==
    \A n \in Nodes :
        nd[n].decision # None =>
            /\ nd[n].decision \in ValidValues
            /\ \E r \in Rounds : HasQuorum(nd, r, "Precommit", nd[n].decision)

IInv(nd) ==
    /\ Typed(nd) /\ OwnSignature(nd) /\ StoreSound(nd)
    /\ VotesInOrder(nd) /\ VoteOnce(nd)
    /\ LockHeld(nd) /\ PrecommitJustified(nd) /\ PrevoteSafe(nd)
    /\ DecisionCertified(nd)

-------------------------------------------------------------------------------
\* The inductive invariant of the protocol.
InductiveInvariant == IInv(node)

\* A reliable node never signs two different votes of one kind in one round,
\* whichever of the rules and the timers of bft_update make it vote.
NoEquivocation == VoteOnce(node)

\* A reliable node that precommitted a value prevotes another one in a later
\* round only when the first can no longer be decided: what the lock tests of
\* lines 22 and 28 are there for.
SafeUnlocking == PrevoteSafe(node)

\* A decided value is valid, and was precommitted by a quorum, even where the
\* votes were counted before the proposal was known: the fat pointer that line
\* 49 makes of the round can be verified.
DecisionsValid == DecisionCertified(node)

\* A lock is only ever replaced by one of a later round, with a quorum of
\* prevotes, and is given up only by deciding or by a restart.
LockStep(n) ==
    \/ <<node[n].locked, node[n].lockedRound>>'
         = <<node[n].locked, node[n].lockedRound>>
    \/ /\ node[n].lockedRound < node'[n].lockedRound
       /\ node'[n].lockedRound = node[n].round
       /\ HasQuorum(node, node'[n].lockedRound, "Prevote", node'[n].locked)
    \/ node'[n].decision # None
    \/ restarts' # restarts
LocksAdvance == [][\A n \in Nodes : LockStep(n)]_vars

\* The height refines OneDecision: push_block_closure is called at most once by
\* a node, and by all nodes with the same value.
Height == INSTANCE OneDecision
              WITH decision <- [n \in Nodes |-> node[n].decision]
DecidesOnce == Height!Spec
===============================================================================
