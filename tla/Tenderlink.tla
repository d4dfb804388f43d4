------------------------------ MODULE Tenderlink ------------------------------
(***************************************************************************)
(* One height of the Tendermint-style BFT protocol of tenderlink           *)
(* (tenderlink/src/lib.rs, struct TMState).  A node receives signed        *)
(* proposals and votes (check_and_incorporate_msg), and on every tick runs *)
(* the rules of bft_update once for each round it has data about, in       *)
(* ascending order.  Each iteration of that loop is one step here; a node  *)
(* receives nothing between the iterations of one tick.  A node's state is *)
(* a record, and each rule is an operator from that record to the next, so *)
(* that an iteration is the composition of the rules in the code's order.  *)
(*                                                                         *)
(* Signatures are modelled by the set of messages that were ever signed: a *)
(* packet may be lost, delayed, duplicated or reordered, so a node may     *)
(* receive any of them at any time, or never.  Members of the roster that  *)
(* are not in Nodes do not run this code: they may have signed anything in *)
(* ByzMsgs.  A restart forgets everything but the decided blocks.          *)
(***************************************************************************)
EXTENDS Thresholds, FiniteSets, FiniteSetsExt

CONSTANTS
    Members,      \* the active roster
    Stake,        \* the stake of each member
    Nodes,        \* the processes that run this code, observers included
    Amnesiac,     \* the nodes that may be restarted
    MaxRestarts,  \* bound on the number of restarts
    Values,       \* the block values that can be proposed
    ValidValues,  \* those that pass validation once their PoW block is known
    Candidates,   \* what the propose closure of each node may return
    Synced,       \* the values whose PoW block each node has from the start
    Proposer,     \* the proposer of each round of this height
    MaxRound,     \* bound on the rounds
    Elapses,      \* what a timer may show: BOOLEAN, or {FALSE} in good times
    ByzMsgs,      \* messages signed by members that do not run this code
    NIL,          \* ValueId::NIL
    None          \* the absence of a value, a vote or a timer

ConstantsOK ==
    /\ IsFiniteSet(Members) /\ Stake \in [Members -> Nat]
    /\ Amnesiac \subseteq Nodes
    /\ MaxRestarts \in Nat /\ MaxRound \in Nat
    /\ NIL \notin Values /\ None \notin Values \cup {NIL}
    /\ ValidValues \subseteq Values
    /\ Candidates \in [Nodes -> SUBSET (Values \cup {None})]
    /\ Synced \in [Nodes -> SUBSET Values]
    /\ Proposer \in [0 .. MaxRound -> Members]
    /\ Elapses \subseteq BOOLEAN

ASSUME ConstantsAssumption == ConstantsOK

VARIABLES
    node,         \* the state of each node (TMState, with its RoundData)
    synced,       \* the values whose PoW block each node has
    restarts      \* how many restarts there have been

vars == <<node, synced, restarts>>

-------------------------------------------------------------------------------
Rounds == 0 .. MaxRound
VoteTypes == {"Prevote", "Precommit"}
Steps == {"Propose", "Prevote", "Precommit"}
VoteValues == Values \cup {NIL}

Vote(m, r, t, v) == [type |-> t, from |-> m, round |-> r, value |-> v]
Proposal(m, r, v, vr) ==
    [type |-> "Proposal", from |-> m, round |-> r, value |-> v, vr |-> vr]

Votes == [type : VoteTypes, from : Members, round : Rounds, value : VoteValues]
Proposals == [type : {"Proposal"}, from : Members, round : Rounds,
              value : Values, vr : Rounds \cup {-1}]

\* Members that do not run this code sign what they want, but only for
\* themselves: signatures cannot be forged.
ASSUME ByzMsgsAssumption ==
    ByzMsgs \subseteq {m \in Votes \cup Proposals : m.from \notin Nodes}

\* The total stake of a set of members, for every set of members.
Weight == [S \in SUBSET Members |-> MapThenSumSet(LAMBDA m : Stake[m], S)]
Big == big_threshold(Weight[Members])
Small == small_threshold(Weight[Members])

\* RoundData::EMPTY as insert_round leaves it: a round without any data.
EmptyVotes == [m \in Members |-> [t \in VoteTypes |-> None]]
EmptyRound == [proposal |-> None, vr |-> -1, votes |-> EmptyVotes,
               timeout |-> None, triggered |-> {}]

NoRounds == [r \in Rounds |-> EmptyRound]

\* TMState::init, for the current height.
InitState(sent) ==
    [round |-> 0, step |-> "Propose",
     locked |-> None, lockedRound |-> -1, valid |-> None, validRound |-> -1,
     rd |-> NoRounds, scan |-> 0, left |-> 0,
     decision |-> None, sent |-> sent]

-------------------------------------------------------------------------------
(* check_and_incorporate_msg, from the round data d to the next.           *)

\* Fault, for the runs to detect: a vote for any value is accepted.
AcceptsVote_AnyValue(d, m, t, v) == d.votes[m][t] \in {None, v}

\* A vote for a value other than the proposal is refused once the proposal is
\* known, and so is a vote that differs from the one stored for that member.
AcceptsVote(d, m, t, v) ==
    /\ v = NIL \/ d.proposal \in {None, v}
    /\ d.votes[m][t] \in {None, v}

StoreVote(d, m, t, v) ==
    IF AcceptsVote(d, m, t, v) THEN [d EXCEPT !.votes[m][t] = v] ELSE d

\* Fault, for the runs to detect: the votes for other values are kept.
PurgeVotes_Keep(votes, v) == votes

\* The first proposal seen drops the votes stored for other values.
PurgeVotes(votes, v) ==
    [m \in Members |-> [t \in VoteTypes |->
        IF votes[m][t] \in {NIL, v} THEN votes[m][t] ELSE None]]

\* Fault, for the runs to detect: the votes of an amnesiac proposer's first
\* proposal are counted for its second one.
StoreProposal_NoFlush(d, own, v, vr) ==
    IF d.proposal = None
    THEN [d EXCEPT !.proposal = v, !.vr = vr, !.votes = PurgeVotes(@, v)]
    ELSE IF own THEN [d EXCEPT !.proposal = v, !.vr = vr] ELSE d

\* A second, different proposal is ignored; when it is one's own, signed before
\* a restart, it replaces the first and every stored vote is flushed.
StoreProposal(d, own, v, vr) ==
    IF d.proposal = None
    THEN [d EXCEPT !.proposal = v, !.vr = vr, !.votes = PurgeVotes(@, v)]
    ELSE IF own /\ <<d.proposal, d.vr>> # <<v, vr>>
    THEN [d EXCEPT !.proposal = v, !.vr = vr, !.votes = EmptyVotes]
    ELSE d

-------------------------------------------------------------------------------
(* broadcast and start_round: what the rules do, from the node state s of  *)
(* node n to the next.  A message is sent by storing it: peers fetch it    *)
(* from there, so a vote that one's own store refuses is never sent.       *)

BroadcastVote(n, r, t, v, s) ==
    [s EXCEPT !.step  = t,
              !.rd[r] = StoreVote(@, n, t, v),
              !.sent  = IF AcceptsVote(s.rd[r], n, t, v)
                        THEN @ \cup {Vote(n, r, t, v)} ELSE @]

BroadcastProposal(n, r, v, s) ==
    [s EXCEPT !.rd[r] = StoreProposal(@, TRUE, v, s.validRound),
              !.sent  = @ \cup {Proposal(n, r, v, s.validRound)}]

\* Fault, for the runs to detect: the lock is given up with the round.
start_round_Unlock(n, r, p, s) ==
    LET v  == IF s.valid # None THEN s.valid ELSE p
        s1 == [s EXCEPT !.round = r, !.step = "Propose",
                        !.locked = None, !.lockedRound = -1]
        s2 == IF Proposer[r] = n /\ v # None
              THEN BroadcastProposal(n, r, v, s1) ELSE s1
    IN  [s2 EXCEPT !.rd[r].timeout = "Propose"]

\* p is what the propose closure returns, None included.
start_round(n, r, p, s) ==
    LET v  == IF s.valid # None THEN s.valid ELSE p
        s1 == [s EXCEPT !.round = r, !.step = "Propose"]
        s2 == IF Proposer[r] = n /\ v # None
              THEN BroadcastProposal(n, r, v, s1) ELSE s1
    IN  [s2 EXCEPT !.rd[r].timeout = "Propose"]

-------------------------------------------------------------------------------
(* The rules of bft_update, in its order.  c is what the loop reads when   *)
(* the iteration begins: the stake of the votes of each kind, whether the  *)
(* proposal is there and passes validation, and the timer of the round.    *)

Voters(d, t, vals) == {m \in Members : d.votes[m][t] \in vals}

Snapshot(d, known) ==
    [prevotes      |-> Weight[Voters(d, "Prevote", VoteValues)],
     nilPrevotes   |-> Weight[Voters(d, "Prevote", {NIL})],
     yesPrevotes   |-> Weight[Voters(d, "Prevote", Values)],
     precommits    |-> Weight[Voters(d, "Precommit", VoteValues)],
     yesPrecommits |-> Weight[Voters(d, "Precommit", Values)],
     anys          |-> Weight[Voters(d, "Prevote", VoteValues)
                              \cup Voters(d, "Precommit", VoteValues)],
     full          |-> d.proposal # None,
     pass          |-> d.proposal \in ValidValues \cap known,
     timeout       |-> d.timeout]

\* on_roster && is_current_height_and_round
OnCurrentRound(n, r, s) == n \in Members /\ s.round = r

\* Lines 22 and 28 prevote the proposal if it is valid and the lock allows it,
\* and nil otherwise.
Prevoted(d, c, lockAllows) ==
    IF c.pass /\ lockAllows THEN d.proposal ELSE NIL

\* Fault, for the runs to detect: line 22 without its test of the lock.
Line22_NoLock(n, r, c, s) ==
    IF OnCurrentRound(n, r, s) /\ c.full /\ s.rd[r].vr = -1 /\ s.step = "Propose"
    THEN BroadcastVote(n, r, "Prevote", Prevoted(s.rd[r], c, TRUE), s)
    ELSE s

\* Line 22: the first proposal of the round, proposed for the first time.
Line22(n, r, c, s) ==
    IF /\ OnCurrentRound(n, r, s)
       /\ c.full
       /\ s.rd[r].vr = -1
       /\ s.step = "Propose"
    THEN BroadcastVote(n, r, "Prevote",
            Prevoted(s.rd[r], c,
                s.lockedRound = -1 \/ s.locked = s.rd[r].proposal), s)
    ELSE s

\* Line 28: a proposal that was valid in an earlier round vr.  The prevotes the
\* code counts are those of the current round.
Line28(n, r, c, s) ==
    IF /\ OnCurrentRound(n, r, s)
       /\ c.full
       /\ Big <= c.yesPrevotes
       /\ s.step = "Propose"
       /\ 0 <= s.rd[r].vr /\ s.rd[r].vr < s.round
    THEN BroadcastVote(n, r, "Prevote",
            Prevoted(s.rd[r], c,
                s.lockedRound <= s.rd[r].vr \/ s.locked = s.rd[r].proposal), s)
    ELSE s

\* Line 34: last orders on the prevote period.
Line34(n, r, c, s) ==
    IF /\ OnCurrentRound(n, r, s)
       /\ Big <= c.prevotes
       /\ s.step = "Prevote"
       /\ "Prevote" \notin s.rd[r].triggered
    THEN [s EXCEPT !.rd[r].triggered = @ \cup {"Prevote"},
                   !.rd[r].timeout = "Prevote"]
    ELSE s

\* Fault, for the runs to detect: the round of the lock is not recorded.
Lock_NoRound(r, s) == [s EXCEPT !.locked = s.rd[r].proposal]

\* Line 36: a quorum of prevotes for a valid proposal.
Lock(r, s) == [s EXCEPT !.locked = s.rd[r].proposal, !.lockedRound = s.round]

Line36(n, r, c, s) ==
    IF /\ OnCurrentRound(n, r, s)
       /\ c.full
       /\ Big <= c.yesPrevotes
       /\ c.pass
       /\ s.step \in {"Prevote", "Precommit"}
    THEN LET s1 == IF s.step = "Prevote"
                   THEN BroadcastVote(n, r, "Precommit", s.rd[r].proposal,
                                      Lock(r, s))
                   ELSE s
         IN  [s1 EXCEPT !.valid = s1.rd[r].proposal, !.validRound = s1.round]
    ELSE s

\* Line 44: a quorum of prevotes for nil.
Line44(n, r, c, s) ==
    IF /\ OnCurrentRound(n, r, s)
       /\ Big <= c.nilPrevotes
       /\ s.step = "Prevote"
    THEN BroadcastVote(n, r, "Precommit", NIL, s)
    ELSE s

\* Line 47: last orders on the precommit period.
Line47(n, r, c, s) ==
    IF /\ OnCurrentRound(n, r, s)
       /\ Big <= c.precommits
       /\ "Precommit" \notin s.rd[r].triggered
    THEN [s EXCEPT !.rd[r].triggered = @ \cup {"Precommit"},
                   !.rd[r].timeout = "Precommit"]
    ELSE s

\* recent_commit_round_cache: the round that a height was decided in is kept, to
\* be served to peers that lag behind.
KeepRound(r, rd) == [NoRounds EXCEPT ![r] = rd[r]]

\* Fault, for the runs to detect: line 49 only after the node's own precommit.
Line49_RosterOnly(r, c, s) ==
    IF c.full /\ Big <= c.yesPrecommits /\ c.pass /\ s.step = "Precommit"
    THEN [s EXCEPT !.decision = s.rd[r].proposal, !.rd = KeepRound(r, @),
                   !.locked = None, !.lockedRound = -1,
                   !.valid = None, !.validRound = -1]
    ELSE s

\* Line 49: the value of any round, decided; observers take this rule too.  The
\* node goes on with the next height, and this one is over for it.
Line49(r, c, s) ==
    IF /\ c.full
       /\ Big <= c.yesPrecommits
       /\ c.pass
    THEN [s EXCEPT !.decision = s.rd[r].proposal, !.rd = KeepRound(r, @),
                   !.locked = None, !.lockedRound = -1,
                   !.valid = None, !.validRound = -1]
    ELSE s

\* Faults, for the runs to detect: line 55 for the current round, or only for a
\* round after the next.
Line55_SameRound(n, r, c, p, s) ==
    IF n \in Members /\ s.decision = None /\ s.round <= r /\ Small <= c.anys
    THEN start_round(n, r, p, s) ELSE s
Line55_SkipNext(n, r, c, p, s) ==
    IF n \in Members /\ s.decision = None /\ s.round + 1 < r /\ Small <= c.anys
    THEN start_round(n, r, p, s) ELSE s

\* Line 55: catch up with a later round.
Line55(n, r, c, p, s) ==
    IF /\ n \in Members
       /\ s.decision = None
       /\ s.round < r
       /\ Small <= c.anys
    THEN start_round(n, r, p, s)
    ELSE s

\* The timer of the round, if it has elapsed: one that was set in this iteration
\* has not.
OnTimeout(n, r, c, elapsed, p, s) ==
    IF /\ OnCurrentRound(n, r, s)
       /\ s.decision = None
       /\ elapsed
       /\ s.rd[r].timeout = c.timeout
    THEN CASE c.timeout = "Propose" /\ s.step = "Propose" ->
                BroadcastVote(n, r, "Prevote", NIL, s)
           [] c.timeout = "Prevote" /\ s.step = "Prevote" ->
                BroadcastVote(n, r, "Precommit", NIL, s)
           [] c.timeout = "Precommit" /\ r < MaxRound ->
                start_round(n, r + 1, p, s)
           [] OTHER -> s
    ELSE s

\* The loop goes on with the next round of rounds_data, for as many iterations
\* as there were rounds when it began: a round that is inserted on the way is
\* visited in place of the last one.
Present(s) == {q \in Rounds : s.rd[q] # EmptyRound}

NextScan(r, left, s) ==
    LET later == {q \in Present(s) : q > r}
        over  == left <= 0 \/ later = {} \/ s.decision # None
    IN  [s EXCEPT !.scan = IF over THEN 0 ELSE Min(later),
                  !.left = IF over THEN 0 ELSE left]

\* One iteration of the loop of bft_update.
Iteration(n, r, c, elapsed, p, s) ==
    LET s1 == Line22(n, r, c, s)
        s2 == Line28(n, r, c, s1)
        s3 == Line34(n, r, c, s2)
        s4 == Line36(n, r, c, s3)
        s5 == Line44(n, r, c, s4)
        s6 == Line47(n, r, c, s5)
        s7 == Line49(r, c, s6)
        s8 == Line55(n, r, c, p, s7)
        s9 == OnTimeout(n, r, c, elapsed, p, s8)
    IN  NextScan(r, (IF r = 0 THEN Cardinality(Present(s)) ELSE s.left) - 1, s9)

-------------------------------------------------------------------------------
\* Everything that was ever signed.
Msgs == ByzMsgs \cup UNION {node[n].sent : n \in Nodes}

\* A packet is taken from the socket between two ticks.  A message of a height
\* that is over is refused, and so is a proposal that the round's proposer has
\* not signed.  A message that changes nothing (one that is refused, or that
\* was received before) is a stuttering step, and is left out.
Incorporate(n, m, d) ==
    IF m.type = "Proposal"
    THEN StoreProposal(d, m.from = n, m.value, m.vr)
    ELSE StoreVote(d, m.from, m.type, m.value)

ReceiveMsg(n, m) ==
    /\ node[n].scan = 0
    /\ node[n].decision = None
    /\ m.type = "Proposal" => m.from = Proposer[m.round]
    /\ Incorporate(n, m, node[n].rd[m.round]) # node[n].rd[m.round]
    /\ node' = [node EXCEPT ![n].rd[m.round] = Incorporate(n, m, @)]
    /\ UNCHANGED <<synced, restarts>>

Receive(n) == \E m \in Msgs : ReceiveMsg(n, m)

\* An iteration of bft_update; the timer and the propose closure are inputs.
Tick(n, elapsed) ==
    /\ node[n].decision = None
    /\ LET r == node[n].scan
           c == Snapshot(node[n].rd[r], synced[n])
       IN  \E p \in Candidates[n] :
             node' = [node EXCEPT ![n] = Iteration(n, r, c, elapsed, p, @)]
    /\ UNCHANGED <<synced, restarts>>

bft_update(n) == \E elapsed \in Elapses : Tick(n, elapsed)

\* The PoW block of a value arrives at a node.
Sync(n) ==
    /\ \E v \in Values \ synced[n] :
         synced' = [synced EXCEPT ![n] = @ \cup {v}]
    /\ UNCHANGED <<node, restarts>>

\* A node stops and comes back at this height: entry_point starts from the
\* decided blocks alone.
Restart(n) ==
    /\ n \in Amnesiac
    /\ restarts < MaxRestarts
    /\ node[n].decision = None
    /\ \E p \in Candidates[n] :
         node' = [node EXCEPT ![n] = start_round(n, 0, p, InitState(@.sent))]
    /\ restarts' = restarts + 1
    /\ UNCHANGED synced

Init ==
    /\ \E p \in [Nodes -> Values \cup {None}] :
         /\ \A n \in Nodes : p[n] \in Candidates[n]
         /\ node = [n \in Nodes |-> start_round(n, 0, p[n], InitState({}))]
    /\ synced = Synced
    /\ restarts = 0

Next == \E n \in Nodes : Receive(n) \/ bft_update(n) \/ Sync(n) \/ Restart(n)

Spec == Init /\ [][Next]_vars
-------------------------------------------------------------------------------
RoundDatas ==
    [proposal : Values \cup {None}, vr : Rounds \cup {-1},
     votes : [Members -> [VoteTypes -> VoteValues \cup {None}]],
     timeout : Steps \cup {None}, triggered : SUBSET VoteTypes]

NodeStates ==
    [round : Rounds, step : Steps,
     locked : Values \cup {None}, lockedRound : Rounds \cup {-1},
     valid : Values \cup {None}, validRound : Rounds \cup {-1},
     rd : [Rounds -> RoundDatas], scan : Rounds, left : Nat,
     decision : Values \cup {None}, sent : SUBSET (Votes \cup Proposals)]

\* Type correctness of TMState and RoundData, with the messages signed.
TypeOK ==
    /\ node \in [Nodes -> NodeStates]
    /\ synced \in [Nodes -> SUBSET Values]
    /\ restarts \in Nat

\* No two nodes decide differently: line 49 pushes at most one value at a
\* height, whatever the order of messages, timers, ticks and restarts.
Agreement ==
    \A n1, n2 \in Nodes :
        node[n1].decision # None /\ node[n2].decision # None
            => node[n1].decision = node[n2].decision
===============================================================================
