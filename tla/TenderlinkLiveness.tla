-------------------------- MODULE TenderlinkLiveness --------------------------
(***************************************************************************)
(* What one height of tenderlink promises will happen.  The main loop of   *)
(* entry_point reads the sockets and ticks without end, and in every tick  *)
(* sends each peer the rounds it has stored: a message is received in the  *)
(* end as long as some node has it in store, and no other message has to.  *)
(***************************************************************************)
EXTENDS Tenderlink

\* What node k sends its peers.  A packet of votes names one value besides nil,
\* so while the proposal is unknown the votes for several values are not all
\* sent.  Of a height that k has decided it sends the proposal and the precommits
\* of the round it was decided in.
ServesVote(k, m) ==
    LET votes == node[k].rd[m.round].votes
    IN  /\ votes[m.from][m.type] = m.value
        /\ \/ m.value = NIL
           \/ \A q \in Members : votes[q][m.type] \in {None, NIL, m.value}
        /\ m.type = "Prevote" => node[k].decision = None

Serves(k, m) ==
    LET d == node[k].rd[m.round]
    IN  IF m.type = "Proposal" THEN <<d.proposal, d.vr>> = <<m.value, m.vr>>
                               ELSE ServesVote(k, m)

Served == {m \in Msgs : \E k \in Nodes : Serves(k, m)}

ReceiveServed(n) == \E m \in Served : ReceiveMsg(n, m)

\* When ReceiveServed and Tick change something: what ENABLED says of them.
CanReceive(n) ==
    /\ node[n].scan = 0
    /\ node[n].decision = None
    /\ \E m \in Served :
         /\ m.type = "Proposal" => m.from = Proposer[m.round]
         /\ Incorporate(n, m, node[n].rd[m.round]) # node[n].rd[m.round]

CanTick(n, elapsed) ==
    /\ node[n].decision = None
    /\ LET r == node[n].scan
           c == Snapshot(node[n].rd[r], synced[n])
       IN  \E p \in Candidates[n] :
             Iteration(n, r, c, elapsed, p, node[n]) # node[n]

\* The loop of every node goes on, and PoW blocks arrive.  Receiving is strongly
\* fair, because it waits for the end of every tick.
LoopFairness ==
    \A n \in Nodes :
        /\ <>[]~CanReceive(n) \/ []<><<ReceiveServed(n)>>_vars
        /\ []<>~(\E e \in Elapses : CanTick(n, e)) \/ []<><<bft_update(n)>>_vars
        /\ WF_vars(Sync(n))

\* A timer that nothing replaces has elapsed in the end: a node that goes on
\* ticking does not see it unelapsed for ever.
TimerFairness ==
    \A n \in Nodes, r \in Rounds :
        \/ <>[]~(node[n].scan = r /\ CanTick(n, TRUE))
        \/ []<><<node[n].scan = r /\ Tick(n, TRUE)>>_vars

GoodSpec == Spec /\ LoopFairness
FairSpec == Spec /\ LoopFairness /\ TimerFairness
-------------------------------------------------------------------------------
\* With a correct proposer, no timer elapsing and a quorum that is synced, every
\* node decides: the members in whatever order the votes reach them, and the
\* observers, which follow line 49 alone, and those whose PoW block is late.
EveryoneDecides == <>(\A n \in Nodes : node[n].decision # None)

\* No node stays in a round for ever.  A round has one timer, and line 34 can
\* overwrite the Precommit timer that line 47 has set: such a node is carried to
\* the next round by line 55, with the votes of those that got there.
RoundsAdvance ==
    \A n \in Nodes \cap Members, r \in Rounds \ {MaxRound} :
        node[n].round = r ~> node[n].round > r \/ node[n].decision # None
===============================================================================
