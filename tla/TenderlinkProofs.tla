--------------------------- MODULE TenderlinkProofs ---------------------------
(***************************************************************************)
(* The theorems about one height of tenderlink, for every roster, every    *)
(* number of rounds, and every set of messages of the members that do not  *)
(* run the code, under the assumptions of TenderlinkSafety: each rule of   *)
(* bft_update keeps the inductive invariant, and so does the iteration that*)
(* composes them, and every action.                                        *)
(***************************************************************************)
EXTENDS QuorumProofs

-------------------------------------------------------------------------------
(* The rules of bft_update.  They are applied to what the loop read when   *)
(* the iteration began, which stays sound while the rules are applied.     *)

SnapOK(nd, n, r, c) ==
    /\ c.pass => nd[n].rd[r].proposal \in ValidValues
    /\ c.full =>
         /\ nd[n].rd[r].proposal \in Values
         /\ Big <= c.yesPrevotes
              => HasQuorum(nd, r, "Prevote", nd[n].rd[r].proposal)
         /\ Big <= c.yesPrecommits
              => HasQuorum(nd, r, "Precommit", nd[n].rd[r].proposal)

Undecided(nd, n, r, c) ==
    IInv(nd) /\ nd[n].decision = None /\ SnapOK(nd, n, r, c)

\* Replacing the state of one node, as the rules of bft_update do one after the
\* other.
LEMMA Updates ==
    ASSUME NEW nd, Typed(nd), NEW n \in Nodes
    PROVE  /\ \A s : Update(nd, n, s)[n] = s
           /\ \A s1, s2 : Update(Update(nd, n, s1), n, s2) = Update(nd, n, s2)
           /\ Update(nd, n, nd[n]) = nd
<1>1. nd \in [Nodes -> NodeStates]
  BY DEF Typed
<1>2. \A s : Update(nd, n, s)[n] = s
  BY <1>1 DEF Update
<1>3. \A s1, s2 : Update(Update(nd, n, s1), n, s2) = Update(nd, n, s2)
  BY <1>1, Zenon DEF Update
<1>4. Update(nd, n, nd[n]) = nd
  BY <1>1 DEF Update
<1> QED BY <1>2, <1>3, <1>4

\* The votes counted for the proposal were signed, by a quorum.
LEMMA SnapshotOK ==
    ASSUME NEW nd, IInv(nd), NEW n \in Nodes, NEW r \in Rounds, NEW known
    PROVE  SnapOK(nd, n, r, Snapshot(nd[n].rd[r], known))
<1> DEFINE d == nd[n].rd[r]
           c == Snapshot(d, known)
<1>1. d \in RoundDatas
  BY DEF IInv, Typed, NodeStates
<1>2. /\ c.full = (d.proposal # None) /\ (c.pass => d.proposal \in ValidValues)
      /\ c.yesPrevotes = Weight[Voters(d, "Prevote", Values)]
      /\ c.yesPrecommits = Weight[Voters(d, "Precommit", Values)]
  BY Zenon DEF Snapshot
<1> SUFFICES ASSUME d.proposal # None
             PROVE  /\ d.proposal \in Values
                    /\ Big <= c.yesPrevotes => HasQuorum(nd, r, "Prevote", d.proposal)
                    /\ Big <= c.yesPrecommits
                         => HasQuorum(nd, r, "Precommit", d.proposal)
  BY <1>2, Zenon DEF SnapOK
<1>3. d.proposal \in Values
  BY <1>1 DEF RoundDatas
<1>4. ASSUME NEW t \in VoteTypes, Big <= Weight[Voters(d, t, Values)]
      PROVE  HasQuorum(nd, r, t, d.proposal)
  <2>1. Voters(d, t, Values) \in Quorums
    BY <1>4 DEF Quorums, Voters
  <2>2. ASSUME NEW m \in Voters(d, t, Values)
        PROVE  Vote(m, r, t, d.proposal) \in Signed(nd)
    <3>1. m \in Members /\ d.votes[m][t] \in Values
      BY DEF Voters
    <3>2. d.votes[m][t] # None /\ d.votes[m][t] # NIL
      BY <3>1, ConstantsAssumption, SMTT(30), Zenon DEF ConstantsOK
    <3>3. Vote(m, r, t, d.votes[m][t]) \in Signed(nd) /\ d.votes[m][t] = d.proposal
      BY <3>1, <3>2, Zenon DEF IInv, StoreSound
    <3> QED BY <3>3, Zenon
  <2> QED BY <2>1, <2>2 DEF HasQuorum
<1> QED BY <1>2, <1>3, <1>4 DEF VoteTypes

\* A good step that keeps the proposal of the round.
LEMMA GoodRule ==
    ASSUME NEW nd, NEW n \in Nodes, NEW r \in Rounds, NEW c, Undecided(nd, n, r, c),
           NEW s2, GoodStep(nd, n, s2), s2.decision = None,
           s2.rd[r].proposal = nd[n].rd[r].proposal
    PROVE  Undecided(Update(nd, n, s2), n, r, c)
<1>1. IInv(nd) /\ Typed(nd) /\ nd[n].decision = None
  BY DEF Undecided, IInv
<1>2. IInv(Update(nd, n, s2))
  BY <1>1, GoodStepPreserves
<1>3. Update(nd, n, s2)[n] = s2
  BY <1>1, Updates
<1>4. \A q, t, v : HasQuorum(nd, q, t, v) => HasQuorum(Update(nd, n, s2), q, t, v)
  BY <1>1, SignedGrows DEF GoodStep
<1> QED BY <1>2, <1>3, <1>4 DEF Undecided, SnapOK

\* A vote that its rule allows.
LEMMA GoodVote ==
    ASSUME NEW nd, NEW n \in Nodes, n \in Members, NEW r \in Rounds, NEW c,
           Undecided(nd, n, r, c), nd[n].round = r, NEW v \in VoteValues,
           NEW t \in VoteTypes,
           \/ /\ t = "Prevote" /\ nd[n].step = "Propose"
              /\ \/ v = NIL
                 \/ nd[n].lockedRound = -1
                 \/ nd[n].locked = v
                 \/ HasQuorum(nd, r, "Prevote", v)
           \/ /\ t = "Precommit" /\ nd[n].step = "Prevote"
              /\ v = NIL
    PROVE  Undecided(Update(nd, n, BroadcastVote(n, r, t, v, nd[n])), n, r, c)
<1> DEFINE s2 == BroadcastVote(n, r, t, v, nd[n])
<1>1. IInv(nd) /\ nd[n] \in NodeStates /\ nd[n].decision = None
  BY Zenon DEF Undecided, IInv, Typed
<1>2. /\ s2 \in NodeStates
      /\ s2.step = t /\ s2.round = nd[n].round /\ s2.decision = nd[n].decision
      /\ s2.locked = nd[n].locked /\ s2.lockedRound = nd[n].lockedRound
      /\ s2.rd[r].proposal = nd[n].rd[r].proposal
      /\ nd[n].sent \subseteq s2.sent
      /\ \A x \in s2.sent : x \in nd[n].sent \/ x = Vote(n, r, t, v)
      /\ \A x \in s2.sent : x.from = n
      /\ StoreStep(nd, n, s2)
  BY <1>1, BroadcastVoteKeeps
<1> HIDE DEF s2
<1>3. CASE t = "Prevote"
  BY <1>1, <1>2, <1>3, GoodRule, Zenon DEF GoodStep, PrevoteStep, s2
<1>4. CASE t = "Precommit"
  BY <1>1, <1>2, <1>4, GoodRule, Zenon DEF GoodStep, PrecommitStep, s2
<1> QED BY <1>3, <1>4 DEF VoteTypes

\* A step that signs nothing and keeps the votes and the proposals stored.
LEMMA QuietRule ==
    ASSUME NEW nd, IInv(nd), NEW n \in Nodes, NEW s2 \in NodeStates,
           s2.sent = nd[n].sent, s2.round = nd[n].round, s2.step = nd[n].step,
           s2.locked = nd[n].locked, s2.lockedRound = nd[n].lockedRound,
           s2.decision = nd[n].decision,
           \A q \in Rounds : /\ s2.rd[q].votes = nd[n].rd[q].votes
                             /\ s2.rd[q].proposal = nd[n].rd[q].proposal
    PROVE  GoodStep(nd, n, s2)
<1>1. StoreStep(nd, n, s2)
  <2>1. \A r \in Rounds, m \in Members, t \in VoteTypes :
           LET v == nd[n].rd[r].votes[m][t]
           IN  v # None => /\ Vote(m, r, t, v) \in Signed(nd)
                           /\ \/ nd[n].rd[r].proposal = None
                              \/ v \in {NIL, nd[n].rd[r].proposal}
    BY Zenon DEF IInv, StoreSound
  <2> QED BY <2>1, SMTT(30), Zenon DEF StoreStep
<1>2. QuietStep(nd, n, s2)
  BY DEF QuietStep
<1>3. \A x \in s2.sent : x.from = n
  BY DEF IInv, OwnSignature
<1>4. s2.decision # None =>
         /\ s2.decision \in ValidValues
         /\ \E r \in Rounds : HasQuorum(nd, r, "Precommit", s2.decision)
  BY DEF IInv, DecisionCertified
<1> QED BY <1>1, <1>2, <1>3, <1>4, SMTT(30), Zenon DEF GoodStep

\* Line 22 keeps the invariant: the prevote of a first proposal obeys the lock.
LEMMA Line22Keeps ==
    ASSUME NEW nd, NEW n \in Nodes, NEW r \in Rounds, NEW c, Undecided(nd, n, r, c)
    PROVE  Undecided(Update(nd, n, Line22(n, r, c, nd[n])), n, r, c)
<1> DEFINE d == nd[n].rd[r]
           v == Prevoted(d, c, nd[n].lockedRound = -1 \/ nd[n].locked = d.proposal)
<1>1. CASE Line22(n, r, c, nd[n]) = nd[n]
  BY <1>1, Updates DEF Undecided, IInv
<1>2. CASE Line22(n, r, c, nd[n]) # nd[n]
  <2>1. /\ n \in Members /\ nd[n].round = r /\ c.full /\ nd[n].step = "Propose"
        /\ Line22(n, r, c, nd[n]) = BroadcastVote(n, r, "Prevote", v, nd[n])
    BY <1>2, Zenon DEF Line22, OnCurrentRound
  <2>2. d.proposal \in Values
    BY <2>1, Zenon DEF Undecided, SnapOK
  <2>3. v \in VoteValues /\ (v = NIL \/ nd[n].lockedRound = -1 \/ nd[n].locked = v)
    BY <2>2, Zenon DEF Prevoted, VoteValues
  <2> HIDE DEF v
  <2> QED BY <2>1, <2>3, GoodVote, Zenon DEF VoteTypes
<1> QED BY <1>1, <1>2, Zenon

\* Line 28 keeps the invariant: the quorum of prevotes that it has counted in the
\* current round makes the prevote of a proposal safe.
LEMMA Line28Keeps ==
    ASSUME NEW nd, NEW n \in Nodes, NEW r \in Rounds, NEW c, Undecided(nd, n, r, c)
    PROVE  Undecided(Update(nd, n, Line28(n, r, c, nd[n])), n, r, c)
<1> DEFINE d == nd[n].rd[r]
           v == Prevoted(d, c, nd[n].lockedRound <= d.vr \/ nd[n].locked = d.proposal)
<1>1. CASE Line28(n, r, c, nd[n]) = nd[n]
  BY <1>1, Updates DEF Undecided, IInv
<1>2. CASE Line28(n, r, c, nd[n]) # nd[n]
  <2>1. /\ n \in Members /\ nd[n].round = r /\ c.full /\ nd[n].step = "Propose"
        /\ Big <= c.yesPrevotes
        /\ Line28(n, r, c, nd[n]) = BroadcastVote(n, r, "Prevote", v, nd[n])
    BY <1>2, Zenon DEF Line28, OnCurrentRound
  <2>2. d.proposal \in Values /\ HasQuorum(nd, r, "Prevote", d.proposal)
    BY <2>1 DEF Undecided, SnapOK
  <2>3. v \in VoteValues /\ (v = NIL \/ HasQuorum(nd, r, "Prevote", v))
    BY <2>2, SMTT(30), Zenon DEF Prevoted, VoteValues
  <2> HIDE DEF v
  <2> QED BY <2>1, <2>3, GoodVote, Zenon DEF VoteTypes
<1> QED BY <1>1, <1>2

\* Lines 34 and 47 set the timer of the round.
LEMMA TimerKeeps ==
    ASSUME NEW nd, NEW n \in Nodes, NEW r \in Rounds, NEW c, Undecided(nd, n, r, c),
           NEW t \in VoteTypes
    PROVE  Undecided(Update(nd, n,
               [nd[n] EXCEPT !.rd[r].triggered = @ \cup {t}, !.rd[r].timeout = t]),
               n, r, c)
<1> DEFINE d == nd[n].rd[r]
           e == [d EXCEPT !.triggered = @ \cup {t}, !.timeout = t]
           s2 == [nd[n] EXCEPT !.rd[r].triggered = @ \cup {t}, !.rd[r].timeout = t]
<1>1. IInv(nd) /\ nd[n] \in NodeStates /\ nd[n].decision = None
      /\ nd[n].rd \in [Rounds -> RoundDatas] /\ d \in RoundDatas
  BY DEF Undecided, IInv, Typed, NodeStates
<1>2. e \in RoundDatas /\ e.votes = d.votes /\ e.proposal = d.proposal
  BY <1>1, ZenonT(40) DEF RoundDatas, VoteTypes, Steps
<1>3. s2 = [nd[n] EXCEPT !.rd = [nd[n].rd EXCEPT ![r] = e]]
  BY <1>1, Zenon DEF NodeStates
<1> HIDE DEF s2, e
<1>4. /\ s2 \in NodeStates /\ s2.rd = [nd[n].rd EXCEPT ![r] = e]
      /\ s2.sent = nd[n].sent /\ s2.round = nd[n].round /\ s2.step = nd[n].step
      /\ s2.locked = nd[n].locked /\ s2.lockedRound = nd[n].lockedRound
      /\ s2.decision = nd[n].decision
  BY <1>1, <1>2, <1>3 DEF NodeStates
<1>5. \A q \in Rounds : /\ s2.rd[q].votes = nd[n].rd[q].votes
                        /\ s2.rd[q].proposal = nd[n].rd[q].proposal
  BY <1>1, <1>2, <1>4, Zenon
<1>6. GoodStep(nd, n, s2)
  BY <1>1, <1>4, <1>5, QuietRule, SMTT(30), Zenon
<1> QED BY <1>1, <1>4, <1>5, <1>6, GoodRule, Zenon DEF s2

\* Line 34 keeps the invariant: it sets a timer only.
LEMMA Line34Keeps ==
    ASSUME NEW nd, NEW n \in Nodes, NEW r \in Rounds, NEW c, Undecided(nd, n, r, c)
    PROVE  Undecided(Update(nd, n, Line34(n, r, c, nd[n])), n, r, c)
<1>1. CASE Line34(n, r, c, nd[n]) = nd[n]
  BY <1>1, Updates DEF Undecided, IInv
<1>2. CASE Line34(n, r, c, nd[n]) # nd[n]
  BY <1>2, TimerKeeps, Zenon DEF Line34, VoteTypes
<1> QED BY <1>1, <1>2

\* Line 47 keeps the invariant: it sets a timer only.
LEMMA Line47Keeps ==
    ASSUME NEW nd, NEW n \in Nodes, NEW r \in Rounds, NEW c, Undecided(nd, n, r, c)
    PROVE  Undecided(Update(nd, n, Line47(n, r, c, nd[n])), n, r, c)
<1>1. CASE Line47(n, r, c, nd[n]) = nd[n]
  BY <1>1, Updates DEF Undecided, IInv
<1>2. CASE Line47(n, r, c, nd[n]) # nd[n]
  BY <1>2, TimerKeeps, Zenon DEF Line47, VoteTypes
<1> QED BY <1>1, <1>2

\* Line 44 keeps the invariant: a precommit for nil binds nobody.
LEMMA Line44Keeps ==
    ASSUME NEW nd, NEW n \in Nodes, NEW r \in Rounds, NEW c, Undecided(nd, n, r, c)
    PROVE  Undecided(Update(nd, n, Line44(n, r, c, nd[n])), n, r, c)
<1>1. CASE Line44(n, r, c, nd[n]) = nd[n]
  BY <1>1, Updates DEF Undecided, IInv
<1>2. CASE Line44(n, r, c, nd[n]) # nd[n]
  <2>1. /\ n \in Members /\ nd[n].round = r /\ nd[n].step = "Prevote"
        /\ Line44(n, r, c, nd[n]) = BroadcastVote(n, r, "Precommit", NIL, nd[n])
    BY <1>2 DEF Line44, OnCurrentRound
  <2> QED BY <2>1, GoodVote DEF VoteTypes, VoteValues
<1> QED BY <1>1, <1>2

\* Line 36 keeps the invariant: lock and precommit go together, on a quorum of
\* prevotes that was stored.
LEMMA Line36Keeps ==
    ASSUME NEW nd, NEW n \in Nodes, NEW r \in Rounds, NEW c, Undecided(nd, n, r, c)
    PROVE  Undecided(Update(nd, n, Line36(n, r, c, nd[n])), n, r, c)
<1> DEFINE s == nd[n]
           v == s.rd[r].proposal
           l == Lock(r, s)
           b == BroadcastVote(n, r, "Precommit", v, l)
           s2 == Line36(n, r, c, s)
<1>1. IInv(nd) /\ Typed(nd) /\ s \in NodeStates /\ s.decision = None
  BY DEF Undecided, IInv, Typed
<1>2. CASE s2 = s
  BY <1>1, <1>2, Updates
<1>3. CASE s2 # s
  <2>1. /\ n \in Members /\ s.round = r /\ c.full /\ Big <= c.yesPrevotes
        /\ s.step \in {"Prevote", "Precommit"}
    BY <1>3, Zenon DEF Line36, OnCurrentRound
  <2>2. v \in Values /\ HasQuorum(nd, r, "Prevote", v)
    BY <2>1, Zenon DEF Undecided, SnapOK
  <2>3. CASE s.step = "Prevote"
    <3>1. s2 = [b EXCEPT !.valid = b.rd[r].proposal, !.validRound = b.round]
      BY <1>3, <2>3, Zenon DEF Line36
    <3>2. /\ l \in NodeStates /\ l.rd = s.rd /\ l.sent = s.sent
          /\ l.round = s.round /\ l.decision = s.decision
          /\ l.locked = v /\ l.lockedRound = r
      BY <1>1, <2>1, <2>2, ZenonT(40) DEF Lock, NodeStates
    <3>3. v \in VoteValues /\ "Precommit" \in VoteTypes
      BY <2>2 DEF VoteValues, VoteTypes
    <3> HIDE DEF l
    <3>4. /\ b \in NodeStates
          /\ b.step = "Precommit" /\ b.round = l.round /\ b.decision = l.decision
          /\ b.locked = l.locked /\ b.lockedRound = l.lockedRound
          /\ b.rd[r].proposal = l.rd[r].proposal
          /\ s.sent \subseteq b.sent
          /\ \A x \in b.sent : x \in s.sent \/ x = Vote(n, r, "Precommit", v)
          /\ \A x \in b.sent : x.from = n
          /\ StoreStep(nd, n, b)
      <4> HIDE DEF v
      <4> QED BY <1>1, <2>1, <3>2, <3>3, BroadcastVoteKeeps
    <3> HIDE DEF b, s2
    <3>5. /\ s2 \in NodeStates /\ s2.rd = b.rd /\ s2.sent = b.sent
          /\ s2.step = b.step /\ s2.round = b.round /\ s2.decision = b.decision
          /\ s2.locked = b.locked /\ s2.lockedRound = b.lockedRound
      BY <2>1, <2>2, <3>1, <3>2, <3>4, ZenonT(40) DEF NodeStates
    <3>6. StoreStep(nd, n, s2)
      BY <3>4, <3>5 DEF StoreStep
    <3>7. PrecommitStep(nd, n, s2)
      BY <2>1, <2>2, <2>3, <3>2, <3>3, <3>4, <3>5, SMTT(30), Zenon DEF PrecommitStep
    <3>8. GoodStep(nd, n, s2)
      BY <1>1, <3>2, <3>4, <3>5, <3>6, <3>7, Zenon DEF GoodStep
    <3> QED BY <1>1, <3>2, <3>4, <3>5, <3>8, GoodRule, ZenonT(40) DEF s2
  <2>4. CASE s.step = "Precommit"
    <3>1. s2 = [s EXCEPT !.valid = v, !.validRound = s.round]
      BY <1>3, <2>4, Zenon DEF Line36
    <3>2. /\ s2 \in NodeStates /\ s2.rd = s.rd /\ s2.sent = s.sent
          /\ s2.step = s.step /\ s2.round = s.round /\ s2.decision = s.decision
          /\ s2.locked = s.locked /\ s2.lockedRound = s.lockedRound
      BY <1>1, <2>2, <3>1, ZenonT(40) DEF NodeStates
    <3> HIDE DEF s2
    <3>3. GoodStep(nd, n, s2)
      BY <1>1, <3>2, QuietRule
    <3> QED BY <1>1, <3>2, <3>3, GoodRule DEF s2
  <2> QED BY <2>1, <2>3, <2>4, Zenon
<1> QED BY <1>2, <1>3

\* Deciding needs a quorum of precommits, and keeps the round of it.
LEMMA Line49Keeps ==
    ASSUME NEW nd, NEW n \in Nodes, NEW r \in Rounds, NEW c, Undecided(nd, n, r, c)
    PROVE  IInv(Update(nd, n, Line49(r, c, nd[n])))
<1> DEFINE s == nd[n]
           s2 == Line49(r, c, s)
<1>1. IInv(nd) /\ Typed(nd) /\ s \in NodeStates /\ s.decision = None
  BY DEF Undecided, IInv, Typed
<1>2. CASE s2 = s
  BY <1>1, <1>2, Updates
<1>3. CASE s2 # s
  <2>1. /\ c.full /\ c.pass /\ Big <= c.yesPrecommits
        /\ s2 = [s EXCEPT !.decision = s.rd[r].proposal, !.rd = KeepRound(r, s.rd),
                          !.locked = None, !.lockedRound = -1,
                          !.valid = None, !.validRound = -1]
    BY <1>3 DEF Line49
  <2>2. /\ s.rd[r].proposal \in Values /\ s.rd[r].proposal \in ValidValues
        /\ HasQuorum(nd, r, "Precommit", s.rd[r].proposal)
    BY <2>1, Zenon DEF Undecided, SnapOK
  <2>3. /\ InitState({}) \in NodeStates /\ InitState({}).rd = NoRounds
        /\ StoreStep(nd, n, InitState({})) /\ StoreSound(nd)
    BY <1>1, InitStateTyped, Zenon DEF InitState, IInv
  <2>4. /\ KeepRound(r, s.rd) \in [Rounds -> RoundDatas]
        /\ \A q \in Rounds : KeepRound(r, s.rd)[q] \in {NoRounds[q], s.rd[q]}
    BY <1>1, <2>3, Zenon DEF NodeStates, KeepRound
  <2> HIDE DEF s2
  <2>5. /\ s2 \in NodeStates /\ s2.rd = KeepRound(r, s.rd) /\ s2.sent = s.sent
        /\ s2.step = s.step /\ s2.round = s.round
        /\ s2.decision = s.rd[r].proposal
    BY <1>1, <2>1, <2>2, <2>4, ZenonT(40) DEF NodeStates
  <2>6. StoreStep(nd, n, s2)
    <3> SUFFICES ASSUME NEW q \in Rounds, NEW m \in Members, NEW t \in VoteTypes,
                        s2.rd[q].votes[m][t] # None
                 PROVE  /\ Vote(m, q, t, s2.rd[q].votes[m][t]) \in Signed(nd) \cup s2.sent
                        /\ \/ s2.rd[q].proposal = None
                           \/ s2.rd[q].votes[m][t] \in {NIL, s2.rd[q].proposal}
      BY Zenon DEF StoreStep
    <3>1. CASE s2.rd[q] = NoRounds[q]
      BY <2>3, <2>5, <3>1, SMTT(30), Zenon DEF StoreStep, InitState
    <3>2. CASE s2.rd[q] = s.rd[q]
      BY <2>3, <3>2, ZenonT(40) DEF StoreSound
    <3> QED BY <2>4, <2>5, <3>1, <3>2, Zenon
  <2>7. s2.decision # None
    BY <2>2, <2>5, ConstantsAssumption, Zenon DEF ConstantsOK
  <2>8. QuietStep(nd, n, s2)
    BY <2>5, <2>7, Zenon DEF QuietStep
  <2>9. GoodStep(nd, n, s2)
    BY <1>1, <2>2, <2>5, <2>6, <2>8, SMTT(30), Zenon DEF GoodStep, IInv, OwnSignature
  <2> QED BY <1>1, <2>7, <2>9, GoodStepPreserves DEF s2
<1> QED BY <1>2, <1>3

\* Starting a later round keeps the invariant.
LEMMA LaterRoundKeeps ==
    ASSUME NEW nd, IInv(nd), NEW n \in Nodes, NEW r \in Rounds,
           NEW p \in Candidates[n], nd[n].round < r
    PROVE  IInv(Update(nd, n, start_round(n, r, p, nd[n])))
<1> DEFINE s == nd[n]
           s2 == start_round(n, r, p, s)
<1>1. s \in NodeStates /\ \A x \in s.sent : x.from = n
  BY SMTT(30), Zenon DEF IInv, Typed, OwnSignature
<1>2. StoreStep(nd, n, s)
  BY Zenon DEF IInv, StoreSound, StoreStep
<1>3. /\ s2 \in NodeStates
      /\ s2.round = r /\ s2.step = "Propose" /\ s2.decision = s.decision
      /\ s2.locked = s.locked /\ s2.lockedRound = s.lockedRound
      /\ s.sent \subseteq s2.sent
      /\ \A x \in s2.sent : x.type \in VoteTypes => x \in s.sent
      /\ \A x \in s2.sent : x.from = n
      /\ StoreStep(nd, n, s2)
  BY <1>1, <1>2, StartRoundKeeps, ZenonT(40)
<1> HIDE DEF s2
<1>4. QuietStep(nd, n, s2)
  BY <1>3 DEF QuietStep
<1>5. GoodStep(nd, n, s2)
  BY <1>3, <1>4, Zenon DEF GoodStep, IInv, DecisionCertified
<1> QED BY <1>3, <1>5, GoodStepPreserves, Zenon DEF s2

\* Line 55 keeps the invariant: it enters a later round.
LEMMA Line55Keeps ==
    ASSUME NEW nd, IInv(nd), NEW n \in Nodes, NEW r \in Rounds, NEW c,
           NEW p \in Candidates[n]
    PROVE  IInv(Update(nd, n, Line55(n, r, c, p, nd[n])))
<1>1. CASE Line55(n, r, c, p, nd[n]) = nd[n]
  BY <1>1, Updates, ZenonT(40) DEF IInv
<1>2. CASE Line55(n, r, c, p, nd[n]) # nd[n]
  BY <1>2, LaterRoundKeeps, Zenon DEF Line55
<1> QED BY <1>1, <1>2, Zenon

\* The timers of bft_update keep the invariant: they vote nil or enter the next
\* round.
LEMMA OnTimeoutKeeps ==
    ASSUME NEW nd, IInv(nd), NEW n \in Nodes, NEW r \in Rounds, NEW c,
           NEW elapsed, NEW p \in Candidates[n]
    PROVE  IInv(Update(nd, n, OnTimeout(n, r, c, elapsed, p, nd[n])))
<1> DEFINE s == nd[n]
           s2 == OnTimeout(n, r, c, elapsed, p, s)
           blind == [full |-> FALSE, pass |-> FALSE]
<1>1. CASE s2 = s
  BY <1>1, Updates, ZenonT(40) DEF IInv
<1>2. CASE s2 # s
  <2>1. n \in Members /\ s.round = r /\ s.decision = None
    BY <1>2, Zenon DEF OnTimeout, OnCurrentRound
  <2>2. Undecided(nd, n, r, blind)
    BY <2>1, Zenon DEF Undecided, SnapOK
  <2>3. CASE s.step = "Propose" /\ s2 = BroadcastVote(n, r, "Prevote", NIL, s)
    BY <2>1, <2>2, <2>3, GoodVote, ZenonT(40) DEF VoteTypes, VoteValues, Undecided
  <2>4. CASE s.step = "Prevote" /\ s2 = BroadcastVote(n, r, "Precommit", NIL, s)
    BY <2>1, <2>2, <2>4, GoodVote, ZenonT(40) DEF VoteTypes, VoteValues, Undecided
  <2>5. CASE r < MaxRound /\ s2 = start_round(n, r + 1, p, s)
    <3>1. r + 1 \in Rounds /\ s.round < r + 1
      BY <2>1, <2>5, ConstantsAssumption DEF Rounds, ConstantsOK
    <3> QED BY <2>5, <3>1, LaterRoundKeeps, Zenon
  <2> QED BY <1>2, <2>3, <2>4, <2>5, Zenon DEF OnTimeout
<1> QED BY <1>1, <1>2, SMTT(30), Zenon

\* The next round that the loop visits is one of the rounds.
LEMMA NextScanKeeps ==
    ASSUME NEW nd, IInv(nd), NEW n \in Nodes, NEW r \in Rounds, NEW left \in Int
    PROVE  IInv(Update(nd, n, NextScan(r, left, nd[n])))
<1> DEFINE s == nd[n]
           later == {q \in Present(s) : q > r}
           over  == left <= 0 \/ later = {} \/ s.decision # None
           s2 == NextScan(r, left, s)
<1>1. s \in NodeStates
  BY DEF IInv, Typed
<1>2. later # {} => Min(later) \in Rounds
  <2> SUFFICES ASSUME later # {} PROVE Min(later) \in Rounds
    OBVIOUS
  <2>1. later \subseteq Rounds /\ later \subseteq Nat
    BY ConstantsAssumption DEF Present, Rounds, ConstantsOK
  <2>2. \E x \in later : \A y \in later : ~(<<y, x>> \in OpToRel(<, Nat))
    BY <2>1, NatLessThanWellFounded, WFMin
  <2> HIDE DEF later
  <2>3. \E x \in later : \A y \in later : x <= y
    <3>1. \A x, y \in Nat : y < x => <<y, x>> \in OpToRel(<, Nat)
      BY DEF OpToRel
    <3>2. \A x, y \in Nat : ~(y < x) => x <= y
      OBVIOUS
    <3> QED BY <2>1, <2>2, <3>1, <3>2, Zenon
  <2>4. Min(later) \in later
    BY <2>3 DEF Min
  <2> QED BY <2>1, <2>4, Zenon
<1>3. 0 \in Rounds
  BY ConstantsAssumption DEF Rounds, ConstantsOK
<1>4. s2 = [s EXCEPT !.scan = IF over THEN 0 ELSE Min(later),
                     !.left = IF over THEN 0 ELSE left]
  BY SMTT(30), Zenon DEF NextScan
<1> HIDE DEF s2, later
<1>5. /\ s2 \in NodeStates /\ s2.rd = s.rd /\ s2.sent = s.sent
      /\ s2.step = s.step /\ s2.round = s.round /\ s2.decision = s.decision
      /\ s2.locked = s.locked /\ s2.lockedRound = s.lockedRound
  <2>1. (IF over THEN 0 ELSE Min(later)) \in Rounds /\ (IF over THEN 0 ELSE left) \in Nat
    BY <1>2, <1>3
  <2> QED BY <1>1, <1>4, <2>1, ZenonT(40) DEF NodeStates
<1>6. GoodStep(nd, n, s2)
  BY <1>5, QuietRule, Zenon
<1> QED BY <1>5, <1>6, GoodStepPreserves, Zenon DEF s2

\* An iteration of the loop of bft_update keeps the invariant, and the states
\* between its rules are states of a node.
LEMMA IterationKeeps ==
    ASSUME NEW nd, IInv(nd), NEW n \in Nodes, nd[n].decision = None,
           NEW r \in Rounds, NEW known, NEW elapsed, NEW p \in Candidates[n]
    PROVE  LET c == Snapshot(nd[n].rd[r], known)
               s1 == Line22(n, r, c, nd[n])
               s2 == Line28(n, r, c, s1)
               s3 == Line34(n, r, c, s2)
               s4 == Line36(n, r, c, s3)
               s5 == Line44(n, r, c, s4)
               s6 == Line47(n, r, c, s5)
               s7 == Line49(r, c, s6)
               s8 == Line55(n, r, c, p, s7)
               s9 == OnTimeout(n, r, c, elapsed, p, s8)
           IN  /\ IInv(Update(nd, n, Iteration(n, r, c, elapsed, p, nd[n])))
               /\ \A s \in {s1, s2, s3, s4, s5, s6, s7, s8, s9} : s \in NodeStates
<1> DEFINE c == Snapshot(nd[n].rd[r], known)
           s1 == Line22(n, r, c, nd[n])
           s2 == Line28(n, r, c, s1)
           s3 == Line34(n, r, c, s2)
           s4 == Line36(n, r, c, s3)
           s5 == Line44(n, r, c, s4)
           s6 == Line47(n, r, c, s5)
           s7 == Line49(r, c, s6)
           s8 == Line55(n, r, c, p, s7)
           s9 == OnTimeout(n, r, c, elapsed, p, s8)
           left == (IF r = 0 THEN Cardinality(Present(nd[n])) ELSE nd[n].left) - 1
           s10 == NextScan(r, left, s9)
<1>0. Typed(nd) /\ left \in Int
  <2>1. nd[n].left \in Nat
    BY Zenon DEF IInv, Typed, NodeStates
  <2>2. IsFiniteSet(Rounds)
    BY FS_Interval, ConstantsAssumption DEF Rounds, ConstantsOK
  <2>3. Cardinality(Present(nd[n])) \in Nat
    BY <2>2, FS_Subset, FS_CardinalityType, Zenon DEF Present
  <2> QED BY <2>1, <2>3 DEF IInv
<1>a. ASSUME NEW x, NEW y
      PROVE  /\ Update(nd, n, x)[n] = x
             /\ Update(Update(nd, n, x), n, y) = Update(nd, n, y)
  BY <1>0, Updates, SMTT(30), Zenon
<1>b. Iteration(n, r, c, elapsed, p, nd[n]) = s10
  BY Zenon DEF Iteration
<1> HIDE DEF c, s1, s2, s3, s4, s5, s6, s7, s8, s9, left, s10
<1>1. Undecided(Update(nd, n, s1), n, r, c)
  BY SnapshotOK, Line22Keeps, Zenon DEF Undecided, c, s1
<1>2. Undecided(Update(nd, n, s2), n, r, c)
  BY <1>1, <1>a, Line28Keeps, Zenon DEF s2
<1>3. Undecided(Update(nd, n, s3), n, r, c)
  BY <1>2, <1>a, Line34Keeps, SMTT(30), Zenon DEF s3
<1>4. Undecided(Update(nd, n, s4), n, r, c)
  BY <1>3, <1>a, Line36Keeps DEF s4
<1>5. Undecided(Update(nd, n, s5), n, r, c)
  BY <1>4, <1>a, Line44Keeps DEF s5
<1>6. Undecided(Update(nd, n, s6), n, r, c)
  BY <1>5, <1>a, Line47Keeps DEF s6
<1>7. IInv(Update(nd, n, s7))
  BY <1>6, <1>a, Line49Keeps, ZenonT(40) DEF s7
<1>8. IInv(Update(nd, n, s8))
  BY <1>7, <1>a, Line55Keeps, Zenon DEF s8
<1>9. IInv(Update(nd, n, s9))
  BY <1>8, <1>a, OnTimeoutKeeps, Zenon DEF s9
<1>10. IInv(Update(nd, n, s10))
  BY <1>9, <1>a, <1>0, NextScanKeeps, Zenon DEF s10
<1>11. ASSUME NEW s, Typed(Update(nd, n, s)) PROVE s \in NodeStates
  BY <1>a, <1>11, Zenon DEF Typed
<1>12. \A s \in {s1, s2, s3, s4, s5, s6, s7, s8, s9} : Typed(Update(nd, n, s))
  BY <1>1, <1>2, <1>3, <1>4, <1>5, <1>6, <1>7, <1>8, <1>9, Zenon DEF Undecided, IInv
<1>13. \A s \in {s1, s2, s3, s4, s5, s6, s7, s8, s9} : s \in NodeStates
  BY <1>11, <1>12, Zenon
<1> QED BY <1>10, <1>13, <1>b, Zenon DEF c, s1, s2, s3, s4, s5, s6, s7, s8, s9

-------------------------------------------------------------------------------
(* The locks.                                                              *)

\* A node that has not precommitted in its round holds no lock of that round,
\* and it never holds a lock of a later one.
Behind(s) ==
    /\ s.lockedRound <= s.round
    /\ s.step # "Precommit" => s.lockedRound < s.round

LocksBehind == \A n \in Nodes : Behind(node[n])

\* What every rule but those of lines 36 and 49 does to the lock.
LockFrame(s, s2) ==
    /\ s2.locked = s.locked /\ s2.lockedRound = s.lockedRound
    /\ s2.decision = s.decision
    /\ Behind(s) => Behind(s2)

\* What the rules before line 49 leave alone besides.
RoundFrame(r, s, s2) ==
    /\ s2.round = s.round
    /\ s2.rd[r].proposal = s.rd[r].proposal

\* Broadcasting a vote in a later step of the round.
LEMMA VoteFrame ==
    ASSUME NEW s \in NodeStates, NEW n, NEW r \in Rounds, NEW v, NEW t,
           t = "Precommit" \/ (t = "Prevote" /\ s.step = "Propose")
    PROVE  LET s2 == BroadcastVote(n, r, t, v, s)
           IN  LockFrame(s, s2) /\ RoundFrame(r, s, s2) /\ s2.step = t
<1> DEFINE e == StoreVote(s.rd[r], n, t, v)
           sent2 == IF AcceptsVote(s.rd[r], n, t, v)
                    THEN s.sent \cup {Vote(n, r, t, v)} ELSE s.sent
           s2 == BroadcastVote(n, r, t, v, s)
<1>1. s.rd \in [Rounds -> RoundDatas] /\ s.rd[r] \in RoundDatas
  BY DEF NodeStates
<1>2. e.proposal = s.rd[r].proposal
  BY <1>1 DEF StoreVote, RoundDatas
<1>3. s2 = [s EXCEPT !.step = t, !.rd = [s.rd EXCEPT ![r] = e], !.sent = sent2]
  BY DEF BroadcastVote
<1> HIDE DEF s2, e, sent2
<1>4. /\ s2.step = t /\ s2.round = s.round /\ s2.decision = s.decision
      /\ s2.locked = s.locked /\ s2.lockedRound = s.lockedRound
      /\ s2.rd = [s.rd EXCEPT ![r] = e]
  BY <1>3, Zenon DEF NodeStates
<1>5. s2.rd[r].proposal = s.rd[r].proposal
  BY <1>1, <1>2, <1>4, Zenon
<1>6. Behind(s) => Behind(s2)
  BY <1>4 DEF Behind
<1> QED BY <1>4, <1>5, <1>6, Zenon DEF LockFrame, RoundFrame, s2

\* Setting the timer of the round.
LEMMA TimerFrame ==
    ASSUME NEW s \in NodeStates, NEW r \in Rounds, NEW t
    PROVE  LET s2 == [s EXCEPT !.rd[r].triggered = @ \cup {t}, !.rd[r].timeout = t]
           IN  LockFrame(s, s2) /\ RoundFrame(r, s, s2)
<1> DEFINE e == [s.rd[r] EXCEPT !.triggered = @ \cup {t}, !.timeout = t]
           s2 == [s EXCEPT !.rd[r].triggered = @ \cup {t}, !.rd[r].timeout = t]
<1>1. s.rd \in [Rounds -> RoundDatas] /\ s.rd[r] \in RoundDatas
  BY DEF NodeStates
<1>2. s2 = [s EXCEPT !.rd = [s.rd EXCEPT ![r] = e]] /\ e.proposal = s.rd[r].proposal
  BY <1>1, SMTT(30), Zenon DEF NodeStates, RoundDatas
<1> HIDE DEF s2, e
<1>3. /\ s2.step = s.step /\ s2.round = s.round /\ s2.decision = s.decision
      /\ s2.locked = s.locked /\ s2.lockedRound = s.lockedRound
      /\ s2.rd[r].proposal = s.rd[r].proposal
  BY <1>1, <1>2 DEF NodeStates
<1> QED BY <1>3 DEF LockFrame, RoundFrame, Behind, s2

\* Starting a round keeps the lock.
LEMMA StartFields ==
    ASSUME NEW s \in NodeStates, NEW n, NEW r, NEW p
    PROVE  LET s3 == start_round(n, r, p, s)
           IN  /\ s3.step = "Propose" /\ s3.round = r /\ s3.decision = s.decision
               /\ s3.locked = s.locked /\ s3.lockedRound = s.lockedRound
<1> DEFINE v  == IF s.valid # None THEN s.valid ELSE p
           e  == StoreProposal(s.rd[r], TRUE, v, s.validRound)
           s1 == [s EXCEPT !.round = r, !.step = "Propose"]
           b  == [s1 EXCEPT !.rd = [s.rd EXCEPT ![r] = e],
                            !.sent = s.sent \cup {Proposal(n, r, v, s.validRound)}]
           s2 == IF Proposer[r] = n /\ v # None THEN BroadcastProposal(n, r, v, s1) ELSE s1
           s3 == start_round(n, r, p, s)
<1>1. s1.rd = s.rd /\ s1.sent = s.sent /\ s1.validRound = s.validRound
  BY DEF NodeStates
<1>2. BroadcastProposal(n, r, v, s1) = b
  BY <1>1 DEF BroadcastProposal
<1>3. s3 = [s2 EXCEPT !.rd[r].timeout = "Propose"]
  BY DEF start_round
<1>4. /\ s1.step = "Propose" /\ s1.round = r /\ s1.decision = s.decision
      /\ s1.locked = s.locked /\ s1.lockedRound = s.lockedRound
      /\ DOMAIN s1 = DOMAIN s
  BY DEF NodeStates
<1>5. {"step", "round", "decision", "locked", "lockedRound"} \subseteq DOMAIN s
  BY DEF NodeStates
<1> HIDE DEF s1, v, e
<1>6. /\ b.step = "Propose" /\ b.round = r /\ b.decision = s.decision
      /\ b.locked = s.locked /\ b.lockedRound = s.lockedRound
      /\ DOMAIN b = DOMAIN s
  BY <1>4, <1>5
<1> HIDE DEF b
<1>7. /\ s2.step = "Propose" /\ s2.round = r /\ s2.decision = s.decision
      /\ s2.locked = s.locked /\ s2.lockedRound = s.lockedRound
      /\ DOMAIN s2 = DOMAIN s
  BY <1>2, <1>4, <1>6
<1> HIDE DEF s2, s3
<1>8. /\ s3.step = "Propose" /\ s3.round = r /\ s3.decision = s.decision
      /\ s3.locked = s.locked /\ s3.lockedRound = s.lockedRound
  BY <1>3, <1>5, <1>7
<1> QED BY <1>8 DEF s3

\* Starting a later round leaves the lock behind.
LEMMA StartFrame ==
    ASSUME NEW s \in NodeStates, NEW n, NEW r \in Rounds, NEW p, s.round < r
    PROVE  LockFrame(s, start_round(n, r, p, s))
<1>1. s.lockedRound \in Int /\ s.round \in Int /\ r \in Int
  BY ConstantsAssumption DEF NodeStates, Rounds, ConstantsOK
<1> QED BY <1>1, StartFields DEF LockFrame, Behind

\* A node that starts the height holds no lock.
LEMMA StartBehind ==
    ASSUME NEW n, NEW p, NEW sent \in SUBSET (Votes \cup Proposals)
    PROVE  Behind(start_round(n, 0, p, InitState(sent)))
<1>1. InitState(sent) \in NodeStates /\ InitState(sent).lockedRound = -1
  BY InitStateTyped DEF InitState
<1> QED BY <1>1, StartFields DEF Behind

\* Lines 22, 28 and 34 leave the lock alone.
LEMMA EarlyFrame ==
    ASSUME NEW s \in NodeStates, NEW n, NEW r \in Rounds, NEW c
    PROVE  /\ LockFrame(s, Line22(n, r, c, s)) /\ RoundFrame(r, s, Line22(n, r, c, s))
           /\ LockFrame(s, Line28(n, r, c, s)) /\ RoundFrame(r, s, Line28(n, r, c, s))
           /\ LockFrame(s, Line34(n, r, c, s)) /\ RoundFrame(r, s, Line34(n, r, c, s))
<1>1. LockFrame(s, s) /\ RoundFrame(r, s, s)
  BY DEF LockFrame, RoundFrame
<1>2. \A v : s.step = "Propose" =>
               /\ LockFrame(s, BroadcastVote(n, r, "Prevote", v, s))
               /\ RoundFrame(r, s, BroadcastVote(n, r, "Prevote", v, s))
  BY VoteFrame, SMTT(30), Zenon
<1>3. LockFrame(s, Line22(n, r, c, s)) /\ RoundFrame(r, s, Line22(n, r, c, s))
  BY <1>1, <1>2 DEF Line22
<1>4. LockFrame(s, Line28(n, r, c, s)) /\ RoundFrame(r, s, Line28(n, r, c, s))
  BY <1>1, <1>2 DEF Line28
<1>5. LockFrame(s, Line34(n, r, c, s)) /\ RoundFrame(r, s, Line34(n, r, c, s))
  BY <1>1, TimerFrame, Zenon DEF Line34
<1> QED BY <1>3, <1>4, <1>5

\* So do lines 44, 47 and 55, the timers and the end of the iteration.
LEMMA LateFrame ==
    ASSUME NEW s \in NodeStates, NEW n, NEW r \in Rounds, NEW c, NEW elapsed, NEW p,
           NEW left
    PROVE  /\ LockFrame(s, Line44(n, r, c, s)) /\ RoundFrame(r, s, Line44(n, r, c, s))
           /\ LockFrame(s, Line47(n, r, c, s)) /\ RoundFrame(r, s, Line47(n, r, c, s))
           /\ LockFrame(s, Line55(n, r, c, p, s))
           /\ LockFrame(s, OnTimeout(n, r, c, elapsed, p, s))
           /\ LockFrame(s, NextScan(r, left, s))
<1>1. LockFrame(s, s) /\ RoundFrame(r, s, s)
  BY DEF LockFrame, RoundFrame
<1>2. LockFrame(s, Line44(n, r, c, s)) /\ RoundFrame(r, s, Line44(n, r, c, s))
  BY <1>1, VoteFrame, Zenon DEF Line44
<1>3. LockFrame(s, Line47(n, r, c, s)) /\ RoundFrame(r, s, Line47(n, r, c, s))
  BY <1>1, TimerFrame, Zenon DEF Line47
<1>4. LockFrame(s, Line55(n, r, c, p, s))
  BY <1>1, StartFrame, Zenon DEF Line55
<1>5. LockFrame(s, OnTimeout(n, r, c, elapsed, p, s))
  <2> DEFINE s2 == OnTimeout(n, r, c, elapsed, p, s)
  <2>1. CASE s2 = s
    BY <1>1, <2>1, Zenon
  <2>2. CASE s.step = "Propose" /\ s2 = BroadcastVote(n, r, "Prevote", NIL, s)
    BY <2>2, VoteFrame
  <2>3. CASE s2 = BroadcastVote(n, r, "Precommit", NIL, s)
    BY <2>3, VoteFrame
  <2>4. CASE s.round = r /\ r < MaxRound /\ s2 = start_round(n, r + 1, p, s)
    <3>1. r + 1 \in Rounds /\ s.round < r + 1
      BY <2>4, ConstantsAssumption DEF Rounds, ConstantsOK
    <3> QED BY <2>4, <3>1, StartFrame, Zenon
  <2> QED BY <2>1, <2>2, <2>3, <2>4, Zenon DEF OnTimeout, OnCurrentRound
<1>6. LockFrame(s, NextScan(r, left, s))
  BY Zenon DEF NextScan, LockFrame, Behind, NodeStates
<1> QED BY <1>2, <1>3, <1>4, <1>5, <1>6

\* Line 36 takes a lock of the current round, of which there is none yet.
LEMMA Line36Locks ==
    ASSUME NEW s \in NodeStates, NEW n, NEW r \in Rounds, NEW c
    PROVE  LET s2 == Line36(n, r, c, s)
           IN  /\ RoundFrame(r, s, s2) /\ s2.decision = s.decision
               /\ Behind(s) => Behind(s2)
               /\ \/ s2.locked = s.locked /\ s2.lockedRound = s.lockedRound
                  \/ /\ s.round = r /\ s.step = "Prevote"
                     /\ c.full /\ Big <= c.yesPrevotes
                     /\ s2.locked = s.rd[r].proposal /\ s2.lockedRound = r
<1> DEFINE v == s.rd[r].proposal
           l == Lock(r, s)
           b == BroadcastVote(n, r, "Precommit", v, l)
           s2 == Line36(n, r, c, s)
<1>1. CASE s2 = s
  BY <1>1 DEF RoundFrame
<1>2. CASE s2 # s /\ s.step = "Prevote"
  <2>1. /\ s.round = r /\ c.full /\ Big <= c.yesPrevotes
        /\ s2 = [b EXCEPT !.valid = b.rd[r].proposal, !.validRound = b.round]
    BY <1>2 DEF Line36, OnCurrentRound
  <2>2. /\ l.rd = s.rd /\ l.round = s.round /\ l.decision = s.decision
        /\ l.locked = v /\ l.lockedRound = r /\ DOMAIN l = DOMAIN s
    BY <2>1, Zenon DEF Lock, NodeStates
  <2>3. /\ {"step", "round", "decision", "locked", "lockedRound", "rd"} \subseteq DOMAIN s
        /\ s.rd \in [Rounds -> RoundDatas] /\ s.rd[r] \in RoundDatas
    BY DEF NodeStates
  <2> DEFINE e == StoreVote(s.rd[r], n, "Precommit", v)
  <2>4. e.proposal = v
    BY <2>3 DEF StoreVote, RoundDatas
  <2> HIDE DEF l, v, e
  <2>5. /\ b.step = "Precommit" /\ b.round = s.round /\ b.decision = s.decision
        /\ b.locked = v /\ b.lockedRound = r /\ b.rd = [s.rd EXCEPT ![r] = e]
        /\ DOMAIN b = DOMAIN s
    BY <2>2, <2>3 DEF BroadcastVote, e
  <2> HIDE DEF b, s2
  <2>6. /\ s2.step = "Precommit" /\ s2.round = s.round /\ s2.decision = s.decision
        /\ s2.locked = v /\ s2.lockedRound = r /\ s2.rd = b.rd
    BY <2>1, <2>3, <2>5, Zenon
  <2>7. s2.rd[r].proposal = v
    BY <2>3, <2>4, <2>5, <2>6, Zenon
  <2>8. Behind(s2)
    BY <2>1, <2>6, ConstantsAssumption DEF Behind, Rounds, ConstantsOK
  <2> QED BY <1>2, <2>1, <2>6, <2>7, <2>8, Zenon DEF RoundFrame, v, s2
<1>3. CASE s2 # s /\ s.step # "Prevote"
  <2>1. s2 = [s EXCEPT !.valid = v, !.validRound = s.round]
    BY <1>3 DEF Line36
  <2> HIDE DEF s2
  <2>2. /\ s2.step = s.step /\ s2.round = s.round /\ s2.decision = s.decision
        /\ s2.locked = s.locked /\ s2.lockedRound = s.lockedRound /\ s2.rd = s.rd
    BY <2>1, Zenon DEF NodeStates
  <2> QED BY <2>2 DEF RoundFrame, Behind, s2
<1> QED BY <1>1, <1>2, <1>3, Zenon

\* Line 49 decides, or leaves the node alone.
LEMMA Line49Locks ==
    ASSUME NEW s \in NodeStates, NEW r \in Rounds, NEW c,
           c.full => s.rd[r].proposal # None
    PROVE  LET s2 == Line49(r, c, s)
           IN  /\ Behind(s) => Behind(s2)
               /\ s2.decision # None \/ s2 = s
<1> DEFINE s2 == Line49(r, c, s)
<1>1. CASE s2 = s
  BY <1>1
<1>2. CASE s2 # s
  <2>1. /\ c.full
        /\ s2 = [s EXCEPT !.decision = s.rd[r].proposal, !.rd = KeepRound(r, @),
                          !.locked = None, !.lockedRound = -1,
                          !.valid = None, !.validRound = -1]
    BY <1>2 DEF Line49
  <2> HIDE DEF s2
  <2>2. s2.decision = s.rd[r].proposal /\ s2.lockedRound = -1 /\ s2.round = s.round
    BY <2>1, Zenon DEF NodeStates
  <2>3. s.round \in Nat
    BY ConstantsAssumption DEF NodeStates, Rounds, ConstantsOK
  <2>4. Behind(s2)
    BY <2>2, <2>3 DEF Behind
  <2> QED BY <2>1, <2>2, <2>4 DEF s2
<1> QED BY <1>1, <1>2, Zenon

\* An iteration of bft_update keeps the lock, replaces it by one of the current
\* round that a quorum prevoted before the iteration, or decides.
LEMMA IterationLocks ==
    ASSUME NEW nd, IInv(nd), NEW n \in Nodes, nd[n].decision = None, Behind(nd[n]),
           NEW r \in Rounds, NEW known, NEW elapsed, NEW p \in Candidates[n]
    PROVE  LET s == nd[n]
               t == Iteration(n, r, Snapshot(s.rd[r], known), elapsed, p, s)
           IN  /\ Behind(t)
               /\ \/ t.decision # None
                  \/ t.locked = s.locked /\ t.lockedRound = s.lockedRound
                  \/ /\ s.lockedRound < t.lockedRound /\ t.lockedRound = s.round
                     /\ HasQuorum(nd, t.lockedRound, "Prevote", t.locked)
<1> DEFINE s == nd[n]
           c == Snapshot(s.rd[r], known)
           s1 == Line22(n, r, c, s)
           s2 == Line28(n, r, c, s1)
           s3 == Line34(n, r, c, s2)
           s4 == Line36(n, r, c, s3)
           s5 == Line44(n, r, c, s4)
           s6 == Line47(n, r, c, s5)
           s7 == Line49(r, c, s6)
           s8 == Line55(n, r, c, p, s7)
           s9 == OnTimeout(n, r, c, elapsed, p, s8)
           left == (IF r = 0 THEN Cardinality(Present(s)) ELSE s.left) - 1
           s10 == NextScan(r, left, s9)
<1>1. \A x \in {s1, s2, s3, s4, s5, s6, s7, s8, s9} : x \in NodeStates
  BY IterationKeeps, ZenonT(40)
<1>2. s \in NodeStates /\ SnapOK(nd, n, r, c)
  BY SnapshotOK, Zenon DEF IInv, Typed
<1>3. c.full <=> s.rd[r].proposal # None
  BY Zenon DEF Snapshot
<1>4. Iteration(n, r, c, elapsed, p, s) = s10
  BY Zenon DEF Iteration
<1> HIDE DEF c, s1, s2, s3, s4, s5, s6, s7, s8, s9, left, s10
<1>5. /\ LockFrame(s, s1) /\ LockFrame(s1, s2) /\ LockFrame(s2, s3)
      /\ RoundFrame(r, s, s1) /\ RoundFrame(r, s1, s2) /\ RoundFrame(r, s2, s3)
  BY <1>1, <1>2, EarlyFrame, Zenon DEF s1, s2, s3
<1>6. /\ LockFrame(s4, s5) /\ LockFrame(s5, s6)
      /\ RoundFrame(r, s4, s5) /\ RoundFrame(r, s5, s6)
  BY <1>1, LateFrame, Zenon DEF s5, s6
<1>7. LockFrame(s7, s8) /\ LockFrame(s8, s9) /\ LockFrame(s9, s10)
  BY <1>1, LateFrame, Zenon DEF s8, s9, s10
<1>8. /\ Behind(s3) /\ s3.locked = s.locked /\ s3.lockedRound = s.lockedRound
      /\ s3.round = s.round /\ s3.rd[r].proposal = s.rd[r].proposal
  BY <1>5, Zenon DEF LockFrame, RoundFrame
<1>9. /\ RoundFrame(r, s3, s4)
      /\ Behind(s3) => Behind(s4)
      /\ \/ s4.locked = s3.locked /\ s4.lockedRound = s3.lockedRound
         \/ /\ s3.round = r /\ s3.step = "Prevote"
            /\ c.full /\ Big <= c.yesPrevotes
            /\ s4.locked = s3.rd[r].proposal /\ s4.lockedRound = r
  BY <1>1, Line36Locks DEF s4
<1>10. \/ s4.locked = s.locked /\ s4.lockedRound = s.lockedRound
       \/ /\ s.lockedRound < s4.lockedRound /\ s4.lockedRound = s.round
          /\ HasQuorum(nd, s4.lockedRound, "Prevote", s4.locked)
  BY <1>2, <1>8, <1>9, Zenon DEF SnapOK, Behind
<1>11. /\ Behind(s6) /\ s6.locked = s4.locked /\ s6.lockedRound = s4.lockedRound
       /\ s6.rd[r].proposal = s.rd[r].proposal
  BY <1>6, <1>8, <1>9, ZenonT(40) DEF LockFrame, RoundFrame
<1>12. Behind(s7) /\ (s7.decision # None \/ s7 = s6)
  BY <1>1, <1>3, <1>11, Line49Locks, Zenon DEF s7
<1>13. /\ Behind(s10) /\ s10.locked = s7.locked /\ s10.lockedRound = s7.lockedRound
       /\ s10.decision = s7.decision
  BY <1>7, <1>12, Zenon DEF LockFrame
<1> QED BY <1>4, <1>10, <1>11, <1>12, <1>13, Zenon DEF c

-------------------------------------------------------------------------------
(* The actions.                                                            *)

\* Receiving a packet keeps the invariant: only what was signed is stored.
LEMMA ReceiveKeeps ==
    ASSUME InductiveInvariant, NEW n \in Nodes, Receive(n)
    PROVE  /\ InductiveInvariant'
           /\ \A k \in Nodes : node'[k].decision = node[k].decision
<1> DEFINE s == node[n]
<1>1. IInv(node) /\ Typed(node) /\ node \in [Nodes -> NodeStates] /\ s \in NodeStates
      /\ s.rd \in [Rounds -> RoundDatas] /\ s.sent \subseteq Votes \cup Proposals
  BY DEF InductiveInvariant, IInv, Typed, NodeStates
<1>2. PICK m \in Msgs :
        node' = [node EXCEPT ![n].rd[m.round] = Incorporate(n, m, @)]
  BY Zenon DEF Receive, ReceiveMsg
<1> DEFINE d == s.rd[m.round]
           e == Incorporate(n, m, d)
           s2 == [s EXCEPT !.rd = [s.rd EXCEPT ![m.round] = e]]
<1>3. m \in Signed(node) /\ m \in Votes \cup Proposals
  BY <1>1, ByzMsgsAssumption DEF Msgs, Signed, NodeStates
<1>4. m.round \in Rounds /\ d \in RoundDatas
  BY <1>1, <1>3 DEF Votes, Proposals
<1>5. node' = Update(node, n, s2)
  BY <1>1, <1>2, Zenon DEF Update
<1>6. e \in RoundDatas /\ \A k \in Members, u \in VoteTypes :
        e.votes[k][u] # None =>
          /\ Vote(k, m.round, u, e.votes[k][u]) \in Signed(node)
          /\ e.proposal = None \/ e.votes[k][u] \in {NIL, e.proposal}
  <2>1. \A k \in Members, u \in VoteTypes :
          d.votes[k][u] # None =>
            /\ Vote(k, m.round, u, d.votes[k][u]) \in Signed(node)
            /\ d.proposal = None \/ d.votes[k][u] \in {NIL, d.proposal}
    BY <1>1, <1>4, Zenon DEF IInv, StoreSound
  <2>2. CASE m \in Proposals
    <3>1. /\ e = StoreProposal(d, m.from = n, m.value, m.vr)
          /\ m.value \in Values /\ m.vr \in Rounds \cup {-1}
      BY <2>2, Zenon DEF Incorporate, Proposals
    <3> HIDE DEF d, e
    <3>2. /\ e \in RoundDatas
          /\ e = d \/ e.proposal = m.value
          /\ \A k \in Members, u \in VoteTypes :
               \/ e = d
               \/ e.votes[k][u] = None
               \/ e.votes[k][u] = d.votes[k][u] /\ e.votes[k][u] \in {NIL, m.value}
      BY <1>4, <3>1, StoreProposalKeeps, SMTT(30), Zenon
    <3> QED BY <2>1, <3>2, ZenonT(40)
  <2>3. CASE m \in Votes
    <3>1. /\ e = StoreVote(d, m.from, m.type, m.value)
          /\ m.from \in Members /\ m.type \in VoteTypes /\ m.value \in VoteValues
          /\ m = Vote(m.from, m.round, m.type, m.value)
      BY <2>3, Zenon DEF Incorporate, Votes, Vote, VoteTypes
    <3> HIDE DEF d, e
    <3>2. /\ e \in RoundDatas
          /\ e.proposal = d.proposal
          /\ AcceptsVote(d, m.from, m.type, m.value)
               => e.votes[m.from][m.type] = m.value
          /\ \A k \in Members, u \in VoteTypes :
               \/ e.votes[k][u] = d.votes[k][u]
               \/ k = m.from /\ u = m.type /\ AcceptsVote(d, m.from, m.type, m.value)
      BY <1>4, <3>1, StoreVoteKeeps
    <3> SUFFICES ASSUME NEW k \in Members, NEW u \in VoteTypes, e.votes[k][u] # None
                 PROVE  /\ Vote(k, m.round, u, e.votes[k][u]) \in Signed(node)
                        /\ e.proposal = None \/ e.votes[k][u] \in {NIL, e.proposal}
      BY <3>2, Zenon
    <3>3. CASE e.votes[k][u] = d.votes[k][u]
      BY <2>1, <3>2, <3>3, SMTT(30), Zenon
    <3>4. CASE k = m.from /\ u = m.type /\ AcceptsVote(d, m.from, m.type, m.value)
      BY <3>1, <3>2, <3>4, <1>3, Zenon DEF AcceptsVote
    <3> QED BY <3>2, <3>3, <3>4, Zenon
  <2> QED BY <1>3, <2>2, <2>3, Zenon
<1> HIDE DEF e, d, s2
<1>7. /\ s2 \in NodeStates /\ s2.rd = [s.rd EXCEPT ![m.round] = e]
      /\ s2.sent = s.sent /\ s2.step = s.step /\ s2.round = s.round
      /\ s2.locked = s.locked /\ s2.lockedRound = s.lockedRound
      /\ s2.decision = s.decision
  BY <1>1, <1>4, <1>6, Zenon DEF NodeStates, s2
<1>8. StoreStep(node, n, s2)
  <2>1. s2.rd[m.round] = e /\ \A q \in Rounds : q # m.round => s2.rd[q] = s.rd[q]
    BY <1>1, <1>4, <1>7, Zenon
  <2> SUFFICES ASSUME NEW q \in Rounds, NEW k \in Members, NEW u \in VoteTypes,
                      s2.rd[q].votes[k][u] # None
               PROVE  /\ Vote(k, q, u, s2.rd[q].votes[k][u])
                           \in Signed(node) \cup s2.sent
                      /\ \/ s2.rd[q].proposal = None
                         \/ s2.rd[q].votes[k][u] \in {NIL, s2.rd[q].proposal}
    BY Zenon DEF StoreStep
  <2>2. CASE q = m.round
    BY <2>1, <2>2, <1>6, SMTT(30), Zenon
  <2>3. CASE q # m.round
    <3>1. s2.rd[q] = s.rd[q]
      BY <2>1, <2>3, Zenon
    <3> QED BY <3>1, <1>1, ZenonT(40) DEF IInv, StoreSound
  <2> QED BY <2>2, <2>3, Zenon
<1>9. QuietStep(node, n, s2)
  BY <1>7, Zenon DEF QuietStep
<1>10. GoodStep(node, n, s2)
  BY <1>1, <1>7, <1>8, <1>9, Zenon DEF GoodStep, IInv, OwnSignature, DecisionCertified
<1>11. IInv(node')
  BY <1>1, <1>5, <1>7, <1>10, GoodStepPreserves, Zenon
<1> QED BY <1>1, <1>5, <1>7, <1>11, Zenon DEF InductiveInvariant, Update

\* A tick keeps the invariant.
LEMMA UpdateKeeps ==
    ASSUME InductiveInvariant, NEW n \in Nodes, bft_update(n)
    PROVE  /\ InductiveInvariant'
           /\ node[n].decision = None
           /\ \A k \in Nodes : k # n => node'[k].decision = node[k].decision
<1> DEFINE r == node[n].scan
           c == Snapshot(node[n].rd[r], synced[n])
<1>1. IInv(node) /\ node \in [Nodes -> NodeStates] /\ r \in Rounds
  BY Zenon DEF InductiveInvariant, IInv, Typed, NodeStates
<1>2. node[n].decision = None
  BY Zenon DEF bft_update, Tick
<1>3. PICK elapsed \in Elapses, p \in Candidates[n] :
        node' = Update(node, n, Iteration(n, r, c, elapsed, p, node[n]))
  BY Zenon DEF bft_update, Tick, Update
<1>4. IInv(node')
  BY <1>1, <1>2, <1>3, IterationKeeps, Zenon
<1> QED BY <1>1, <1>2, <1>3, <1>4, Zenon DEF InductiveInvariant, Update

\* A restart keeps the invariant, because the node is not counted as reliable.
LEMMA RestartKeeps ==
    ASSUME InductiveInvariant, NEW n \in Nodes, Restart(n)
    PROVE  /\ InductiveInvariant'
           /\ \A k \in Nodes : node'[k].decision = node[k].decision
<1> DEFINE s == node[n]
           i == InitState(s.sent)
<1>1. IInv(node) /\ node \in [Nodes -> NodeStates] /\ s.decision = None
      /\ s.sent \in SUBSET (Votes \cup Proposals) /\ n \notin Reliable
  BY Zenon DEF InductiveInvariant, IInv, Typed, NodeStates, Restart, Reliable
<1>2. PICK p \in Candidates[n] : node' = Update(node, n, start_round(n, 0, p, i))
  BY Zenon DEF Restart, Update
<1> DEFINE s2 == start_round(n, 0, p, i)
<1>3. /\ i \in NodeStates /\ StoreStep(node, n, i)
      /\ i.sent = s.sent /\ i.decision = None
  <2>1. i \in NodeStates /\ StoreStep(node, n, i)
    BY <1>1, InitStateTyped, Zenon
  <2> QED BY <2>1 DEF InitState
<1> HIDE DEF i
<1>4. 0 \in Rounds /\ \A x \in i.sent : x.from = n
  <2>1. 0 \in Rounds
    BY ConstantsAssumption DEF Rounds, ConstantsOK
  <2>2. OwnSignature(node)
    BY <1>1, Zenon DEF IInv
  <2>3. \A x \in s.sent : x.from = n
    BY <2>2, Zenon DEF OwnSignature
  <2> QED BY <1>3, <2>1, <2>3, Zenon
<1>5. /\ s2 \in NodeStates /\ s2.decision = i.decision
      /\ i.sent \subseteq s2.sent /\ StoreStep(node, n, s2)
      /\ \A x \in s2.sent : x.from = n
  <2>1. ASSUME NEW t \in NodeStates, StoreStep(node, n, t), \A x \in t.sent : x.from = n,
               NEW u, u = start_round(n, 0, p, t)
        PROVE  /\ u \in NodeStates /\ u.decision = t.decision
               /\ t.sent \subseteq u.sent /\ StoreStep(node, n, u)
               /\ \A x \in u.sent : x.from = n
    BY <1>4, <2>1, StartRoundKeeps
  <2> QED BY <1>3, <1>4, <2>1, Zenon
<1> HIDE DEF s2
<1>6. GoodStep(node, n, s2)
  BY <1>1, <1>3, <1>5, Zenon DEF GoodStep
<1>7. IInv(node')
  BY <1>1, <1>2, <1>6, GoodStepPreserves, Zenon DEF s2
<1> QED BY <1>1, <1>2, <1>3, <1>5, <1>7, Zenon DEF InductiveInvariant, Update, s2

-------------------------------------------------------------------------------
(* The theorems.                                                           *)

\* The state that entry_point starts a height in satisfies the invariant.
LEMMA InitInvariant ==
    ASSUME Init
    PROVE  /\ InductiveInvariant
           /\ \A n \in Nodes : node[n].decision = None
<1>1. PICK p \in [Nodes -> Values \cup {None}] :
        /\ \A n \in Nodes : p[n] \in Candidates[n]
        /\ node = [n \in Nodes |-> start_round(n, 0, p[n], InitState({}))]
  BY Zenon DEF Init
<1> DEFINE i == InitState({})
<1>2. /\ i \in NodeStates /\ i.sent = {} /\ i.decision = None /\ i.lockedRound = -1
      /\ \A n : StoreStep(node, n, i)
  BY InitStateTyped, Zenon DEF InitState
<1>3. 0 \in Rounds
  BY ConstantsAssumption DEF Rounds, ConstantsOK
<1> HIDE DEF i
<1>4. ASSUME NEW n \in Nodes
      PROVE  /\ node[n] \in NodeStates
             /\ node[n].decision = None /\ node[n].lockedRound = -1
             /\ \A x \in node[n].sent : x.type \notin VoteTypes /\ x.from = n
             /\ StoreStep(node, n, node[n])
  <2>1. node[n] = start_round(n, 0, p[n], i) /\ p[n] \in Candidates[n]
    BY <1>1, Zenon DEF i
  <2> DEFINE s2 == start_round(n, 0, p[n], i)
  <2>2. /\ s2 \in NodeStates
        /\ s2.decision = i.decision /\ s2.lockedRound = i.lockedRound
        /\ \A x \in s2.sent : x.type \in VoteTypes => x \in i.sent
        /\ \A x \in s2.sent : x.from = n
        /\ StoreStep(node, n, s2)
    <3>1. \A x \in i.sent : x.from = n
      BY <1>2, Zenon
    <3> QED BY <1>2, <1>3, <2>1, <3>1, StartRoundKeeps
  <2> HIDE DEF s2
  <2> QED BY <1>2, <2>1, <2>2, Zenon DEF s2
<1>5. Typed(node)
  BY <1>1, <1>4, Zenon DEF Typed
<1>6. OwnSignature(node)
  BY <1>4 DEF OwnSignature
<1>7. StoreSound(node)
  <2>1. \A n \in Nodes : node[n].sent \subseteq Signed(node)
    BY SMTT(30), Zenon DEF Signed
  <2> SUFFICES ASSUME NEW n \in Nodes, NEW r \in Rounds, NEW m \in Members,
                      NEW t \in VoteTypes, node[n].rd[r].votes[m][t] # None
               PROVE  /\ Vote(m, r, t, node[n].rd[r].votes[m][t]) \in Signed(node)
                      /\ \/ node[n].rd[r].proposal = None
                         \/ node[n].rd[r].votes[m][t] \in {NIL, node[n].rd[r].proposal}
    BY Zenon DEF StoreSound
  <2>2. StoreStep(node, n, node[n])
    BY <1>4
  <2> QED BY <2>1, <2>2, Zenon DEF StoreStep
<1>8. Reliable \subseteq Nodes
  BY Zenon DEF Reliable
<1>9. ASSUME NEW n \in Reliable, NEW r, NEW t \in VoteTypes, NEW v
      PROVE  Vote(n, r, t, v) \notin node[n].sent
  <2>1. Vote(n, r, t, v).type = t
    BY Zenon DEF Vote
  <2> QED BY <2>1, <1>4, <1>8
<1>10. VotesInOrder(node)
  BY <1>4, <1>8, Zenon DEF VotesInOrder
<1>11. VoteOnce(node)
  BY <1>9, Zenon DEF VoteOnce
<1>12. LockHeld(node) /\ PrecommitJustified(node) /\ PrevoteSafe(node)
  BY <1>4, <1>8, <1>9, Zenon DEF LockHeld, PrecommitJustified, PrevoteSafe, VoteTypes
<1>13. DecisionCertified(node)
  BY <1>4, Zenon DEF DecisionCertified
<1> QED BY <1>4, <1>5, <1>6, <1>7, <1>10, <1>11, <1>12, <1>13, Zenon
           DEF InductiveInvariant, IInv

\* One step keeps the invariant, and changes the decision of one node at most,
\* from none.
LEMMA NextKeeps ==
    ASSUME InductiveInvariant, [Next]_vars
    PROVE  /\ InductiveInvariant'
           /\ \/ \A k \in Nodes : node'[k].decision = node[k].decision
              \/ \E n \in Nodes :
                   /\ node[n].decision = None
                   /\ \A k \in Nodes : k # n => node'[k].decision = node[k].decision
<1>1. CASE node' = node
  BY <1>1, Zenon DEF InductiveInvariant
<1>2. CASE \E n \in Nodes : Receive(n)
  BY <1>2, ReceiveKeeps, Zenon
<1>3. CASE \E n \in Nodes : bft_update(n)
  BY <1>3, UpdateKeeps, Zenon
<1>4. CASE \E n \in Nodes : Restart(n)
  BY <1>4, RestartKeeps
<1>5. CASE UNCHANGED vars \/ \E n \in Nodes : Sync(n)
  BY <1>1, <1>5 DEF vars, Sync
<1> QED BY <1>2, <1>3, <1>4, <1>5, Zenon DEF Next

\* The inductive invariant holds of every state of every execution of a height.
THEOREM InvariantHolds == Spec => []InductiveInvariant
<1>1. Init => InductiveInvariant
  BY InitInvariant, Zenon
<1>2. InductiveInvariant /\ [Next]_vars => InductiveInvariant'
  BY NextKeeps
<1> QED BY <1>1, <1>2, PTL DEF Spec

\* TMState and RoundData keep their types.
THEOREM TypesHold == Spec => []TypeOK
<1>1. Init => synced \in [Nodes -> SUBSET Values] /\ restarts \in Nat
  BY ConstantsAssumption DEF Init, ConstantsOK
<1>2. synced \in [Nodes -> SUBSET Values] /\ restarts \in Nat /\ [Next]_vars
        => (synced \in [Nodes -> SUBSET Values] /\ restarts \in Nat)'
  BY DEF Next, vars, Receive, ReceiveMsg, bft_update, Tick, Sync, Restart
<1>3. InductiveInvariant /\ synced \in [Nodes -> SUBSET Values] /\ restarts \in Nat
        => TypeOK
  BY Zenon DEF InductiveInvariant, IInv, Typed, TypeOK
<1> QED BY <1>1, <1>2, <1>3, InvariantHolds, PTL DEF Spec

\* Agreement follows: line 49 needs a quorum of precommits, and only one value
\* of a height can have one.
LEMMA InvariantGivesAgreement == InductiveInvariant => Agreement
<1> SUFFICES ASSUME InductiveInvariant, NEW n1 \in Nodes, NEW n2 \in Nodes,
                    node[n1].decision # None, node[n2].decision # None
             PROVE  node[n1].decision = node[n2].decision
  BY Zenon DEF Agreement
<1>1. node[n1].decision \in Values /\ node[n2].decision \in Values
  BY Zenon DEF InductiveInvariant, IInv, Typed, NodeStates
<1>2. PICK r1 \in Rounds : HasQuorum(node, r1, "Precommit", node[n1].decision)
  BY Zenon DEF InductiveInvariant, IInv, DecisionCertified
<1>3. PICK r2 \in Rounds : HasQuorum(node, r2, "Precommit", node[n2].decision)
  BY DEF InductiveInvariant, IInv, DecisionCertified
<1> QED BY <1>1, <1>2, <1>3, OneCertifiedValue, Zenon DEF InductiveInvariant

\* No two nodes decide differently at a height, whatever the members that do
\* not run the code sign, if they have less stake than two quorums share.
THEOREM AgreementHolds == Spec => []Agreement
BY InvariantHolds, InvariantGivesAgreement, PTL

\* A reliable node never signs two different votes of one kind in a round.
THEOREM NoEquivocationHolds == Spec => []NoEquivocation
<1>1. InductiveInvariant => NoEquivocation
  BY Zenon DEF InductiveInvariant, IInv, NoEquivocation
<1> QED BY <1>1, InvariantHolds, PTL

\* A reliable node prevotes against its precommit only when that value can no
\* longer be decided.
THEOREM SafeUnlockingHolds == Spec => []SafeUnlocking
<1>1. InductiveInvariant => SafeUnlocking
  BY Zenon DEF InductiveInvariant, IInv, SafeUnlocking
<1> QED BY <1>1, InvariantHolds, PTL

\* A decided value is valid and has a quorum of precommits.
THEOREM DecisionsValidHolds == Spec => []DecisionsValid
<1>1. InductiveInvariant => DecisionsValid
  BY DEF InductiveInvariant, IInv, DecisionsValid
<1> QED BY <1>1, InvariantHolds, PTL

\* The protocol implements the abstract specification of a height.
THEOREM Refinement == Spec => DecidesOnce
<1> DEFINE dec == [n \in Nodes |-> node[n].decision]
<1>1. Init => Height!Init
  BY InitInvariant DEF Height!Init
<1>2. (InductiveInvariant => Agreement)'
  BY InvariantGivesAgreement, PTL
<1>3. InductiveInvariant /\ [Next]_vars => [Height!Next]_dec
  <2> SUFFICES ASSUME InductiveInvariant, [Next]_vars
               PROVE  Height!Next \/ dec' = dec
    OBVIOUS
  <2>1. InductiveInvariant' /\ Agreement'
    BY <1>2, NextKeeps, Zenon
  <2>2. \A k \in Nodes : node'[k].decision \in Values \cup {None}
    BY <2>1, Zenon DEF InductiveInvariant, IInv, Typed, NodeStates
  <2>3. CASE \A k \in Nodes : node'[k].decision = node[k].decision
    BY <2>3, Zenon
  <2>4. ASSUME NEW n \in Nodes, node[n].decision = None, node'[n].decision # None,
               \A k \in Nodes : k # n => node'[k].decision = node[k].decision
        PROVE  Height!Next
    <3>1. PICK v \in Values : v = node'[n].decision
      BY <2>2, <2>4, Zenon
    <3>2. \A m \in Nodes : dec[m] \in {None, v}
      BY <2>1, <2>4, <3>1, Zenon DEF Agreement
    <3>3. dec' = [dec EXCEPT ![n] = v]
      BY <2>4, <3>1, Zenon
    <3>4. Height!Decide(n, v)
      BY <2>4, <3>2, <3>3 DEF Height!Decide
    <3> QED BY <3>4, Zenon DEF Height!Next
  <2>5. ASSUME NEW n \in Nodes, node[n].decision = None, node'[n].decision = None,
               \A k \in Nodes : k # n => node'[k].decision = node[k].decision
        PROVE  dec' = dec
    BY <2>5
  <2> QED BY <2>3, <2>4, <2>5, NextKeeps, Zenon
<1> QED BY <1>1, <1>3, InvariantHolds, PTL DEF Spec, DecidesOnce, Height!Spec

\* One step keeps the locks behind, and each of them advances.
LEMMA NextLocks ==
    ASSUME InductiveInvariant, LocksBehind, restarts \in Nat, [Next]_vars
    PROVE  LocksBehind' /\ \A n \in Nodes : LockStep(n)
<1>1. IInv(node) /\ node \in [Nodes -> NodeStates] /\ \A n \in Nodes : Behind(node[n])
  BY Zenon DEF InductiveInvariant, IInv, Typed, LocksBehind
<1>2. ASSUME \A k \in Nodes : /\ node'[k].locked = node[k].locked
                              /\ node'[k].lockedRound = node[k].lockedRound
                              /\ node'[k].round = node[k].round
                              /\ node'[k].step = node[k].step
      PROVE  LocksBehind' /\ \A n \in Nodes : LockStep(n)
  BY <1>1, <1>2, Zenon DEF LocksBehind, Behind, LockStep
<1>3. ASSUME NEW n \in Nodes, Receive(n)
      PROVE  LocksBehind' /\ \A k \in Nodes : LockStep(k)
  <2>1. PICK m \in Msgs : ReceiveMsg(n, m)
    BY <1>3 DEF Receive
  <2> DEFINE s2 == [node[n] EXCEPT !.rd[m.round] = Incorporate(n, m, @)]
  <2>2. node' = [node EXCEPT ![n] = s2]
    BY <2>1 DEF ReceiveMsg
  <2>3. /\ s2.locked = node[n].locked /\ s2.lockedRound = node[n].lockedRound
        /\ s2.round = node[n].round /\ s2.step = node[n].step
    BY <1>1, Zenon DEF NodeStates
  <2> HIDE DEF s2
  <2> QED BY <1>1, <1>2, <2>2, <2>3, Zenon
<1>4. ASSUME NEW n \in Nodes, bft_update(n)
      PROVE  LocksBehind' /\ \A k \in Nodes : LockStep(k)
  <2> DEFINE r == node[n].scan
             c == Snapshot(node[n].rd[r], synced[n])
  <2>1. r \in Rounds /\ node[n].decision = None
    BY <1>1, <1>4, Zenon DEF NodeStates, bft_update, Tick
  <2>2. PICK elapsed \in Elapses, p \in Candidates[n] :
          node' = [node EXCEPT ![n] = Iteration(n, r, c, elapsed, p, node[n])]
    BY <1>4, Zenon DEF bft_update, Tick
  <2> DEFINE t == Iteration(n, r, c, elapsed, p, node[n])
  <2>3. /\ Behind(t)
        /\ \/ t.decision # None
           \/ t.locked = node[n].locked /\ t.lockedRound = node[n].lockedRound
           \/ /\ node[n].lockedRound < t.lockedRound /\ t.lockedRound = node[n].round
              /\ HasQuorum(node, t.lockedRound, "Prevote", t.locked)
    BY <1>1, <2>1, IterationLocks, Zenon
  <2>4. node'[n] = t /\ \A k \in Nodes : k # n => node'[k] = node[k]
    BY <1>1, <2>2, Zenon
  <2> HIDE DEF t
  <2>5. LocksBehind'
    BY <1>1, <2>3, <2>4, Zenon DEF LocksBehind, Behind
  <2>6. LockStep(n)
    BY <2>3, <2>4, Zenon DEF LockStep
  <2>7. \A k \in Nodes : k # n => LockStep(k)
    BY <2>4, Zenon DEF LockStep
  <2> QED BY <2>5, <2>6, <2>7, Zenon
<1>5. ASSUME NEW n \in Nodes, Restart(n)
      PROVE  LocksBehind' /\ \A k \in Nodes : LockStep(k)
  <2>1. PICK p \in Candidates[n] :
          node' = Update(node, n, start_round(n, 0, p, InitState(node[n].sent)))
    BY <1>5, Zenon DEF Restart, Update
  <2>2. Behind(start_round(n, 0, p, InitState(node[n].sent)))
    <3>1. node[n].sent \in SUBSET (Votes \cup Proposals)
      BY <1>1 DEF NodeStates
    <3> QED BY <3>1, StartBehind
  <2>3. LocksBehind'
    BY <1>1, <2>1, <2>2, Zenon DEF LocksBehind, Behind, Update
  <2>4. restarts' # restarts
    BY <1>5 DEF Restart
  <2> QED BY <2>3, <2>4, Zenon DEF LockStep
<1>6. CASE UNCHANGED vars \/ \E n \in Nodes : Sync(n)
  BY <1>2, <1>6 DEF vars, Sync
<1> QED BY <1>3, <1>4, <1>5, <1>6, Zenon DEF Next

\* A node's lock is replaced only by one of a later round, its current one, that
\* a quorum prevoted; only a decision or a restart gives it up.
THEOREM LocksAdvanceHolds == Spec => LocksAdvance
<1>1. Init => LocksBehind
  <2> SUFFICES ASSUME Init, NEW n \in Nodes PROVE Behind(node[n])
    BY DEF LocksBehind
  <2>1. PICK p \in Candidates[n] : node[n] = start_round(n, 0, p, InitState({}))
    BY DEF Init
  <2> QED BY <2>1, StartBehind
<1>2. TypeOK /\ InductiveInvariant /\ LocksBehind /\ [Next]_vars
        => LocksBehind' /\ \A n \in Nodes : LockStep(n)
  BY NextLocks DEF TypeOK
<1> QED BY <1>1, <1>2, InvariantHolds, TypesHold, PTL DEF Spec, LocksAdvance
===============================================================================
