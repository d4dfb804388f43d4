------------------------------- MODULE MCLine28 -------------------------------
(***************************************************************************)
(* Two rounds, proposed by A: what line 28 does with a value that A        *)
(* proposes again.  C has stopped after its first vote.                    *)
(***************************************************************************)
EXTENDS Tenderlink

CONSTANTS A, B, C, V

MCStake == [m \in Members |-> IF m = A THEN 2 ELSE 1]
MCProposer == [r \in 0 .. MaxRound |-> A]
MCCandidates == [n \in Nodes |-> {V}]
MCSynced == [n \in Nodes |-> Values]
MCByzMsgs == {Vote(C, 0, "Prevote", V)}

\* What the comment on line 28 waits for: the proposal of the current round,
\* with a valid round vr before it, and 2f+1 prevotes of round vr for its value.
Line28Upon(n) ==
    LET s == node[n]
        d == s.rd[s.round]
    IN  /\ n \in Members
        /\ s.step = "Propose"
        /\ d.proposal # None
        /\ 0 <= d.vr /\ d.vr < s.round
        /\ Big <= Weight[Voters(s.rd[d.vr], "Prevote", {d.proposal})]

\* The iteration of bft_update for the current round prevotes on that condition,
\* as "upon <PROPOSAL, h_p, round_p, v, vr> ... AND 2f+1 <PREVOTE, h_p, vr,
\* id(v)>" says of line 28.
Line28AsCommented ==
    [][\A n \in Nodes :
         Line28Upon(n) /\ node[n].scan = node[n].round /\ bft_update(n)
            => node'[n].step # "Propose"]_vars
===============================================================================
