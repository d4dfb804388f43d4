------------------------------ MODULE MCLocking ------------------------------
(***************************************************************************)
(* Two rounds.  A has half of the stake and proposes V; C, which proposes  *)
(* in the second round, does not run the code.                             *)
(***************************************************************************)
EXTENDS TenderlinkSafety

CONSTANTS A, B, C, V, W

MCStake == [m \in Members |-> IF m = A THEN 2 ELSE 1]
MCProposer == [r \in 0 .. MaxRound |-> IF r = 0 THEN A ELSE C]
MCCandidates == [n \in Nodes |-> {V}]
MCSynced == [n \in Nodes |-> Values]
MCByzMsgs == {Vote(C, 0, "Precommit", NIL),
              Proposal(C, 1, W, -1), Proposal(C, 1, W, 0)}
===============================================================================
