------------------------------ MODULE MCGoodCase ------------------------------
(***************************************************************************)
(* A round in which no timer elapses.  A and B are a quorum; C has stopped *)
(* after voting for another value, which may be the first vote that a node *)
(* stores; O is an observer, which has the PoW block late.                 *)
(***************************************************************************)
EXTENDS TenderlinkLiveness

CONSTANTS A, B, C, O, V, W

MCStake == [m \in Members |-> IF m = A THEN 2 ELSE 1]
MCProposer == [r \in 0 .. MaxRound |-> A]
MCCandidates == [n \in Nodes |-> IF n = A THEN {V} ELSE {None}]
MCSynced == [n \in Nodes |-> IF n = O THEN {} ELSE Values]
MCByzMsgs == {Vote(C, 0, "Prevote", W), Vote(C, 0, "Precommit", W)}
===============================================================================
