-------------------------------- MODULE MCSix --------------------------------
(***************************************************************************)
(* A total stake of six, in two equal halves that both run the code: the   *)
(* threshold of 2f+1 is 3, and either half is a quorum of its own.         *)
(***************************************************************************)
EXTENDS Tenderlink

CONSTANTS A, B, V, W

MCStake == [m \in Members |-> 3]
MCProposer == [r \in 0 .. MaxRound |-> IF r = 0 THEN A ELSE B]
MCCandidates == [n \in Nodes |-> IF n = A THEN {V} ELSE {W}]
MCSynced == [n \in Nodes |-> Values]
===============================================================================
