------------------------------ MODULE MCProgress ------------------------------
(***************************************************************************)
(* Two rounds in which timers elapse.  A is a quorum of its own; B follows *)
(* with whatever it has received, in any order, and A has no block of its  *)
(* own to propose.                                                         *)
(***************************************************************************)
EXTENDS TenderlinkLiveness

CONSTANTS A, B, V

MCStake == [m \in Members |-> IF m = A THEN 3 ELSE 1]
MCProposer == [r \in 0 .. MaxRound |-> IF r = 0 THEN B ELSE A]
MCCandidates == [n \in Nodes |-> IF n = A THEN {None} ELSE {V}]
MCSynced == [n \in Nodes |-> Values]
===============================================================================
