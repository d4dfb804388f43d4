------------------------------ MODULE MCAmnesia ------------------------------
(***************************************************************************)
(* B proposes, is restarted, has forgotten what it signed, and proposes    *)
(* again.  One round in which no timer elapses, so that every decision     *)
(* needs the votes of two members, one of which may be B.                  *)
(***************************************************************************)
EXTENDS TenderlinkSafety, TLC

CONSTANTS A, B, C, V, W

MCStake == [m \in Members |-> IF m = A THEN 2 ELSE 1]
MCProposer == [r \in 0 .. MaxRound |-> B]
MCCandidates == [n \in Nodes |-> IF n = B THEN {V, W} ELSE {None}]
MCSynced == [n \in Nodes |-> Values]

\* Nothing tells the two values apart.
MCSymmetry == Permutations(Values)
===============================================================================
