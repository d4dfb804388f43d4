----------------------------- MODULE OneDecision -----------------------------
(***************************************************************************)
(* What one height of the BFT chain promises to its users: every node      *)
(* decides at most once, for good, and all decide the same value.          *)
(***************************************************************************)
CONSTANTS Nodes, Values, None

VARIABLE decision

Init == decision = [n \in Nodes |-> None]

Decide(n, v) ==
    /\ decision[n] = None
    /\ \A m \in Nodes : decision[m] \in {None, v}
    /\ decision' = [decision EXCEPT ![n] = v]

Next == \E n \in Nodes, v \in Values : Decide(n, v)

Spec == Init /\ [][Next]_decision
===============================================================================
