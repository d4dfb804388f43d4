----------------------------- MODULE MCTFLService -----------------------------
(***************************************************************************)
(* A PoW chain of five blocks and a fork of two after the first, which is  *)
(* the best chain until the main one has grown beyond it.                  *)
(***************************************************************************)
EXTENDS TFLService, TLC

MCAncestors ==
    0 :> {0} @@ 1 :> {0, 1} @@ 2 :> {0, 1, 2} @@ 3 :> 0 .. 3 @@ 4 :> 0 .. 4
    @@ 5 :> 0 .. 5 @@ 11 :> {0, 1, 11} @@ 12 :> {0, 1, 11, 12}
MCHash == [b \in Blocks |-> b]
===============================================================================
