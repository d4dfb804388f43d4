---------------------------- MODULE MCBlockQueue ----------------------------
(* Two checkpoint blocks 1 and 2, the chain 3, 4, 5 on top of them, and a  *)
(* fork 13, 14 that is better than 3, 4.  The first BFT block finalizes 4; *)
(* 4 and 5 point to it, the others to none.                                *)
EXTENDS BlockQueue

MCBlocks == {0, 1, 2, 3, 4, 5, 13, 14}
MCAncestors == [b \in MCBlocks |-> IF b < 10 THEN 0..b ELSE 0..2 \cup 13..b]
MCDecisions == <<4>>
MCHash == [b \in MCBlocks |-> b]
MCPointer == [b \in MCBlocks |-> IF b \in {4, 5} THEN 1 ELSE 0]
===============================================================================
