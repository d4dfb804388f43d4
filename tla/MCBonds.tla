------------------------------- MODULE MCBonds -------------------------------
(* Block 1 creates two bonds.  On top of it are the chain 2, 3, 4, 5 and   *)
(* the forks 12, 13 and 23, all of which may unbond, withdraw, retarget    *)
(* and create bonds in several orders.  The amounts are those with the     *)
(* rewards of a branch, so that on another one the withdrawal is refused.  *)
(* Block 4 may withdraw a bond twice.                                      *)
EXTENDS Bonds

MCBlocks == {0, 1, 2, 3, 4, 5, 12, 13, 23}
MCAncestors == [b \in MCBlocks |->
    CASE b < 10 -> 0..b [] b = 12 -> {0, 1, 12} [] b = 13 -> {0, 1, 12, 13}
      [] OTHER -> {0, 1, 2, 23}]
MCHash == [b \in MCBlocks |-> b]

Tx(kind, key, amount, target) ==
    [kind |-> kind, key |-> key, amount |-> amount, target |-> target]
Unbond(k) == Tx("unbond", k, 0, "F")
Retarget(k, f) == Tx("retarget", k, 0, f)
Withdraw(k, a) == Tx("withdraw", k, a, "F")

MCContents == {[b \in MCBlocks |->
    CASE b = 0 -> <<>>
      [] b = 1 -> <<Tx("create", 1, 3, "F"), Tx("create", 2, 4, "G")>>
      [] b = 2 -> two [] b = 3 -> three [] b = 4 -> four [] b = 5 -> five
      [] b = 12 -> twelve [] b = 13 -> thirteen [] b = 23 -> twentythree] :
    two \in {<<Retarget(1, "G"), Unbond(2)>>, <<Unbond(1), Retarget(1, "G")>>},
    three \in {<<Tx("create", 3, 2, "F"), Retarget(3, "G")>>, <<Unbond(1), Unbond(2)>>},
    four \in {<<Withdraw(2, 10), Unbond(1)>>, <<Unbond(2), Withdraw(1, 7)>>,
             <<Withdraw(2, 10), Withdraw(2, 10), Unbond(1)>>},
    five \in {<<Withdraw(1, 26), Unbond(3)>>, <<Tx("create", 2, 1, "F")>>},
    twelve \in {<<Unbond(1), Retarget(2, "F"), Retarget(2, "G")>>, <<>>},
    thirteen \in {<<Withdraw(1, 7), Unbond(2)>>, <<Withdraw(1, 5)>>},
    twentythree \in {<<Withdraw(2, 10), Tx("create", 3, 9, "F")>>, <<Unbond(2)>>}}
===============================================================================
