------------------------------- MODULE Finality -------------------------------
(***************************************************************************)
(* What the TFL service promises: a log of final PoW blocks, each above    *)
(* the one before it, that is never cut or rewritten, and whose blocks are *)
(* settled in the PoW state when they are logged.  A PoW block is settled  *)
(* when it is finalized or can no longer be, being off the finalized       *)
(* chain: then finalizing it was refused.                                  *)
(***************************************************************************)
EXTENDS Sequences

CONSTANTS
    Blocks,       \* the PoW blocks
    Genesis,      \* the first of them
    Ancestors     \* of each block, with itself

VARIABLES
    finalized,    \* the finalized PoW tip
    log           \* the final PoW blocks, as the BFT side records them

Above(b, a) == b # a /\ a \in Ancestors[b]
OffChain(b, tip) == b \notin Ancestors[tip] /\ tip \notin Ancestors[b]
Settled(b, tip) == b \in Ancestors[tip] \/ OffChain(b, tip)

Init == finalized = Genesis /\ log = <<>>

Advance ==
    /\ \E b \in Blocks : Above(b, finalized) /\ finalized' = b
    /\ UNCHANGED log

Log ==
    /\ \E b \in Blocks :
          /\ log # <<>> => Above(b, log[Len(log)])
          /\ Settled(b, finalized)
          /\ log' = Append(log, b)
    /\ UNCHANGED finalized

Spec == Init /\ [][Advance \/ Log]_<<finalized, log>>
===============================================================================
