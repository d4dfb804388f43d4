------------------------------ MODULE Thresholds ------------------------------
(***************************************************************************)
(* The vote thresholds of bft_update (tenderlink/src/lib.rs:844-858).  All *)
(* three are functions of the total active stake n of the roster.          *)
(***************************************************************************)
EXTENDS Integers

\* The stake that may be faulty.  The code computes n - 1 in u64, so n = 0 (an
\* empty roster, or one without stake) is outside its domain.
f_from_n(n) == (n - 1) \div 3

\* The stake that prevotes and precommits are compared with.
big_threshold(n) == IF f_from_n(n) = 0 THEN n ELSE 2 * f_from_n(n) + 1

\* The stake that makes a node catch up with a later round.
small_threshold(n) == IF f_from_n(n) = 0 THEN n ELSE f_from_n(n) + 1

\* The stake that two sets of members of stake big_threshold(n) each share at
\* the least, among members of total stake n.
QuorumOverlap(n) == 2 * big_threshold(n) - n
===============================================================================
