--------------------------- MODULE MCNodeProcess ---------------------------
(***************************************************************************)
(* The node process with a four-transaction VM: g is genesis, a and c    *)
(* both spend g's output (a conflict) and b spends a's.  The unit's       *)
(* StartLimitIntervalSec is 0; systemd's default burst of 5 is cut to 2,  *)
(* which is as many starts as a limited unit needs to give up here.      *)
(***************************************************************************)
EXTENDS NodeProcess

CONSTANTS g, a, b, c

MCTxIds == {g, a, b, c}

MCIns == [t \in MCTxIds |-> CASE t \in {a, c} -> {<<g, 0>>} [] t = b -> {<<a, 0>>} [] OTHER -> {}]

MCNumOuts == [t \in MCTxIds |-> 1]

MCFxValid == [t \in MCTxIds |-> TRUE]

MCRank == [t \in MCTxIds |-> CASE t = g -> 0 [] t \in {a, c} -> 1 [] OTHER -> 2]

=============================================================================
