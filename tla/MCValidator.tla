---------------------------- MODULE MCValidator ----------------------------
(***************************************************************************)
(* A small transaction graph for TLC.  g is the genesis asset with two     *)
(* outputs.  a spends g's output 0 and creates one output; c spends the    *)
(* same output (a conflict); b spends a's output (a child of a possibly    *)
(* undecided parent); e names a's output 1, which does not exist; f fails  *)
(* its extension checks; m's bytes do not parse.  Between them every       *)
(* branch of getUTXO and of verifyWithoutCacheWrites is reached.          *)
(***************************************************************************)
EXTENDS Validator

CONSTANTS g, a, b, c, e, f, m

MCTxIds == {g, a, b, c, e, f, m}

MCGenesis == {g}

MCMalformed == {m}

MCIns ==
    [t \in MCTxIds |->
        CASE t = a -> {<<g, 0>>}
          [] t = b -> {<<a, 0>>}
          [] t = c -> {<<g, 0>>}
          [] t = e -> {<<a, 1>>}
          [] t = f -> {<<g, 1>>}
          [] t = m -> {<<g, 1>>}
          [] OTHER -> {}]

MCNumOuts == [t \in MCTxIds |-> IF t = g THEN 2 ELSE 1]

MCFxValid == [t \in MCTxIds |-> t # f]

MCMaxIndex == 1

\* Two slots of vm.txs: enough for a transaction to be appended twice.
MCMaxPending == 2

MCRank ==
    [t \in MCTxIds |->
        CASE t = g -> 0
          [] t \in {b, e} -> 2
          [] OTHER -> 1]

=============================================================================
