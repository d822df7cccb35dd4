-------------------------- MODULE MCBatchScheduler --------------------------
(* Small instance of BatchScheduler: a batch of 2 so that both the         *)
(* size-triggered and the timer-triggered flush happen, more issues than a *)
(* batch so that vm.txs can exceed it, and a one-slot channel with one     *)
(* StopVertex so that a PendingTxs signal can be dropped under contention. *)
EXTENDS BatchScheduler

MCBatchSize == 2
MCMaxIssued == 4
MCChanCap == 1
MCMaxStopVertex == 1
=============================================================================
