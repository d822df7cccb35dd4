------------------------------ MODULE TxHandoff ------------------------------
(***************************************************************************)
(* What the batch scheduler promises the consensus engine (spec 4.4):     *)
(* issued transactions accumulate, and a pull takes everything that has   *)
(* accumulated at once and clears it, so each transaction reaches the      *)
(* engine in one pull, never split across pulls.  No timer, channel or     *)
(* lock: when the engine pulls is left open.  Transactions are named by    *)
(* their issue numbers.                                                     *)
(***************************************************************************)
EXTENDS Naturals

CONSTANT MaxIssued   \* bound on the number of issues

VARIABLES
    pending,    \* issued and not yet pulled
    delivered,  \* handed to the engine by a pull
    count       \* how many have been issued

hvars == <<pending, delivered, count>>

Init ==
    /\ pending = {}
    /\ delivered = {}
    /\ count = 0

Issue ==
    /\ count < MaxIssued
    /\ count' = count + 1
    /\ pending' = pending \cup {count + 1}
    /\ UNCHANGED delivered

Pull ==
    /\ pending' = {}
    /\ delivered' = delivered \cup pending
    /\ UNCHANGED count

Next == Issue \/ Pull

Spec == Init /\ [][Next]_hvars

=============================================================================
