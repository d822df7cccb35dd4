------------------------------- MODULE Ledger -------------------------------
(***************************************************************************)
(* What the AVM promises its users about the ledger, without the UTXO     *)
(* index, the parse cache or verification: a transaction is admitted       *)
(* (Unknown -> Processing), and the engine decides it; an accept spends    *)
(* outputs that are live, i.e. created by an accepted transaction and not  *)
(* consumed by another accepted transaction.  The UTXO set is not state    *)
(* here: it is a function of the statuses.                                 *)
(***************************************************************************)
EXTENDS Naturals

CONSTANTS
    TxIds,      \* transaction IDs
    Genesis,    \* the genesis transactions, accepted from the start
    Ins,        \* Ins[t]: the outputs <<source, index>> t consumes
    NumOuts     \* NumOuts[t]: the number of outputs t creates

VARIABLE status

Outputs(t) == {<<t, i>> : i \in 0..(NumOuts[t] - 1)}

AcceptedTxs == {t \in TxIds : status[t] = "Accepted"}

\* The outputs of accepted transactions that no accepted transaction spends.
Live ==
    (UNION {Outputs(a) : a \in AcceptedTxs}) \ (UNION {Ins[a] : a \in AcceptedTxs})

Init == status = [t \in TxIds |-> IF t \in Genesis THEN "Accepted" ELSE "Unknown"]

Admit(t) ==
    /\ status[t] = "Unknown"
    /\ status' = [status EXCEPT ![t] = "Processing"]

Accept(t) ==
    /\ status[t] = "Processing"
    /\ Ins[t] \subseteq Live
    /\ status' = [status EXCEPT ![t] = "Accepted"]

Reject(t) ==
    /\ status[t] = "Processing"
    /\ status' = [status EXCEPT ![t] = "Rejected"]

Next == \E t \in TxIds : Admit(t) \/ Accept(t) \/ Reject(t)

Spec == Init /\ [][Next]_status

(* No output is spent by two accepted transactions.                       *)
NoDoubleSpend ==
    \A a, b \in AcceptedTxs : a # b => Ins[a] \cap Ins[b] = {}

=============================================================================
