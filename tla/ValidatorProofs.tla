--------------------------- MODULE ValidatorProofs ---------------------------
(***************************************************************************)
(* Proofs about the AVM transaction lifecycle: the state keeps its types   *)
(* and a status only moves forward, for every transaction graph.           *)
(***************************************************************************)
EXTENDS Validator, SequenceTheorems, TLAPS

\* The UTXOs a transaction creates are UTXO IDs.
LEMMA OutputsTyped ==
    ASSUME NEW t \in TxIds
    PROVE  Outputs(t) \subseteq UtxoIds
BY ValidatorAssumption DEF Outputs, UtxoIds

\* parseTx's status write keeps the status map typed.
LEMMA ParseStatusTyped ==
    ASSUME TypeOK, NEW t \in TxIds
    PROVE  ParseStatus(t) \in [TxIds -> Statuses]
BY DEF ParseStatus, TypeOK, Statuses

LEMMA InitTypeOK == Init => TypeOK
<1> SUFFICES ASSUME Init PROVE TypeOK
  OBVIOUS
<1>1. UNION {Outputs(g) : g \in Genesis} \subseteq UtxoIds
  BY OutputsTyped, ValidatorAssumption
<1> QED  BY <1>1, EmptySeq DEF Init, TypeOK, Statuses

LEMMA NextTypeOK == TypeOK /\ [Next]_vars => TypeOK'
<1> SUFFICES ASSUME TypeOK, [Next]_vars PROVE TypeOK'
  OBVIOUS
<1>1. ASSUME NEW t \in TxIds, ParseTx(t) PROVE TypeOK'
  BY <1>1, ParseStatusTyped DEF ParseTx, TypeOK
<1>2. ASSUME NEW t \in TxIds, IssueTx(t) PROVE TypeOK'
  <2>1. txs' \in Seq(TxIds)
    BY <1>2 DEF IssueTx, TypeOK
  <2> QED  BY <1>2, <2>1, ParseStatusTyped DEF IssueTx, TypeOK
<1>8. CASE PendingTxs
  BY <1>8, EmptySeq DEF PendingTxs, TypeOK
<1>3. CASE OnNormalOperationsStarted
  BY <1>3 DEF OnNormalOperationsStarted, TypeOK
<1>4. ASSUME NEW t \in TxIds, Accept(t) PROVE TypeOK'
  <2>1. utxos' \in SUBSET UtxoIds
    BY <1>4, OutputsTyped DEF Accept, TypeOK
  <2> QED  BY <1>4, <2>1 DEF Accept, TypeOK, Statuses
<1>5. ASSUME NEW t \in TxIds, Reject(t) PROVE TypeOK'
  BY <1>5 DEF Reject, TypeOK, Statuses
<1>6. CASE Restart
  BY <1>6, EmptySeq DEF Restart, TypeOK
<1>7. CASE UNCHANGED vars
  BY <1>7 DEF vars, TypeOK
<1> QED  BY <1>1, <1>2, <1>3, <1>4, <1>5, <1>6, <1>7, <1>8 DEF Next

(* The persisted state of the VM (statuses, UTXO set, the bootstrapped   *)
(* flag and vm.txs) keeps its types through every parse, issue,   *)
(* decision and restart.                                                   *)
THEOREM TypeCorrect == Spec => []TypeOK
BY InitTypeOK, NextTypeOK, PTL DEF Spec

-----------------------------------------------------------------------------
\* The step relation of StatusForward.
StatusStep ==
    \A t \in TxIds :
        \/ status'[t] = status[t]
        \/ status[t] = "Unknown" /\ status'[t] = "Processing"
        \/ status[t] = "Processing" /\ Decided(status'[t])

LEMMA NextStatusStep == TypeOK /\ [Next]_vars => [StatusStep]_vars
<1> SUFFICES ASSUME TypeOK, [Next]_vars PROVE StatusStep \/ UNCHANGED vars
  OBVIOUS
<1>1. ASSUME NEW t \in TxIds, status' = ParseStatus(t) PROVE StatusStep
  BY <1>1 DEF ParseStatus, StatusStep, TypeOK
<1>2. ASSUME NEW t \in TxIds, status[t] = "Processing",
             NEW d \in {"Accepted", "Rejected"}, status' = [status EXCEPT ![t] = d]
      PROVE  StatusStep
  BY <1>2 DEF StatusStep, Decided, TypeOK
<1>3. ASSUME status' = status PROVE StatusStep
  BY <1>3 DEF StatusStep
<1> QED
  BY <1>1, <1>2, <1>3
  DEF Next, ParseTx, IssueTx, PendingTxs, OnNormalOperationsStarted, Accept, Reject, Restart

(* Whatever bytes parseTx or IssueTx is handed again, and whatever the     *)
(* engine decides, a transaction's status only moves forward: a decided    *)
(* transaction is never made Processing again, for every transaction graph.*)
THEOREM StatusForwardHolds == Spec => StatusForward
<1>1. Spec => [][StatusStep]_vars
  BY InitTypeOK, NextTypeOK, NextStatusStep, PTL DEF Spec
<1> QED  BY <1>1 DEF StatusForward, StatusStep

-----------------------------------------------------------------------------
(* The refinement.  The UTXO index is exactly the live outputs of the     *)
(* abstract ledger; for that, an accepted transaction spends only outputs *)
(* of accepted transactions (the engine accepts a child after its         *)
(* parents), so accepting t never creates an output already spent.        *)

AccSet == {a \in TxIds : status[a] = "Accepted"}
Made == UNION {Outputs(a) : a \in AccSet}
Spent == UNION {Ins[a] : a \in AccSet}

UtxoExact == utxos = Made \ Spent

SourcesAccepted ==
    \A a \in AccSet : \A u \in Ins[a] : status[u[1]] = "Accepted"

RInv == TypeOK /\ UtxoExact /\ SourcesAccepted /\ NoDoubleSpend

LEMMA LiveIsExact == L!Live = Made \ Spent
BY DEF L!Live, L!AcceptedTxs, L!Outputs, Made, Spent, AccSet, Outputs

LEMMA NoDoubleSpendDef ==
    NoDoubleSpend <=> \A a, b \in AccSet : a # b => Ins[a] \cap Ins[b] = {}
BY DEF NoDoubleSpend, L!NoDoubleSpend, L!AcceptedTxs, AccSet

\* A transaction's own outputs are not among its inputs: ranks decrease.
LEMMA OutputsNotIns ==
    ASSUME NEW t \in TxIds
    PROVE  Outputs(t) \cap Ins[t] = {}
<1> SUFFICES ASSUME NEW u \in Ins[t], u \in Outputs(t) PROVE FALSE
  OBVIOUS
<1>1. u[1] = t
  BY DEF Outputs
<1>2. Rank[u[1]] < Rank[t] /\ Rank[t] \in Nat
  BY ValidatorAssumption
<1> QED  BY <1>1, <1>2

LEMMA InitRInv == Init => RInv
<1> SUFFICES ASSUME Init PROVE RInv
  OBVIOUS
<1>1. AccSet = Genesis
  BY ValidatorAssumption DEF Init, AccSet
<1>2. Spent = {}
  BY <1>1, ValidatorAssumption DEF Spent
<1>3. UtxoExact
  BY <1>1, <1>2 DEF Init, UtxoExact, Made
<1>4. SourcesAccepted
  BY <1>1, ValidatorAssumption DEF SourcesAccepted
<1>5. NoDoubleSpend
  BY <1>1, ValidatorAssumption, NoDoubleSpendDef
<1> QED  BY <1>3, <1>4, <1>5, InitTypeOK DEF RInv

(* A step that changes no accepted status and leaves utxos alone keeps    *)
(* the refinement invariant.                                               *)
LEMMA QuietStep ==
    ASSUME RInv, TypeOK', utxos' = utxos,
           \A a \in TxIds : status'[a] = "Accepted" <=> status[a] = "Accepted"
    PROVE  RInv'
<1>1. AccSet' = AccSet
  BY DEF AccSet
<1>2. UtxoExact'
  BY <1>1 DEF RInv, UtxoExact, Made, Spent
<1>3. SourcesAccepted'
  BY <1>1, ValidatorAssumption DEF RInv, SourcesAccepted, AccSet, UtxoIds
<1>4. NoDoubleSpend'
  BY <1>1 DEF RInv, NoDoubleSpend, L!NoDoubleSpend, L!AcceptedTxs, AccSet
<1> QED  BY <1>2, <1>3, <1>4 DEF RInv
\* parseTx's write changes no accepted status.
LEMMA ParseStatusQuiet ==
    ASSUME TypeOK, NEW t \in TxIds
    PROVE  \A a \in TxIds : ParseStatus(t)[a] = "Accepted" <=> status[a] = "Accepted"
BY DEF ParseStatus, TypeOK

(* The engine's accept of t moves t's inputs from the live set to spent  *)
(* and adds t's outputs, exactly as UniqueTx.Accept updates the index.    *)
LEMMA AcceptRInv ==
    ASSUME RInv, NEW t \in TxIds, Accept(t)
    PROVE  RInv'
<1>1. AccSet' = AccSet \cup {t} /\ t \notin AccSet
  BY DEF Accept, AccSet, RInv, TypeOK
<1>2. Made' = Made \cup Outputs(t)
  BY <1>1 DEF Made
<1>3. Spent' = Spent \cup Ins[t]
  BY <1>1 DEF Spent
<1>4. Outputs(t) \cap Spent = {}
  <2> SUFFICES ASSUME NEW a \in AccSet, NEW u \in Ins[a], u \in Outputs(t) PROVE FALSE
    BY DEF Spent
  <2>1. status[u[1]] = "Accepted"
    BY DEF RInv, SourcesAccepted
  <2>2. u[1] = t
    BY DEF Outputs
  <2> QED  BY <2>1, <2>2 DEF Accept
<1>5. UtxoExact'
  <2>1. utxos' = (utxos \ Ins[t]) \cup Outputs(t)
    BY DEF Accept
  <2>2. utxos = Made \ Spent
    BY DEF RInv, UtxoExact
  <2> QED  BY <1>2, <1>3, <1>4, <2>1, <2>2, OutputsNotIns DEF UtxoExact
<1>6. SourcesAccepted'
  <2> SUFFICES ASSUME NEW a \in AccSet', NEW u \in Ins[a] PROVE status'[u[1]] = "Accepted"
    BY DEF SourcesAccepted
  <2>1. u[1] \in TxIds /\ u[1] # t
    <3>1. u \in UtxoIds /\ Rank[u[1]] < Rank[a] /\ Rank \in [TxIds -> Nat]
      BY ValidatorAssumption DEF AccSet
    <3>2. a = t => u[1] # t
      BY <3>1
    <3>3. a # t => status[u[1]] = "Accepted"
      BY <1>1 DEF RInv, SourcesAccepted
    <3> QED  BY <3>1, <3>2, <3>3 DEF UtxoIds, Accept
  <2>2. CASE a = t
    BY <2>1, <2>2 DEF Accept
  <2>3. CASE a # t
    BY <1>1, <2>1, <2>3 DEF RInv, SourcesAccepted, Accept
  <2> QED  BY <2>2, <2>3
<1>7. NoDoubleSpend'
  <2>1. Ins[t] \subseteq Made \ Spent
    BY DEF Accept, RInv, UtxoExact
  <2>2. \A a \in AccSet : Ins[a] \cap Ins[t] = {}
    BY <2>1 DEF Spent
  <2>3. \A a, b \in AccSet : a # b => Ins[a] \cap Ins[b] = {}
    BY NoDoubleSpendDef DEF RInv
  <2> QED  BY <1>1, <2>2, <2>3 DEF NoDoubleSpend, L!NoDoubleSpend, L!AcceptedTxs, AccSet
<1>8. TypeOK'
  BY NextTypeOK DEF RInv, Next
<1> QED  BY <1>5, <1>6, <1>7, <1>8 DEF RInv

LEMMA NextRInv == RInv /\ [Next]_vars => RInv'
<1> SUFFICES ASSUME RInv, [Next]_vars PROVE RInv'
  OBVIOUS
<1>0. TypeOK /\ TypeOK'
  BY NextTypeOK DEF RInv
<1>1. ASSUME NEW t \in TxIds, ParseTx(t) \/ IssueTx(t) PROVE RInv'
  <2>1. status' = ParseStatus(t) /\ utxos' = utxos
    BY <1>1 DEF ParseTx, IssueTx
  <2> QED  BY <1>0, <2>1, ParseStatusQuiet, QuietStep
<1>2. ASSUME NEW t \in TxIds, Accept(t) PROVE RInv'
  BY <1>2, AcceptRInv
<1>3. ASSUME NEW t \in TxIds, Reject(t) PROVE RInv'
  <2>1. \A a \in TxIds : status'[a] = "Accepted" <=> status[a] = "Accepted"
    BY <1>3, <1>0 DEF Reject, TypeOK
  <2> QED  BY <1>0, <1>3, <2>1, QuietStep DEF Reject
<1>4. CASE PendingTxs \/ OnNormalOperationsStarted \/ Restart \/ UNCHANGED vars
  BY <1>0, <1>4, QuietStep DEF PendingTxs, OnNormalOperationsStarted, Restart, vars
<1> QED  BY <1>1, <1>2, <1>3, <1>4 DEF Next

(* Every step of the VM is a step of the abstract ledger or leaves the    *)
(* statuses alone: parseTx and IssueTx admit, the engine's accept spends *)
(* only live outputs, a reject rejects; PendingTxs, SetState and a       *)
(* restart change no status.                                              *)
LEMMA NextRefines == RInv /\ [Next]_vars => [L!Next]_status
<1> SUFFICES ASSUME RInv, [Next]_vars PROVE L!Next \/ status' = status
  OBVIOUS
<1>1. ASSUME NEW t \in TxIds, status' = ParseStatus(t) PROVE L!Next \/ status' = status
  <2>1. CASE status[t] = "Unknown"
    <3>1. L!Admit(t)
      BY <1>1, <2>1 DEF ParseStatus, L!Admit
    <3> QED  BY <3>1 DEF L!Next
  <2>2. CASE status[t] # "Unknown"
    BY <1>1, <2>2 DEF ParseStatus
  <2> QED  BY <2>1, <2>2
<1>2. ASSUME NEW t \in TxIds, Accept(t) PROVE L!Next
  <2>1. Ins[t] \subseteq L!Live
    BY <1>2, LiveIsExact DEF Accept, RInv, UtxoExact
  <2>2. L!Accept(t)
    BY <1>2, <2>1 DEF Accept, L!Accept
  <2> QED  BY <2>2 DEF L!Next
<1>3. ASSUME NEW t \in TxIds, Reject(t) PROVE L!Next
  <2>1. L!Reject(t)
    BY <1>3 DEF Reject, L!Reject
  <2> QED  BY <2>1 DEF L!Next
<1>4. CASE PendingTxs \/ OnNormalOperationsStarted \/ Restart \/ UNCHANGED vars
  BY <1>4 DEF PendingTxs, OnNormalOperationsStarted, Restart, vars
<1> QED  BY <1>1, <1>2, <1>3, <1>4 DEF Next, ParseTx, IssueTx

(* The VM implements the abstract ledger (LedgerSpec), for every          *)
(* transaction graph: its UTXO index never lets the engine accept a       *)
(* spend of an output that is not live.                                   *)
THEOREM Refinement == Spec => LedgerSpec
<1>1. Init => L!Init
  BY DEF Init, L!Init
<1>2. Spec => []RInv
  BY InitRInv, NextRInv, PTL DEF Spec
<1> QED  BY <1>1, <1>2, NextRefines, PTL DEF Spec, LedgerSpec, L!Spec

(* No output is ever spent by two transactions the engine accepted, for  *)
(* every transaction graph (NoDoubleSpend).                               *)
THEOREM NoDoubleSpendHolds == Spec => []NoDoubleSpend
<1>1. RInv => NoDoubleSpend
  BY DEF RInv
<1> QED  BY <1>1, InitRInv, NextRInv, PTL DEF Spec

=============================================================================
