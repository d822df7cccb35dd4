-------------------------- MODULE NodeProcessProofs --------------------------
(***************************************************************************)
(* Proofs about the node process (runner.Run under systemd) with the VM  *)
(* inside it.  The composition adds nothing the VM's own specification    *)
(* does not allow: every step of the node is a step of the VM or leaves   *)
(* the VM's state alone, so what ValidatorProofs proves of the VM (types  *)
(* and no double spend) holds in the running node,                        *)
(* across every exit, kill and restart, for every value of the constants. *)
(***************************************************************************)
EXTENDS NodeProcess, TLAPS

\* The VM's proofs, about the VM variables of the node.
VP == INSTANCE ValidatorProofs

\* The node's constants satisfy the assumption of the VM's proofs.
LEMMA VMAssumption == VP!ValidatorAssumption
BY NodeAssumption, Zenon DEF VP!ValidatorAssumption, V!ValidatorAssumption, VP!UtxoIds, V!UtxoIds,
                              VP!IsFiniteSet, V!IsFiniteSet

\* The node starts with the VM in Initialize's state.
LEMMA InitVM == Init => V!Init
BY DEF Init

(* Each step of the node is a step of the VM or leaves its state alone:  *)
(* systemd and Run's own steps change no VM variable, an exit is the VM's *)
(* Restart, VMStep runs a VM operation and EnginePull is PendingTxs.       *)
LEMMA NextVM == [Next]_vars => [V!Next]_V!vars
<1> SUFFICES ASSUME [Next]_vars PROVE V!Next \/ UNCHANGED vmVars
  BY DEF V!vars, vmVars
<1>1. CASE BootStart \/ ServiceRestart \/ ServePlugin \/ RunApp
  BY <1>1 DEF BootStart, ServiceRestart, ServePlugin, RunApp
<1>2. CASE ServeReturns \/ AppExits \/ Killed
  <2>1. V!Restart
    BY <1>2 DEF ServeReturns, AppExits, Killed, Exit
  <2> QED  BY <2>1 DEF V!Next
<1>3. CASE VMStep
  BY <1>3 DEF VMStep, V!Next
<1>4. CASE EnginePull
  BY <1>4 DEF EnginePull, V!Next
<1>5. CASE UNCHANGED vars
  BY <1>5 DEF vars, vmVars
<1> QED  BY <1>1, <1>2, <1>3, <1>4, <1>5 DEF Next

(* The VM inside the node behaves as the VM's specification allows,       *)
(* whatever the process lifecycle does around it.                         *)
THEOREM NodeRefinesVM == Spec => V!Spec
BY InitVM, NextVM, PTL DEF Spec, V!Spec

(* The VM's proofs speak of the same definitions as V, through a second *)
(* instance of Validator: the two agree on the VM's initial states and    *)
(* steps, and on NoDoubleSpend.                                           *)
LEMMA SameVM ==
    /\ VP!Init <=> V!Init
    /\ VP!Next <=> V!Next
    /\ VP!vars = V!vars
    /\ VP!NoDoubleSpend <=> V!NoDoubleSpend
<1>1. VP!Init <=> V!Init
  BY DEF VP!Init, V!Init, VP!Outputs, V!Outputs
<1>2. VP!Next <=> V!Next
  BY DEF VP!Next, V!Next, VP!ParseTx, V!ParseTx, VP!IssueTx, V!IssueTx,
         VP!ParseStatus, V!ParseStatus, VP!VerifyAt, V!VerifyAt, VP!VerifyDepth,
         V!VerifyDepth, VP!VerifyLevel, V!VerifyLevel, VP!GetUTXOOk,
         V!GetUTXOOk, VP!Decided, V!Decided, VP!PendingTxs, V!PendingTxs,
         VP!OnNormalOperationsStarted, V!OnNormalOperationsStarted,
         VP!Accept, V!Accept, VP!Verify, V!Verify, VP!Outputs, V!Outputs,
         VP!Reject, V!Reject, VP!Restart, V!Restart, VP!Cardinality, V!Cardinality
<1>3. VP!vars = V!vars
  BY DEF VP!vars, V!vars
<1>4. VP!NoDoubleSpend <=> V!NoDoubleSpend
  BY DEF VP!NoDoubleSpend, V!NoDoubleSpend, VP!L!NoDoubleSpend,
         V!L!NoDoubleSpend, VP!L!AcceptedTxs, V!L!AcceptedTxs
<1> QED  BY <1>1, <1>2, <1>3, <1>4

\* The same, for the stuttering steps of the VM.
LEMMA SameSteps == [V!Next]_V!vars => [VP!Next]_VP!vars
BY SameVM DEF VP!vars, V!vars

\* So every behaviour of V is one of the VM's proofs.
LEMMA SameSpec == V!Spec => VP!Spec
BY SameVM, SameSteps, PTL DEF V!Spec, VP!Spec

(* No output is spent by two transactions the node's VM accepted, over    *)
(* the node's whole life across its restarts.                             *)
THEOREM NodeNoDoubleSpend == Spec => []V!NoDoubleSpend
<1>1. VP!Spec => []VP!NoDoubleSpend
  BY VMAssumption, VP!NoDoubleSpendHolds
<1> QED  BY <1>1, SameSpec, SameVM, NodeRefinesVM, PTL

-----------------------------------------------------------------------------
\* The node's own variables keep their types.
ProcOK ==
    /\ proc \in {"inactive", "started", "serving", "running", "exited"}
    /\ plugin \in BOOLEAN
    /\ starts \in 0..StartLimitBurst
    /\ handed \in SUBSET TxIds

LEMMA NextProcOK == V!TypeOK /\ ProcOK /\ [Next]_vars => ProcOK'
<1> SUFFICES ASSUME V!TypeOK, ProcOK, [Next]_vars PROVE ProcOK'
  OBVIOUS
<1>1. CASE BootStart \/ ServiceRestart
  BY <1>1, NodeAssumption DEF BootStart, ServiceRestart, CountStart, ProcOK
<1>2. CASE ServePlugin \/ RunApp \/ ServeReturns \/ AppExits \/ Killed
  BY <1>2 DEF ServePlugin, RunApp, ServeReturns, AppExits, Killed, Exit, ProcOK
<1>3. CASE EnginePull
  <2>1. {txs[i] : i \in DOMAIN txs} \subseteq TxIds
    BY DEF V!TypeOK
  <2> QED  BY <1>3, <2>1 DEF EnginePull, ProcOK
<1>4. CASE VMStep \/ UNCHANGED vars
  BY <1>4 DEF VMStep, vars, ProcOK
<1> QED  BY <1>1, <1>2, <1>3, <1>4 DEF Next

(* The node's state keeps its types: the VM's through every operation,   *)
(* exit and restart, the start count within systemd's burst, and the     *)
(* engine only ever holds transaction IDs.                                *)
THEOREM NodeTypeCorrect == Spec => []TypeOK
<1>1. Spec => []V!TypeOK
  <2>1. VP!Spec => []VP!TypeOK
    BY VMAssumption, VP!TypeCorrect
  <2>2. VP!TypeOK <=> V!TypeOK
    BY DEF VP!TypeOK, V!TypeOK, VP!Statuses, V!Statuses, VP!UtxoIds, V!UtxoIds
  <2> QED  BY <2>1, <2>2, SameSpec, NodeRefinesVM, PTL
<1>2. Init => ProcOK
  BY NodeAssumption DEF Init, ProcOK
<1>3. Spec => []ProcOK
  BY <1>1, <1>2, NextProcOK, PTL DEF Spec
<1> QED  BY <1>1, <1>3, PTL DEF TypeOK, ProcOK

=============================================================================
