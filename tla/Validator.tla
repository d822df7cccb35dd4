------------------------------ MODULE Validator ------------------------------
(***************************************************************************)
(* Transaction parsing, verification and lifecycle of the AVM              *)
(* (src/unnamed/part_002, vm.go).  A transaction is a model value with a   *)
(* fixed shape given by constants: the UTXOs it consumes (Ins), how many   *)
(* outputs it creates (NumOuts) and whether its extension checks pass      *)
(* (FxValid, the part of verifyTransfer that AssetFxCache models).         *)
(*                                                                         *)
(* The persisted state is the status of every transaction and the UTXO    *)
(* set; parseTx writes a first-seen transaction as Processing, getUTXO     *)
(* resolves an input from the UTXO set or, failing that, from the outputs *)
(* of an undecided ancestor that itself verifies.  Accept and Reject are  *)
(* the consensus engine's decisions (UniqueTx.Accept/Reject, outside src).*)
(***************************************************************************)
EXTENDS Naturals, FiniteSets, Sequences

CONSTANTS
    TxIds,      \* transaction IDs
    Genesis,    \* the genesis asset transactions (initGenesis)
    Malformed,  \* transactions whose bytes fail Parse or SyntacticVerify
    Ins,        \* Ins[t]: the UTXO IDs <<source tx, output index>> t consumes
    NumOuts,    \* NumOuts[t]: the number of UTXOs t creates
    FxValid,    \* FxValid[t]: the extension checks of t's inputs pass
    MaxIndex,   \* the largest output index an input may name
    Rank,       \* a rank that decreases along inputs: the tx graph is acyclic
    MaxPending  \* bound on the length of vm.txs explored

\* UTXO IDs: a source transaction and an output index (djtx.UTXOID).
UtxoIds == TxIds \X (0..MaxIndex)

ASSUME ValidatorAssumption ==
    /\ Genesis \subseteq TxIds
    /\ Malformed \subseteq TxIds \ Genesis
    /\ Ins \in [TxIds -> SUBSET UtxoIds]
    /\ NumOuts \in [TxIds -> 0..(MaxIndex + 1)]
    /\ FxValid \in [TxIds -> BOOLEAN]
    /\ MaxIndex \in Nat
    /\ Rank \in [TxIds -> Nat]
    /\ \A t \in TxIds : \A u \in Ins[t] : Rank[u[1]] < Rank[t]
    /\ \A g \in Genesis : Ins[g] = {}
    /\ MaxPending \in Nat
    /\ IsFiniteSet(TxIds)

\* choices.Status.
Statuses == {"Unknown", "Processing", "Accepted", "Rejected"}

Decided(s) == s \in {"Accepted", "Rejected"}

\* The UTXOs a transaction creates (tx.UTXOs()).
Outputs(t) == {<<t, i>> : i \in 0..(NumOuts[t] - 1)}

VARIABLES
    status,        \* persisted status of each transaction (state.GetStatus)
    utxos,         \* persisted UTXO set (state.GetUTXO)
    bootstrapped,  \* vm.bootstrapped
    txs            \* vm.txs: the transactions issueTx appended, not yet pulled

vars == <<status, utxos, bootstrapped, txs>>

TypeOK ==
    /\ status \in [TxIds -> Statuses]
    /\ utxos \in SUBSET UtxoIds
    /\ bootstrapped \in BOOLEAN
    /\ txs \in Seq(TxIds)

-----------------------------------------------------------------------------
(* Verification, as a recursion on the depth of ancestors looked at.     *)

(* Mutant: getUTXO without the status.Decided() check on the parent.     *)
GetUTXOOkUndecidedUnchecked(st, u, v) ==
    \/ u \in utxos
    \/ /\ v[u[1]]
       /\ u[2] < NumOuts[u[1]]

(* getUTXO, with the statuses st, succeeds for u when u is in the UTXO    *)
(* set, or its source tx verifies (v), is not decided, and has an output *)
(* at u's index.                                                           *)
GetUTXOOk(st, u, v) ==
    \/ u \in utxos
    \/ /\ v[u[1]]
       /\ ~Decided(st[u[1]])
       /\ u[2] < NumOuts[u[1]]

(* One level of verifyWithoutCacheWrites with the statuses st, given the  *)
(* verdicts v one level down for the parents getUTXO verifies: Unknown and *)
(* Rejected fail, Accepted passes, Processing runs SemanticVerify: every  *)
(* input resolves through getUTXO and passes the extension checks.  At    *)
(* depth 0 no parent can be verified, so no Processing tx passes.         *)
VerifyLevel(st, v, n) ==
    [t \in TxIds |->
        \/ st[t] = "Accepted"
        \/ /\ st[t] = "Processing"
           /\ n > 0
           /\ FxValid[t]
           /\ \A u \in Ins[t] : GetUTXOOk(st, u, v)]

\* VerifyDepth(st)[n]: verification looking at most n ancestors deep.
VerifyDepth(st) ==
    LET V[n \in Nat] == VerifyLevel(st, V[n - 1], n)
    IN  V

\* Since ranks decrease along inputs, depth Cardinality(TxIds) is the code's
\* unbounded recursion through getUTXO.
VerifyAt(st) == VerifyDepth(st)[Cardinality(TxIds)]

Verify(t) == VerifyAt(status)[t]

-----------------------------------------------------------------------------
(* Operations                                                              *)

(* parseTx (via VM.ParseTx): bytes that parse and pass SyntacticVerify are *)
(* stored; a transaction seen for the first time becomes Processing and is *)
(* committed, one already known keeps its status.                         *)
(* Mutant: parseTx without the tx.Status() == choices.Unknown check.     *)
ParseStatusAlways(t) == [status EXCEPT ![t] = "Processing"]

ParseStatus(t) ==
    IF status[t] = "Unknown" THEN [status EXCEPT ![t] = "Processing"] ELSE status

ParseTx(t) ==
    /\ t \notin Malformed
    /\ status' = ParseStatus(t)
    /\ UNCHANGED <<utxos, bootstrapped, txs>>

(* VM.IssueTx: refused while bootstrapping; otherwise parseTx (whose write *)
(* is committed even if verification then fails) and                     *)
(* verifyWithoutCacheWrites on the parsed tx, and on success issueTx      *)
(* appends it to vm.txs, whatever vm.txs already holds.  (The flush and    *)
(* the timer issueTx may start are BatchScheduler's.)                     *)
IssueTx(t) ==
    /\ bootstrapped
    /\ t \notin Malformed
    /\ status' = ParseStatus(t)
    /\ IF VerifyAt(ParseStatus(t))[t]
         THEN /\ Len(txs) < MaxPending
              /\ txs' = Append(txs, t)
         ELSE txs' = txs
    /\ UNCHANGED <<utxos, bootstrapped>>

(* VM.PendingTxs: the engine takes vm.txs and the VM forgets it.          *)
PendingTxs ==
    /\ txs' = << >>
    /\ UNCHANGED <<status, utxos, bootstrapped>>

(* SetState(NormalOp): the extensions are told, then vm.bootstrapped.      *)
OnNormalOperationsStarted ==
    /\ ~bootstrapped
    /\ bootstrapped' = TRUE
    /\ UNCHANGED <<status, utxos, txs>>

(* The engine accepts a processing transaction once every transaction it  *)
(* spends from is accepted, its inputs are all unspent (snowstorm's        *)
(* conflict rule) and it verifies; UniqueTx.Accept deletes the consumed UTXOs,   *)
(* puts the new ones and marks it Accepted in one commit.                 *)
Accept(t) ==
    /\ status[t] = "Processing"
    /\ \A u \in Ins[t] : status[u[1]] = "Accepted"
    /\ Ins[t] \subseteq utxos
    /\ Verify(t)
    /\ utxos' = (utxos \ Ins[t]) \cup Outputs(t)
    /\ status' = [status EXCEPT ![t] = "Accepted"]
    /\ UNCHANGED <<bootstrapped, txs>>

(* The engine rejects a processing transaction (UniqueTx.Reject).         *)
Reject(t) ==
    /\ status[t] = "Processing"
    /\ status' = [status EXCEPT ![t] = "Rejected"]
    /\ UNCHANGED <<utxos, bootstrapped, txs>>

(* Mutant: initGenesis without the stateInitialized check re-runs        *)
(* initState, which puts the genesis UTXOs again.                        *)
RestartReinitialises ==
    /\ bootstrapped' = FALSE
    /\ txs' = << >>
    /\ utxos' = utxos \cup UNION {Outputs(g) : g \in Genesis}
    /\ UNCHANGED status

(* The node stops and starts again: what was committed stays, the VM      *)
(* restarts bootstrapping with an empty vm.txs; initGenesis sees the      *)
(* state initialized and writes nothing.                                  *)
Restart ==
    /\ bootstrapped' = FALSE
    /\ txs' = << >>
    /\ UNCHANGED <<status, utxos>>

-----------------------------------------------------------------------------

(* Initialize/initGenesis/initState: each genesis asset transaction is     *)
(* stored Accepted with its UTXOs.                                         *)
Init ==
    /\ status = [t \in TxIds |-> IF t \in Genesis THEN "Accepted" ELSE "Unknown"]
    /\ utxos = UNION {Outputs(g) : g \in Genesis}
    /\ bootstrapped = FALSE
    /\ txs = << >>

Next ==
    \/ \E t \in TxIds : ParseTx(t)
    \/ \E t \in TxIds : IssueTx(t)
    \/ PendingTxs
    \/ OnNormalOperationsStarted
    \/ \E t \in TxIds : Accept(t)
    \/ \E t \in TxIds : Reject(t)
    \/ Restart

Spec == Init /\ [][Next]_vars

-----------------------------------------------------------------------------
(* Properties                                                              *)

\* The UTXOs consumed by accepted transactions.
Consumed == UNION {Ins[t] : t \in {a \in TxIds : status[a] = "Accepted"}}

(* A transaction the VM verifies spends only live outputs: each input is   *)
(* an existing output of an accepted or processing transaction that no    *)
(* accepted transaction has consumed.  getUTXO falls back to re-deriving  *)
(* an output from its source tx; this says that fallback never revives a *)
(* spent output of an accepted tx, nor reads past the source's outputs or *)
(* from a rejected one.                                                    *)
VerifySpendsLive ==
    \A t \in TxIds :
        (status[t] = "Processing" /\ Verify(t)) =>
            \A u \in Ins[t] :
                /\ u[2] < NumOuts[u[1]]
                /\ status[u[1]] \in {"Processing", "Accepted"}
                /\ u \notin Consumed

(* A status only moves forward, Unknown -> Processing -> Accepted or      *)
(* Rejected, whatever bytes parseTx or IssueTx is given again: a decided  *)
(* transaction is never made Processing by a re-parse.                     *)
StatusForward ==
    [][\A t \in TxIds :
         \/ status'[t] = status[t]
         \/ status[t] = "Unknown" /\ status'[t] = "Processing"
         \/ status[t] = "Processing" /\ Decided(status'[t])]_vars

(* The ledger the VM implements: the statuses are the abstract ones, and  *)
(* the UTXO set is implicit in them.                                      *)
L == INSTANCE Ledger

(* The VM implements the abstract ledger: every step of parseTx, IssueTx, *)
(* the engine's accept and reject, PendingTxs and a restart is an admit, *)
(* an accept of live outputs only, a reject, or changes no status.  This  *)
(* is what the UTXO index (deleted on spend, never rewritten by a        *)
(* restart's initGenesis) must keep true.                                 *)
LedgerSpec == L!Spec

(* No output is spent by two accepted transactions.                       *)
NoDoubleSpend == L!NoDoubleSpend

(* vm.txs never holds a transaction twice, so the batch PendingTxs hands  *)
(* the engine has no transaction twice (spec: "pending_txs() drains        *)
(* atomically with no transaction observed twice").  IssueTx of bytes      *)
(* already parsed re-verifies the stored tx and appends it again.          *)
PendingUnique ==
    \A i, j \in DOMAIN txs : i # j => txs[i] # txs[j]

=============================================================================
