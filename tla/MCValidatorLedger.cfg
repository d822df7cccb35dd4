\* The VM's lifecycle and UTXO index implement the abstract ledger.
CONSTANTS
    g = g
    a = a
    b = b
    c = c
    e = e
    f = f
    m = m
    TxIds <- MCTxIds
    Genesis <- MCGenesis
    Malformed <- MCMalformed
    Ins <- MCIns
    NumOuts <- MCNumOuts
    FxValid <- MCFxValid
    MaxIndex <- MCMaxIndex
    Rank <- MCRank
    MaxPending <- MCMaxPending
SPECIFICATION Spec
INVARIANT NoDoubleSpend
PROPERTY LedgerSpec
