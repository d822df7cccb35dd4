\* IssueTx of the same bytes twice before the engine pulls.
CONSTANTS
    g = g
    a = a
    b = b
    c = c
    e = e
    f = f
    m = m
    TxIds <- MCTxIds
    Genesis <- MCGenesis
    Malformed <- MCMalformed
    Ins <- MCIns
    NumOuts <- MCNumOuts
    FxValid <- MCFxValid
    MaxIndex <- MCMaxIndex
    Rank <- MCRank
    MaxPending <- MCMaxPending
SPECIFICATION Spec
INVARIANT PendingUnique
