\* The node process under systemd, with the VM inside it.
CONSTANTS
    g = g
    a = a
    b = b
    c = c
    TxIds <- MCTxIds
    Genesis = {g}
    Malformed = {}
    Ins <- MCIns
    NumOuts <- MCNumOuts
    FxValid <- MCFxValid
    MaxIndex = 0
    Rank <- MCRank
    MaxPending = 1
    StartLimitIntervalSec = 0
    StartLimitBurst = 2
SPECIFICATION Spec
PROPERTY NodeComesBack
