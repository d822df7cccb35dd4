\* Every coin selector against its reference, on every list of up to three UTXOs.
CONSTANTS
    Assets <- MCAssets
    Pool <- MCPool
    MaxLen = 3
    Width = 3
    SpendReqs <- MCSpendReqs
    MintReqs <- MCMintReqs
    Groups = {0, 1}
SPECIFICATION Spec
INVARIANT SpendMatchesReference
INVARIANT SpendAllMatchesReference
INVARIANT MintMatchesReference
INVARIANT NFTMatchesReference
