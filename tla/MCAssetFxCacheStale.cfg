\* The cached answer differs from re-derivation once the asset is known.
CONSTANTS
    x = x
    y = y
    z = z
    Assets <- MCAssets
    FxIndices <- MCFxIndices
    DeclaredFxs <- MCDeclaredFxs
    IsCreateAsset <- MCIsCreateAsset
    CacheSize <- MCCacheSize
SPECIFICATION Spec

PROPERTY AnswerMatchesDerivation
