\* The capability cache never reports support an asset does not declare.
CONSTANTS
    x = x
    y = y
    z = z
    Assets <- MCAssets
    FxIndices <- MCFxIndices
    DeclaredFxs <- MCDeclaredFxs
    IsCreateAsset <- MCIsCreateAsset
    CacheSize <- MCCacheSize
SPECIFICATION Spec
INVARIANT NoFalseSupport
