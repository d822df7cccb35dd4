--------------------------- MODULE MCAssetFxCache ---------------------------
(***************************************************************************)
(* x declares both extensions (secp256k1fx 0 and nftfx 1), y only the     *)
(* first, z is a transaction that is not a CreateAssetTx.  A cache of one  *)
(* entry for the two cacheable assets makes eviction happen.               *)
(***************************************************************************)
EXTENDS AssetFxCache

CONSTANTS x, y, z

MCAssets == {x, y, z}

MCFxIndices == {0, 1}

MCDeclaredFxs == [a \in MCAssets |-> IF a = x THEN {0, 1} ELSE IF a = y THEN {0} ELSE {}]

MCIsCreateAsset == [a \in MCAssets |-> a # z]

MCCacheSize == 1

=============================================================================
