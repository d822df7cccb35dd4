---------------------------- MODULE AssetFxCache ----------------------------
(***************************************************************************)
(* The asset-capability cache of the AVM (vm.assetToFxCache and            *)
(* verifyFxUsage in src/unnamed/part_002, vm.go): a bounded LRU map from   *)
(* an asset to the bitset of extension (fx) indices it supports, consulted *)
(* by verifyTransferOfUTXO and verifyOperation before the extension runs.  *)
(* An asset is the model value of its creation transaction; what that      *)
(* transaction declares is fixed by constants, and whether its status is   *)
(* known (Fetched) changes as the transaction is first parsed.             *)
(***************************************************************************)
EXTENDS Naturals, Sequences

CONSTANTS
    Assets,         \* asset IDs (the IDs of their creation transactions)
    FxIndices,      \* registered extension indices (vm.fxs)
    DeclaredFxs,    \* DeclaredFxs[a]: the FxIndex of each of a's States
    IsCreateAsset,  \* IsCreateAsset[a]: a's transaction is a CreateAssetTx
    CacheSize       \* assetToFxCacheSize

ASSUME AssetFxCacheAssumption ==
    /\ DeclaredFxs \in [Assets -> SUBSET FxIndices]
    /\ IsCreateAsset \in [Assets -> BOOLEAN]
    /\ CacheSize \in Nat \ {0}

VARIABLES
    cache,   \* the LRU entries <<asset, bitset>>, least recently used first
    known,   \* known[a]: the status of a's creation tx is Fetched
    last     \* the last query <<fx, asset, answer>>, or <<>> before any

vars == <<cache, known, last>>

TypeOK ==
    /\ cache \in Seq(Assets \X SUBSET FxIndices)
    /\ Len(cache) <= CacheSize
    /\ known \in [Assets -> BOOLEAN]
    /\ last \in {<<>>} \cup (FxIndices \X Assets \X BOOLEAN)

-----------------------------------------------------------------------------
(* cache.LRU: Get refreshes an entry, Put inserts or replaces it as the    *)
(* most recent and evicts the least recent beyond Size.                    *)

InCache(a) == \E i \in DOMAIN cache : cache[i][1] = a

\* The position of a's entry; the map holds one entry per asset.
PosOf(a) == CHOOSE i \in DOMAIN cache : cache[i][1] = a

CachedBits(a) == cache[PosOf(a)][2]

(* The entries with a's removed.                                           *)
Without(a) ==
    IF InCache(a)
      THEN SubSeq(cache, 1, PosOf(a) - 1) \o SubSeq(cache, PosOf(a) + 1, Len(cache))
      ELSE cache

LRUPut(a, bits) ==
    LET s == Append(Without(a), <<a, bits>>)
    IN  IF Len(s) > CacheSize THEN Tail(s) ELSE s

-----------------------------------------------------------------------------
(* Mutant: the loop adds fxID without comparing it with state.FxIndex.     *)
DerivedBitsUnchecked(fx, a) == {fx}

(* The bitset the miss path of verifyFxUsage builds: it walks the asset's *)
(* States and adds fxID when a state names it, so it holds fxID or        *)
(* nothing, never the asset's other extensions.                           *)
DerivedBits(fx, a) == IF fx \in DeclaredFxs[a] THEN {fx} ELSE {}

(* verifyFxUsage(fxID, assetID).  A hit answers from the cached bitset.   *)
(* A miss whose creation tx is not Fetched, or not a CreateAssetTx,      *)
(* answers FALSE and caches nothing; otherwise the derived bitset is      *)
(* cached and answers.                                                     *)
VerifyFxUsage(fx, a) ==
    /\ \/ /\ InCache(a)
          /\ cache' = LRUPut(a, CachedBits(a))
          /\ last' = <<fx, a, fx \in CachedBits(a)>>
       \/ /\ ~InCache(a)
          /\ ~known[a] \/ ~IsCreateAsset[a]
          /\ last' = <<fx, a, FALSE>>
          /\ cache' = cache
       \/ /\ ~InCache(a)
          /\ known[a] /\ IsCreateAsset[a]
          /\ cache' = LRUPut(a, DerivedBits(fx, a))
          /\ last' = <<fx, a, fx \in DerivedBits(fx, a)>>
    /\ known' = known

(* parseTx of the asset's creation tx: Unknown becomes Processing, so the *)
(* status is Fetched from then on (choices.Status.Fetched).               *)
LearnAsset(a) ==
    /\ ~known[a]
    /\ known' = [known EXCEPT ![a] = TRUE]
    /\ UNCHANGED <<cache, last>>

Init ==
    /\ cache = << >>
    /\ known = [a \in Assets |-> FALSE]
    /\ last = << >>

Next ==
    \/ \E fx \in FxIndices, a \in Assets : VerifyFxUsage(fx, a)
    \/ \E a \in Assets : LearnAsset(a)

Spec == Init /\ [][Next]_vars

-----------------------------------------------------------------------------
(* Properties                                                              *)

\* What re-deriving the answer from the creation transaction gives.
Supports(fx, a) == known[a] /\ IsCreateAsset[a] /\ fx \in DeclaredFxs[a]

(* verifyFxUsage never lets an input or operation through for an          *)
(* extension its asset does not declare, whatever earlier queries of the  *)
(* same or other assets left in the cache and whatever was evicted.       *)
NoFalseSupport == last # << >> /\ last[3] => Supports(last[1], last[2])

(* Spec 4.3 and 8: every call of verifyFxUsage answers what direct        *)
(* re-derivation from the asset's States answers at that moment, whether *)
(* it hits or misses the cache.                                            *)
AnswerMatchesDerivation ==
    [][\A fx \in FxIndices, a \in Assets :
         VerifyFxUsage(fx, a) => (last'[3] = Supports(fx, a))]_vars

=============================================================================
