------------------------- MODULE AssetFxCacheProofs -------------------------
(***************************************************************************)
(* Proofs about the asset-capability cache: the cache keeps its bounds,   *)
(* and verifyFxUsage never answers TRUE for an extension the asset does   *)
(* not declare, for every set of assets, extensions and cache size.       *)
(***************************************************************************)
EXTENDS AssetFxCache, SequenceTheorems, TLAPS

\* The entry type of the LRU.
Entries == Assets \X SUBSET FxIndices

(* Every cached bitset belongs to a known CreateAssetTx and holds only     *)
(* extensions it declares: what verifyFxUsage's miss path puts there, and *)
(* what a hit then reads.                                                  *)
CacheSound ==
    \A i \in DOMAIN cache :
        /\ known[cache[i][1]]
        /\ IsCreateAsset[cache[i][1]]
        /\ cache[i][2] \subseteq DeclaredFxs[cache[i][1]]

IInv == TypeOK /\ CacheSound /\ NoFalseSupport

-----------------------------------------------------------------------------
(* Removing a's entry leaves a shorter sequence of old entries.           *)
LEMMA WithoutFacts ==
    ASSUME TypeOK, NEW a \in Assets
    PROVE  /\ Without(a) \in Seq(Entries)
           /\ Len(Without(a)) <= Len(cache)
           /\ \A j \in 1..Len(Without(a)) : \E k \in DOMAIN cache : Without(a)[j] = cache[k]
<1>1. CASE ~InCache(a)
  BY <1>1 DEF Without, TypeOK, Entries
<1>2. CASE InCache(a)
  <2> DEFINE i == PosOf(a)
             s1 == SubSeq(cache, 1, i - 1)
             s2 == SubSeq(cache, i + 1, Len(cache))
  <2>1. cache \in Seq(Entries) /\ i \in 1..Len(cache)
    BY <1>2 DEF InCache, PosOf, TypeOK, Entries
  <2>2. /\ s1 \in Seq(Entries) /\ Len(s1) = i - 1
        /\ \A j \in 1..(i - 1) : s1[j] = cache[j]
    BY <2>1, SubSeqProperties
  <2>3. /\ s2 \in Seq(Entries) /\ Len(s2) = Len(cache) - i
        /\ \A j \in 1..(Len(cache) - i) : s2[j] = cache[i + j]
    BY <2>1, SubSeqProperties
  <2>4. /\ s1 \o s2 \in Seq(Entries)
        /\ Len(s1 \o s2) = Len(cache) - 1
        /\ \A j \in 1..(Len(cache) - 1) :
              (s1 \o s2)[j] = IF j <= i - 1 THEN s1[j] ELSE s2[j - (i - 1)]
    <3>1. /\ s1 \o s2 \in Seq(Entries)
          /\ Len(s1 \o s2) = Len(s1) + Len(s2)
          /\ \A j \in 1..(Len(s1) + Len(s2)) :
                (s1 \o s2)[j] = IF j <= Len(s1) THEN s1[j] ELSE s2[j - Len(s1)]
      BY <2>2, <2>3, ConcatProperties
    <3>2. Len(s1) + Len(s2) = Len(cache) - 1
      BY <2>1, <2>2, <2>3
    <3> QED  BY <3>1, <3>2, <2>2
  <2>5. Without(a) = s1 \o s2
    BY <1>2 DEF Without
  <2>6. \A j \in 1..(Len(cache) - 1) : \E k \in DOMAIN cache : (s1 \o s2)[j] = cache[k]
    <3> TAKE j \in 1..(Len(cache) - 1)
    <3>1. CASE j <= i - 1
      <4>1. j \in 1..(i - 1) /\ j \in DOMAIN cache
        BY <3>1, <2>1
      <4>2. (s1 \o s2)[j] = cache[j]
        BY <3>1, <4>1, <2>2, <2>4
      <4> QED  BY <4>1, <4>2
    <3>2. CASE ~(j <= i - 1)
      <4>1. j - (i - 1) \in 1..(Len(cache) - i) /\ i + (j - (i - 1)) \in DOMAIN cache
        BY <3>2, <2>1
      <4>2. (s1 \o s2)[j] = cache[i + (j - (i - 1))]
        BY <3>2, <4>1, <2>1, <2>3, <2>4
      <4> QED  BY <4>1, <4>2
    <3> QED  BY <3>1, <3>2
  <2>7. Len(cache) - 1 <= Len(cache)
    BY <2>1
  <2> QED  BY <2>4, <2>5, <2>6, <2>7
<1> QED  BY <1>1, <1>2

(* LRUPut(a, bits) keeps the size bound and holds old entries and the new  *)
(* one only.                                                                *)
LEMMA PutFacts ==
    ASSUME TypeOK, NEW a \in Assets, NEW bits \in SUBSET FxIndices
    PROVE  /\ LRUPut(a, bits) \in Seq(Entries)
           /\ Len(LRUPut(a, bits)) <= CacheSize
           /\ \A j \in 1..Len(LRUPut(a, bits)) :
                 \/ LRUPut(a, bits)[j] = <<a, bits>>
                 \/ \E k \in DOMAIN cache : LRUPut(a, bits)[j] = cache[k]
<1> DEFINE w == Without(a)
           s == Append(w, <<a, bits>>)
<1>1. /\ w \in Seq(Entries) /\ Len(w) <= Len(cache)
      /\ \A j \in 1..Len(w) : \E k \in DOMAIN cache : w[j] = cache[k]
  BY WithoutFacts
<1>2. /\ s \in Seq(Entries) /\ Len(s) = Len(w) + 1
      /\ \A j \in 1..Len(s) : s[j] = IF j = Len(w) + 1 THEN <<a, bits>> ELSE w[j]
  BY <1>1, AppendProperties DEF Entries
<1>3. \A j \in 1..Len(s) : s[j] = <<a, bits>> \/ \E k \in DOMAIN cache : s[j] = cache[k]
  BY <1>1, <1>2
<1>4. Len(cache) <= CacheSize /\ CacheSize \in Nat
  BY AssetFxCacheAssumption DEF TypeOK
<1>5. CASE Len(s) > CacheSize
  <2>1. /\ Tail(s) \in Seq(Entries) /\ Len(Tail(s)) = Len(s) - 1
        /\ \A j \in 1..Len(Tail(s)) : Tail(s)[j] = s[j + 1]
    <3>1. s # << >>
      BY <1>2, <1>4, <1>5
    <3> QED  BY <1>2, <3>1, HeadTailProperties
  <2>2. LRUPut(a, bits) = Tail(s)
    BY <1>5 DEF LRUPut
  <2> QED  BY <2>1, <2>2, <1>1, <1>2, <1>3, <1>4
<1>6. CASE ~(Len(s) > CacheSize)
  <2>1. LRUPut(a, bits) = s
    BY <1>6 DEF LRUPut
  <2> QED  BY <2>1, <1>2, <1>3, <1>4, <1>6
<1> QED  BY <1>5, <1>6

-----------------------------------------------------------------------------
LEMMA InitIInv == Init => IInv
BY AssetFxCacheAssumption DEF Init, IInv, TypeOK, CacheSound, NoFalseSupport

(* A cached entry for a is sound for a.                                   *)
LEMMA HitSound ==
    ASSUME TypeOK, CacheSound, NEW a \in Assets, InCache(a)
    PROVE  /\ PosOf(a) \in DOMAIN cache
           /\ cache[PosOf(a)][1] = a
           /\ known[a] /\ IsCreateAsset[a]
           /\ CachedBits(a) \subseteq DeclaredFxs[a]
           /\ CachedBits(a) \subseteq FxIndices
<1>1. PosOf(a) \in DOMAIN cache /\ cache[PosOf(a)][1] = a
  BY DEF InCache, PosOf
<1>2. cache[PosOf(a)] \in Entries
  BY <1>1 DEF TypeOK, Entries
<1> QED  BY <1>1, <1>2, AssetFxCacheAssumption DEF CacheSound, CachedBits, Entries

(* After a Put of a sound entry for a known CreateAssetTx, the cache is    *)
(* sound.                                                                   *)
LEMMA PutSound ==
    ASSUME TypeOK, CacheSound, NEW a \in Assets, NEW bits \in SUBSET FxIndices,
           known[a], IsCreateAsset[a], bits \subseteq DeclaredFxs[a],
           cache' = LRUPut(a, bits), known' = known
    PROVE  TypeOK!1' /\ TypeOK!2' /\ CacheSound'
<1>1. /\ cache' \in Seq(Entries) /\ Len(cache') <= CacheSize
      /\ \A j \in 1..Len(cache') : cache'[j] = <<a, bits>> \/ \E k \in DOMAIN cache : cache'[j] = cache[k]
  BY PutFacts
<1>2. CacheSound'
  BY <1>1 DEF CacheSound
<1> QED  BY <1>1, <1>2 DEF Entries

LEMMA NextIInv == IInv /\ [Next]_vars => IInv'
<1> SUFFICES ASSUME IInv, [Next]_vars PROVE IInv'
  OBVIOUS
<1>1. ASSUME NEW fx \in FxIndices, NEW a \in Assets, VerifyFxUsage(fx, a)
      PROVE  IInv'
  <2>1. known' = known
    BY <1>1 DEF VerifyFxUsage
  <2>2. CASE InCache(a) /\ cache' = LRUPut(a, CachedBits(a))
             /\ last' = <<fx, a, fx \in CachedBits(a)>>
    <3>1. known[a] /\ IsCreateAsset[a] /\ CachedBits(a) \subseteq DeclaredFxs[a]
          /\ CachedBits(a) \subseteq FxIndices
      BY <2>2, HitSound DEF IInv
    <3>2. TypeOK!1' /\ TypeOK!2' /\ CacheSound'
      BY <3>1, <2>1, <2>2, PutSound DEF IInv
    <3>3. known' \in [Assets -> BOOLEAN]
      BY <2>1 DEF IInv, TypeOK
    <3>4. last' \in {<<>>} \cup (FxIndices \X Assets \X BOOLEAN)
      <4>1. (fx \in CachedBits(a)) \in BOOLEAN
        OBVIOUS
      <4>2. <<fx, a, fx \in CachedBits(a)>> \in FxIndices \X Assets \X BOOLEAN
        BY <4>1, Zenon
      <4> QED  BY <2>2, <4>2
    <3>5. TypeOK'
      BY <3>2, <3>3, <3>4 DEF TypeOK
    <3>6. last'[3] => Supports(fx, a)
      BY <3>1, <2>2 DEF Supports
    <3>7. NoFalseSupport'
      BY <3>6, <2>1, <2>2 DEF NoFalseSupport, Supports
    <3> QED  BY <3>2, <3>5, <3>7 DEF IInv
  <2>3. CASE /\ ~InCache(a) /\ (~known[a] \/ ~IsCreateAsset[a])
             /\ last' = <<fx, a, FALSE>> /\ cache' = cache
    BY <2>1, <2>3 DEF IInv, TypeOK, CacheSound, NoFalseSupport
  <2>4. CASE /\ ~InCache(a) /\ known[a] /\ IsCreateAsset[a]
             /\ cache' = LRUPut(a, DerivedBits(fx, a))
             /\ last' = <<fx, a, fx \in DerivedBits(fx, a)>>
    <3>1. DerivedBits(fx, a) \subseteq DeclaredFxs[a] /\ DerivedBits(fx, a) \subseteq FxIndices
      BY DEF DerivedBits
    <3>2. TypeOK!1' /\ TypeOK!2' /\ CacheSound'
      BY <3>1, <2>1, <2>4, PutSound DEF IInv
    <3>3. known' \in [Assets -> BOOLEAN]
      BY <2>1 DEF IInv, TypeOK
    <3>4. last' \in {<<>>} \cup (FxIndices \X Assets \X BOOLEAN)
      <4>1. (fx \in DerivedBits(fx, a)) \in BOOLEAN
        OBVIOUS
      <4>2. <<fx, a, fx \in DerivedBits(fx, a)>> \in FxIndices \X Assets \X BOOLEAN
        BY <4>1, Zenon
      <4> QED  BY <2>4, <4>2
    <3>5. TypeOK'
      BY <3>2, <3>3, <3>4 DEF TypeOK
    <3>6. last'[3] => Supports(fx, a)
      BY <3>1, <2>4 DEF Supports
    <3>7. NoFalseSupport'
      BY <3>6, <2>1, <2>4 DEF NoFalseSupport, Supports
    <3> QED  BY <3>2, <3>5, <3>7 DEF IInv
  <2> QED  BY <1>1, <2>2, <2>3, <2>4 DEF VerifyFxUsage
<1>2. ASSUME NEW a \in Assets, LearnAsset(a)
      PROVE  IInv'
  <2>1. \A b \in Assets : known[b] => known'[b]
    BY <1>2 DEF LearnAsset, IInv, TypeOK
  <2> QED  BY <1>2, <2>1 DEF LearnAsset, IInv, TypeOK, CacheSound, NoFalseSupport, Supports
<1>3. CASE UNCHANGED vars
  BY <1>3 DEF vars, IInv, TypeOK, CacheSound, NoFalseSupport, Supports
<1> QED  BY <1>1, <1>2, <1>3 DEF Next

-----------------------------------------------------------------------------
(* verifyFxUsage never answers TRUE for an extension the asset's creation *)
(* transaction does not declare, in every behaviour and for every number  *)
(* of assets, extensions and every cache size.                            *)
THEOREM NoFalseSupportHolds == Spec => []NoFalseSupport
<1>1. Init => IInv  BY InitIInv
<1>2. IInv /\ [Next]_vars => IInv'  BY NextIInv
<1> QED  BY <1>1, <1>2, PTL DEF Spec, IInv

(* The cache never holds more than CacheSize entries of known shape.      *)
THEOREM CacheTypeCorrect == Spec => []TypeOK
<1>1. Init => IInv  BY InitIInv
<1>2. IInv /\ [Next]_vars => IInv'  BY NextIInv
<1> QED  BY <1>1, <1>2, PTL DEF Spec, IInv

=============================================================================
