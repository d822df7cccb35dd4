----------------------------- MODULE VerifyProofs -----------------------------
(***************************************************************************)
(* Proofs about verification (verifyWithoutCacheWrites and getUTXO's      *)
(* recursion through undecided parents).  VerifyDepth is a recursive      *)
(* function, which the provers only see as CHOOSE V : V = [n \in Nat |-> *)
(* ...]; nothing follows from it until such a V is shown to exist.  The   *)
(* witness is a closed form: a transaction verifies at depth n when it is *)
(* accepted or has a "depth labelling" of its undecided ancestors of      *)
(* height at most n, and the least such height is taken with the          *)
(* well-foundedness of < on Nat.  With the recursion unfolded, the        *)
(* refinement invariant of ValidatorProofs gives VerifySpendsLive.        *)
(***************************************************************************)
EXTENDS ValidatorProofs, WellFoundedInduction, FiniteSetTheorems

\* Every non-empty set of naturals has a least element.
LEMMA NatHasLeast ==
    ASSUME NEW S \in SUBSET Nat, S # {}
    PROVE  \E m \in S : \A k \in S : m <= k
<1>1. PICK m \in S : \A k \in S : ~(<<k, m>> \in OpToRel(<, Nat))
  BY NatLessThanWellFounded, WFMin
<1>2. \A k \in S : ~(k < m)
  BY <1>1, Zenon DEF OpToRel
<1> QED  BY <1>2

LeastOf(S) == CHOOSE m \in S : \A k \in S : m <= k

LEMMA LeastOfIsLeast ==
    ASSUME NEW S \in SUBSET Nat, S # {}
    PROVE  LeastOf(S) \in S /\ \A k \in S : LeastOf(S) <= k
BY NatHasLeast DEF LeastOf

-----------------------------------------------------------------------------
(* A depth labelling D of the statuses st gives each transaction a height *)
(* (0: no claim).  A claimed x is Processing, passes the extension checks *)
(* and each input is in the UTXO set or an output of an undecided claimed *)
(* parent of smaller height: the tree of getUTXO calls that verifies x.   *)
Ok(st, D, x) ==
    /\ st[x] = "Processing"
    /\ FxValid[x]
    /\ \A u \in Ins[x] :
         \/ u \in utxos
         \/ /\ 1 <= D[u[1]]
            /\ D[u[1]] < D[x]
            /\ ~Decided(st[u[1]])
            /\ u[2] < NumOuts[u[1]]

Good(st, D) == \A x \in TxIds : 1 <= D[x] => Ok(st, D, x)

\* The heights good labellings give x, and the least of them (0: none).
Heights(st, x) == {D[x] : D \in {E \in [TxIds -> Nat] : Good(st, E) /\ 1 <= E[x]}}

Least(st) ==
    [x \in TxIds |-> IF Heights(st, x) = {} THEN 0 ELSE LeastOf(Heights(st, x))]

\* The closed form of the recursion: verification at each depth n.
Closed(st) ==
    [n \in Nat |-> [t \in TxIds |-> \/ st[t] = "Accepted"
                                    \/ 1 <= Least(st)[t] /\ Least(st)[t] <= n]]

\* The inputs of a transaction name transactions.
LEMMA InsTyped ==
    ASSUME NEW t \in TxIds, NEW u \in Ins[t]
    PROVE  u[1] \in TxIds /\ u[2] \in Nat
BY ValidatorAssumption DEF UtxoIds

(* Least(st) is a good labelling, below every good labelling on what that *)
(* labelling claims.                                                       *)
LEMMA LeastGood ==
    ASSUME NEW st
    PROVE  /\ Least(st) \in [TxIds -> Nat]
           /\ \A D \in [TxIds -> Nat] : Good(st, D) =>
                \A x \in TxIds : 1 <= D[x] => 1 <= Least(st)[x] /\ Least(st)[x] <= D[x]
           /\ Good(st, Least(st))
<1> DEFINE M == Least(st)
<1>1. ASSUME NEW x \in TxIds, Heights(st, x) # {}
      PROVE  /\ M[x] \in Heights(st, x)
             /\ \A k \in Heights(st, x) : M[x] <= k
             /\ 1 <= M[x]
  <2>1. Heights(st, x) \subseteq Nat
    BY DEF Heights
  <2>2. M[x] = LeastOf(Heights(st, x))
    BY <1>1 DEF Least
  <2>3. \A k \in Heights(st, x) : 1 <= k
    BY DEF Heights
  <2> QED  BY <1>1, <2>1, <2>2, <2>3, LeastOfIsLeast
<1>2. M \in [TxIds -> Nat]
  <2>1. ASSUME NEW x \in TxIds PROVE M[x] \in Nat
    <3>1. CASE Heights(st, x) = {}
      BY <3>1 DEF Least
    <3>2. CASE Heights(st, x) # {}
      <4>1. Heights(st, x) \subseteq Nat
        BY DEF Heights
      <4> QED  BY <3>2, <4>1, <1>1
    <3> QED  BY <3>1, <3>2
  <2> QED  BY <2>1 DEF Least
<1>3. ASSUME NEW D \in [TxIds -> Nat], Good(st, D), NEW x \in TxIds, 1 <= D[x]
      PROVE  1 <= M[x] /\ M[x] <= D[x]
  <2>1. D[x] \in Heights(st, x)
    BY <1>3 DEF Heights
  <2> QED  BY <2>1, <1>1
<1>4. Good(st, M)
  <2> SUFFICES ASSUME NEW x \in TxIds, 1 <= M[x] PROVE Ok(st, M, x)
    BY DEF Good
  <2>1. Heights(st, x) # {}
    BY DEF Least
  <2>2. PICK D \in [TxIds -> Nat] : Good(st, D) /\ 1 <= D[x] /\ D[x] = M[x]
    BY <2>1, <1>1 DEF Heights
  <2>3. Ok(st, D, x)
    BY <2>2 DEF Good
  <2>4. ASSUME NEW u \in Ins[x], 1 <= D[u[1]] PROVE 1 <= M[u[1]] /\ M[u[1]] <= D[u[1]]
    BY <2>2, <2>4, <1>3, InsTyped
  <2> QED  BY <2>2, <2>3, <2>4, <1>2, InsTyped DEF Ok
<1> QED  BY <1>2, <1>3, <1>4

(* The closed form satisfies the recursion of VerifyDepth at every depth: *)
(* one level of verification over Closed(st)[n - 1] is Closed(st)[n].     *)
LEMMA ClosedUnfolds ==
    ASSUME NEW st, NEW n \in Nat
    PROVE  Closed(st)[n] = VerifyLevel(st, Closed(st)[n - 1], n)
<1> DEFINE M == Least(st)
           C == Closed(st)
<1>0. /\ M \in [TxIds -> Nat]
      /\ \A D \in [TxIds -> Nat] : Good(st, D) =>
           \A x \in TxIds : 1 <= D[x] => 1 <= M[x] /\ M[x] <= D[x]
      /\ Good(st, M)
  BY LeastGood
<1> SUFFICES ASSUME NEW t \in TxIds
             PROVE  C[n][t] = VerifyLevel(st, C[n - 1], n)[t]
  BY DEF Closed, VerifyLevel
<1>1. CASE st[t] = "Accepted"
  BY <1>1 DEF Closed, VerifyLevel
<1>2. CASE st[t] # "Accepted" /\ n = 0
  BY <1>2, <1>0 DEF Closed, VerifyLevel
<1>3. CASE st[t] # "Accepted" /\ n > 0
  <2>0. n - 1 \in Nat
    BY <1>3
  \* For an undecided parent, verifying one level down is having a height
  \* below n.
  <2>1. ASSUME NEW u \in Ins[t], ~Decided(st[u[1]])
        PROVE  C[n - 1][u[1]] <=> 1 <= M[u[1]] /\ M[u[1]] <= n - 1
    BY <2>0, <2>1, InsTyped DEF Closed, Decided
  <2>2. C[n][t] <=> 1 <= M[t] /\ M[t] <= n
    BY <1>3 DEF Closed
  <2>3. VerifyLevel(st, C[n - 1], n)[t] <=>
          /\ st[t] = "Processing"
          /\ FxValid[t]
          /\ \A u \in Ins[t] : GetUTXOOk(st, u, C[n - 1])
    BY <1>3 DEF VerifyLevel
  <2>4. ASSUME 1 <= M[t], M[t] <= n PROVE VerifyLevel(st, C[n - 1], n)[t]
    <3>1. Ok(st, M, t)
      BY <1>0, <2>4 DEF Good
    <3>2. ASSUME NEW u \in Ins[t] PROVE GetUTXOOk(st, u, C[n - 1])
      <4>1. M[u[1]] \in Nat /\ M[t] \in Nat
        BY <1>0, InsTyped
      <4>2. CASE u \notin utxos
        <5>1. 1 <= M[u[1]] /\ M[u[1]] < M[t] /\ ~Decided(st[u[1]]) /\ u[2] < NumOuts[u[1]]
          BY <3>1, <4>2 DEF Ok
        <5>2. C[n - 1][u[1]]
          BY <5>1, <4>1, <2>4, <2>1
        <5> QED  BY <5>1, <5>2 DEF GetUTXOOk
      <4> QED  BY <4>2 DEF GetUTXOOk
    <3> QED  BY <3>1, <3>2, <2>3 DEF Ok
  <2>5. ASSUME VerifyLevel(st, C[n - 1], n)[t] PROVE 1 <= M[t] /\ M[t] <= n
    <3>1. ASSUME NEW u \in Ins[t], u \notin utxos
          PROVE  /\ 1 <= M[u[1]] /\ M[u[1]] <= n - 1
                 /\ ~Decided(st[u[1]])
                 /\ u[2] < NumOuts[u[1]]
      <4>1. GetUTXOOk(st, u, C[n - 1])
        BY <2>5, <2>3
      <4> QED  BY <4>1, <3>1, <2>1 DEF GetUTXOOk
    <3>2. CASE 1 <= M[t] /\ M[t] <= n
      BY <3>2
    <3>3. CASE ~(1 <= M[t] /\ M[t] <= n)
      \* Put t at height n on top of the heights of Least(st) below n.
      <4> DEFINE D == [x \in TxIds |-> IF x = t THEN n ELSE IF M[x] <= n - 1 THEN M[x] ELSE 0]
      <4>1. D \in [TxIds -> Nat]
        BY <1>0
      <4>2. \A u \in Ins[t] : u[1] # t
        BY ValidatorAssumption
      <4>3. Ok(st, D, t)
        <5>1. ASSUME NEW u \in Ins[t], u \notin utxos
              PROVE  /\ 1 <= D[u[1]] /\ D[u[1]] < D[t]
                     /\ ~Decided(st[u[1]]) /\ u[2] < NumOuts[u[1]]
          <6>1. /\ 1 <= M[u[1]] /\ M[u[1]] <= n - 1
                /\ ~Decided(st[u[1]]) /\ u[2] < NumOuts[u[1]]
            BY <3>1, <5>1
          <6>2. u[1] \in TxIds /\ u[1] # t /\ M[u[1]] \in Nat
            BY <4>2, InsTyped, <1>0
          <6>3. D[u[1]] = M[u[1]] /\ D[t] = n
            BY <6>1, <6>2
          <6> QED  BY <6>1, <6>2, <6>3
        <5>2. st[t] = "Processing" /\ FxValid[t]
          BY <2>5, <2>3
        <5> QED  BY <5>1, <5>2 DEF Ok
      <4>4. ASSUME NEW x \in TxIds, x # t, 1 <= D[x] PROVE Ok(st, D, x)
        <5>1. D[x] = M[x] /\ 1 <= M[x] /\ M[x] <= n - 1
          BY <4>4, <1>0
        <5>2. Ok(st, M, x)
          BY <5>1, <1>0 DEF Good
        <5>3. ASSUME NEW u \in Ins[x], 1 <= M[u[1]], M[u[1]] < M[x]
              PROVE  D[u[1]] = M[u[1]] /\ D[u[1]] < D[x]
          <6>1. u[1] \in TxIds /\ M[u[1]] \in Nat /\ M[t] \in Nat /\ M[x] \in Nat
            BY InsTyped, <1>0
          <6>2. u[1] # t
            BY <6>1, <5>1, <5>3, <3>3
          <6>3. M[u[1]] <= n - 1
            BY <6>1, <5>1, <5>3
          <6> QED  BY <6>1, <6>2, <6>3, <5>1, <5>3
        <5> QED  BY <5>1, <5>2, <5>3 DEF Ok
      <4>5. Good(st, D)
        BY <4>3, <4>4 DEF Good
      <4>6. 1 <= D[t] /\ D[t] = n
        BY <1>3
      <4>7. 1 <= M[t] /\ M[t] <= D[t]
        BY <4>1, <4>5, <4>6, <1>0
      <4> QED  BY <4>6, <4>7
    <3> QED  BY <3>2, <3>3
  <2>6. C[n][t] \in BOOLEAN /\ VerifyLevel(st, C[n - 1], n)[t] \in BOOLEAN
    BY DEF Closed, VerifyLevel
  <2> QED  BY <2>2, <2>4, <2>5, <2>6
<1> QED  BY <1>1, <1>2, <1>3

(* VerifyDepth(st) unfolds: verification at depth n is one level of      *)
(* verifyWithoutCacheWrites over the verdicts at depth n - 1.  The        *)
(* recursive definition denotes some function with this property, and    *)
(* Closed(st) shows there is one.                                          *)
LEMMA VerifyDepthUnfolds ==
    ASSUME NEW st, NEW n \in Nat
    PROVE  VerifyDepth(st)[n] = VerifyLevel(st, VerifyDepth(st)[n - 1], n)
<1>1. Closed(st) = [k \in Nat |-> VerifyLevel(st, Closed(st)[k - 1], k)]
  BY ClosedUnfolds DEF Closed
<1>2. \E V : V = [k \in Nat |-> VerifyLevel(st, V[k - 1], k)]
  BY <1>1
<1> QED  BY <1>2 DEF VerifyDepth

(* At depth 0 the verdicts of the parents are not looked at.               *)
LEMMA LevelZero ==
    ASSUME NEW st, NEW v, NEW w
    PROVE  VerifyLevel(st, v, 0) = VerifyLevel(st, w, 0)
BY DEF VerifyLevel

(* The recursion has a single solution: VerifyDepth(st) is the closed     *)
(* form at every depth.  By a least depth where they differ: not 0, where *)
(* no parent is looked at, nor m > 0, where they agree one level down.    *)
LEMMA VerifyDepthIsClosed ==
    ASSUME NEW st, NEW n \in Nat
    PROVE  VerifyDepth(st)[n] = Closed(st)[n]
<1> DEFINE VD == VerifyDepth(st)
           C == Closed(st)
           Bad == {k \in Nat : VD[k] # C[k]}
<1> SUFFICES Bad = {}
  OBVIOUS
<1> SUFFICES ASSUME Bad # {} PROVE FALSE
  OBVIOUS
<1>1. PICK m \in Bad : \A k \in Bad : m <= k
  BY NatHasLeast
<1>2. VD[m] = VerifyLevel(st, VD[m - 1], m) /\ C[m] = VerifyLevel(st, C[m - 1], m)
  BY VerifyDepthUnfolds, ClosedUnfolds
<1>3. CASE m = 0
  BY <1>1, <1>2, <1>3, LevelZero
<1>4. CASE m > 0
  <2>1. m - 1 \in Nat /\ m - 1 \notin Bad
    BY <1>1, <1>4
  <2> QED  BY <1>1, <1>2, <2>1
<1> QED  BY <1>3, <1>4

\* The transactions Least(st) gives a height, and the heights it uses.
Claimed(st) == {x \in TxIds : 1 <= Least(st)[x]}
UsedHeights(st) == {Least(st)[x] : x \in Claimed(st)}
\* The used heights up to h.
Below(st, h) == {g \in UsedHeights(st) : g <= h}

\* Least(st) uses at most as many heights as there are transactions.
LEMMA UsedHeightsBound ==
    ASSUME NEW st
    PROVE  /\ IsFiniteSet(UsedHeights(st))
           /\ Cardinality(UsedHeights(st)) <= Cardinality(TxIds)
<1>1. IsFiniteSet(Claimed(st)) /\ Cardinality(Claimed(st)) <= Cardinality(TxIds)
  BY ValidatorAssumption, FS_Subset DEF Claimed
<1>2. [x \in Claimed(st) |-> Least(st)[x]] \in Surjection(Claimed(st), UsedHeights(st))
  BY DEF Surjection, UsedHeights
<1>3. IsFiniteSet(UsedHeights(st)) /\ Cardinality(UsedHeights(st)) <= Cardinality(Claimed(st))
  BY <1>1, <1>2, FS_Surjection
<1>4. Cardinality(UsedHeights(st)) \in Nat /\ Cardinality(Claimed(st)) \in Nat
      /\ Cardinality(TxIds) \in Nat
  BY <1>1, <1>3, ValidatorAssumption, FS_CardinalityType
<1> QED  BY <1>1, <1>3, <1>4

(* No transaction needs more than Cardinality(TxIds) levels of getUTXO:   *)
(* ranking each used height among the used heights is again a good        *)
(* labelling, with heights at most the number of transactions.           *)
LEMMA LeastBounded ==
    ASSUME NEW st, NEW x \in TxIds
    PROVE  Least(st)[x] <= Cardinality(TxIds)
<1> DEFINE M == Least(st)
           H == UsedHeights(st)
           K == Cardinality(TxIds)
           D == [y \in TxIds |-> IF 1 <= M[y] THEN Cardinality(Below(st, M[y])) ELSE 0]
<1>0. /\ M \in [TxIds -> Nat]
      /\ \A E \in [TxIds -> Nat] : Good(st, E) =>
           \A y \in TxIds : 1 <= E[y] => 1 <= M[y] /\ M[y] <= E[y]
      /\ Good(st, M)
  BY LeastGood
<1>1. IsFiniteSet(H) /\ Cardinality(H) <= K /\ Cardinality(H) \in Nat /\ K \in Nat
  BY UsedHeightsBound, ValidatorAssumption, FS_CardinalityType
<1>2. ASSUME NEW y \in TxIds, 1 <= M[y]
      PROVE  /\ IsFiniteSet(Below(st, M[y]))
             /\ Cardinality(Below(st, M[y])) \in Nat
             /\ 1 <= Cardinality(Below(st, M[y]))
             /\ Cardinality(Below(st, M[y])) <= Cardinality(H)
  <2>1. Below(st, M[y]) \subseteq H /\ M[y] \in Below(st, M[y])
    BY <1>2, <1>0 DEF Below, UsedHeights, Claimed
  <2>2. IsFiniteSet(Below(st, M[y])) /\ Cardinality(Below(st, M[y])) <= Cardinality(H)
    BY <1>1, <2>1, FS_Subset
  <2>3. Cardinality(Below(st, M[y])) \in Nat /\ Cardinality(Below(st, M[y])) # 0
    BY <2>1, <2>2, FS_CardinalityType, FS_EmptySet
  <2> QED  BY <2>2, <2>3
<1>3. ASSUME NEW y \in TxIds, NEW z \in TxIds, 1 <= M[y], M[y] < M[z]
      PROVE  Cardinality(Below(st, M[y])) < Cardinality(Below(st, M[z]))
  <2>1. 1 <= M[z]
    BY <1>3, <1>0
  <2>2. Below(st, M[y]) \subseteq Below(st, M[z]) /\ M[z] \in Below(st, M[z])
        /\ M[z] \notin Below(st, M[y])
    BY <1>3, <2>1, <1>0 DEF Below, UsedHeights, Claimed
  <2>3. IsFiniteSet(Below(st, M[z]))
    BY <2>1, <1>2
  <2>4. Cardinality(Below(st, M[y])) <= Cardinality(Below(st, M[z]))
        /\ Cardinality(Below(st, M[y])) # Cardinality(Below(st, M[z]))
    BY <2>2, <2>3, FS_Subset
  <2> QED  BY <2>4, <1>2, <1>3, <2>1
<1>4. D \in [TxIds -> Nat]
  BY <1>2
<1>5. Good(st, D)
  <2> SUFFICES ASSUME NEW y \in TxIds, 1 <= D[y] PROVE Ok(st, D, y)
    BY DEF Good
  <2>1. 1 <= M[y]
    BY <1>0
  <2>2. Ok(st, M, y)
    BY <2>1, <1>0 DEF Good
  <2>3. ASSUME NEW u \in Ins[y], 1 <= M[u[1]], M[u[1]] < M[y]
        PROVE  1 <= D[u[1]] /\ D[u[1]] < D[y]
    BY <2>1, <2>3, <1>2, <1>3, InsTyped
  <2> QED  BY <2>1, <2>2, <2>3 DEF Ok
<1>6. CASE 1 <= M[x]
  <2>1. M[x] <= D[x]
    BY <1>6, <1>0, <1>4, <1>5, <1>2
  <2> QED  BY <1>6, <2>1, <1>1, <1>2, <1>0
<1>7. CASE ~(1 <= M[x])
  BY <1>7, <1>0, <1>1
<1> QED  BY <1>6, <1>7

(* Depth Cardinality(TxIds) is the code's unbounded recursion through     *)
(* getUTXO: looking deeper changes no verdict.  This is what lets the     *)
(* model cut verifyWithoutCacheWrites at that depth.                      *)
THEOREM DepthSuffices ==
    ASSUME NEW st, NEW n \in Nat, n >= Cardinality(TxIds)
    PROVE  VerifyDepth(st)[n] = VerifyAt(st)
<1>1. Cardinality(TxIds) \in Nat
  BY ValidatorAssumption, FS_CardinalityType
<1>2. VerifyDepth(st)[n] = Closed(st)[n]
       /\ VerifyAt(st) = Closed(st)[Cardinality(TxIds)]
  BY <1>1, VerifyDepthIsClosed DEF VerifyAt
<1>3. \A t \in TxIds : Least(st)[t] \in Nat /\ Least(st)[t] <= Cardinality(TxIds)
  BY LeastBounded, LeastGood
<1> QED  BY <1>1, <1>2, <1>3 DEF Closed

-----------------------------------------------------------------------------
\* Consumed, the property's name for the outputs accepted txs spend, is Spent.
LEMMA ConsumedIsSpent == Consumed = Spent
BY DEF Consumed, Spent, AccSet

(* Under the refinement invariant, what the VM verifies spends live       *)
(* outputs: an input found in the UTXO set is an unspent output of an     *)
(* accepted tx (UtxoExact); one getUTXO re-derives from its source is    *)
(* read from a tx that verifies one level down and is undecided, hence   *)
(* Processing, and no accepted tx spends it, for an accepted tx spends   *)
(* only outputs of accepted txs (SourcesAccepted).                        *)
LEMMA RInvVerifySpendsLive == RInv => VerifySpendsLive
<1> SUFFICES ASSUME RInv, NEW t \in TxIds, status[t] = "Processing", Verify(t),
                    NEW u \in Ins[t]
             PROVE  /\ u[2] < NumOuts[u[1]]
                    /\ status[u[1]] \in {"Processing", "Accepted"}
                    /\ u \notin Consumed
  BY DEF VerifySpendsLive
<1> DEFINE K == Cardinality(TxIds)
           VD == VerifyDepth(status)
<1>1. K \in Nat
  BY ValidatorAssumption, FS_CardinalityType
<1>2. VD[K][t]
  BY DEF Verify, VerifyAt
<1>3. K > 0 /\ GetUTXOOk(status, u, VD[K - 1])
  BY <1>1, <1>2, VerifyDepthUnfolds DEF VerifyLevel
<1>4. u[1] \in TxIds
  BY InsTyped
<1>5. CASE u \in utxos
  <2>1. PICK a \in AccSet : u \in Outputs(a)
    BY <1>5 DEF RInv, UtxoExact, Made
  <2>2. u[1] = a /\ u[2] < NumOuts[a] /\ status[a] = "Accepted"
    <3>1. NumOuts[a] \in Nat
      BY ValidatorAssumption DEF AccSet
    <3> QED  BY <2>1, <3>1 DEF Outputs, AccSet
  <2>3. u \notin Spent
    BY <1>5 DEF RInv, UtxoExact
  <2> QED  BY <2>2, <2>3, ConsumedIsSpent
<1>6. CASE u \notin utxos
  <2>1. VD[K - 1][u[1]] /\ ~Decided(status[u[1]]) /\ u[2] < NumOuts[u[1]]
    BY <1>3, <1>6 DEF GetUTXOOk
  <2>2. VD[K - 1] = VerifyLevel(status, VD[K - 2], K - 1)
    BY <1>1, <1>3, VerifyDepthUnfolds
  <2>3. status[u[1]] = "Processing"
    BY <2>1, <2>2, <1>4 DEF VerifyLevel, Decided
  <2>4. u \notin Spent
    BY <2>3 DEF RInv, SourcesAccepted, Spent
  <2> QED  BY <2>1, <2>3, <2>4, ConsumedIsSpent
<1> QED  BY <1>5, <1>6

(* Every transaction the VM verifies while it is Processing spends only   *)
(* live outputs (VerifySpendsLive), in every behaviour and for every      *)
(* transaction graph: getUTXO's fallback to an undecided parent never    *)
(* revives an output an accepted tx spent, nor reads past the parent's   *)
(* outputs or from a rejected parent.                                     *)
THEOREM VerifySpendsLiveHolds == Spec => []VerifySpendsLive
BY InitRInv, NextRInv, RInvVerifySpendsLive, PTL DEF Spec

=============================================================================
