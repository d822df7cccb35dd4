---------------------------- MODULE CoinSelector ----------------------------
(***************************************************************************)
(* The coin-selection algorithms of the AVM (Spend, SpendAll, Mint,        *)
(* SpendNFT, MintNFT in src/unnamed/part_002, vm.go).  Each scans the      *)
(* user's UTXO list in the order LoadUser returned it and is a fold over  *)
(* that list; each is checked against a declarative reference definition  *)
(* of what it selects.                                                     *)
(*                                                                         *)
(* A UTXO is a record: id (the rank of its UTXOID in the canonical sort    *)
(* order), asset, kind of output (secp256k1fx transfer or mint output,     *)
(* nftfx transfer or mint output), amount, NFT group, and owned, whether  *)
(* the keychain can spend it now (kc.Spend / kc.Match succeed).  Amounts  *)
(* are unsigned integers of Width bits: safemath.Add64 fails past MaxU.   *)
(* The signer lists travel with their inputs and are left out.            *)
(***************************************************************************)
EXTENDS Naturals, Sequences, SequencesExt, FiniteSets

CONSTANTS
    Assets,      \* asset IDs, ordered as their bytes are
    Pool,        \* the UTXOs a user may hold
    MaxLen,      \* the longest UTXO list LoadUser returns
    Width,       \* the width of an amount in bits (64 in the code)
    SpendReqs,   \* the amount maps Spend is asked for
    MintReqs,    \* the amount maps Mint is asked for
    Groups       \* NFT group IDs

Kinds == {"transfer", "mint", "nftTransfer", "nftMint"}

UTXOs == [id : Nat, asset : Assets, kind : Kinds, amt : Nat, group : Groups, owned : BOOLEAN]

ASSUME CoinSelectorAssumption ==
    /\ Assets \subseteq Nat
    /\ Pool \subseteq UTXOs
    /\ \A u, v \in Pool : u.id = v.id => u = v
    /\ MaxLen \in Nat /\ Width \in Nat \ {0}
    /\ SpendReqs \subseteq [Assets -> Nat]
    /\ MintReqs \subseteq [Assets -> Nat]

\* The largest amount: safemath.Add64 errors when a sum exceeds it.
MaxU == 2^Width - 1

\* The UTXO lists LoadUser can return: distinct UTXOs in state order.
Lists == {s \in BoundedSeq(Pool, MaxLen) : IsInjective(s)}

VARIABLES
    utxos,   \* the UTXO list handed to the coin selector
    last     \* the last call: its name, arguments and result

vars == <<utxos, last>>

NoCall == [call |-> "none"]

-----------------------------------------------------------------------------
(* keychain outcomes                                                       *)

(* kc.Spend returns an input with an amount (djtx.TransferableIn) only for *)
(* a secp256k1fx transfer output it can sign for; a mint output gives a    *)
(* secp256k1fx.Input without an amount; NFT outputs are not its type.     *)
SpendableIn(u) == u.owned /\ u.kind = "transfer"

MintableIn(u) == u.owned /\ u.kind = "mint"

(* SortTransferableInputsWithSigners orders inputs by UTXOID.              *)
SortedIds(ids) == SetToSortSeq(ids, <)

(* SortOperationsWithSigners orders operations by their bytes, which      *)
(* start with the asset ID and then the UTXOIDs.                          *)
OpBefore(x, y) == x[1] < y[1] \/ (x[1] = y[1] /\ x[2] < y[2])

SortedOps(ops) == SetToSortSeq(ops, OpBefore)

Failed(e) == [err |-> e, spent |-> [a \in Assets |-> 0], sel |-> << >>]

-----------------------------------------------------------------------------
(* Spend(utxos, kc, amounts)                                               *)

(* Mutant: an asset counts as funded only once it is strictly exceeded.   *)
SpendStepOverfund(amounts, acc, u) ==
    CASE acc.err # "none" -> acc
      [] acc.spent[u.asset] > amounts[u.asset] \/ ~SpendableIn(u) -> acc
      [] acc.spent[u.asset] + u.amt > MaxU -> [acc EXCEPT !.err = "overflow"]
      [] OTHER -> [acc EXCEPT !.spent[u.asset] = @ + u.amt, !.sel = Append(@, u.id)]

(* One iteration of the scan: skip funded assets and UTXOs the keychain   *)
(* cannot spend as an amount, stop with errSpendOverflow when Add64       *)
(* fails, otherwise take the UTXO.                                         *)
SpendStep(amounts, acc, u) ==
    CASE acc.err # "none" -> acc
      [] acc.spent[u.asset] >= amounts[u.asset] \/ ~SpendableIn(u) -> acc
      [] acc.spent[u.asset] + u.amt > MaxU -> [acc EXCEPT !.err = "overflow"]
      [] OTHER -> [acc EXCEPT !.spent[u.asset] = @ + u.amt, !.sel = Append(@, u.id)]

(* The scan, then every requested asset must be covered, then the inputs  *)
(* are sorted.                                                             *)
Spend(list, amounts) ==
    LET r == FoldLeft(LAMBDA acc, u : SpendStep(amounts, acc, u),
                      Failed("none"), list)
    IN  CASE r.err # "none" -> Failed(r.err)
          [] \E a \in Assets : r.spent[a] < amounts[a] -> Failed("insufficient")
          [] OTHER -> [r EXCEPT !.sel = SortedIds(Range(@))]

(* SpendAll(utxos, kc): the same scan with no amounts to reach.            *)
(* Mutant: a plain uint64 addition, wrapping, in place of safemath.Add64.  *)
SpendAllStepWrapping(acc, u) ==
    IF acc.err # "none" \/ ~SpendableIn(u) THEN acc
    ELSE [acc EXCEPT !.spent[u.asset] = (@ + u.amt) % (MaxU + 1), !.sel = Append(@, u.id)]

SpendAllStep(acc, u) ==
    CASE acc.err # "none" \/ ~SpendableIn(u) -> acc
      [] acc.spent[u.asset] + u.amt > MaxU -> [acc EXCEPT !.err = "overflow"]
      [] OTHER -> [acc EXCEPT !.spent[u.asset] = @ + u.amt, !.sel = Append(@, u.id)]

SpendAll(list) ==
    LET r == FoldLeft(SpendAllStep, Failed("none"), list)
    IN  IF r.err # "none" THEN Failed(r.err) ELSE [r EXCEPT !.sel = SortedIds(Range(@))]

-----------------------------------------------------------------------------
(* Mint(utxos, kc, amounts, to): one mint operation per requested asset,  *)
(* from the first mint output of it the keychain can spend; the asset is  *)
(* then deleted from the caller's amounts map.  An operation is           *)
(* <<asset, UTXO id, amount minted>>.                                      *)

(* Mutant: the asset is not deleted from the amounts map.                 *)
MintStepNoDelete(acc, u) ==
    IF acc.left[u.asset] = 0 \/ ~MintableIn(u) THEN acc
    ELSE [acc EXCEPT !.ops = @ \cup {<<u.asset, u.id, acc.left[u.asset]>>}]

MintStep(acc, u) ==
    IF acc.left[u.asset] = 0 \/ ~MintableIn(u) THEN acc
    ELSE [acc EXCEPT !.ops = @ \cup {<<u.asset, u.id, acc.left[u.asset]>>},
                     !.left[u.asset] = 0]

Mint(list, amounts) ==
    LET r == FoldLeft(MintStep, [left |-> amounts, ops |-> {}], list)
    IN  IF \E a \in Assets : r.left[a] > 0
          THEN Failed("cantMint")
          ELSE [Failed("none") EXCEPT !.sel = SortedOps(r.ops)]

(* SpendNFT(utxos, kc, assetID, groupID, to) and MintNFT(utxos, kc,       *)
(* assetID, payload, to): the first matching output the keychain can sign *)
(* for (kc.Match) gives the one operation, and the scan breaks.           *)
(* Mutant: SpendNFT without the `out.GroupID != groupID` check.           *)
NFTMatchAnyGroup(u, asset, kind, group) ==
    u.asset = asset /\ u.kind = kind /\ u.owned

NFTMatch(u, asset, kind, group) ==
    /\ u.asset = asset /\ u.kind = kind /\ u.owned
    /\ kind = "nftTransfer" => u.group = group

FirstMatchStep(asset, kind, group, acc, u) ==
    IF acc = << >> /\ NFTMatch(u, asset, kind, group) THEN <<<<u.asset, u.id>>>> ELSE acc

FirstMatch(list, asset, kind, group, e) ==
    LET ops == FoldLeft(LAMBDA acc, u : FirstMatchStep(asset, kind, group, acc, u), << >>, list)
    IN  IF ops = << >> THEN Failed(e) ELSE [Failed("none") EXCEPT !.sel = ops]

SpendNFT(list, asset, group) == FirstMatch(list, asset, "nftTransfer", group, "insufficient")

MintNFT(list, asset) == FirstMatch(list, asset, "nftMint", 0, "cantMint")

-----------------------------------------------------------------------------
(* Each caller of the VM's coin selection is an action; the argument sets *)
(* are small.                                                              *)

Record(name, args, res) == last' = [call |-> name, list |-> utxos, args |-> args, res |-> res]

CallSpend ==
    \E amounts \in SpendReqs : Record("Spend", amounts, Spend(utxos, amounts))

CallSpendAll == Record("SpendAll", << >>, SpendAll(utxos))

CallMint ==
    \E amounts \in MintReqs : Record("Mint", amounts, Mint(utxos, amounts))

CallSpendNFT ==
    \E asset \in Assets, group \in Groups :
        Record("SpendNFT", <<asset, group>>, SpendNFT(utxos, asset, group))

CallMintNFT ==
    \E asset \in Assets : Record("MintNFT", asset, MintNFT(utxos, asset))

(* LoadUser: the UTXOs of the user's addresses, in state order.            *)
Init ==
    /\ utxos \in Lists
    /\ last = NoCall

Next ==
    /\ \/ CallSpend \/ CallSpendAll \/ CallMint \/ CallSpendNFT \/ CallMintNFT
    /\ UNCHANGED utxos

Spec == Init /\ [][Next]_vars

-----------------------------------------------------------------------------
(* Reference definitions: what each selector should return, stated over   *)
(* positions of the list rather than as a scan.                           *)

\* The sum of the amounts at a set of positions.
AmountAt(list, P) == MapThenSumSet(LAMBDA j : list[j].amt, P)

\* The spendable positions of asset a before position i.
SpendableBefore(list, a, i) ==
    {j \in 1..(i - 1) : SpendableIn(list[j]) /\ list[j].asset = a}

(* A spendable UTXO of asset a is selected when what precedes it of a     *)
(* does not yet reach the amount requested.                               *)
RefSelected(list, amounts, a) ==
    {i \in DOMAIN list :
        /\ SpendableIn(list[i]) /\ list[i].asset = a
        /\ AmountAt(list, SpendableBefore(list, a, i)) < amounts[a]}

RefSpend(list, amounts) ==
    LET sel(a) == RefSelected(list, amounts, a)
        total(a) == AmountAt(list, sel(a))
    IN  CASE \E a \in Assets : \E i \in sel(a) :
                 AmountAt(list, SpendableBefore(list, a, i)) + list[i].amt > MaxU
               -> Failed("overflow")
          [] \E a \in Assets : total(a) < amounts[a] -> Failed("insufficient")
          [] OTHER -> [err |-> "none", spent |-> [a \in Assets |-> total(a)],
                       sel |-> SortedIds({list[i].id : i \in UNION {sel(a) : a \in Assets}})]

RefSpendAll(list) ==
    LET all(a) == {i \in DOMAIN list : SpendableIn(list[i]) /\ list[i].asset = a}
    IN  IF \E a \in Assets : AmountAt(list, all(a)) > MaxU
          THEN Failed("overflow")
          ELSE [err |-> "none", spent |-> [a \in Assets |-> AmountAt(list, all(a))],
                sel |-> SortedIds({list[i].id : i \in UNION {all(a) : a \in Assets}})]

\* The first mintable position of asset a, or 0.
FirstMintable(list, a) == SelectInSeq(list, LAMBDA u : MintableIn(u) /\ u.asset = a)

RefMint(list, amounts) ==
    LET wanted == {a \in Assets : amounts[a] > 0}
    IN  IF \E a \in wanted : FirstMintable(list, a) = 0
          THEN Failed("cantMint")
          ELSE [Failed("none") EXCEPT !.sel =
                   SortedOps({<<a, list[FirstMintable(list, a)].id, amounts[a]>> : a \in wanted})]

RefFirstMatch(list, asset, kind, group, e) ==
    LET fits(u) == /\ u.owned /\ u.asset = asset /\ u.kind = kind
                   /\ (kind = "nftTransfer" => u.group = group)
        i == SelectInSeq(list, fits)
    IN  IF i = 0 THEN Failed(e) ELSE [Failed("none") EXCEPT !.sel = <<<<asset, list[i].id>>>>]

-----------------------------------------------------------------------------
(* Properties                                                              *)

(* Spend takes, per asset, exactly the spendable UTXOs met before the     *)
(* request is reached, fails whole (no partial result) when an asset      *)
(* falls short or an accumulated amount would pass 2^Width - 1, and       *)
(* returns the inputs in UTXOID order.                                     *)
SpendMatchesReference ==
    last.call = "Spend" => last.res = RefSpend(last.list, last.args)

(* SpendAll takes every spendable UTXO, fails on an overflowing asset     *)
(* total, and returns the inputs in UTXOID order.                         *)
SpendAllMatchesReference ==
    last.call = "SpendAll" => last.res = RefSpendAll(last.list)

(* Mint builds exactly one operation per requested asset, from its first  *)
(* mintable output, minting the requested amount once; it fails when a    *)
(* requested asset has no mintable output.                                 *)
MintMatchesReference ==
    last.call = "Mint" => last.res = RefMint(last.list, last.args)

(* SpendNFT and MintNFT return the operation of the first matching output *)
(* the keychain can sign for, and fail when there is none.                *)
NFTMatchesReference ==
    /\ last.call = "SpendNFT" =>
         last.res = RefFirstMatch(last.list, last.args[1], "nftTransfer", last.args[2], "insufficient")
    /\ last.call = "MintNFT" =>
         last.res = RefFirstMatch(last.list, last.args, "nftMint", 0, "cantMint")

=============================================================================
