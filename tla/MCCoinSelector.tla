--------------------------- MODULE MCCoinSelector ---------------------------
(***************************************************************************)
(* Amounts of 3 bits (MaxU = 7), two assets, and eight UTXOs whose ids do  *)
(* not follow every list order, so that sorting matters.  Asset 1 has two  *)
(* spendable transfers of 4 and 5 (their sum overflows) and one the        *)
(* keychain cannot sign; asset 2 has one transfer of 3 and two mint        *)
(* outputs; asset 1 has an NFT transfer of group 1 and an NFT mint output. *)
(* Lists of up to three UTXOs reach every branch of every scan.           *)
(***************************************************************************)
EXTENDS CoinSelector

U(id, asset, kind, amt, group, owned) ==
    [id |-> id, asset |-> asset, kind |-> kind, amt |-> amt, group |-> group, owned |-> owned]

MCPool ==
    { U(2, 1, "transfer", 4, 0, TRUE),
      U(1, 1, "transfer", 5, 0, TRUE),
      U(3, 1, "transfer", 3, 0, FALSE),
      U(4, 2, "transfer", 3, 0, TRUE),
      U(6, 2, "mint", 0, 0, TRUE),
      U(5, 2, "mint", 0, 0, TRUE),
      U(7, 1, "nftTransfer", 0, 1, TRUE),
      U(8, 1, "nftMint", 0, 0, TRUE) }

MCAssets == {1, 2}

MCSpendReqs == [MCAssets -> {0, 3, 6}]

MCMintReqs == [MCAssets -> {0, 3}]

=============================================================================
