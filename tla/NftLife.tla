------------------------------ MODULE NftLife ------------------------------
(***************************************************************************)
(* What nft.ts promises: an NFT that appears in one piece, then loses the  *)
(* field it should not have, then can no longer be minted, and only then   *)
(* gets its points (the numbered comments of mintNft).                     *)
(***************************************************************************)
EXTENDS Naturals

CONSTANTS
  Keys,          \* the metadata fields it is created with
  Surplus,       \* the one to remove
  PointsToAdd

VARIABLE nft

NoNft == [keys |-> {}, points |-> 0, mintable |-> FALSE, supply |-> 0]

Init == nft = NoNft

CreateTokenAndMint ==
  /\ nft = NoNft
  /\ nft' = [keys |-> Keys, points |-> 0, mintable |-> TRUE, supply |-> 1]

RemoveMetadataField ==
  /\ nft.mintable
  /\ Surplus \in nft.keys
  /\ nft' = [nft EXCEPT !.keys = @ \ {Surplus}]

RemoveAuthority ==
  /\ nft.mintable
  /\ Surplus \notin nft.keys
  /\ nft' = [nft EXCEPT !.mintable = FALSE]

IncrementPoints ==
  /\ nft.supply = 1
  /\ ~nft.mintable
  /\ nft.points = 0
  /\ nft' = [nft EXCEPT !.points = PointsToAdd]

Next ==
  CreateTokenAndMint \/ RemoveMetadataField \/ RemoveAuthority \/ IncrementPoints

Spec == Init /\ [][Next]_nft
=============================================================================
