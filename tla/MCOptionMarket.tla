--------------------------- MODULE MCOptionMarket ---------------------------
(***************************************************************************)
(* Small instances of OptionMarket.  Strings are kept for the names, with  *)
(* their true lengths; numbers are scaled down: a contract has 2 shares    *)
(* instead of 100 and a u64 ends at a single digit, so that an overflow, a *)
(* balance that is too small and an exact match are all a few steps away.  *)
(***************************************************************************)
EXTENDS OptionMarket, TLC

CONSTANTS s1, s2   \* the two signers

MCNameLen ==
  [s \in {"owner-0", "an id of 21 bytes....", "Bitcoin", ""} |->
     CASE s = "" -> 0
       [] s = "an id of 21 bytes...." -> 21
       [] OTHER -> 7]

MCAssetNames == {"Bitcoin", ""}

\* Terms over MC's options: a price list, an expiry list, a strike list.
Terms(asset, strikes, prices, expiries) ==
  [asset_name |-> asset, is_call |-> TRUE,
   strike_prices |-> [x \in Slots |-> strikes[x + 1]],
   ctrt_prices |-> [x \in Slots |-> prices[x + 1]],
   expiry_times |-> [x \in Slots |-> expiries[x + 1]]]

\* Two acceptable price lists and one listing for each reason to refuse.
MCListings ==
  { Terms("Bitcoin", <<1, 1>>, <<1, 2>>, <<1, 2>>),
    Terms("Bitcoin", <<1, 1>>, <<2, 1>>, <<2, 2>>),
    Terms("", <<1, 1>>, <<1, 1>>, <<2, 2>>),
    Terms("Bitcoin", <<1, 0>>, <<1, 1>>, <<2, 2>>),
    Terms("Bitcoin", <<1, 1>>, <<0, 1>>, <<2, 2>>),
    Terms("Bitcoin", <<1, 1>>, <<1, 1>>, <<2, 0>>) }

\* What an earlier build, whose init_config stored the mint, left behind.
MCEarlierConfigs ==
  { [ZeroConfig EXCEPT !.unique = s, !.prog_owner = s, !.admin = s,
                       !.mint = Mint, !.token_program = TokenProgram] :
      s \in Signers }

MCInitialTokens == [s \in Signers |-> 4]

MCSymmetry == Permutations(Signers)
=============================================================================
