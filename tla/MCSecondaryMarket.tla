------------------------- MODULE MCSecondaryMarket -------------------------
(***************************************************************************)
(* Instances of SecondaryMarket for TLC: one seller, one or two buyers.    *)
(* A unit is the least share that is traded; the ask is two per unit, and  *)
(* the fee of 20 percent rounds to zero for one unit and to one for two,   *)
(* so that _settle_trade runs with and without a platform fee.             *)
(***************************************************************************)
EXTENDS SecondaryMarket, TLC

CONSTANTS seller, buyer, other, l1, l2, b1, t1, t2, t3, h1, h2

MCSellerOf == [l \in Listings |-> seller]
MCUnitsOf  == [l \in Listings |-> IF l = l1 THEN 3 ELSE 2]
MCAskOf    == [l \in Listings |-> 2]

MCListingOfBid == [b \in Bids |-> l1]
MCBidderOf     == [b \in Bids |-> buyer]
MCBidUnits     == [b \in Bids |-> 2]
MCBidPrice     == [b \in Bids |-> 1]

MCPrimary ==
  [i \in Investors |-> CASE i = seller -> 4 [] i = buyer -> 1 [] OTHER -> 0]
MCCash ==
  [i \in Investors |-> CASE i = seller -> 0 [] i = buyer -> 5 [] OTHER -> 2]

(* A listing of all that the seller owns.                                  *)
MCUnitsTwo   == [l \in Listings |-> 2]
MCPrimaryTwo == [i \in Investors |-> IF i = seller THEN 2 ELSE 0]

(* Handlers and trade ids are interchangeable.                             *)
MCSymmetry == Permutations(Handlers) \cup Permutations(Trades)
=============================================================================
