-------------------------- MODULE SecondaryMarket --------------------------
(***************************************************************************)
(* The secondary market of one asset (backend/lumen_secondary.py):         *)
(* listings, bids, trades, and the settlement of a trade, which moves      *)
(* money through the ledger and shares through share_transfers.            *)
(*                                                                         *)
(* As in LumenWallet a handler is a coroutine that gives up the event loop *)
(* at each database call, and one action is the code up to and including   *)
(* one call.  Units and money are integers; an identifier of a listing or  *)
(* of a bid stands for what its author asks for.                           *)
(***************************************************************************)
EXTENDS Integers, Sequences, FiniteSets, Functions

CONSTANTS
  Investors,     \* investor ids
  Listings,      \* listing ids
  Bids,          \* bid ids
  Trades,        \* trade ids
  Handlers,      \* coroutines serving HTTP requests
  None,          \* no listing, bid, trade or investor
  SellerOf,      \* the seller of each listing
  UnitsOf,       \* the units_uah of each listing
  AskOf,         \* the price_per_unit of each listing
  ListingOfBid,  \* the listing of each bid
  BidderOf,      \* the buyer of each bid
  BidUnits,      \* the units of each bid
  BidPrice,      \* the price of each bid
  BuyUnits,      \* units a buy-now may ask for
  MinListing,    \* MIN_LISTING_UAH
  FeePct,        \* PLATFORM_FEE_PCT in percent
  Slack,         \* the 0.5 by which comparisons may be exceeded
  Primary,       \* active primary investment of each investor
  Cash,          \* net of the other ledger entries of each investor
  MaxFailures    \* bound on handlers lost and recomputes failed

ASSUME MarketAssumption ==
  /\ IsFiniteSet(Listings) /\ IsFiniteSet(Trades)  \* ids of 12 hex digits
  /\ SellerOf \in [Listings -> Investors]
  /\ UnitsOf \in [Listings -> Nat]
  /\ AskOf \in [Listings -> Nat]
  /\ ListingOfBid \in [Bids -> Listings]
  /\ BidderOf \in [Bids -> Investors]
  /\ BidUnits \in [Bids -> Nat]
  /\ BidPrice \in [Bids -> Nat]
  /\ BuyUnits \subseteq Nat
  /\ MinListing \in Nat
  /\ FeePct \in Nat
  /\ Slack \in Nat
  /\ Primary \in [Investors -> Nat]
  /\ Cash \in [Investors -> Nat]
  /\ MaxFailures \in Nat
  /\ None \notin Investors \cup Listings \cup Bids \cup Trades

VARIABLES
  listing,    \* lumen_secondary_listings: status and filled_units_uah
  bid,        \* lumen_secondary_bids: status
  trade,      \* lumen_secondary_trades
  booked,     \* ledger entries of each trade, counted by reason
  transfers,  \* share_transfers of each trade, counted
  row,        \* lumen_ownerships.amount_uah
  wallet,     \* lumen_wallets.settled_balance
  pc,         \* the call each handler waits for
  work,       \* the listing, bid and trade a handler works on
  order,      \* the trade a handler is about to insert
  seen,       \* what a handler has read
  todo,       \* wallets a handler has yet to recompute
  failures    \* handlers lost and recomputes failed so far

store == <<listing, bid, trade, booked, transfers, row, wallet>>
local == <<pc, work, order, seen, todo>>
vars  == <<store, local, failures>>

Absent == "absent"             \* the document has not been inserted

ListingStatuses == {"active", "partially_filled", "filled", "cancelled"}
Open            == {"active", "partially_filled"}
BidStatuses     == {"active", "accepted", "rejected", "cancelled"}
TradeStatuses   == {"pending", "settled", "failed"}
Reasons         == {"secondary_purchase", "secondary_sale", "platform_fee"}

Fresh   == [listing |-> None, bid |-> None, trade |-> None]
NoOrder == [status |-> Absent, listing |-> None, bid |-> None,
            buyer |-> None, units |-> 0, price |-> 0]
Unread  == [filled |-> 0, seller |-> 0, buyer |-> 0, cash |-> 0]

-----------------------------------------------------------------------------
(* Amounts of a trade, and the truths computed from transfers and ledger.  *)

Gross(t) == t.units * t.price
Fee(t)   == (Gross(t) * FeePct + 50) \div 100     \* rounded to the nearest
Seller(t) == SellerOf[t.listing]

Of(P(_)) == {t \in Trades : trade[t].status # Absent /\ P(trade[t])}
Bought(i) == Of(LAMBDA t : t.buyer = i)
Sold(i)   == Of(LAMBDA t : Seller(t) = i)

(* What each trade has moved.                                              *)
Shares   == [t \in Trades |-> transfers[t] * trade[t].units]
Paid     == [t \in Trades |-> booked[t]["secondary_purchase"] * Gross(trade[t])]
Received == [t \in Trades |-> booked[t]["secondary_sale"]
                                * (Gross(trade[t]) - Fee(trade[t]))]

(* compute_ownership_uah                                                   *)
Owned(i) == Primary[i] + SumFunctionOnSet(Shares, Bought(i))
                       - SumFunctionOnSet(Shares, Sold(i))

(* settled_balance of lumen_wallet.py                                      *)
LedgerSettled(i) == Cash[i] - SumFunctionOnSet(Paid, Bought(i))
                            + SumFunctionOnSet(Received, Sold(i))

Remaining(l) == UnitsOf[l] - listing[l].filled

OpenListings(i) ==
  {l \in Listings : SellerOf[l] = i /\ listing[l].status \in Open}

(* listed_units_uah                                                        *)
Listed(i) ==
  SumFunctionOnSet([l \in Listings |-> IF Remaining(l) > 0 THEN Remaining(l) ELSE 0],
                   OpenListings(i))

Init ==
  /\ listing   = [l \in Listings |-> [status |-> Absent, filled |-> 0]]
  /\ bid       = [b \in Bids |-> Absent]
  /\ trade     = [t \in Trades |-> NoOrder]
  /\ booked    = [t \in Trades |-> [k \in Reasons |-> 0]]
  /\ transfers = [t \in Trades |-> 0]
  /\ row       = Primary
  /\ wallet    = Cash
  /\ pc        = [h \in Handlers |-> "idle"]
  /\ work      = [h \in Handlers |-> Fresh]
  /\ order     = [h \in Handlers |-> NoOrder]
  /\ seen      = [h \in Handlers |-> Unread]
  /\ todo      = [h \in Handlers |-> <<>>]
  /\ failures  = 0

-----------------------------------------------------------------------------
(* Control of one handler.                                                 *)

Goto(h, from, to) ==
  /\ pc[h] = from
  /\ pc' = [pc EXCEPT ![h] = to]

(* The handler answers, raises or dies; what it had read is gone.          *)
Finish(h) ==
  /\ pc'    = [pc EXCEPT ![h] = "idle"]
  /\ work'  = [work EXCEPT ![h] = Fresh]
  /\ order' = [order EXCEPT ![h] = NoOrder]
  /\ seen'  = [seen EXCEPT ![h] = Unread]
  /\ todo'  = [todo EXCEPT ![h] = <<>>]

-----------------------------------------------------------------------------
(* create_listing and cancel_listing.                                      *)

ListReadOwned(h, l) ==
  /\ Goto(h, "idle", "list_check")
  /\ listing[l].status = Absent
  /\ \A g \in Handlers : work[g].listing # l      \* the id is a fresh uuid
  /\ UnitsOf[l] >= MinListing
  /\ work' = [work EXCEPT ![h].listing = l]
  /\ seen' = [seen EXCEPT ![h].seller = Owned(SellerOf[l])]
  /\ UNCHANGED <<store, order, todo, failures>>

(* Mutant: what other listings lock is not subtracted.                     *)
ListReadListedIgnored(h) ==
  /\ pc[h] = "list_check"
  /\ LET l == work[h].listing
     IN  \/ /\ UnitsOf[l] <= seen[h].seller + Slack
            /\ Goto(h, "list_check", "list_insert")
            /\ UNCHANGED <<work, order, seen, todo>>
         \/ /\ UnitsOf[l] > seen[h].seller + Slack
            /\ Finish(h)
  /\ UNCHANGED <<store, failures>>

ListReadListed(h) ==
  /\ pc[h] = "list_check"
  /\ LET l    == work[h].listing
         free == seen[h].seller - Listed(SellerOf[l])
     IN  \/ /\ UnitsOf[l] <= free + Slack
            /\ Goto(h, "list_check", "list_insert")
            /\ UNCHANGED <<work, order, seen, todo>>
         \/ /\ UnitsOf[l] > free + Slack
            /\ Finish(h)
  /\ UNCHANGED <<store, failures>>

ListInsert(h) ==
  /\ pc[h] = "list_insert"
  /\ listing' = [listing EXCEPT ![work[h].listing] =
                   [status |-> "active", filled |-> 0]]
  /\ Finish(h)
  /\ UNCHANGED <<bid, trade, booked, transfers, row, wallet, failures>>

(* Mutant: a filled listing may be cancelled.                              *)
UnlistReadFilled(h, l) ==
  /\ Goto(h, "idle", "unlist_write")
  /\ listing[l].status \in Open \cup {"filled"}
  /\ work' = [work EXCEPT ![h].listing = l]
  /\ UNCHANGED <<store, order, seen, todo, failures>>

UnlistRead(h, l) ==
  /\ Goto(h, "idle", "unlist_write")
  /\ listing[l].status \in Open
  /\ work' = [work EXCEPT ![h].listing = l]
  /\ UNCHANGED <<store, order, seen, todo, failures>>

UnlistWrite(h) ==
  /\ pc[h] = "unlist_write"
  /\ listing' = [listing EXCEPT ![work[h].listing].status = "cancelled"]
  /\ Finish(h)
  /\ UNCHANGED <<bid, trade, booked, transfers, row, wallet, failures>>

-----------------------------------------------------------------------------
(* create_bid_or_buy: a price below the ask is an offer, the ask itself is *)
(* a purchase.                                                             *)

(* Mutant: the units are compared with the whole listing.                  *)
MayBuyWhole(l, buyer, units) ==
  /\ listing[l].status \in Open
  /\ SellerOf[l] # buyer
  /\ units <= UnitsOf[l] + Slack

MayBuy(l, buyer, units) ==
  /\ listing[l].status \in Open
  /\ SellerOf[l] # buyer
  /\ units <= Remaining(l) + Slack

(* Bound: a purchase or an acceptance begins while trade ids are left.     *)
TradesLeft ==
  Cardinality({g \in Handlers : pc[g] \in {"buy_check", "buy_insert",
                                         "accept_listing", "accept_insert"}})
    < Cardinality({t \in Trades : trade[t].status = Absent})

BidRead(h, b) ==
  /\ Goto(h, "idle", "bid_insert")
  /\ bid[b] = Absent
  /\ \A g \in Handlers : work[g].bid # b          \* the id is a fresh uuid
  /\ MayBuy(ListingOfBid[b], BidderOf[b], BidUnits[b])
  /\ BidPrice[b] < AskOf[ListingOfBid[b]]
  /\ work' = [work EXCEPT ![h].bid = b]
  /\ UNCHANGED <<store, order, seen, todo, failures>>

BidInsert(h) ==
  /\ pc[h] = "bid_insert"
  /\ bid' = [bid EXCEPT ![work[h].bid] = "active"]
  /\ Finish(h)
  /\ UNCHANGED <<listing, trade, booked, transfers, row, wallet, failures>>

BuyRead(h, l, buyer, units) ==
  /\ Goto(h, "idle", "buy_check")
  /\ TradesLeft
  /\ MayBuy(l, buyer, units)
  /\ order' = [order EXCEPT ![h] =
                 [status |-> "pending", listing |-> l, bid |-> None,
                  buyer |-> buyer, units |-> units, price |-> AskOf[l]]]
  /\ UNCHANGED <<store, work, seen, todo, failures>>

(* Mutant: what the seller will get is compared with the balance.          *)
AffordsNet(t) == Gross(t) - Fee(t) <= wallet[t.buyer] + Slack

(* The buyer's settled balance pays, the reserve of withdrawals included.  *)
Affords(t) == Gross(t) <= wallet[t.buyer] + Slack

BuyCheck(h) ==
  /\ pc[h] = "buy_check"
  /\ \/ Affords(order[h]) /\ Goto(h, "buy_check", "buy_insert")
                          /\ UNCHANGED <<work, order, seen, todo>>
     \/ ~Affords(order[h]) /\ Finish(h)
  /\ UNCHANGED <<store, failures>>

(* A trade is inserted under a fresh uuid.                                 *)
InsertTrade(h, t) ==
  /\ trade[t].status = Absent
  /\ trade' = [trade EXCEPT ![t] = order[h]]
  /\ work' = [work EXCEPT ![h].trade = t]
  /\ order' = [order EXCEPT ![h] = NoOrder]

BuyInsert(h, t) ==
  /\ Goto(h, "buy_insert", "st_listing")
  /\ InsertTrade(h, t)
  /\ UNCHANGED <<listing, bid, booked, transfers, row, wallet>>
  /\ UNCHANGED <<seen, todo, failures>>

-----------------------------------------------------------------------------
(* cancel_bid, reject_bid and accept_bid.                                  *)

TakeBid(h, b, to) ==
  /\ Goto(h, "idle", to)
  /\ work' = [work EXCEPT ![h].bid = b]
  /\ UNCHANGED <<store, order, seen, todo, failures>>

CancelBidRead(h, b) == bid[b] = "active" /\ TakeBid(h, b, "unbid_write")

RejectBidRead(h, b) == bid[b] # Absent /\ TakeBid(h, b, "reject_write")

AcceptRead(h, b) ==
  bid[b] = "active" /\ TradesLeft /\ TakeBid(h, b, "accept_listing")

WriteBid(h, from, s) ==
  /\ pc[h] = from
  /\ bid' = [bid EXCEPT ![work[h].bid] = s]
  /\ Finish(h)
  /\ UNCHANGED <<listing, trade, booked, transfers, row, wallet, failures>>

CancelBidWrite(h) == WriteBid(h, "unbid_write", "cancelled")

RejectBidWrite(h) == WriteBid(h, "reject_write", "rejected")

(* The units a seller's acceptance trades, given the units remaining.      *)
AcceptedUnits(b, remaining) ==
  LET units == IF BidUnits[b] <= remaining THEN BidUnits[b] ELSE remaining
  IN  IF units < MinListing /\ units < remaining THEN remaining ELSE units

AcceptReadListing(h) ==
  LET b == work[h].bid
      l == ListingOfBid[b]
  IN  /\ pc[h] = "accept_listing"
      /\ \/ /\ listing[l].status \in Open
            /\ Goto(h, "accept_listing", "accept_insert")
            /\ order' = [order EXCEPT ![h] =
                 [status |-> "pending", listing |-> l, bid |-> b,
                  buyer |-> BidderOf[b], price |-> BidPrice[b],
                  units |-> AcceptedUnits(b, Remaining(l))]]
            /\ UNCHANGED <<work, seen, todo>>
         \/ listing[l].status \notin Open /\ Finish(h)
      /\ UNCHANGED <<store, failures>>

AcceptInsert(h, t) ==
  /\ Goto(h, "accept_insert", "accept_mark")
  /\ InsertTrade(h, t)
  /\ UNCHANGED <<listing, bid, booked, transfers, row, wallet>>
  /\ UNCHANGED <<seen, todo, failures>>

(* Mutant: an accepted bid stays active.                                   *)
AcceptMarkForgotten(h) ==
  /\ Goto(h, "accept_mark", "st_listing")
  /\ UNCHANGED <<store, work, order, seen, todo, failures>>

AcceptMark(h) ==
  /\ Goto(h, "accept_mark", "st_listing")
  /\ bid' = [bid EXCEPT ![work[h].bid] = "accepted"]
  /\ UNCHANGED <<listing, trade, booked, transfers, row, wallet>>
  /\ UNCHANGED <<work, order, seen, todo, failures>>

-----------------------------------------------------------------------------
(* _settle_trade.                                                          *)

Trade(h) == trade[work[h].trade]

SettleReadListing(h) ==
  /\ pc[h] = "st_listing"
  /\ \/ /\ listing[Trade(h).listing].status \in Open
        /\ Goto(h, "st_listing", "st_wallet")
        /\ seen' = [seen EXCEPT ![h].filled = listing[Trade(h).listing].filled]
        /\ UNCHANGED <<work, order, todo>>
     \/ listing[Trade(h).listing].status \notin Open /\ Finish(h)
  /\ UNCHANGED <<store, failures>>

(* Mutant: the settlement begins with the seller's credit.                 *)
SettleReadWalletNoDebit(h) ==
  /\ Goto(h, "st_wallet", IF Affords(Trade(h)) THEN "st_credit" ELSE "st_fail")
  /\ UNCHANGED <<store, work, order, seen, todo, failures>>

SettleReadWallet(h) ==
  /\ Goto(h, "st_wallet", IF Affords(Trade(h)) THEN "st_debit" ELSE "st_fail")
  /\ UNCHANGED <<store, work, order, seen, todo, failures>>

SettleFail(h) ==
  /\ pc[h] = "st_fail"
  /\ trade' = [trade EXCEPT ![work[h].trade].status = "failed"]
  /\ Finish(h)
  /\ UNCHANGED <<listing, bid, booked, transfers, row, wallet, failures>>

Book(h, reason) ==
  /\ booked' = [booked EXCEPT ![work[h].trade][reason] = @ + 1]
  /\ UNCHANGED <<listing, bid, trade, transfers, row, wallet>>
  /\ UNCHANGED <<work, order, seen, todo, failures>>

SettleDebit(h) ==
  /\ Goto(h, "st_debit", "st_credit")
  /\ Book(h, "secondary_purchase")

(* Mutant: without a fee the seller is not credited either.                *)
SettleCreditOnlyWithFee(h) ==
  /\ Goto(h, "st_credit", IF Fee(Trade(h)) > 0 THEN "st_fee" ELSE "st_transfer")
  /\ IF Fee(Trade(h)) > 0
     THEN Book(h, "secondary_sale")
     ELSE UNCHANGED <<store, work, order, seen, todo, failures>>

SettleCredit(h) ==
  /\ Goto(h, "st_credit", IF Fee(Trade(h)) > 0 THEN "st_fee" ELSE "st_transfer")
  /\ Book(h, "secondary_sale")

(* Mutant: a trade with a fee forgets the share transfer.                  *)
SettleFeeLast(h) ==
  /\ Goto(h, "st_fee", "st_seller_owned")
  /\ Book(h, "platform_fee")

SettleFee(h) ==
  /\ Goto(h, "st_fee", "st_transfer")
  /\ Book(h, "platform_fee")

SettleTransfer(h) ==
  /\ Goto(h, "st_transfer", "st_seller_owned")
  /\ transfers' = [transfers EXCEPT ![work[h].trade] = @ + 1]
  /\ UNCHANGED <<listing, bid, trade, booked, row, wallet>>
  /\ UNCHANGED <<work, order, seen, todo, failures>>

SettleReadSeller(h) ==
  /\ Goto(h, "st_seller_owned", "st_buyer_owned")
  /\ seen' = [seen EXCEPT ![h].seller = Owned(Seller(Trade(h)))]
  /\ UNCHANGED <<store, work, order, todo, failures>>

SettleReadBuyer(h) ==
  /\ Goto(h, "st_buyer_owned", "st_seller_row")
  /\ seen' = [seen EXCEPT ![h].buyer = Owned(Trade(h).buyer)]
  /\ UNCHANGED <<store, work, order, todo, failures>>

SettleSellerRow(h) ==
  /\ Goto(h, "st_seller_row", "st_buyer_row")
  /\ row' = [row EXCEPT ![Seller(Trade(h))] = seen[h].seller]
  /\ UNCHANGED <<listing, bid, trade, booked, transfers, wallet>>
  /\ UNCHANGED <<work, order, seen, todo, failures>>

(* Mutant: the buyer's row gets the units of the trade alone.              *)
SettleBuyerRowUnits(h) ==
  /\ Goto(h, "st_buyer_row", "w_read")
  /\ row' = [row EXCEPT ![Trade(h).buyer] = Trade(h).units]
  /\ todo' = [todo EXCEPT ![h] = <<Trade(h).buyer, Seller(Trade(h))>>]
  /\ UNCHANGED <<listing, bid, trade, booked, transfers, wallet>>
  /\ UNCHANGED <<work, order, seen, failures>>

(* Mutant: only the buyer's wallet is recomputed.                          *)
SettleBuyerRowOneWallet(h) ==
  /\ Goto(h, "st_buyer_row", "w_read")
  /\ row' = [row EXCEPT ![Trade(h).buyer] = seen[h].buyer]
  /\ todo' = [todo EXCEPT ![h] = <<Trade(h).buyer>>]
  /\ UNCHANGED <<listing, bid, trade, booked, transfers, wallet>>
  /\ UNCHANGED <<work, order, seen, failures>>

SettleBuyerRow(h) ==
  /\ Goto(h, "st_buyer_row", "w_read")
  /\ row' = [row EXCEPT ![Trade(h).buyer] = seen[h].buyer]
  /\ todo' = [todo EXCEPT ![h] = <<Trade(h).buyer, Seller(Trade(h))>>]
  /\ UNCHANGED <<listing, bid, trade, booked, transfers, wallet>>
  /\ UNCHANGED <<work, order, seen, failures>>

(* Mutant: the units of the trade replace what was filled before.          *)
SettleListingReset(h) ==
  LET l == Trade(h).listing
  IN  /\ Goto(h, "st_fill", "st_done")
      /\ listing' = [listing EXCEPT ![l] =
           [status |-> IF UnitsOf[l] - Trade(h).units <= Slack
                       THEN "filled" ELSE "partially_filled",
            filled |-> Trade(h).units]]
      /\ UNCHANGED <<bid, trade, booked, transfers, row, wallet>>
      /\ UNCHANGED <<work, order, seen, todo, failures>>

(* Mutant: the fill is subtracted.                                         *)
SettleListingSubtract(h) ==
  LET l == Trade(h).listing
      filled == seen[h].filled - Trade(h).units
  IN  /\ Goto(h, "st_fill", "st_done")
      /\ listing' = [listing EXCEPT ![l] =
           [status |-> IF UnitsOf[l] - filled <= Slack
                       THEN "filled" ELSE "partially_filled",
            filled |-> filled]]
      /\ UNCHANGED <<bid, trade, booked, transfers, row, wallet>>
      /\ UNCHANGED <<work, order, seen, todo, failures>>

(* The fill is added to the listing as it was read in the first step.      *)
SettleListing(h) ==
  LET l == Trade(h).listing
      filled == seen[h].filled + Trade(h).units
  IN  /\ Goto(h, "st_fill", "st_done")
      /\ listing' = [listing EXCEPT ![l] =
           [status |-> IF UnitsOf[l] - filled <= Slack
                       THEN "filled" ELSE "partially_filled",
            filled |-> filled]]
      /\ UNCHANGED <<bid, trade, booked, transfers, row, wallet>>
      /\ UNCHANGED <<work, order, seen, todo, failures>>

SettleDone(h) ==
  /\ pc[h] = "st_done"
  /\ trade' = [trade EXCEPT ![work[h].trade].status = "settled"]
  /\ Finish(h)
  /\ UNCHANGED <<listing, bid, booked, transfers, row, wallet, failures>>

-----------------------------------------------------------------------------
(* recompute_wallet, for the settlement and for whoever opens a wallet.    *)

GetWallet(h, i) ==
  /\ Goto(h, "idle", "w_read")
  /\ todo' = [todo EXCEPT ![h] = <<i>>]
  /\ UNCHANGED <<store, work, order, seen, failures>>

RecomputeRead(h) ==
  /\ Goto(h, "w_read", "w_write")
  /\ seen' = [seen EXCEPT ![h].cash = LedgerSettled(Head(todo[h]))]
  /\ UNCHANGED <<store, work, order, todo, failures>>

RecomputeWrite(h) ==
  /\ pc[h] = "w_write"
  /\ wallet' = [wallet EXCEPT ![Head(todo[h])] = seen[h].cash]
  /\ \/ /\ work[h].trade # None
        /\ todo' = [todo EXCEPT ![h] = Tail(@)]
        /\ Goto(h, "w_write", IF Len(todo[h]) > 1 THEN "w_read" ELSE "st_fill")
        /\ UNCHANGED <<work, order, seen>>
     \/ work[h].trade = None /\ Finish(h)
  /\ UNCHANGED <<listing, bid, trade, booked, transfers, row, failures>>

(* The settlement logs a failed recompute and goes on.                     *)
RecomputeFails(h) ==
  /\ pc[h] \in {"w_read", "w_write"}
  /\ work[h].trade # None
  /\ failures < MaxFailures
  /\ failures' = failures + 1
  /\ pc' = [pc EXCEPT ![h] = "st_fill"]
  /\ todo' = [todo EXCEPT ![h] = <<>>]
  /\ UNCHANGED <<store, work, order, seen>>

(* A database call fails, or the server restarts: the handler is lost.     *)
Abort(h) ==
  /\ pc[h] # "idle"
  /\ failures < MaxFailures
  /\ failures' = failures + 1
  /\ Finish(h)
  /\ UNCHANGED store

-----------------------------------------------------------------------------

Arrive(h) ==
  \/ \E l \in Listings : ListReadOwned(h, l) \/ UnlistRead(h, l)
  \/ \E b \in Bids : \/ BidRead(h, b) \/ CancelBidRead(h, b)
                     \/ RejectBidRead(h, b) \/ AcceptRead(h, b)
  \/ \E l \in Listings, i \in Investors, u \in BuyUnits : BuyRead(h, l, i, u)
  \/ \E i \in Investors : GetWallet(h, i)

Serve(h) ==
  \/ ListReadListed(h) \/ ListInsert(h) \/ UnlistWrite(h)
  \/ BidInsert(h) \/ CancelBidWrite(h) \/ RejectBidWrite(h)
  \/ BuyCheck(h) \/ \E t \in Trades : BuyInsert(h, t) \/ AcceptInsert(h, t)
  \/ AcceptReadListing(h) \/ AcceptMark(h)

Settle(h) ==
  \/ SettleReadListing(h) \/ SettleReadWallet(h) \/ SettleFail(h)
  \/ SettleDebit(h) \/ SettleCredit(h) \/ SettleFee(h) \/ SettleTransfer(h)
  \/ SettleReadSeller(h) \/ SettleReadBuyer(h)
  \/ SettleSellerRow(h) \/ SettleBuyerRow(h)
  \/ RecomputeRead(h) \/ RecomputeWrite(h) \/ RecomputeFails(h)
  \/ SettleListing(h) \/ SettleDone(h)

Next == \E h \in Handlers : Arrive(h) \/ Serve(h) \/ Settle(h) \/ Abort(h)

Spec == Init /\ [][Next]_vars

-----------------------------------------------------------------------------

Places == {"idle", "list_check", "list_insert", "unlist_write", "bid_insert",
           "buy_check", "buy_insert", "unbid_write", "reject_write",
           "accept_listing", "accept_insert", "accept_mark", "st_listing",
           "st_wallet", "st_fail", "st_debit", "st_credit", "st_fee",
           "st_transfer", "st_seller_owned", "st_buyer_owned",
           "st_seller_row", "st_buyer_row", "w_read", "w_write", "st_fill",
           "st_done"}

Orders == [status : TradeStatuses, listing : Listings, bid : Bids \cup {None},
           buyer : Investors, units : Nat, price : Nat]

TypeOK ==
  /\ listing \in [Listings -> [status : ListingStatuses \cup {Absent},
                               filled : Nat]]
  /\ bid \in [Bids -> BidStatuses \cup {Absent}]
  /\ trade \in [Trades -> Orders \cup {NoOrder}]
  /\ booked \in [Trades -> [Reasons -> Nat]]
  /\ transfers \in [Trades -> Nat]
  /\ pc \in [Handlers -> Places]
  /\ work \in [Handlers -> [listing : Listings \cup {None},
                            bid : Bids \cup {None},
                            trade : Trades \cup {None}]]
  /\ order \in [Handlers -> Orders \cup {NoOrder}]
  /\ failures \in Nat

Idle == \A h \in Handlers : pc[h] = "idle"

Settled(t) == trade[t].status = "settled"

(* The ledger entries a trade should have.                                 *)
FullyBooked(t) ==
  /\ booked[t]["secondary_purchase"] = 1
  /\ booked[t]["secondary_sale"] = 1
  /\ booked[t]["platform_fee"] = IF Fee(trade[t]) > 0 THEN 1 ELSE 0

(* I11 of lumen_consistency.py: a settled trade has its share_transfer, of *)
(* which there is one, whatever handlers overlap or die.                   *)
TransferMatchesTrade == \A t \in Trades : Settled(t) => transfers[t] = 1

(* I12 of lumen_consistency.py: a settled trade has debited the buyer, and *)
(* credited the seller and the platform, once each.                        *)
TradeConserved == \A t \in Trades : Settled(t) => FullyBooked(t)

(* A settlement that stops half way has never created money or given       *)
(* shares away: the credits of a trade follow its debit, and its shares    *)
(* move when it is fully booked.                                           *)
NothingForNothing ==
  \A t \in Trades :
    /\ booked[t]["secondary_sale"] <= booked[t]["secondary_purchase"]
    /\ booked[t]["platform_fee"] <= booked[t]["secondary_sale"]
    /\ transfers[t] > 0 => FullyBooked(t)

SoldOf(l) ==
  SumFunctionOnSet([t \in Trades |-> trade[t].units],
                   {t \in Trades : Settled(t) /\ trade[t].listing = l})

(* No listing sells more than it offers: "cannot buy more than remaining"  *)
(* of tests/test_sprint13_secondary_e2e.py.                                *)
NotOversold == \A l \in Listings : SoldOf(l) <= UnitsOf[l] + Slack

(* At rest a listing's filled_units_uah is what its settled trades sold.   *)
FillIsSold == Idle => \A l \in Listings : listing[l].filled = SoldOf(l)

(* What an investor offers it owns: "cannot list more than owned" of       *)
(* tests/test_sprint13_secondary_e2e.py.  The tolerance applies to the     *)
(* listing and again to each sale, whose units may exceed what remained.   *)
SalesOf(i) == {t \in Trades : Settled(t) /\ Seller(trade[t]) = i}

ListedIsOwned ==
  Idle => \A i \in Investors :
            Listed(i) <= Owned(i) + Slack * (1 + Cardinality(SalesOf(i)))

(* I13 of lumen_consistency.py: the ownership row of each investor is its  *)
(* primary investment and its transfers.                                   *)
RowsAreOwned == Idle => \A i \in Investors : row[i] = Owned(i)

(* I3 of lumen_consistency.py: the wallet is the sum of the ledger.        *)
WalletsAreLedger == Idle => \A i \in Investors : wallet[i] = LedgerSettled(i)

(* I6 of lumen_consistency.py, and "insufficient wallet funds (buy-now +   *)
(* settlement)" of the test: purchases never take a wallet below zero.     *)
CashCovers == Idle => \A i \in Investors : LedgerSettled(i) >= -Slack

(* A bid is accepted into one trade at most.                               *)
BidTradedOnce ==
  \A b \in Bids :
    Cardinality({t \in Trades : trade[t].status # Absent /\ trade[t].bid = b}) <= 1

(* A listing that is filled or cancelled is closed for good.               *)
ClosedListingStays ==
  [][\A l \in Listings :
       listing[l].status \in {"filled", "cancelled"}
         => listing'[l].status = listing[l].status]_vars
=============================================================================
