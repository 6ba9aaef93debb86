----------------------- MODULE SecondaryMarket_proof -----------------------
(***************************************************************************)
(* I11 and I12 of lumen_consistency.py for settlements that interleave and *)
(* die anywhere: for any number of investors, listings, trades, handlers   *)
(* and failures.                                                           *)
(*                                                                         *)
(* What needs requests that do not overlap follows, under OneHandler: a    *)
(* bid is traded once, a closed listing stays closed (SerialInv), and the  *)
(* balances (BalanceInv).  Those are sums over the trades and listings; a  *)
(* step changes the contribution of one of them (FiniteSums).  While a     *)
(* settlement is under way, a row, a wallet, a fill or an offer may be off *)
(* by the one trade it settles, and by no more: each part of BalanceInv    *)
(* says which, and by how much, at each of its steps.                      *)
(*                                                                         *)
(* The argument: a trade is worked on by the one handler that inserted it  *)
(* (Exclusive), and what is booked and transferred for it is a function of *)
(* the step that handler has reached (Progress).  A trade whose handler    *)
(* died stays pending with what was written, which NothingForNothing       *)
(* bounds.                                                                 *)
(***************************************************************************)
EXTENDS SecondaryMarket, FiniteSums

USE MarketAssumption

(* The places from the insertion of a trade to its last write.             *)
BeforeDebit == {"accept_mark", "st_listing", "st_wallet", "st_fail", "st_debit"}
AfterTransfer == {"st_seller_owned", "st_buyer_owned", "st_seller_row",
                  "st_buyer_row", "w_read", "w_write", "st_fill", "st_done"}
Settling == BeforeDebit \cup AfterTransfer
              \cup {"st_credit", "st_fee", "st_transfer"}

(* A trade document has these fields; their types do not matter here.      *)
IsOrder(o) ==
  o = [status |-> o.status, listing |-> o.listing, bid |-> o.bid,
       buyer |-> o.buyer, units |-> o.units, price |-> o.price]

(* What the argument needs of the types: documents are records, and each   *)
(* variable is a function of the right domain.                             *)
Documents ==
  /\ trade = [t \in Trades |-> trade[t]] /\ \A t \in Trades : IsOrder(trade[t])
  /\ order = [h \in Handlers |-> order[h]] /\ \A h \in Handlers : IsOrder(order[h])

Counts ==
  /\ booked \in [Trades -> [Reasons -> Nat]]
  /\ transfers \in [Trades -> Nat]
  /\ pc = [h \in Handlers |-> pc[h]]

Works ==
  work \in [Handlers -> [listing : Listings \cup {None},
                         bid : Bids \cup {None},
                         trade : Trades \cup {None}]]

(* A handler has a pending trade exactly from its insertion on.            *)
Placed ==
  \A h \in Handlers :
    /\ pc[h] \in {"buy_check", "buy_insert", "accept_insert"}
         => order[h].status = "pending"
    /\ pc[h] \in Settling \ {"w_read", "w_write"} => work[h].trade \in Trades
    /\ pc[h] \notin Settling => work[h].trade = None
    /\ work[h].trade \in Trades => trade[work[h].trade].status = "pending"

(* No two handlers settle one trade.                                       *)
Exclusive ==
  \A g, h \in Handlers :
    work[g].trade \in Trades /\ work[g].trade = work[h].trade => g = h

Booked(t, purchase, sale, fee) ==
  /\ booked[t]["secondary_purchase"] = purchase
  /\ booked[t]["secondary_sale"] = sale
  /\ booked[t]["platform_fee"] = fee

(* What is booked and transferred at each step of the settlement.          *)
Stage(h) ==
  LET t == work[h].trade
  IN  t \in Trades =>
      /\ pc[h] \in BeforeDebit => Booked(t, 0, 0, 0) /\ transfers[t] = 0
      /\ pc[h] = "st_credit" => Booked(t, 1, 0, 0) /\ transfers[t] = 0
      /\ pc[h] = "st_fee" => /\ Booked(t, 1, 1, 0) /\ transfers[t] = 0
                             /\ Fee(trade[t]) > 0
      /\ pc[h] = "st_transfer" => FullyBooked(t) /\ transfers[t] = 0
      /\ pc[h] \in AfterTransfer => FullyBooked(t) /\ transfers[t] = 1

Progress == \A h \in Handlers : Stage(h)

Untouched ==
  \A t \in Trades :
    trade[t].status = Absent => Booked(t, 0, 0, 0) /\ transfers[t] = 0

(* The three properties proved.                                            *)
Conserved == TransferMatchesTrade /\ TradeConserved /\ NothingForNothing

(* The inductive invariant.                                                *)
SettlementInv ==
  /\ Documents /\ Works /\ Counts /\ Placed /\ Exclusive /\ Progress /\ Untouched
  /\ Conserved

(* Settling or failing a trade does not change its fee.                    *)
LEMMA FeeKept ==
  ASSUME NEW o, IsOrder(o), NEW s
  PROVE  Fee([o EXCEPT !.status = s]) = Fee(o)
<1> DEFINE p == [o EXCEPT !.status = s]
<1>1. p.units = o.units /\ p.price = o.price
  BY DEF IsOrder
<1>2. QED
  BY <1>1 DEF Fee, Gross

(* No trade exists at first.                                               *)
LEMMA InitSettlementInv == Init => SettlementInv
<1> SUFFICES ASSUME Init PROVE SettlementInv
  OBVIOUS
<1> USE DEF Init
<1>1. Documents /\ Works /\ Counts
  BY DEF Documents, Works, Counts, IsOrder, NoOrder, Fresh
<1>2. Placed /\ Exclusive /\ Progress /\ Untouched
  BY DEF Placed, Exclusive, Progress, Stage, Untouched, Booked, Fresh,
         NoOrder, Absent, Settling, BeforeDebit, AfterTransfer, Reasons
<1>3. TransferMatchesTrade /\ TradeConserved /\ NothingForNothing
  BY DEF TransferMatchesTrade, TradeConserved, NothingForNothing, Settled,
         NoOrder, Absent, Reasons
<1>4. QED
  BY <1>1, <1>2, <1>3 DEF SettlementInv, Conserved

(* Every step leaves records where records were.                           *)
LEMMA StepDocuments ==
  Documents /\ [Next]_vars
    => Documents'
<1> SUFFICES ASSUME Documents, [Next]_vars
             PROVE  Documents'
  OBVIOUS
<1> USE DEF Documents, IsOrder, NoOrder
<1>1. ASSUME NEW h \in Handlers, NEW l \in Listings,
              ListReadOwned(h, l)
       PROVE  Documents'
  BY <1>1 DEF ListReadOwned, Goto, store, local
<1>2. ASSUME NEW h \in Handlers, NEW l \in Listings,
              UnlistRead(h, l)
       PROVE  Documents'
  BY <1>2 DEF UnlistRead, Goto, store, local
<1>3. ASSUME NEW h \in Handlers, NEW b \in Bids,
              BidRead(h, b)
       PROVE  Documents'
  BY <1>3 DEF BidRead, Goto, store, local
<1>4. ASSUME NEW h \in Handlers, NEW b \in Bids,
              CancelBidRead(h, b)
       PROVE  Documents'
  BY <1>4 DEF CancelBidRead, TakeBid, Goto, store, local
<1>5. ASSUME NEW h \in Handlers, NEW b \in Bids,
              RejectBidRead(h, b)
       PROVE  Documents'
  BY <1>5 DEF RejectBidRead, TakeBid, Goto, store, local
<1>6. ASSUME NEW h \in Handlers, NEW b \in Bids,
              AcceptRead(h, b)
       PROVE  Documents'
  BY <1>6 DEF AcceptRead, TakeBid, Goto, store, local
<1>7. ASSUME NEW h \in Handlers, NEW l \in Listings,
              NEW i \in Investors, NEW u \in BuyUnits,
              BuyRead(h, l, i, u)
       PROVE  Documents'
  BY <1>7 DEF BuyRead, Goto, MayBuy, store, local
<1>8. ASSUME NEW h \in Handlers, NEW i \in Investors,
              GetWallet(h, i)
       PROVE  Documents'
  BY <1>8 DEF GetWallet, Goto, store, local
<1>9. ASSUME NEW h \in Handlers,
              ListReadListed(h)
       PROVE  Documents'
  <2>1. CASE Finish(h)
    BY <1>9, <2>1 DEF ListReadListed, Finish, store, local
  <2>2. CASE ~Finish(h)
    BY <1>9, <2>2 DEF ListReadListed, Goto, store, local
  <2>3. QED
    BY <2>1, <2>2
<1>10. ASSUME NEW h \in Handlers,
              ListInsert(h)
       PROVE  Documents'
  BY <1>10 DEF ListInsert, Finish, store, local
<1>11. ASSUME NEW h \in Handlers,
              UnlistWrite(h)
       PROVE  Documents'
  BY <1>11 DEF UnlistWrite, Finish, store, local
<1>12. ASSUME NEW h \in Handlers,
              BidInsert(h)
       PROVE  Documents'
  BY <1>12 DEF BidInsert, Finish, store, local
<1>13. ASSUME NEW h \in Handlers,
              CancelBidWrite(h)
       PROVE  Documents'
  BY <1>13 DEF CancelBidWrite, WriteBid, Finish, store, local
<1>14. ASSUME NEW h \in Handlers,
              RejectBidWrite(h)
       PROVE  Documents'
  BY <1>14 DEF RejectBidWrite, WriteBid, Finish, store, local
<1>15. ASSUME NEW h \in Handlers,
              BuyCheck(h)
       PROVE  Documents'
  <2>1. CASE Finish(h)
    BY <1>15, <2>1 DEF BuyCheck, Finish, store, local
  <2>2. CASE ~Finish(h)
    BY <1>15, <2>2 DEF BuyCheck, Goto, store, local
  <2>3. QED
    BY <2>1, <2>2
<1>16. ASSUME NEW h \in Handlers, NEW t \in Trades,
              BuyInsert(h, t)
       PROVE  Documents'
  BY <1>16 DEF BuyInsert, InsertTrade, Goto, store, local
<1>17. ASSUME NEW h \in Handlers, NEW t \in Trades,
              AcceptInsert(h, t)
       PROVE  Documents'
  BY <1>17 DEF AcceptInsert, InsertTrade, Goto, store, local
<1>18. ASSUME NEW h \in Handlers,
              AcceptReadListing(h)
       PROVE  Documents'
  <2>1. CASE Finish(h)
    BY <1>18, <2>1 DEF AcceptReadListing, Finish, store, local
  <2>2. CASE ~Finish(h)
    <3>1. PICK o : IsOrder(o) /\ order' = [order EXCEPT ![h] = o]
      BY <1>18, <2>2 DEF AcceptReadListing
    <3>2. trade' = trade
      BY <1>18 DEF AcceptReadListing, store
    <3> QED
      BY ONLY <3>1, <3>2, Documents DEF Documents, IsOrder
  <2>3. QED
    BY <2>1, <2>2
<1>19. ASSUME NEW h \in Handlers,
              AcceptMark(h)
       PROVE  Documents'
  BY <1>19 DEF AcceptMark, Goto, store, local
<1>20. ASSUME NEW h \in Handlers,
              SettleReadListing(h)
       PROVE  Documents'
  <2>1. CASE Finish(h)
    BY <1>20, <2>1 DEF SettleReadListing, Finish, store, local
  <2>2. CASE ~Finish(h)
    BY <1>20, <2>2 DEF SettleReadListing, Goto, store, local
  <2>3. QED
    BY <2>1, <2>2
<1>21. ASSUME NEW h \in Handlers,
              SettleReadWallet(h)
       PROVE  Documents'
  BY <1>21 DEF SettleReadWallet, Goto, store, local
<1>22. ASSUME NEW h \in Handlers,
              SettleFail(h)
       PROVE  Documents'
  BY <1>22 DEF SettleFail, Finish, Trade, store, local
<1>23. ASSUME NEW h \in Handlers,
              SettleDebit(h)
       PROVE  Documents'
  BY <1>23 DEF SettleDebit, Book, Goto, store, local
<1>24. ASSUME NEW h \in Handlers,
              SettleCredit(h)
       PROVE  Documents'
  BY <1>24 DEF SettleCredit, Book, Goto, store, local
<1>25. ASSUME NEW h \in Handlers,
              SettleFee(h)
       PROVE  Documents'
  BY <1>25 DEF SettleFee, Book, Goto, store, local
<1>26. ASSUME NEW h \in Handlers,
              SettleTransfer(h)
       PROVE  Documents'
  BY <1>26 DEF SettleTransfer, Goto, store, local
<1>27. ASSUME NEW h \in Handlers,
              SettleReadSeller(h)
       PROVE  Documents'
  BY <1>27 DEF SettleReadSeller, Goto, store, local
<1>28. ASSUME NEW h \in Handlers,
              SettleReadBuyer(h)
       PROVE  Documents'
  BY <1>28 DEF SettleReadBuyer, Goto, store, local
<1>29. ASSUME NEW h \in Handlers,
              SettleSellerRow(h)
       PROVE  Documents'
  BY <1>29 DEF SettleSellerRow, Goto, store, local
<1>30. ASSUME NEW h \in Handlers,
              SettleBuyerRow(h)
       PROVE  Documents'
  BY <1>30 DEF SettleBuyerRow, Goto, store, local
<1>31. ASSUME NEW h \in Handlers,
              RecomputeRead(h)
       PROVE  Documents'
  BY <1>31 DEF RecomputeRead, Goto, store, local
<1>32. ASSUME NEW h \in Handlers,
              RecomputeWrite(h)
       PROVE  Documents'
  <2>1. CASE Finish(h)
    BY <1>32, <2>1 DEF RecomputeWrite, Finish, store, local
  <2>2. CASE ~Finish(h)
    BY <1>32, <2>2 DEF RecomputeWrite, Goto, store, local
  <2>3. QED
    BY <2>1, <2>2
<1>33. ASSUME NEW h \in Handlers,
              RecomputeFails(h)
       PROVE  Documents'
  BY <1>33 DEF RecomputeFails, store, local
<1>34. ASSUME NEW h \in Handlers,
              SettleListing(h)
       PROVE  Documents'
  BY <1>34 DEF SettleListing, Goto, store, local
<1>35. ASSUME NEW h \in Handlers,
              SettleDone(h)
       PROVE  Documents'
  BY <1>35 DEF SettleDone, Finish, store, local
<1>36. ASSUME NEW h \in Handlers,
              Abort(h)
       PROVE  Documents'
  BY <1>36 DEF Abort, Finish, store, local
<1>37. CASE UNCHANGED vars
  BY <1>37 DEF vars, store, local
<1>38. QED
  BY <1>1, <1>2, <1>3, <1>4, <1>5, <1>6, <1>7, <1>8, <1>9, <1>10, <1>11,
     <1>12, <1>13, <1>14, <1>15, <1>16, <1>17, <1>18, <1>19, <1>20, <1>21,
     <1>22, <1>23, <1>24, <1>25, <1>26, <1>27, <1>28, <1>29, <1>30, <1>31,
     <1>32, <1>33, <1>34, <1>35, <1>36, <1>37 DEF Next, Arrive, Serve,
     Settle

(* Taking up a listing or a bid keeps the ids handlers work on.            *)
LEMMA TakeListing ==
  ASSUME Works, NEW h \in Handlers, NEW l \in Listings,
         work' = [work EXCEPT ![h].listing = l]
  PROVE  Works'
<1>1. [work[h] EXCEPT !.listing = l] \in
        [listing : Listings \cup {None}, bid : Bids \cup {None},
         trade : Trades \cup {None}]
  BY DEF Works
<1>2. work' = [work EXCEPT ![h] = [work[h] EXCEPT !.listing = l]]
  OBVIOUS
<1> QED
  BY ONLY <1>1, <1>2, Works DEF Works

LEMMA TakeABid ==
  ASSUME Works, NEW h \in Handlers, NEW b \in Bids,
         work' = [work EXCEPT ![h].bid = b]
  PROVE  Works'
<1>1. [work[h] EXCEPT !.bid = b] \in
        [listing : Listings \cup {None}, bid : Bids \cup {None},
         trade : Trades \cup {None}]
  BY DEF Works
<1>2. work' = [work EXCEPT ![h] = [work[h] EXCEPT !.bid = b]]
  OBVIOUS
<1> QED
  BY ONLY <1>1, <1>2, Works DEF Works

(* Every step keeps the ids handlers work on.                              *)
LEMMA StepWorks ==
  Works /\ [Next]_vars
    => Works'
<1> SUFFICES ASSUME Works, [Next]_vars
             PROVE  Works'
  OBVIOUS
<1> USE DEF Works
<1>1. ASSUME NEW h \in Handlers, NEW l \in Listings,
              ListReadOwned(h, l)
       PROVE  Works'
  BY <1>1, TakeListing DEF ListReadOwned
<1>2. ASSUME NEW h \in Handlers, NEW l \in Listings,
              UnlistRead(h, l)
       PROVE  Works'
  BY <1>2, TakeListing DEF UnlistRead
<1>3. ASSUME NEW h \in Handlers, NEW b \in Bids,
              BidRead(h, b)
       PROVE  Works'
  BY <1>3, TakeABid DEF BidRead
<1>4. ASSUME NEW h \in Handlers, NEW b \in Bids,
              CancelBidRead(h, b)
       PROVE  Works'
  BY <1>4, TakeABid DEF CancelBidRead, TakeBid
<1>5. ASSUME NEW h \in Handlers, NEW b \in Bids,
              RejectBidRead(h, b)
       PROVE  Works'
  BY <1>5, TakeABid DEF RejectBidRead, TakeBid
<1>6. ASSUME NEW h \in Handlers, NEW b \in Bids,
              AcceptRead(h, b)
       PROVE  Works'
  BY <1>6, TakeABid DEF AcceptRead, TakeBid
<1>7. ASSUME NEW h \in Handlers, NEW l \in Listings,
              NEW i \in Investors, NEW u \in BuyUnits,
              BuyRead(h, l, i, u)
       PROVE  Works'
  BY <1>7 DEF BuyRead, Goto, MayBuy, store, local
<1>8. ASSUME NEW h \in Handlers, NEW i \in Investors,
              GetWallet(h, i)
       PROVE  Works'
  BY <1>8 DEF GetWallet, Goto, store, local
<1>9. ASSUME NEW h \in Handlers,
              ListReadListed(h)
       PROVE  Works'
  <2>1. CASE Finish(h)
    BY <1>9, <2>1 DEF ListReadListed, Finish, Fresh, store, local
  <2>2. CASE ~Finish(h)
    BY <1>9, <2>2 DEF ListReadListed, Goto, store, local
  <2>3. QED
    BY <2>1, <2>2
<1>10. ASSUME NEW h \in Handlers,
              ListInsert(h)
       PROVE  Works'
  BY <1>10 DEF ListInsert, Finish, Fresh, store, local
<1>11. ASSUME NEW h \in Handlers,
              UnlistWrite(h)
       PROVE  Works'
  BY <1>11 DEF UnlistWrite, Finish, Fresh, store, local
<1>12. ASSUME NEW h \in Handlers,
              BidInsert(h)
       PROVE  Works'
  BY <1>12 DEF BidInsert, Finish, Fresh, store, local
<1>13. ASSUME NEW h \in Handlers,
              CancelBidWrite(h)
       PROVE  Works'
  BY <1>13 DEF CancelBidWrite, WriteBid, Finish, Fresh, store, local
<1>14. ASSUME NEW h \in Handlers,
              RejectBidWrite(h)
       PROVE  Works'
  BY <1>14 DEF RejectBidWrite, WriteBid, Finish, Fresh, store, local
<1>15. ASSUME NEW h \in Handlers,
              BuyCheck(h)
       PROVE  Works'
  <2>1. CASE Finish(h)
    BY <1>15, <2>1 DEF BuyCheck, Finish, Fresh, store, local
  <2>2. CASE ~Finish(h)
    BY <1>15, <2>2 DEF BuyCheck, Goto, store, local
  <2>3. QED
    BY <2>1, <2>2
<1>16. ASSUME NEW h \in Handlers, NEW t \in Trades,
              BuyInsert(h, t)
       PROVE  Works'
  BY <1>16 DEF BuyInsert, InsertTrade, Goto, store, local
<1>17. ASSUME NEW h \in Handlers, NEW t \in Trades,
              AcceptInsert(h, t)
       PROVE  Works'
  BY <1>17 DEF AcceptInsert, InsertTrade, Goto, store, local
<1>18. ASSUME NEW h \in Handlers,
              AcceptReadListing(h)
       PROVE  Works'
  <2>1. CASE Finish(h)
    BY <1>18, <2>1 DEF AcceptReadListing, Finish, Fresh, store, local
  <2>2. CASE ~Finish(h)
    BY <1>18, <2>2 DEF AcceptReadListing, Goto, store, local
  <2>3. QED
    BY <2>1, <2>2
<1>19. ASSUME NEW h \in Handlers,
              AcceptMark(h)
       PROVE  Works'
  BY <1>19 DEF AcceptMark, Goto, store, local
<1>20. ASSUME NEW h \in Handlers,
              SettleReadListing(h)
       PROVE  Works'
  <2>1. CASE Finish(h)
    BY <1>20, <2>1 DEF SettleReadListing, Finish, Fresh, store, local
  <2>2. CASE ~Finish(h)
    BY <1>20, <2>2 DEF SettleReadListing, Goto, store, local
  <2>3. QED
    BY <2>1, <2>2
<1>21. ASSUME NEW h \in Handlers,
              SettleReadWallet(h)
       PROVE  Works'
  BY <1>21 DEF SettleReadWallet, Goto, store, local
<1>22. ASSUME NEW h \in Handlers,
              SettleFail(h)
       PROVE  Works'
  BY <1>22 DEF SettleFail, Finish, Trade, Fresh, store, local
<1>23. ASSUME NEW h \in Handlers,
              SettleDebit(h)
       PROVE  Works'
  BY <1>23 DEF SettleDebit, Book, Goto, store, local
<1>24. ASSUME NEW h \in Handlers,
              SettleCredit(h)
       PROVE  Works'
  BY <1>24 DEF SettleCredit, Book, Goto, store, local
<1>25. ASSUME NEW h \in Handlers,
              SettleFee(h)
       PROVE  Works'
  BY <1>25 DEF SettleFee, Book, Goto, store, local
<1>26. ASSUME NEW h \in Handlers,
              SettleTransfer(h)
       PROVE  Works'
  BY <1>26 DEF SettleTransfer, Goto, store, local
<1>27. ASSUME NEW h \in Handlers,
              SettleReadSeller(h)
       PROVE  Works'
  BY <1>27 DEF SettleReadSeller, Goto, store, local
<1>28. ASSUME NEW h \in Handlers,
              SettleReadBuyer(h)
       PROVE  Works'
  BY <1>28 DEF SettleReadBuyer, Goto, store, local
<1>29. ASSUME NEW h \in Handlers,
              SettleSellerRow(h)
       PROVE  Works'
  BY <1>29 DEF SettleSellerRow, Goto, store, local
<1>30. ASSUME NEW h \in Handlers,
              SettleBuyerRow(h)
       PROVE  Works'
  BY <1>30 DEF SettleBuyerRow, Goto, store, local
<1>31. ASSUME NEW h \in Handlers,
              RecomputeRead(h)
       PROVE  Works'
  BY <1>31 DEF RecomputeRead, Goto, store, local
<1>32. ASSUME NEW h \in Handlers,
              RecomputeWrite(h)
       PROVE  Works'
  <2>1. CASE Finish(h)
    BY <1>32, <2>1 DEF RecomputeWrite, Finish, Fresh, store, local
  <2>2. CASE ~Finish(h)
    BY <1>32, <2>2 DEF RecomputeWrite, Goto, store, local
  <2>3. QED
    BY <2>1, <2>2
<1>33. ASSUME NEW h \in Handlers,
              RecomputeFails(h)
       PROVE  Works'
  BY <1>33 DEF RecomputeFails, store, local
<1>34. ASSUME NEW h \in Handlers,
              SettleListing(h)
       PROVE  Works'
  BY <1>34 DEF SettleListing, Goto, store, local
<1>35. ASSUME NEW h \in Handlers,
              SettleDone(h)
       PROVE  Works'
  BY <1>35 DEF SettleDone, Finish, Fresh, store, local
<1>36. ASSUME NEW h \in Handlers,
              Abort(h)
       PROVE  Works'
  BY <1>36 DEF Abort, Finish, Fresh, store, local
<1>37. CASE UNCHANGED vars
  BY <1>37 DEF vars, store, local
<1>38. QED
  BY <1>1, <1>2, <1>3, <1>4, <1>5, <1>6, <1>7, <1>8, <1>9, <1>10, <1>11,
     <1>12, <1>13, <1>14, <1>15, <1>16, <1>17, <1>18, <1>19, <1>20, <1>21,
     <1>22, <1>23, <1>24, <1>25, <1>26, <1>27, <1>28, <1>29, <1>30, <1>31,
     <1>32, <1>33, <1>34, <1>35, <1>36, <1>37 DEF Next, Arrive, Serve,
     Settle

(* Every step keeps the counts and the places.                             *)
LEMMA StepCounts ==
  Works /\ Counts /\ Placed /\ [Next]_vars
    => Counts'
<1> SUFFICES ASSUME Works, Counts, Placed, [Next]_vars
             PROVE  Counts'
  OBVIOUS
<1> USE DEF Works, Counts, Reasons
<1>1. ASSUME NEW h \in Handlers, NEW l \in Listings,
              ListReadOwned(h, l)
       PROVE  Counts'
  BY <1>1 DEF ListReadOwned, Goto, store, local
<1>2. ASSUME NEW h \in Handlers, NEW l \in Listings,
              UnlistRead(h, l)
       PROVE  Counts'
  BY <1>2 DEF UnlistRead, Goto, store, local
<1>3. ASSUME NEW h \in Handlers, NEW b \in Bids,
              BidRead(h, b)
       PROVE  Counts'
  BY <1>3 DEF BidRead, Goto, store, local
<1>4. ASSUME NEW h \in Handlers, NEW b \in Bids,
              CancelBidRead(h, b)
       PROVE  Counts'
  BY <1>4 DEF CancelBidRead, TakeBid, Goto, store, local
<1>5. ASSUME NEW h \in Handlers, NEW b \in Bids,
              RejectBidRead(h, b)
       PROVE  Counts'
  BY <1>5 DEF RejectBidRead, TakeBid, Goto, store, local
<1>6. ASSUME NEW h \in Handlers, NEW b \in Bids,
              AcceptRead(h, b)
       PROVE  Counts'
  BY <1>6 DEF AcceptRead, TakeBid, Goto, store, local
<1>7. ASSUME NEW h \in Handlers, NEW l \in Listings,
              NEW i \in Investors, NEW u \in BuyUnits,
              BuyRead(h, l, i, u)
       PROVE  Counts'
  BY <1>7 DEF BuyRead, Goto, MayBuy, store, local
<1>8. ASSUME NEW h \in Handlers, NEW i \in Investors,
              GetWallet(h, i)
       PROVE  Counts'
  BY <1>8 DEF GetWallet, Goto, store, local
<1>9. ASSUME NEW h \in Handlers,
              ListReadListed(h)
       PROVE  Counts'
  BY <1>9 DEF ListReadListed, Goto, Finish, store, local
<1>10. ASSUME NEW h \in Handlers,
              ListInsert(h)
       PROVE  Counts'
  BY <1>10 DEF ListInsert, Finish, store, local
<1>11. ASSUME NEW h \in Handlers,
              UnlistWrite(h)
       PROVE  Counts'
  BY <1>11 DEF UnlistWrite, Finish, store, local
<1>12. ASSUME NEW h \in Handlers,
              BidInsert(h)
       PROVE  Counts'
  BY <1>12 DEF BidInsert, Finish, store, local
<1>13. ASSUME NEW h \in Handlers,
              CancelBidWrite(h)
       PROVE  Counts'
  BY <1>13 DEF CancelBidWrite, WriteBid, Finish, store, local
<1>14. ASSUME NEW h \in Handlers,
              RejectBidWrite(h)
       PROVE  Counts'
  BY <1>14 DEF RejectBidWrite, WriteBid, Finish, store, local
<1>15. ASSUME NEW h \in Handlers,
              BuyCheck(h)
       PROVE  Counts'
  BY <1>15 DEF BuyCheck, Goto, Finish, store, local
<1>16. ASSUME NEW h \in Handlers, NEW t \in Trades,
              BuyInsert(h, t)
       PROVE  Counts'
  BY <1>16 DEF BuyInsert, InsertTrade, Goto, store, local
<1>17. ASSUME NEW h \in Handlers, NEW t \in Trades,
              AcceptInsert(h, t)
       PROVE  Counts'
  BY <1>17 DEF AcceptInsert, InsertTrade, Goto, store, local
<1>18. ASSUME NEW h \in Handlers,
              AcceptReadListing(h)
       PROVE  Counts'
  BY <1>18 DEF AcceptReadListing, Goto, Finish, store, local
<1>19. ASSUME NEW h \in Handlers,
              AcceptMark(h)
       PROVE  Counts'
  BY <1>19 DEF AcceptMark, Goto, store, local
<1>20. ASSUME NEW h \in Handlers,
              SettleReadListing(h)
       PROVE  Counts'
  BY <1>20 DEF SettleReadListing, Goto, Finish, store, local
<1>21. ASSUME NEW h \in Handlers,
              SettleReadWallet(h)
       PROVE  Counts'
  BY <1>21 DEF SettleReadWallet, Goto, store, local
<1>22. ASSUME NEW h \in Handlers,
              SettleFail(h)
       PROVE  Counts'
  BY <1>22 DEF SettleFail, Finish, Trade, store, local
<1>23. ASSUME NEW h \in Handlers,
              SettleDebit(h)
       PROVE  Counts'
  <2>1. work[h].trade \in Trades
    BY <1>23 DEF Placed, Settling, BeforeDebit, SettleDebit, Goto
  <2>2. booked' \in [Trades -> [Reasons -> Nat]] /\ transfers' \in [Trades -> Nat]
    BY <1>23, <2>1 DEF SettleDebit, Book
  <2>3. pc' = [g \in Handlers |-> pc'[g]]
    BY <1>23 DEF SettleDebit, Goto
  <2>4. QED
    BY <2>2, <2>3
<1>24. ASSUME NEW h \in Handlers,
              SettleCredit(h)
       PROVE  Counts'
  <2>1. work[h].trade \in Trades
    BY <1>24 DEF Placed, Settling, BeforeDebit, SettleCredit, Goto
  <2>2. booked' \in [Trades -> [Reasons -> Nat]] /\ transfers' \in [Trades -> Nat]
    BY <1>24, <2>1 DEF SettleCredit, Book
  <2>3. pc' = [g \in Handlers |-> pc'[g]]
    BY <1>24 DEF SettleCredit, Goto
  <2>4. QED
    BY <2>2, <2>3
<1>25. ASSUME NEW h \in Handlers,
              SettleFee(h)
       PROVE  Counts'
  <2>1. work[h].trade \in Trades
    BY <1>25 DEF Placed, Settling, BeforeDebit, SettleFee, Goto
  <2>2. booked' \in [Trades -> [Reasons -> Nat]] /\ transfers' \in [Trades -> Nat]
    BY <1>25, <2>1 DEF SettleFee, Book
  <2>3. pc' = [g \in Handlers |-> pc'[g]]
    BY <1>25 DEF SettleFee, Goto
  <2>4. QED
    BY <2>2, <2>3
<1>26. ASSUME NEW h \in Handlers,
              SettleTransfer(h)
       PROVE  Counts'
  <2>1. work[h].trade \in Trades
    BY <1>26 DEF Placed, Settling, BeforeDebit, SettleTransfer, Goto
  <2>2. booked' \in [Trades -> [Reasons -> Nat]] /\ transfers' \in [Trades -> Nat]
    BY <1>26, <2>1 DEF SettleTransfer
  <2>3. pc' = [g \in Handlers |-> pc'[g]]
    BY <1>26 DEF SettleTransfer, Goto
  <2>4. QED
    BY <2>2, <2>3
<1>27. ASSUME NEW h \in Handlers,
              SettleReadSeller(h)
       PROVE  Counts'
  BY <1>27 DEF SettleReadSeller, Goto, store, local
<1>28. ASSUME NEW h \in Handlers,
              SettleReadBuyer(h)
       PROVE  Counts'
  BY <1>28 DEF SettleReadBuyer, Goto, store, local
<1>29. ASSUME NEW h \in Handlers,
              SettleSellerRow(h)
       PROVE  Counts'
  BY <1>29 DEF SettleSellerRow, Goto, store, local
<1>30. ASSUME NEW h \in Handlers,
              SettleBuyerRow(h)
       PROVE  Counts'
  BY <1>30 DEF SettleBuyerRow, Goto, store, local
<1>31. ASSUME NEW h \in Handlers,
              RecomputeRead(h)
       PROVE  Counts'
  BY <1>31 DEF RecomputeRead, Goto, store, local
<1>32. ASSUME NEW h \in Handlers,
              RecomputeWrite(h)
       PROVE  Counts'
  BY <1>32 DEF RecomputeWrite, Goto, Finish, store, local
<1>33. ASSUME NEW h \in Handlers,
              RecomputeFails(h)
       PROVE  Counts'
  BY <1>33 DEF RecomputeFails, store, local
<1>34. ASSUME NEW h \in Handlers,
              SettleListing(h)
       PROVE  Counts'
  BY <1>34 DEF SettleListing, Goto, store, local
<1>35. ASSUME NEW h \in Handlers,
              SettleDone(h)
       PROVE  Counts'
  BY <1>35 DEF SettleDone, Finish, store, local
<1>36. ASSUME NEW h \in Handlers,
              Abort(h)
       PROVE  Counts'
  BY <1>36 DEF Abort, Finish, store, local
<1>37. CASE UNCHANGED vars
  BY <1>37 DEF vars, store, local
<1>38. QED
  BY <1>1, <1>2, <1>3, <1>4, <1>5, <1>6, <1>7, <1>8, <1>9, <1>10, <1>11,
     <1>12, <1>13, <1>14, <1>15, <1>16, <1>17, <1>18, <1>19, <1>20, <1>21,
     <1>22, <1>23, <1>24, <1>25, <1>26, <1>27, <1>28, <1>29, <1>30, <1>31,
     <1>32, <1>33, <1>34, <1>35, <1>36, <1>37 DEF Next, Arrive, Serve,
     Settle

(* A step seen by the trades: the handler has none before or after it (or  *)
(* leaves it), inserts one, or moves between places that book nothing.     *)
Others(h) ==
  \A g \in Handlers \ {h} :
    pc'[g] = pc[g] /\ work'[g] = work[g] /\ order'[g] = order[g]

Documented == UNCHANGED <<trade, booked, transfers>>

Outside(h) ==
  /\ Documented
  /\ work'[h].trade = None
  /\ pc'[h] \notin Settling \ {"w_read", "w_write"}
  /\ pc'[h] \in {"buy_check", "buy_insert", "accept_insert"}
       => order'[h].status = "pending"

Inserts(h, t) ==
  /\ trade[t].status = Absent
  /\ trade' = [trade EXCEPT ![t] = order[h]]
  /\ order[h].status = "pending"
  /\ work'[h].trade = t
  /\ pc'[h] \in {"accept_mark", "st_listing"}
  /\ UNCHANGED <<booked, transfers>>

Moves(h) ==
  /\ Documented
  /\ work'[h].trade = work[h].trade
  /\ work[h].trade \in Trades
  /\ \/ pc[h] \in BeforeDebit /\ pc'[h] \in BeforeDebit
     \/ pc[h] \in AfterTransfer /\ pc'[h] \in AfterTransfer

Books(h) ==
  SettleDebit(h) \/ SettleCredit(h) \/ SettleFee(h) \/ SettleTransfer(h)

Closes(h) == SettleFail(h) \/ SettleDone(h)

Effect ==
  \E h \in Handlers :
    /\ Others(h)
    /\ \/ Outside(h)
       \/ \E t \in Trades : Inserts(h, t)
       \/ Moves(h)
       \/ Books(h)
       \/ Closes(h)

(* Taking up a bid touches no trade.                                       *)
LEMMA TakeBidEffect ==
  ASSUME Documents, Works, Counts, Placed, NEW h \in Handlers, NEW b \in Bids,
         NEW to, to \notin Settling,
         to \notin {"buy_check", "buy_insert", "accept_insert"},
         TakeBid(h, b, to)
  PROVE  Effect
<1>1. pc[h] = "idle" /\ pc' = [pc EXCEPT ![h] = to]
      /\ work' = [work EXCEPT ![h].bid = b] /\ order' = order /\ Documented
  BY DEF TakeBid, Goto, Documented, store
<1>2. pc'[h] = to /\ \A g \in Handlers \ {h} : pc'[g] = pc[g]
  BY <1>1 DEF Counts
<1>3. work[h].trade = None
  BY <1>1 DEF Placed, Settling, BeforeDebit, AfterTransfer
<1>4. work'[h].trade = None /\ \A g \in Handlers \ {h} : work'[g] = work[g]
  BY <1>1, <1>3 DEF Works
<1>5. Others(h)
  BY <1>1, <1>2, <1>4 DEF Others
<1>6. Outside(h)
  BY <1>1, <1>2, <1>4 DEF Outside
<1> QED
  BY <1>5, <1>6 DEF Effect

(* Nor does taking up a listing.                                           *)
LEMMA TakeListingEffect ==
  ASSUME Documents, Works, Counts, Placed, NEW h \in Handlers,
         NEW l \in Listings, NEW to \in {"list_check", "unlist_write"},
         Goto(h, "idle", to), Documented, order' = order,
         work' = [work EXCEPT ![h].listing = l]
  PROVE  Effect
<1>1. pc[h] = "idle" /\ pc' = [pc EXCEPT ![h] = to]
  BY DEF Goto
<1>2. pc'[h] = to /\ \A g \in Handlers \ {h} : pc'[g] = pc[g]
  BY <1>1 DEF Counts
<1>3. work[h].trade = None
  BY <1>1 DEF Placed, Settling, BeforeDebit, AfterTransfer
<1>4. work'[h].trade = None /\ \A g \in Handlers \ {h} : work'[g] = work[g]
  BY <1>3 DEF Works
<1>5. Others(h)
  BY <1>2, <1>4 DEF Others
<1>6. Outside(h)
  BY <1>1, <1>2, <1>4 DEF Outside, Settling, BeforeDebit, AfterTransfer
<1> QED
  BY <1>5, <1>6 DEF Effect

(* Every step has one of these effects, or changes nothing of the trades.  *)
LEMMA StepEffect ==
  Documents /\ Works /\ Counts /\ Placed /\ [Next]_vars
    => Effect \/ UNCHANGED <<trade, booked, transfers, pc, work, order>>
<1> SUFFICES ASSUME Documents, Works, Counts, Placed, [Next]_vars
             PROVE  Effect \/ UNCHANGED <<trade, booked, transfers, pc, work, order>>
  OBVIOUS
<1> USE DEF Works, Counts
<1>1. ASSUME NEW h \in Handlers, NEW l \in Listings,
              ListReadOwned(h, l)
       PROVE  Effect
  BY <1>1, TakeListingEffect DEF ListReadOwned, Documented, store
<1>2. ASSUME NEW h \in Handlers, NEW l \in Listings,
              UnlistRead(h, l)
       PROVE  Effect
  BY <1>2, TakeListingEffect DEF UnlistRead, Documented, store
<1>3. ASSUME NEW h \in Handlers, NEW b \in Bids,
              BidRead(h, b)
       PROVE  Effect
  <2>1. Others(h)
    BY <1>3 DEF Others, Documents, BidRead, Goto, store, local
  <2>2. Outside(h)
    <3>1. pc[h] = "idle" /\ work' = [work EXCEPT ![h].bid = b]
      BY <1>3 DEF BidRead, Goto
    <3>2. work'[h].trade = None
      BY <3>1 DEF Placed, Settling, BeforeDebit, AfterTransfer
    <3>3. QED
      BY <1>3, <3>2 DEF Documented, Outside, Settling, BeforeDebit,
         AfterTransfer, BidRead, Goto, store
  <2>3. QED
    BY <2>1, <2>2 DEF Effect
<1>4. ASSUME NEW h \in Handlers, NEW b \in Bids,
              CancelBidRead(h, b)
       PROVE  Effect
  BY <1>4, TakeBidEffect
     DEF CancelBidRead, Settling, BeforeDebit, AfterTransfer
<1>5. ASSUME NEW h \in Handlers, NEW b \in Bids,
              RejectBidRead(h, b)
       PROVE  Effect
  BY <1>5, TakeBidEffect
     DEF RejectBidRead, Settling, BeforeDebit, AfterTransfer
<1>6. ASSUME NEW h \in Handlers, NEW b \in Bids,
              AcceptRead(h, b)
       PROVE  Effect
  BY <1>6, TakeBidEffect
     DEF AcceptRead, Settling, BeforeDebit, AfterTransfer
<1>7. ASSUME NEW h \in Handlers, NEW l \in Listings,
              NEW i \in Investors, NEW u \in BuyUnits,
              BuyRead(h, l, i, u)
       PROVE  Effect
  <2>1. Others(h)
    BY <1>7 DEF Others, Documents, BuyRead, Goto, MayBuy, store, local
  <2>2. Outside(h)
    BY <1>7 DEF Documented, Outside, Placed, Settling, BeforeDebit,
       AfterTransfer, BuyRead, Goto, MayBuy, Documents, store, local
  <2>3. QED
    BY <2>1, <2>2 DEF Effect
<1>8. ASSUME NEW h \in Handlers, NEW i \in Investors,
              GetWallet(h, i)
       PROVE  Effect
  <2>1. Others(h)
    BY <1>8 DEF Others, Documents, GetWallet, Goto, store, local
  <2>2. Outside(h)
    BY <1>8 DEF Documented, Outside, Placed, Settling, BeforeDebit,
       AfterTransfer, GetWallet, Goto, store, local
  <2>3. QED
    BY <2>1, <2>2 DEF Effect
<1>9. ASSUME NEW h \in Handlers,
              ListReadListed(h)
       PROVE  Effect
  <2>1. Others(h)
    BY <1>9 DEF Others, Documents, ListReadListed, Goto, Finish, store,
       local
  <2>2. Outside(h)
    <3>1. CASE Finish(h)
      BY <1>9, <3>1 DEF Documented, Outside, Placed, Documents, Settling,
           BeforeDebit, AfterTransfer, ListReadListed, Finish, Fresh, store,
           local
    <3>2. CASE ~Finish(h)
      BY <1>9, <3>2 DEF Documented, Outside, Placed, Documents, Settling,
           BeforeDebit, AfterTransfer, ListReadListed, Goto, store, local
    <3>3. QED
      BY <3>1, <3>2
  <2>3. QED
    BY <2>1, <2>2 DEF Effect
<1>10. ASSUME NEW h \in Handlers,
              ListInsert(h)
       PROVE  Effect
  <2>1. Others(h)
    BY <1>10 DEF Others, Documents, ListInsert, Finish, store, local
  <2>2. Outside(h)
    BY <1>10 DEF Documented, Outside, Placed, Settling, BeforeDebit,
       AfterTransfer, ListInsert, Finish, Fresh, store, local
  <2>3. QED
    BY <2>1, <2>2 DEF Effect
<1>11. ASSUME NEW h \in Handlers,
              UnlistWrite(h)
       PROVE  Effect
  <2>1. Others(h)
    BY <1>11 DEF Others, Documents, UnlistWrite, Finish, store, local
  <2>2. Outside(h)
    BY <1>11 DEF Documented, Outside, Placed, Settling, BeforeDebit,
       AfterTransfer, UnlistWrite, Finish, Fresh, store, local
  <2>3. QED
    BY <2>1, <2>2 DEF Effect
<1>12. ASSUME NEW h \in Handlers,
              BidInsert(h)
       PROVE  Effect
  <2>1. Others(h)
    BY <1>12 DEF Others, Documents, BidInsert, Finish, store, local
  <2>2. Outside(h)
    BY <1>12 DEF Documented, Outside, Placed, Settling, BeforeDebit,
       AfterTransfer, BidInsert, Finish, Fresh, store, local
  <2>3. QED
    BY <2>1, <2>2 DEF Effect
<1>13. ASSUME NEW h \in Handlers,
              CancelBidWrite(h)
       PROVE  Effect
  <2>1. Others(h)
    BY <1>13 DEF Others, Documents, CancelBidWrite, WriteBid, Finish, store,
       local
  <2>2. Outside(h)
    BY <1>13 DEF Documented, Outside, Placed, Settling, BeforeDebit,
       AfterTransfer, CancelBidWrite, WriteBid, Finish, Fresh, store, local
  <2>3. QED
    BY <2>1, <2>2 DEF Effect
<1>14. ASSUME NEW h \in Handlers,
              RejectBidWrite(h)
       PROVE  Effect
  <2>1. Others(h)
    BY <1>14 DEF Others, Documents, RejectBidWrite, WriteBid, Finish, store,
       local
  <2>2. Outside(h)
    BY <1>14 DEF Documented, Outside, Placed, Settling, BeforeDebit,
       AfterTransfer, RejectBidWrite, WriteBid, Finish, Fresh, store, local
  <2>3. QED
    BY <2>1, <2>2 DEF Effect
<1>15. ASSUME NEW h \in Handlers,
              BuyCheck(h)
       PROVE  Effect
  <2>1. Others(h)
    BY <1>15 DEF Others, Documents, BuyCheck, Goto, Finish, store, local
  <2>2. Outside(h)
    <3>1. CASE Finish(h)
      BY <1>15, <3>1 DEF Documented, Outside, Placed, Documents, Settling,
           BeforeDebit, AfterTransfer, BuyCheck, Finish, Fresh, store, local
    <3>2. CASE ~Finish(h)
      BY <1>15, <3>2 DEF Documented, Outside, Placed, Documents, Settling,
           BeforeDebit, AfterTransfer, BuyCheck, Goto, store, local
    <3>3. QED
      BY <3>1, <3>2
  <2>3. QED
    BY <2>1, <2>2 DEF Effect
<1>16. ASSUME NEW h \in Handlers, NEW t \in Trades,
              BuyInsert(h, t)
       PROVE  Effect
  <2>1. Others(h)
    BY <1>16 DEF Others, Documents, BuyInsert, InsertTrade, Goto, store,
       local
  <2>2. Inserts(h, t)
    BY <1>16 DEF Inserts, Placed, Settling, BeforeDebit, AfterTransfer,
       BuyInsert, InsertTrade, Goto, Documents, store, local
  <2>3. QED
    BY <2>1, <2>2 DEF Effect
<1>17. ASSUME NEW h \in Handlers, NEW t \in Trades,
              AcceptInsert(h, t)
       PROVE  Effect
  <2>1. Others(h)
    BY <1>17 DEF Others, Documents, AcceptInsert, InsertTrade, Goto, store,
       local
  <2>2. Inserts(h, t)
    BY <1>17 DEF Inserts, Placed, Settling, BeforeDebit, AfterTransfer,
       AcceptInsert, InsertTrade, Goto, Documents, store, local
  <2>3. QED
    BY <2>1, <2>2 DEF Effect
<1>18. ASSUME NEW h \in Handlers,
              AcceptReadListing(h)
       PROVE  Effect
  <2>1. Others(h)
    BY <1>18 DEF Others, Documents, AcceptReadListing, Goto, Finish, store,
       local
  <2>2. Outside(h)
    <3>1. CASE Finish(h)
      BY <1>18, <3>1 DEF Documented, Outside, Placed, Documents, Settling,
           BeforeDebit, AfterTransfer, AcceptReadListing, Finish, Fresh,
           store, local
    <3>2. CASE ~Finish(h)
      <4>1. order'[h].status = "pending"
        BY <1>18, <3>2 DEF AcceptReadListing, Documents
      <4>2. pc[h] = "accept_listing" /\ pc'[h] = "accept_insert" /\ work' = work
        BY <1>18, <3>2 DEF AcceptReadListing, Goto
      <4>3. QED
        BY <1>18, <4>1, <4>2 DEF Documented, Outside, Placed, Settling,
           BeforeDebit, AfterTransfer, AcceptReadListing, store
    <3>3. QED
      BY <3>1, <3>2
  <2>3. QED
    BY <2>1, <2>2 DEF Effect
<1>19. ASSUME NEW h \in Handlers,
              AcceptMark(h)
       PROVE  Effect
  <2>1. Others(h)
    BY <1>19 DEF Others, Documents, AcceptMark, Goto, store, local
  <2>2. Moves(h)
    BY <1>19 DEF Documented, Moves, Placed, Settling, BeforeDebit,
       AfterTransfer, AcceptMark, Goto, store, local
  <2>3. QED
    BY <2>1, <2>2 DEF Effect
<1>20. ASSUME NEW h \in Handlers,
              SettleReadListing(h)
       PROVE  Effect
  <2>1. Others(h)
    BY <1>20 DEF Others, Documents, SettleReadListing, Goto, Finish, store,
       local
  <2>2. Moves(h) \/ Outside(h)
    <3>1. CASE Finish(h)
      BY <1>20, <3>1 DEF Documented, Moves, Outside, Placed, Documents,
           Settling, BeforeDebit, AfterTransfer, SettleReadListing, Finish,
           Fresh, store, local
    <3>2. CASE ~Finish(h)
      BY <1>20, <3>2 DEF Documented, Moves, Outside, Placed, Documents,
           Settling, BeforeDebit, AfterTransfer, SettleReadListing, Goto,
           store, local
    <3>3. QED
      BY <3>1, <3>2
  <2>3. QED
    BY <2>1, <2>2 DEF Effect
<1>21. ASSUME NEW h \in Handlers,
              SettleReadWallet(h)
       PROVE  Effect
  <2>1. Others(h)
    BY <1>21 DEF Others, Documents, SettleReadWallet, Goto, store, local
  <2>2. Moves(h)
    BY <1>21 DEF Documented, Moves, Placed, Settling, BeforeDebit,
       AfterTransfer, SettleReadWallet, Goto, store, local
  <2>3. QED
    BY <2>1, <2>2 DEF Effect
<1>22. ASSUME NEW h \in Handlers,
              SettleFail(h)
       PROVE  Effect
  <2>1. Others(h)
    BY <1>22 DEF Others, Documents, SettleFail, Finish, Trade, store, local
  <2>2. Closes(h)
    BY <1>22 DEF Closes
  <2>3. QED
    BY <2>1, <2>2 DEF Effect
<1>23. ASSUME NEW h \in Handlers,
              SettleDebit(h)
       PROVE  Effect
  <2>1. Others(h)
    BY <1>23 DEF Others, Documents, SettleDebit, Book, Goto, store, local
  <2>2. Books(h)
    BY <1>23 DEF Books
  <2>3. QED
    BY <2>1, <2>2 DEF Effect
<1>24. ASSUME NEW h \in Handlers,
              SettleCredit(h)
       PROVE  Effect
  <2>1. Others(h)
    BY <1>24 DEF Others, Documents, SettleCredit, Book, Goto, store, local
  <2>2. Books(h)
    BY <1>24 DEF Books
  <2>3. QED
    BY <2>1, <2>2 DEF Effect
<1>25. ASSUME NEW h \in Handlers,
              SettleFee(h)
       PROVE  Effect
  <2>1. Others(h)
    BY <1>25 DEF Others, Documents, SettleFee, Book, Goto, store, local
  <2>2. Books(h)
    BY <1>25 DEF Books
  <2>3. QED
    BY <2>1, <2>2 DEF Effect
<1>26. ASSUME NEW h \in Handlers,
              SettleTransfer(h)
       PROVE  Effect
  <2>1. Others(h)
    BY <1>26 DEF Others, Documents, SettleTransfer, Goto, store, local
  <2>2. Books(h)
    BY <1>26 DEF Books
  <2>3. QED
    BY <2>1, <2>2 DEF Effect
<1>27. ASSUME NEW h \in Handlers,
              SettleReadSeller(h)
       PROVE  Effect
  <2>1. Others(h)
    BY <1>27 DEF Others, Documents, SettleReadSeller, Goto, store, local
  <2>2. Moves(h)
    BY <1>27 DEF Documented, Moves, Placed, Settling, BeforeDebit,
       AfterTransfer, SettleReadSeller, Goto, store, local
  <2>3. QED
    BY <2>1, <2>2 DEF Effect
<1>28. ASSUME NEW h \in Handlers,
              SettleReadBuyer(h)
       PROVE  Effect
  <2>1. Others(h)
    BY <1>28 DEF Others, Documents, SettleReadBuyer, Goto, store, local
  <2>2. Moves(h)
    BY <1>28 DEF Documented, Moves, Placed, Settling, BeforeDebit,
       AfterTransfer, SettleReadBuyer, Goto, store, local
  <2>3. QED
    BY <2>1, <2>2 DEF Effect
<1>29. ASSUME NEW h \in Handlers,
              SettleSellerRow(h)
       PROVE  Effect
  <2>1. Others(h)
    BY <1>29 DEF Others, Documents, SettleSellerRow, Goto, store, local
  <2>2. Moves(h)
    BY <1>29 DEF Documented, Moves, Placed, Settling, BeforeDebit,
       AfterTransfer, SettleSellerRow, Goto, store, local
  <2>3. QED
    BY <2>1, <2>2 DEF Effect
<1>30. ASSUME NEW h \in Handlers,
              SettleBuyerRow(h)
       PROVE  Effect
  <2>1. Others(h)
    BY <1>30 DEF Others, Documents, SettleBuyerRow, Goto, store, local
  <2>2. Moves(h)
    BY <1>30 DEF Documented, Moves, Placed, Settling, BeforeDebit,
       AfterTransfer, SettleBuyerRow, Goto, store, local
  <2>3. QED
    BY <2>1, <2>2 DEF Effect
<1>31. ASSUME NEW h \in Handlers,
              RecomputeRead(h)
       PROVE  Effect
  <2>1. Others(h)
    BY <1>31 DEF Others, Documents, RecomputeRead, Goto, store, local
  <2>2. Moves(h) \/ Outside(h)
    BY <1>31 DEF Documented, Moves, Outside, Placed, Settling, BeforeDebit,
       AfterTransfer, RecomputeRead, Goto, store, local
  <2>3. QED
    BY <2>1, <2>2 DEF Effect
<1>32. ASSUME NEW h \in Handlers,
              RecomputeWrite(h)
       PROVE  Effect
  <2>1. Others(h)
    BY <1>32 DEF Others, Documents, RecomputeWrite, Goto, Finish, store,
       local
  <2>2. Moves(h) \/ Outside(h)
    <3>1. CASE Finish(h)
      BY <1>32, <3>1 DEF Documented, Moves, Outside, Placed, Documents,
           Settling, BeforeDebit, AfterTransfer, RecomputeWrite, Finish,
           Fresh, store, local
    <3>2. CASE ~Finish(h)
      BY <1>32, <3>2 DEF Documented, Moves, Outside, Placed, Documents,
           Settling, BeforeDebit, AfterTransfer, RecomputeWrite, Goto,
           store, local
    <3>3. QED
      BY <3>1, <3>2
  <2>3. QED
    BY <2>1, <2>2 DEF Effect
<1>33. ASSUME NEW h \in Handlers,
              RecomputeFails(h)
       PROVE  Effect
  <2>1. Others(h)
    BY <1>33 DEF Others, Documents, RecomputeFails, store, local
  <2>2. Moves(h)
    BY <1>33 DEF Documented, Moves, Placed, Settling, BeforeDebit,
       AfterTransfer, RecomputeFails, store, local
  <2>3. QED
    BY <2>1, <2>2 DEF Effect
<1>34. ASSUME NEW h \in Handlers,
              SettleListing(h)
       PROVE  Effect
  <2>1. Others(h)
    BY <1>34 DEF Others, Documents, SettleListing, Goto, store, local
  <2>2. Moves(h)
    BY <1>34 DEF Documented, Moves, Placed, Settling, BeforeDebit,
       AfterTransfer, SettleListing, Goto, store, local
  <2>3. QED
    BY <2>1, <2>2 DEF Effect
<1>35. ASSUME NEW h \in Handlers,
              SettleDone(h)
       PROVE  Effect
  <2>1. Others(h)
    BY <1>35 DEF Others, Documents, SettleDone, Finish, store, local
  <2>2. Closes(h)
    BY <1>35 DEF Closes
  <2>3. QED
    BY <2>1, <2>2 DEF Effect
<1>36. ASSUME NEW h \in Handlers,
              Abort(h)
       PROVE  Effect
  <2>1. Others(h)
    BY <1>36 DEF Others, Documents, Abort, Finish, store, local
  <2>2. Outside(h)
    BY <1>36 DEF Documented, Outside, Placed, Settling, BeforeDebit,
       AfterTransfer, Abort, Finish, Fresh, store, local
  <2>3. QED
    BY <2>1, <2>2 DEF Effect
<1>37. CASE UNCHANGED vars
  BY <1>37 DEF vars, store, local
<1>38. QED
  BY <1>1, <1>2, <1>3, <1>4, <1>5, <1>6, <1>7, <1>8, <1>9, <1>10, <1>11,
     <1>12, <1>13, <1>14, <1>15, <1>16, <1>17, <1>18, <1>19, <1>20, <1>21,
     <1>22, <1>23, <1>24, <1>25, <1>26, <1>27, <1>28, <1>29, <1>30, <1>31,
     <1>32, <1>33, <1>34, <1>35, <1>36, <1>37 DEF Next, Arrive, Serve,
     Settle

(* What every step lemma below splits on.                                  *)
Unmoved == UNCHANGED <<trade, booked, transfers, pc, work, order>>

(* A handler keeps the trade it inserted until it is idle again.           *)
LEMMA StepPlaced ==
  Documents /\ Works /\ Counts /\ Placed /\ Exclusive /\ (Effect \/ Unmoved)
    => Placed'
<1> SUFFICES ASSUME Documents, Works, Counts, Placed, Exclusive, Effect \/
                    Unmoved
             PROVE  Placed'
  OBVIOUS
<1> USE DEF Documents, Works, Counts, Placed, Exclusive, Settling,
            BeforeDebit, AfterTransfer, Fresh, NoOrder, Absent
<1>1. ASSUME NEW h \in Handlers, Others(h), Outside(h)
       PROVE  Placed'
  <2>1. \A g \in Handlers \ {h} :
          /\ pc'[g] = pc[g] /\ order'[g] = order[g] /\ trade' = trade
          /\ work'[g].trade = work[g].trade
    BY <1>1 DEF Outside, Documented, Others
  <2>2. None \notin Trades /\ work'[h].trade = None
    BY <1>1 DEF Outside
  <2>3. QED
    BY <1>1, <2>1, <2>2 DEF Outside
<1>2. ASSUME NEW h \in Handlers, NEW t \in Trades, Others(h), Inserts(h, t)
       PROVE  Placed'
  BY <1>2 DEF Inserts, Others
<1>3. ASSUME NEW h \in Handlers, Others(h), Moves(h)
       PROVE  Placed'
  BY <1>3 DEF Moves, Documented, Others
<1>4. ASSUME NEW h \in Handlers, Others(h), SettleDebit(h)
       PROVE  Placed'
  BY <1>4 DEF SettleDebit, Book, Goto, Others
<1>5. ASSUME NEW h \in Handlers, Others(h), SettleCredit(h)
       PROVE  Placed'
  BY <1>5 DEF SettleCredit, Book, Goto, Others
<1>6. ASSUME NEW h \in Handlers, Others(h), SettleFee(h)
       PROVE  Placed'
  BY <1>6 DEF SettleFee, Book, Goto, Others
<1>7. ASSUME NEW h \in Handlers, Others(h), SettleTransfer(h)
       PROVE  Placed'
  BY <1>7 DEF SettleTransfer, Goto, Others
<1>8. ASSUME NEW h \in Handlers, Others(h), SettleFail(h)
       PROVE  Placed'
  BY <1>8 DEF SettleFail, Finish, Others
<1>9. ASSUME NEW h \in Handlers, Others(h), SettleDone(h)
       PROVE  Placed'
  BY <1>9 DEF SettleDone, Finish, Others
<1>10. CASE Unmoved
  BY <1>10 DEF Unmoved
<1>11. QED
  BY <1>1, <1>2, <1>3, <1>4, <1>5, <1>6, <1>7, <1>8, <1>9, <1>10
     DEF Effect, Books, Closes

(* No handler takes over the trade of another.                             *)
LEMMA StepExclusive ==
  Documents /\ Works /\ Counts /\ Placed /\ Exclusive /\ (Effect \/ Unmoved)
    => Exclusive'
<1> SUFFICES ASSUME Documents, Works, Counts, Placed, Exclusive, Effect \/
                    Unmoved
             PROVE  Exclusive'
  OBVIOUS
<1> USE DEF Works, Counts, Placed, Exclusive, Settling, BeforeDebit,
            AfterTransfer, Fresh, Absent
<1>1. ASSUME NEW h \in Handlers, Others(h), Outside(h)
       PROVE  Exclusive'
  BY <1>1 DEF Outside, Documented, Others
<1>2. ASSUME NEW h \in Handlers, NEW t \in Trades, Others(h), Inserts(h, t)
       PROVE  Exclusive'
  <2>1. \A g \in Handlers : work[g].trade # t
    BY <1>2 DEF Inserts
  <2>2. \A g \in Handlers \ {h} : work'[g].trade = work[g].trade
    BY <1>2 DEF Others
  <2>3. QED
    BY <1>2, <2>1, <2>2 DEF Inserts
<1>3. ASSUME NEW h \in Handlers, Others(h), Moves(h)
       PROVE  Exclusive'
  <2>1. \A g \in Handlers : work'[g].trade = work[g].trade
    BY <1>3 DEF Moves, Others
  <2>2. QED
    BY <2>1
<1>4. ASSUME NEW h \in Handlers, Others(h), SettleDebit(h)
       PROVE  Exclusive'
  BY <1>4 DEF SettleDebit, Book, Goto, Others
<1>5. ASSUME NEW h \in Handlers, Others(h), SettleCredit(h)
       PROVE  Exclusive'
  BY <1>5 DEF SettleCredit, Book, Goto, Others
<1>6. ASSUME NEW h \in Handlers, Others(h), SettleFee(h)
       PROVE  Exclusive'
  BY <1>6 DEF SettleFee, Book, Goto, Others
<1>7. ASSUME NEW h \in Handlers, Others(h), SettleTransfer(h)
       PROVE  Exclusive'
  BY <1>7 DEF SettleTransfer, Goto, Others
<1>8. ASSUME NEW h \in Handlers, Others(h), SettleFail(h)
       PROVE  Exclusive'
  BY <1>8 DEF SettleFail, Finish, Others
<1>9. ASSUME NEW h \in Handlers, Others(h), SettleDone(h)
       PROVE  Exclusive'
  BY <1>9 DEF SettleDone, Finish, Others
<1>10. CASE Unmoved
  BY <1>10 DEF Unmoved
<1>11. QED
  BY <1>1, <1>2, <1>3, <1>4, <1>5, <1>6, <1>7, <1>8, <1>9, <1>10
     DEF Effect, Books, Closes

(* A handler's step leaves the others at the stage they were, since their  *)
(* trades are other trades.                                                *)
LEMMA OthersStage ==
  ASSUME Exclusive, Progress, NEW h \in Handlers, Others(h),
         \A t \in Trades \ {work[h].trade} :
            booked'[t] = booked[t] /\ transfers'[t] = transfers[t]
            /\ trade'[t] = trade[t],
         NEW g \in Handlers \ {h}
  PROVE  Stage(g)'
<1>1. work'[g] = work[g] /\ pc'[g] = pc[g]
  BY DEF Others
<1>2. CASE work[g].trade \notin Trades
  BY <1>1, <1>2 DEF Stage
<1>3. CASE work[g].trade \in Trades
  <2> DEFINE t == work[g].trade
  <2>1. t \in Trades \ {work[h].trade}
    BY <1>3 DEF Exclusive
  <2>2. booked'[t] = booked[t] /\ transfers'[t] = transfers[t] /\ trade'[t] = trade[t]
    BY <2>1
  <2>3. Stage(g)
    BY DEF Progress
  <2> QED
    BY <1>1, <2>2, <2>3 DEF Stage, Booked, FullyBooked
<1> QED
  BY <1>2, <1>3

(* Every place finds booked and transferred what the places before left.   *)
LEMMA StepProgress ==
  Documents /\ Works /\ Counts /\ Placed /\ Exclusive /\ Progress /\
     Untouched /\ (Effect \/ Unmoved)
    => Progress'
<1> SUFFICES ASSUME Documents, Works, Counts, Placed, Exclusive, Progress,
                    Untouched, Effect \/ Unmoved
             PROVE  Progress'
  OBVIOUS
<1> DEFINE Elsewhere(h) ==
      \A t \in Trades \ {work[h].trade} :
         booked'[t] = booked[t] /\ transfers'[t] = transfers[t] /\ trade'[t] = trade[t]
<1>0. ASSUME NEW h \in Handlers, Others(h), Elsewhere(h), Stage(h)'
      PROVE  Progress'
  <2> SUFFICES ASSUME NEW g \in Handlers PROVE Stage(g)'
    BY DEF Progress
  <2>1. CASE g = h
    BY <1>0, <2>1
  <2>2. CASE g # h
    BY <1>0, <2>2, OthersStage
  <2> QED
    BY <2>1, <2>2
<1> HIDE DEF Elsewhere
<1>1. ASSUME NEW h \in Handlers, Others(h), Outside(h)
       PROVE  Progress'
  <2>1. Elsewhere(h)
    BY <1>1 DEF Outside, Documented, Elsewhere
  <2>2. Stage(h)'
    BY <1>1 DEF Outside, Stage
  <2> QED
    BY <1>0, <1>1, <2>1, <2>2
<1>2. ASSUME NEW h \in Handlers, NEW t \in Trades, Others(h), Inserts(h, t)
       PROVE  Progress'
  <2>1. Booked(t, 0, 0, 0)' /\ transfers'[t] = 0
    BY <1>2 DEF Inserts, Untouched, Booked
  <2>2. work'[h].trade = t /\ pc'[h] \in BeforeDebit
    BY <1>2 DEF Inserts, BeforeDebit
  <2>3. Stage(h)'
    BY <2>1, <2>2 DEF Stage, BeforeDebit, AfterTransfer
  <2>4. \A g \in Handlers \ {h} : work[g].trade \in Trades => work[g].trade # t
    BY <1>2 DEF Inserts, Placed, Absent
  <2>5. /\ booked' = booked /\ transfers' = transfers
        /\ \A u \in Trades \ {t} : trade'[u] = trade[u]
    BY <1>2 DEF Inserts, Documents
  <2>6. ASSUME NEW g \in Handlers \ {h} PROVE Stage(g)'
    <3>1. work'[g] = work[g] /\ pc'[g] = pc[g]
      BY <1>2 DEF Others
    <3>2. Stage(g)
      BY DEF Progress
    <3> QED
      BY <3>1, <3>2, <2>4, <2>5 DEF Stage, Booked, FullyBooked
  <2> QED
    BY <2>3, <2>6 DEF Progress
<1>3. ASSUME NEW h \in Handlers, Others(h), Moves(h)
       PROVE  Progress'
  <2>1. Elsewhere(h)
    BY <1>3 DEF Moves, Documented, Elsewhere
  <2>2. Stage(h)
    BY DEF Progress
  <2>3. Stage(h)'
    BY <1>3, <2>2 DEF Moves, Documented, Stage, Booked, FullyBooked,
       BeforeDebit, AfterTransfer
  <2> QED
    BY <1>0, <1>3, <2>1, <2>3
<1>4. ASSUME NEW h \in Handlers, Others(h), SettleDebit(h)
       PROVE  Progress'
  <2>1. pc[h] = "st_debit" /\ pc'[h] = "st_credit" /\ work' = work
        /\ trade' = trade /\ transfers' = transfers
    BY <1>4 DEF SettleDebit, Goto, Book, Counts
  <2>2. work[h].trade \in Trades
    BY <2>1 DEF Placed, Settling, BeforeDebit
  <2>3. Booked(work[h].trade, 0, 0, 0) /\ transfers[work[h].trade] = 0
    BY <2>1, <2>2 DEF Progress, Stage, BeforeDebit
  <2>4. Elsewhere(h) /\ Booked(work[h].trade, 1, 0, 0)'
    BY <1>4, <2>1, <2>2, <2>3
       DEF SettleDebit, Book, Elsewhere, Booked, Counts, Reasons
  <2>5. Stage(h)'
    BY <2>1, <2>3, <2>4 DEF Stage, BeforeDebit, AfterTransfer
  <2> QED
    BY <1>0, <1>4, <2>4, <2>5
<1>5. ASSUME NEW h \in Handlers, Others(h), SettleCredit(h)
       PROVE  Progress'
  <2>1. pc[h] = "st_credit" /\ work' = work /\ trade' = trade
        /\ transfers' = transfers
        /\ pc'[h] = IF Fee(trade[work[h].trade]) > 0 THEN "st_fee" ELSE "st_transfer"
    BY <1>5 DEF SettleCredit, Goto, Book, Trade, Counts
  <2>2. work[h].trade \in Trades
    BY <2>1 DEF Placed, Settling, BeforeDebit
  <2>3. Booked(work[h].trade, 1, 0, 0) /\ transfers[work[h].trade] = 0
    BY <2>1, <2>2 DEF Progress, Stage
  <2>4. Elsewhere(h) /\ Booked(work[h].trade, 1, 1, 0)'
    BY <1>5, <2>1, <2>2, <2>3
       DEF SettleCredit, Book, Elsewhere, Booked, Counts, Reasons
  <2>5. Stage(h)'
    BY <2>1, <2>3, <2>4 DEF Stage, BeforeDebit, AfterTransfer, FullyBooked, Booked
  <2> QED
    BY <1>0, <1>5, <2>4, <2>5
<1>6. ASSUME NEW h \in Handlers, Others(h), SettleFee(h)
       PROVE  Progress'
  <2>1. pc[h] = "st_fee" /\ pc'[h] = "st_transfer" /\ work' = work
        /\ trade' = trade /\ transfers' = transfers
    BY <1>6 DEF SettleFee, Goto, Book, Counts
  <2>2. work[h].trade \in Trades
    BY <2>1 DEF Placed, Settling, BeforeDebit
  <2>3. /\ Booked(work[h].trade, 1, 1, 0) /\ transfers[work[h].trade] = 0
        /\ Fee(trade[work[h].trade]) > 0
    BY <2>1, <2>2 DEF Progress, Stage
  <2>4. Elsewhere(h) /\ Booked(work[h].trade, 1, 1, 1)'
    BY <1>6, <2>1, <2>2, <2>3
       DEF SettleFee, Book, Elsewhere, Booked, Counts, Reasons
  <2>5. Stage(h)'
    BY <2>1, <2>3, <2>4 DEF Stage, BeforeDebit, AfterTransfer, FullyBooked, Booked
  <2> QED
    BY <1>0, <1>6, <2>4, <2>5
<1>7. ASSUME NEW h \in Handlers, Others(h), SettleTransfer(h)
       PROVE  Progress'
  <2>1. pc[h] = "st_transfer" /\ pc'[h] \in AfterTransfer /\ work' = work
        /\ trade' = trade /\ booked' = booked
    BY <1>7 DEF SettleTransfer, Goto, Counts, AfterTransfer
  <2>2. work[h].trade \in Trades
    BY <2>1 DEF Placed, Settling, BeforeDebit
  <2>3. FullyBooked(work[h].trade) /\ transfers[work[h].trade] = 0
    BY <2>1, <2>2 DEF Progress, Stage
  <2>4. Elsewhere(h) /\ transfers'[work[h].trade] = 1
    BY <1>7, <2>1, <2>2, <2>3 DEF SettleTransfer, Elsewhere, Counts
  <2>5. Stage(h)'
    BY <2>1, <2>3, <2>4 DEF Stage, BeforeDebit, AfterTransfer, FullyBooked
  <2> QED
    BY <1>0, <1>7, <2>4, <2>5
<1>8. ASSUME NEW h \in Handlers, Others(h), Closes(h)
       PROVE  Progress'
  <2>1. /\ work' = [work EXCEPT ![h] = Fresh]
        /\ booked' = booked /\ transfers' = transfers
        /\ \A t \in Trades \ {work[h].trade} : trade'[t] = trade[t]
    BY <1>8 DEF Closes, SettleFail, SettleDone, Finish, Documents
  <2>2. work'[h].trade = None
    BY <2>1 DEF Works, Fresh
  <2>3. Elsewhere(h)
    BY <2>1 DEF Elsewhere
  <2>4. Stage(h)'
    BY <2>2 DEF Stage
  <2> QED
    BY <1>0, <1>8, <2>3, <2>4
<1>9. CASE Unmoved
  BY <1>9 DEF Unmoved, Progress, Stage, Booked, FullyBooked
<1>10. QED
  BY <1>1, <1>2, <1>3, <1>4, <1>5, <1>6, <1>7, <1>8, <1>9 DEF Effect, Books

(* A trade that does not exist has no entries.                             *)
LEMMA StepUntouched ==
  Documents /\ Works /\ Counts /\ Placed /\ Untouched /\ (Effect \/ Unmoved)
    => Untouched'
<1> SUFFICES ASSUME Documents, Works, Counts, Placed, Untouched, Effect \/
                    Unmoved
             PROVE  Untouched'
  OBVIOUS
<1> USE DEF Documents, Works, Counts, Placed, Untouched, Booked, Settling,
            BeforeDebit, AfterTransfer, Reasons, Absent
<1>1. ASSUME NEW h \in Handlers, Others(h), Outside(h)
       PROVE  Untouched'
  BY <1>1 DEF Outside, Documented, Others
<1>2. ASSUME NEW h \in Handlers, NEW t \in Trades, Others(h), Inserts(h, t)
       PROVE  Untouched'
  BY <1>2 DEF Inserts, Others
<1>3. ASSUME NEW h \in Handlers, Others(h), Moves(h)
       PROVE  Untouched'
  BY <1>3 DEF Moves, Documented, Others
<1>4. ASSUME NEW h \in Handlers, Others(h), SettleDebit(h)
       PROVE  Untouched'
  BY <1>4 DEF SettleDebit, Book, Goto, Others
<1>5. ASSUME NEW h \in Handlers, Others(h), SettleCredit(h)
       PROVE  Untouched'
  BY <1>5 DEF SettleCredit, Book, Goto, Others
<1>6. ASSUME NEW h \in Handlers, Others(h), SettleFee(h)
       PROVE  Untouched'
  BY <1>6 DEF SettleFee, Book, Goto, Others
<1>7. ASSUME NEW h \in Handlers, Others(h), SettleTransfer(h)
       PROVE  Untouched'
  BY <1>7 DEF SettleTransfer, Goto, Others
<1>8. ASSUME NEW h \in Handlers, Others(h), SettleFail(h)
       PROVE  Untouched'
  BY <1>8 DEF SettleFail, Finish, Others
<1>9. ASSUME NEW h \in Handlers, Others(h), SettleDone(h)
       PROVE  Untouched'
  BY <1>9 DEF SettleDone, Finish, Others
<1>10. CASE Unmoved
  BY <1>10 DEF Unmoved
<1>11. QED
  BY <1>1, <1>2, <1>3, <1>4, <1>5, <1>6, <1>7, <1>8, <1>9, <1>10
     DEF Effect, Books, Closes

(* The properties: settled trades are complete, others owe nobody.         *)
LEMMA StepConserved ==
  Documents /\ Works /\ Counts /\ Placed /\ Exclusive /\ Progress /\
     Untouched /\ Conserved /\ (Effect \/ Unmoved)
    => Conserved'
<1> SUFFICES ASSUME Documents, Works, Counts, Placed, Exclusive, Progress,
                    Untouched, Conserved, Effect \/ Unmoved
             PROVE  Conserved'
  OBVIOUS
<1> USE DEF Documents, Works, Counts, Placed, Exclusive, Progress, Stage,
            Untouched, Conserved, TransferMatchesTrade, TradeConserved,
            NothingForNothing, Settled, Booked, FullyBooked, Settling,
            BeforeDebit, AfterTransfer, Reasons, Absent
<1>1. ASSUME NEW h \in Handlers, Others(h), Outside(h)
       PROVE  Conserved'
  BY <1>1 DEF Outside, Documented, Others
<1>2. ASSUME NEW h \in Handlers, NEW t \in Trades, Others(h), Inserts(h, t)
       PROVE  Conserved'
  BY <1>2 DEF Inserts, Others
<1>3. ASSUME NEW h \in Handlers, Others(h), Moves(h)
       PROVE  Conserved'
  BY <1>3 DEF Moves, Documented, Others
<1>4. ASSUME NEW h \in Handlers, Others(h), SettleDebit(h)
       PROVE  Conserved'
  BY <1>4 DEF SettleDebit, Book, Goto, Others
<1>5. ASSUME NEW h \in Handlers, Others(h), SettleCredit(h)
       PROVE  Conserved'
  BY <1>5 DEF SettleCredit, Book, Goto, Others
<1>6. ASSUME NEW h \in Handlers, Others(h), SettleFee(h)
       PROVE  Conserved'
  BY <1>6 DEF SettleFee, Book, Goto, Others
<1>7. ASSUME NEW h \in Handlers, Others(h), SettleTransfer(h)
       PROVE  Conserved'
  BY <1>7 DEF SettleTransfer, Goto, Others
<1>8. ASSUME NEW h \in Handlers, Others(h), SettleFail(h)
       PROVE  Conserved'
  BY <1>8 DEF SettleFail, Finish, Others
<1>9. ASSUME NEW h \in Handlers, Others(h), SettleDone(h)
       PROVE  Conserved'
  <2>1. /\ work[h].trade \in Trades
        /\ FullyBooked(work[h].trade) /\ transfers[work[h].trade] = 1
    BY <1>9 DEF SettleDone
  <2>2. /\ booked' = booked /\ transfers' = transfers
        /\ trade'[work[h].trade] = [trade[work[h].trade] EXCEPT !.status = "settled"]
        /\ \A t \in Trades : t # work[h].trade => trade'[t] = trade[t]
    BY <1>9, <2>1 DEF SettleDone
  <2>3. ASSUME NEW t \in Trades PROVE Fee(trade'[t]) = Fee(trade[t])
    <3>1. IsOrder(trade[t])
      BY DEF Documents
    <3>2. CASE t = work[h].trade
      <4>1. Fee([trade[t] EXCEPT !.status = "settled"]) = Fee(trade[t])
        BY <3>1, FeeKept
      <4>2. trade'[t] = [trade[t] EXCEPT !.status = "settled"]
        BY <2>2, <3>2
      <4>3. QED
        BY <4>1, <4>2
    <3>3. CASE t # work[h].trade
      BY <2>2, <3>3
    <3>4. QED
      BY <3>2, <3>3
  <2>4. ASSUME NEW t \in Trades
        PROVE  /\ FullyBooked(t)' <=> FullyBooked(t)
               /\ Settled(t)' => Settled(t) \/ t = work[h].trade
    <3>1. FullyBooked(t)' <=> FullyBooked(t)
      BY <2>2, <2>3
    <3>2. CASE t = work[h].trade
      BY <3>1, <3>2
    <3>3. CASE t # work[h].trade
      BY <3>1, <2>2, <3>3
    <3>4. QED
      BY <3>2, <3>3
  <2>5. TransferMatchesTrade'
    <3>1. ASSUME NEW t \in Trades, Settled(t)' PROVE transfers'[t] = 1
      BY <2>1, <2>2, <2>4, <3>1
    <3>2. QED
      BY <3>1
  <2>6. TradeConserved'
    <3>1. ASSUME NEW t \in Trades, Settled(t)' PROVE FullyBooked(t)'
      <4>1. Settled(t) \/ t = work[h].trade
        BY <2>4, <3>1
      <4>2. FullyBooked(t)
        BY <2>1, <4>1
      <4>3. QED
        BY <2>4, <4>2
    <3>2. QED
      BY <3>1
  <2>7. NothingForNothing'
    <3>1. ASSUME NEW t \in Trades, transfers'[t] > 0 PROVE FullyBooked(t)'
      <4>1. FullyBooked(t)
        BY <2>2, <3>1
      <4>2. QED
        BY <2>4, <4>1
    <3>2. QED
      BY <2>2, <3>1
  <2>8. QED
    BY <2>5, <2>6, <2>7
<1>10. CASE Unmoved
  BY <1>10 DEF Unmoved
<1>11. QED
  BY <1>1, <1>2, <1>3, <1>4, <1>5, <1>6, <1>7, <1>8, <1>9, <1>10
     DEF Effect, Books, Closes

(* SettlementInv is an invariant of the specification.                     *)
THEOREM SettlementInvariant == Spec => []SettlementInv
<1>1. SettlementInv /\ [Next]_vars => SettlementInv'
  BY StepDocuments, StepWorks, StepCounts, StepEffect, StepPlaced,
     StepExclusive, StepProgress, StepUntouched, StepConserved
  DEF SettlementInv, Unmoved
<1>2. QED
  BY InitSettlementInv, <1>1, PTL DEF Spec

(* I11: whatever settlements overlap or die, a settled trade has exactly   *)
(* one share transfer.                                                     *)
THEOREM TransferMatchesTradeAlways == Spec => []TransferMatchesTrade
<1>1. SettlementInv => TransferMatchesTrade
  BY DEF SettlementInv, Conserved
<1>2. QED
  BY SettlementInvariant, <1>1, PTL

(* I12: a settled trade has debited the buyer and credited the seller and  *)
(* the platform exactly once each.                                         *)
THEOREM TradeConservedAlways == Spec => []TradeConserved
<1>1. SettlementInv => TradeConserved
  BY DEF SettlementInv, Conserved
<1>2. QED
  BY SettlementInvariant, <1>1, PTL

(* A settlement that stops half way has created no money and has given no  *)
(* shares away unpaid.                                                     *)
THEOREM NothingForNothingAlways == Spec => []NothingForNothing
<1>1. SettlementInv => NothingForNothing
  BY DEF SettlementInv, Conserved
<1>2. QED
  BY SettlementInvariant, <1>1, PTL
-----------------------------------------------------------------------------
(* The types.  The one that is not plain is that of a listing's fill and   *)
(* of an order's units: they are natural numbers because an open listing   *)
(* never shows more filled than it offers, even when it is sold twice.     *)
ListingTypes ==
  /\ listing \in [Listings -> [status : ListingStatuses \cup {Absent},
                               filled : Nat]]
  /\ bid \in [Bids -> BidStatuses \cup {Absent}]
  /\ \A l \in Listings :
       listing[l].status \in Open => listing[l].filled <= UnitsOf[l]

OrderTypes ==
  /\ trade \in [Trades -> Orders \cup {NoOrder}]
  /\ order \in [Handlers -> Orders \cup {NoOrder}]

(* A record of what was read has these fields; only filled is written back *)
(* into what the types speak of.                                           *)
IsReading(s) ==
  /\ s = [filled |-> s.filled, seller |-> s.seller, buyer |-> s.buyer,
          cash |-> s.cash]
  /\ s.filled \in Nat

SeenTypes ==
  /\ seen = [h \in Handlers |-> seen[h]]
  /\ \A h \in Handlers : IsReading(seen[h])

LocalTypes ==
  /\ pc \in [Handlers -> Places]
  /\ failures \in Nat
  /\ \A h \in Handlers :
       /\ pc[h] \in {"list_insert", "list_check", "unlist_write"}
            => work[h].listing \in Listings
       /\ pc[h] = "accept_listing" => work[h].bid \in Bids

MarketTypes == ListingTypes /\ OrderTypes /\ SeenTypes /\ LocalTypes

(* Nothing exists at first.                                                *)
LEMMA InitMarketTypes == Init => MarketTypes
<1> SUFFICES ASSUME Init PROVE MarketTypes
  OBVIOUS
<1> USE DEF Init
<1>1. ListingTypes
  BY DEF ListingTypes, Open, Absent
<1>2. OrderTypes
  BY DEF OrderTypes, NoOrder
<1>3. SeenTypes
  BY DEF SeenTypes, IsReading, Unread
<1>4. LocalTypes
  BY DEF LocalTypes, Places
<1>5. QED
  BY <1>1, <1>2, <1>3, <1>4 DEF MarketTypes

(* The trade of a handler is an order.                                     *)
LEMMA TradeIsOrder ==
  ASSUME OrderTypes, Placed, NEW h \in Handlers,
         pc[h] \in Settling \ {"w_read", "w_write"}
  PROVE  work[h].trade \in Trades /\ Trade(h) \in Orders
<1>1. work[h].trade \in Trades /\ Trade(h).status = "pending"
  BY DEF Placed, Trade
<1>2. QED
  BY <1>1 DEF OrderTypes, NoOrder, Absent, Trade

(* What writing one listing leaves of the types of listings.               *)
LEMMA ListingWritten ==
  ASSUME ListingTypes, NEW l \in Listings,
         NEW r \in [status : ListingStatuses \cup {Absent}, filled : Nat],
         r.status \in Open => r.filled <= UnitsOf[l],
         listing' = [listing EXCEPT ![l] = r], bid' = bid
  PROVE  ListingTypes'
BY DEF ListingTypes

(* Likewise for what a handler reads and for its end.                      *)
LEMMA ReadingTaken ==
  ASSUME SeenTypes, NEW h \in Handlers, NEW s, IsReading(s),
         seen' = [seen EXCEPT ![h] = s]
  PROVE  SeenTypes'
<1>1. seen'[h] = s /\ \A g \in Handlers \ {h} : seen'[g] = seen[g]
  BY DEF SeenTypes
<1>2. QED
  BY <1>1 DEF SeenTypes

LEMMA FieldRead ==
  ASSUME NEW s, IsReading(s), NEW v
  PROVE  /\ v \in Nat => IsReading([s EXCEPT !.filled = v])
         /\ IsReading([s EXCEPT !.seller = v])
         /\ IsReading([s EXCEPT !.buyer = v])
         /\ IsReading([s EXCEPT !.cash = v])
BY DEF IsReading

LEMMA FinishSeen ==
  ASSUME SeenTypes, NEW h \in Handlers, Finish(h)
  PROVE  SeenTypes'
<1>1. IsReading(Unread) /\ seen' = [seen EXCEPT ![h] = Unread]
  BY DEF IsReading, Unread, Finish
<1>2. QED
  BY <1>1, ReadingTaken

LEMMA FinishLocal ==
  ASSUME LocalTypes, Works, NEW h \in Handlers, Finish(h), failures' \in Nat
  PROVE  LocalTypes'
BY DEF LocalTypes, Works, Finish, Places

(* Every step keeps the types of listings and bids.                        *)
LEMMA StepListingTypes ==
  ListingTypes /\ OrderTypes /\ SeenTypes /\ LocalTypes /\ Placed /\
     [Next]_vars
    => ListingTypes'
<1> SUFFICES ASSUME ListingTypes, OrderTypes, SeenTypes, LocalTypes, Placed,
                    [Next]_vars
             PROVE  ListingTypes'
  OBVIOUS
<1>1. ASSUME NEW h \in Handlers, NEW l \in Listings,
              ListReadOwned(h, l)
       PROVE  ListingTypes'
  BY <1>1 DEF ListReadOwned, store, ListingTypes
<1>2. ASSUME NEW h \in Handlers, NEW l \in Listings,
              UnlistRead(h, l)
       PROVE  ListingTypes'
  BY <1>2 DEF UnlistRead, store, ListingTypes
<1>3. ASSUME NEW h \in Handlers, NEW b \in Bids,
              BidRead(h, b)
       PROVE  ListingTypes'
  BY <1>3 DEF BidRead, store, ListingTypes
<1>4. ASSUME NEW h \in Handlers, NEW b \in Bids,
              CancelBidRead(h, b)
       PROVE  ListingTypes'
  BY <1>4 DEF CancelBidRead, store, TakeBid, ListingTypes
<1>5. ASSUME NEW h \in Handlers, NEW b \in Bids,
              RejectBidRead(h, b)
       PROVE  ListingTypes'
  BY <1>5 DEF RejectBidRead, store, TakeBid, ListingTypes
<1>6. ASSUME NEW h \in Handlers, NEW b \in Bids,
              AcceptRead(h, b)
       PROVE  ListingTypes'
  BY <1>6 DEF AcceptRead, store, TakeBid, ListingTypes
<1>7. ASSUME NEW h \in Handlers, NEW l \in Listings,
              NEW i \in Investors, NEW u \in BuyUnits,
              BuyRead(h, l, i, u)
       PROVE  ListingTypes'
  BY <1>7 DEF BuyRead, store, ListingTypes
<1>8. ASSUME NEW h \in Handlers, NEW i \in Investors,
              GetWallet(h, i)
       PROVE  ListingTypes'
  BY <1>8 DEF GetWallet, store, ListingTypes
<1>9. ASSUME NEW h \in Handlers,
              ListReadListed(h)
       PROVE  ListingTypes'
  BY <1>9 DEF ListReadListed, store, ListingTypes
<1>10. ASSUME NEW h \in Handlers,
              ListInsert(h)
       PROVE  ListingTypes'
  <2> DEFINE l == work[h].listing
  <2>1. l \in Listings
    BY <1>10 DEF ListInsert, LocalTypes
  <2>2. /\ listing' = [listing EXCEPT ![l] = [status |-> "active", filled |-> 0]]
        /\ bid' = bid
    BY <1>10 DEF ListInsert
  <2>3. /\ [status |-> "active", filled |-> 0]
             \in [status : ListingStatuses \cup {Absent}, filled : Nat]
        /\ 0 <= UnitsOf[l]
    BY <2>1 DEF ListingStatuses
  <2> HIDE DEF l
  <2>4. QED
    BY <2>1, <2>2, <2>3, ListingWritten
<1>11. ASSUME NEW h \in Handlers,
              UnlistWrite(h)
       PROVE  ListingTypes'
  <2> DEFINE l == work[h].listing
             r == [listing[l] EXCEPT !.status = "cancelled"]
  <2>1. l \in Listings
    BY <1>11 DEF UnlistWrite, LocalTypes
  <2>2. listing' = [listing EXCEPT ![l] = r] /\ bid' = bid
    BY <1>11 DEF UnlistWrite
  <2>3. /\ r \in [status : ListingStatuses \cup {Absent}, filled : Nat]
        /\ r.status \notin Open
    BY <2>1 DEF ListingTypes, ListingStatuses, Open
  <2> HIDE DEF l, r
  <2>4. QED
    BY <2>1, <2>2, <2>3, ListingWritten
<1>12. ASSUME NEW h \in Handlers,
              BidInsert(h)
       PROVE  ListingTypes'
  BY <1>12 DEF BidInsert, BidStatuses, ListingTypes
<1>13. ASSUME NEW h \in Handlers,
              CancelBidWrite(h)
       PROVE  ListingTypes'
  BY <1>13 DEF CancelBidWrite, WriteBid, BidStatuses, ListingTypes
<1>14. ASSUME NEW h \in Handlers,
              RejectBidWrite(h)
       PROVE  ListingTypes'
  BY <1>14 DEF RejectBidWrite, WriteBid, BidStatuses, ListingTypes
<1>15. ASSUME NEW h \in Handlers,
              BuyCheck(h)
       PROVE  ListingTypes'
  BY <1>15 DEF BuyCheck, store, ListingTypes
<1>16. ASSUME NEW h \in Handlers, NEW t \in Trades,
              BuyInsert(h, t)
       PROVE  ListingTypes'
  BY <1>16 DEF BuyInsert, store, InsertTrade, ListingTypes
<1>17. ASSUME NEW h \in Handlers, NEW t \in Trades,
              AcceptInsert(h, t)
       PROVE  ListingTypes'
  BY <1>17 DEF AcceptInsert, store, InsertTrade, ListingTypes
<1>18. ASSUME NEW h \in Handlers,
              AcceptReadListing(h)
       PROVE  ListingTypes'
  BY <1>18 DEF AcceptReadListing, store, ListingTypes
<1>19. ASSUME NEW h \in Handlers,
              AcceptMark(h)
       PROVE  ListingTypes'
  BY <1>19 DEF AcceptMark, BidStatuses, ListingTypes
<1>20. ASSUME NEW h \in Handlers,
              SettleReadListing(h)
       PROVE  ListingTypes'
  BY <1>20 DEF SettleReadListing, store, ListingTypes
<1>21. ASSUME NEW h \in Handlers,
              SettleReadWallet(h)
       PROVE  ListingTypes'
  BY <1>21 DEF SettleReadWallet, store, ListingTypes
<1>22. ASSUME NEW h \in Handlers,
              SettleFail(h)
       PROVE  ListingTypes'
  BY <1>22 DEF SettleFail, store, ListingTypes
<1>23. ASSUME NEW h \in Handlers,
              SettleDebit(h)
       PROVE  ListingTypes'
  BY <1>23 DEF SettleDebit, store, Book, ListingTypes
<1>24. ASSUME NEW h \in Handlers,
              SettleCredit(h)
       PROVE  ListingTypes'
  BY <1>24 DEF SettleCredit, store, Book, ListingTypes
<1>25. ASSUME NEW h \in Handlers,
              SettleFee(h)
       PROVE  ListingTypes'
  BY <1>25 DEF SettleFee, store, Book, ListingTypes
<1>26. ASSUME NEW h \in Handlers,
              SettleTransfer(h)
       PROVE  ListingTypes'
  BY <1>26 DEF SettleTransfer, store, ListingTypes
<1>27. ASSUME NEW h \in Handlers,
              SettleReadSeller(h)
       PROVE  ListingTypes'
  BY <1>27 DEF SettleReadSeller, store, ListingTypes
<1>28. ASSUME NEW h \in Handlers,
              SettleReadBuyer(h)
       PROVE  ListingTypes'
  BY <1>28 DEF SettleReadBuyer, store, ListingTypes
<1>29. ASSUME NEW h \in Handlers,
              SettleSellerRow(h)
       PROVE  ListingTypes'
  BY <1>29 DEF SettleSellerRow, store, ListingTypes
<1>30. ASSUME NEW h \in Handlers,
              SettleBuyerRow(h)
       PROVE  ListingTypes'
  BY <1>30 DEF SettleBuyerRow, store, ListingTypes
<1>31. ASSUME NEW h \in Handlers,
              RecomputeRead(h)
       PROVE  ListingTypes'
  BY <1>31 DEF RecomputeRead, store, ListingTypes
<1>32. ASSUME NEW h \in Handlers,
              RecomputeWrite(h)
       PROVE  ListingTypes'
  BY <1>32 DEF RecomputeWrite, store, ListingTypes
<1>33. ASSUME NEW h \in Handlers,
              RecomputeFails(h)
       PROVE  ListingTypes'
  BY <1>33 DEF RecomputeFails, store, ListingTypes
<1>34. ASSUME NEW h \in Handlers,
              SettleListing(h)
       PROVE  ListingTypes'
  <2>1. Trade(h) \in Orders /\ seen[h].filled \in Nat
    BY <1>34, TradeIsOrder
       DEF SettleListing, Goto, Settling, AfterTransfer, SeenTypes,
           IsReading
  <2> DEFINE l == Trade(h).listing
             filled == seen[h].filled + Trade(h).units
             status == IF UnitsOf[l] - filled <= Slack
                       THEN "filled" ELSE "partially_filled"
  <2>2. l \in Listings /\ filled \in Nat
    BY <2>1 DEF Orders
  <2>3. /\ [status |-> status, filled |-> filled]
             \in [status : ListingStatuses \cup {Absent}, filled : Nat]
        /\ status \in Open => filled <= UnitsOf[l]
    BY <2>2 DEF ListingStatuses, Open
  <2>4. /\ listing' = [listing EXCEPT ![l] = [status |-> status, filled |-> filled]]
        /\ bid' = bid
    BY <1>34 DEF SettleListing
  <2> HIDE DEF l, filled, status
  <2>5. QED
    BY <2>2, <2>3, <2>4, ListingWritten
<1>35. ASSUME NEW h \in Handlers,
              SettleDone(h)
       PROVE  ListingTypes'
  BY <1>35 DEF SettleDone, store, ListingTypes
<1>36. ASSUME NEW h \in Handlers,
              Abort(h)
       PROVE  ListingTypes'
  BY <1>36 DEF Abort, store, ListingTypes
<1>37. CASE UNCHANGED vars
  BY <1>37 DEF vars, store, local, ListingTypes
<1>38. QED
  BY <1>1, <1>2, <1>3, <1>4, <1>5, <1>6, <1>7, <1>8, <1>9, <1>10, <1>11,
     <1>12, <1>13, <1>14, <1>15, <1>16, <1>17, <1>18, <1>19, <1>20, <1>21,
     <1>22, <1>23, <1>24, <1>25, <1>26, <1>27, <1>28, <1>29, <1>30, <1>31,
     <1>32, <1>33, <1>34, <1>35, <1>36, <1>37 DEF Next, Arrive, Serve,
     Settle

(* Every step keeps the types of trades and orders.                        *)
LEMMA StepOrderTypes ==
  ListingTypes /\ OrderTypes /\ LocalTypes /\ Placed /\ [Next]_vars
    => OrderTypes'
<1> SUFFICES ASSUME ListingTypes, OrderTypes, LocalTypes, Placed,
                    [Next]_vars
             PROVE  OrderTypes'
  OBVIOUS
<1> USE DEF OrderTypes
<1>1. ASSUME NEW h \in Handlers, NEW l \in Listings,
              ListReadOwned(h, l)
       PROVE  OrderTypes'
  BY <1>1 DEF ListReadOwned, store
<1>2. ASSUME NEW h \in Handlers, NEW l \in Listings,
              UnlistRead(h, l)
       PROVE  OrderTypes'
  BY <1>2 DEF UnlistRead, store
<1>3. ASSUME NEW h \in Handlers, NEW b \in Bids,
              BidRead(h, b)
       PROVE  OrderTypes'
  BY <1>3 DEF BidRead, store
<1>4. ASSUME NEW h \in Handlers, NEW b \in Bids,
              CancelBidRead(h, b)
       PROVE  OrderTypes'
  BY <1>4 DEF CancelBidRead, store, TakeBid
<1>5. ASSUME NEW h \in Handlers, NEW b \in Bids,
              RejectBidRead(h, b)
       PROVE  OrderTypes'
  BY <1>5 DEF RejectBidRead, store, TakeBid
<1>6. ASSUME NEW h \in Handlers, NEW b \in Bids,
              AcceptRead(h, b)
       PROVE  OrderTypes'
  BY <1>6 DEF AcceptRead, store, TakeBid
<1>7. ASSUME NEW h \in Handlers, NEW l \in Listings,
              NEW i \in Investors, NEW u \in BuyUnits,
              BuyRead(h, l, i, u)
       PROVE  OrderTypes'
  BY <1>7 DEF BuyRead, MayBuy, Orders, TradeStatuses, store
<1>8. ASSUME NEW h \in Handlers, NEW i \in Investors,
              GetWallet(h, i)
       PROVE  OrderTypes'
  BY <1>8 DEF GetWallet, store
<1>9. ASSUME NEW h \in Handlers,
              ListReadListed(h)
       PROVE  OrderTypes'
  BY <1>9 DEF ListReadListed, store, Finish
<1>10. ASSUME NEW h \in Handlers,
              ListInsert(h)
       PROVE  OrderTypes'
  BY <1>10 DEF ListInsert, store, Finish
<1>11. ASSUME NEW h \in Handlers,
              UnlistWrite(h)
       PROVE  OrderTypes'
  BY <1>11 DEF UnlistWrite, store, Finish
<1>12. ASSUME NEW h \in Handlers,
              BidInsert(h)
       PROVE  OrderTypes'
  BY <1>12 DEF BidInsert, store, Finish
<1>13. ASSUME NEW h \in Handlers,
              CancelBidWrite(h)
       PROVE  OrderTypes'
  BY <1>13 DEF CancelBidWrite, store, WriteBid, Finish
<1>14. ASSUME NEW h \in Handlers,
              RejectBidWrite(h)
       PROVE  OrderTypes'
  BY <1>14 DEF RejectBidWrite, store, WriteBid, Finish
<1>15. ASSUME NEW h \in Handlers,
              BuyCheck(h)
       PROVE  OrderTypes'
  BY <1>15 DEF BuyCheck, store, Finish
<1>16. ASSUME NEW h \in Handlers, NEW t \in Trades,
              BuyInsert(h, t)
       PROVE  OrderTypes'
  BY <1>16 DEF BuyInsert, store, InsertTrade
<1>17. ASSUME NEW h \in Handlers, NEW t \in Trades,
              AcceptInsert(h, t)
       PROVE  OrderTypes'
  BY <1>17 DEF AcceptInsert, store, InsertTrade
<1>18. ASSUME NEW h \in Handlers,
              AcceptReadListing(h)
       PROVE  OrderTypes'
  <2>1. CASE Finish(h)
    BY <1>18, <2>1 DEF AcceptReadListing, Finish, store
  <2>2. CASE ~Finish(h)
    <3> DEFINE b == work[h].bid
               l == ListingOfBid[b]
    <3>1. b \in Bids /\ l \in Listings
      BY <1>18 DEF AcceptReadListing, LocalTypes
    <3>2. /\ listing[l].status \in Open
          /\ order' = [order EXCEPT ![h] =
               [status |-> "pending", listing |-> l, bid |-> b,
                buyer |-> BidderOf[b], price |-> BidPrice[b],
                units |-> AcceptedUnits(b, Remaining(l))]]
          /\ UNCHANGED trade
      BY <1>18, <2>2 DEF AcceptReadListing, store
    <3>3. Remaining(l) \in Nat
      BY <3>1, <3>2 DEF ListingTypes, Remaining
    <3>4. AcceptedUnits(b, Remaining(l)) \in Nat
      BY <3>1, <3>3 DEF AcceptedUnits
    <3> HIDE DEF b, l
    <3>5. QED
      BY <3>1, <3>2, <3>4 DEF Orders, TradeStatuses
  <2>3. QED
    BY <2>1, <2>2
<1>19. ASSUME NEW h \in Handlers,
              AcceptMark(h)
       PROVE  OrderTypes'
  BY <1>19 DEF AcceptMark, store
<1>20. ASSUME NEW h \in Handlers,
              SettleReadListing(h)
       PROVE  OrderTypes'
  BY <1>20 DEF SettleReadListing, store, Finish
<1>21. ASSUME NEW h \in Handlers,
              SettleReadWallet(h)
       PROVE  OrderTypes'
  BY <1>21 DEF SettleReadWallet, store
<1>22. ASSUME NEW h \in Handlers,
              SettleFail(h)
       PROVE  OrderTypes'
  <2>1. work[h].trade \in Trades /\ Trade(h) \in Orders
    BY <1>22, TradeIsOrder DEF SettleFail, Settling, BeforeDebit, AfterTransfer
  <2>2. [Trade(h) EXCEPT !.status = "failed"] \in Orders
    BY <2>1 DEF Orders, TradeStatuses
  <2>3. /\ trade' = [trade EXCEPT ![work[h].trade] =
                        [Trade(h) EXCEPT !.status = "failed"]]
        /\ order' = [order EXCEPT ![h] = NoOrder]
    BY <1>22 DEF SettleFail, Finish, Trade
  <2>4. QED
    BY <2>1, <2>2, <2>3
<1>23. ASSUME NEW h \in Handlers,
              SettleDebit(h)
       PROVE  OrderTypes'
  BY <1>23 DEF SettleDebit, store, Book
<1>24. ASSUME NEW h \in Handlers,
              SettleCredit(h)
       PROVE  OrderTypes'
  BY <1>24 DEF SettleCredit, store, Book
<1>25. ASSUME NEW h \in Handlers,
              SettleFee(h)
       PROVE  OrderTypes'
  BY <1>25 DEF SettleFee, store, Book
<1>26. ASSUME NEW h \in Handlers,
              SettleTransfer(h)
       PROVE  OrderTypes'
  BY <1>26 DEF SettleTransfer, store
<1>27. ASSUME NEW h \in Handlers,
              SettleReadSeller(h)
       PROVE  OrderTypes'
  BY <1>27 DEF SettleReadSeller, store
<1>28. ASSUME NEW h \in Handlers,
              SettleReadBuyer(h)
       PROVE  OrderTypes'
  BY <1>28 DEF SettleReadBuyer, store
<1>29. ASSUME NEW h \in Handlers,
              SettleSellerRow(h)
       PROVE  OrderTypes'
  BY <1>29 DEF SettleSellerRow, store
<1>30. ASSUME NEW h \in Handlers,
              SettleBuyerRow(h)
       PROVE  OrderTypes'
  BY <1>30 DEF SettleBuyerRow, store
<1>31. ASSUME NEW h \in Handlers,
              RecomputeRead(h)
       PROVE  OrderTypes'
  BY <1>31 DEF RecomputeRead, store
<1>32. ASSUME NEW h \in Handlers,
              RecomputeWrite(h)
       PROVE  OrderTypes'
  BY <1>32 DEF RecomputeWrite, store, Finish
<1>33. ASSUME NEW h \in Handlers,
              RecomputeFails(h)
       PROVE  OrderTypes'
  BY <1>33 DEF RecomputeFails, store
<1>34. ASSUME NEW h \in Handlers,
              SettleListing(h)
       PROVE  OrderTypes'
  BY <1>34 DEF SettleListing, store
<1>35. ASSUME NEW h \in Handlers,
              SettleDone(h)
       PROVE  OrderTypes'
  <2>1. work[h].trade \in Trades /\ Trade(h) \in Orders
    BY <1>35, TradeIsOrder DEF SettleDone, Settling, BeforeDebit, AfterTransfer
  <2>2. [Trade(h) EXCEPT !.status = "settled"] \in Orders
    BY <2>1 DEF Orders, TradeStatuses
  <2>3. /\ trade' = [trade EXCEPT ![work[h].trade] =
                        [Trade(h) EXCEPT !.status = "settled"]]
        /\ order' = [order EXCEPT ![h] = NoOrder]
    BY <1>35 DEF SettleDone, Finish, Trade
  <2>4. QED
    BY <2>1, <2>2, <2>3
<1>36. ASSUME NEW h \in Handlers,
              Abort(h)
       PROVE  OrderTypes'
  BY <1>36 DEF Abort, store, Finish
<1>37. CASE UNCHANGED vars
  BY <1>37 DEF vars, store, local
<1> HIDE DEF OrderTypes
<1>38. QED
  BY <1>1, <1>2, <1>3, <1>4, <1>5, <1>6, <1>7, <1>8, <1>9, <1>10, <1>11,
     <1>12, <1>13, <1>14, <1>15, <1>16, <1>17, <1>18, <1>19, <1>20, <1>21,
     <1>22, <1>23, <1>24, <1>25, <1>26, <1>27, <1>28, <1>29, <1>30, <1>31,
     <1>32, <1>33, <1>34, <1>35, <1>36, <1>37 DEF Next, Arrive, Serve,
     Settle

(* Every step keeps the shape of what handlers have read.                  *)
LEMMA StepSeenTypes ==
  ListingTypes /\ OrderTypes /\ SeenTypes /\ Placed /\ [Next]_vars
    => SeenTypes'
<1> SUFFICES ASSUME ListingTypes, OrderTypes, SeenTypes, Placed, [Next]_vars
             PROVE  SeenTypes'
  OBVIOUS
<1>1. ASSUME NEW h \in Handlers, NEW l \in Listings,
              ListReadOwned(h, l)
       PROVE  SeenTypes'
  <2>1. IsReading([seen[h] EXCEPT !.seller = Owned(SellerOf[l])])
    BY FieldRead DEF SeenTypes
  <2>2. seen' = [seen EXCEPT ![h] = [seen[h] EXCEPT !.seller = Owned(SellerOf[l])]]
    BY <1>1 DEF ListReadOwned
  <2>3. QED
    BY <2>1, <2>2, ReadingTaken
<1>2. ASSUME NEW h \in Handlers, NEW l \in Listings,
              UnlistRead(h, l)
       PROVE  SeenTypes'
  BY <1>2 DEF UnlistRead, SeenTypes
<1>3. ASSUME NEW h \in Handlers, NEW b \in Bids,
              BidRead(h, b)
       PROVE  SeenTypes'
  BY <1>3 DEF BidRead, SeenTypes
<1>4. ASSUME NEW h \in Handlers, NEW b \in Bids,
              CancelBidRead(h, b)
       PROVE  SeenTypes'
  BY <1>4 DEF CancelBidRead, SeenTypes, TakeBid
<1>5. ASSUME NEW h \in Handlers, NEW b \in Bids,
              RejectBidRead(h, b)
       PROVE  SeenTypes'
  BY <1>5 DEF RejectBidRead, SeenTypes, TakeBid
<1>6. ASSUME NEW h \in Handlers, NEW b \in Bids,
              AcceptRead(h, b)
       PROVE  SeenTypes'
  BY <1>6 DEF AcceptRead, SeenTypes, TakeBid
<1>7. ASSUME NEW h \in Handlers, NEW l \in Listings,
              NEW i \in Investors, NEW u \in BuyUnits,
              BuyRead(h, l, i, u)
       PROVE  SeenTypes'
  BY <1>7 DEF BuyRead, SeenTypes
<1>8. ASSUME NEW h \in Handlers, NEW i \in Investors,
              GetWallet(h, i)
       PROVE  SeenTypes'
  BY <1>8 DEF GetWallet, SeenTypes
<1>9. ASSUME NEW h \in Handlers,
              ListReadListed(h)
       PROVE  SeenTypes'
  <2>1. CASE Finish(h)
    BY <1>9, <2>1, FinishSeen
  <2>2. CASE ~Finish(h)
    BY <1>9, <2>2 DEF ListReadListed, SeenTypes, IsReading
  <2>3. QED
    BY <2>1, <2>2
<1>10. ASSUME NEW h \in Handlers,
              ListInsert(h)
       PROVE  SeenTypes'
  BY <1>10, FinishSeen DEF ListInsert
<1>11. ASSUME NEW h \in Handlers,
              UnlistWrite(h)
       PROVE  SeenTypes'
  BY <1>11, FinishSeen DEF UnlistWrite
<1>12. ASSUME NEW h \in Handlers,
              BidInsert(h)
       PROVE  SeenTypes'
  BY <1>12, FinishSeen DEF BidInsert
<1>13. ASSUME NEW h \in Handlers,
              CancelBidWrite(h)
       PROVE  SeenTypes'
  BY <1>13, FinishSeen DEF CancelBidWrite, WriteBid
<1>14. ASSUME NEW h \in Handlers,
              RejectBidWrite(h)
       PROVE  SeenTypes'
  BY <1>14, FinishSeen DEF RejectBidWrite, WriteBid
<1>15. ASSUME NEW h \in Handlers,
              BuyCheck(h)
       PROVE  SeenTypes'
  <2>1. CASE Finish(h)
    BY <1>15, <2>1, FinishSeen
  <2>2. CASE ~Finish(h)
    BY <1>15, <2>2 DEF BuyCheck, SeenTypes, IsReading
  <2>3. QED
    BY <2>1, <2>2
<1>16. ASSUME NEW h \in Handlers, NEW t \in Trades,
              BuyInsert(h, t)
       PROVE  SeenTypes'
  BY <1>16 DEF BuyInsert, SeenTypes
<1>17. ASSUME NEW h \in Handlers, NEW t \in Trades,
              AcceptInsert(h, t)
       PROVE  SeenTypes'
  BY <1>17 DEF AcceptInsert, SeenTypes
<1>18. ASSUME NEW h \in Handlers,
              AcceptReadListing(h)
       PROVE  SeenTypes'
  <2>1. CASE Finish(h)
    BY <1>18, <2>1, FinishSeen
  <2>2. CASE ~Finish(h)
    BY <1>18, <2>2 DEF AcceptReadListing, SeenTypes, IsReading
  <2>3. QED
    BY <2>1, <2>2
<1>19. ASSUME NEW h \in Handlers,
              AcceptMark(h)
       PROVE  SeenTypes'
  BY <1>19 DEF AcceptMark, SeenTypes
<1>20. ASSUME NEW h \in Handlers,
              SettleReadListing(h)
       PROVE  SeenTypes'
  <2> DEFINE v == listing[Trade(h).listing].filled
  <2>1. CASE Finish(h)
    BY <2>1, FinishSeen
  <2>2. CASE ~Finish(h)
    <3>1. Trade(h).listing \in Listings
      BY <1>20, TradeIsOrder DEF SettleReadListing, Settling, BeforeDebit, Orders
    <3>2. v \in Nat
      BY <3>1 DEF ListingTypes
    <3>3. IsReading([seen[h] EXCEPT !.filled = v])
      BY <3>2, FieldRead DEF SeenTypes
    <3>4. seen' = [seen EXCEPT ![h] = [seen[h] EXCEPT !.filled = v]]
      BY <1>20, <2>2 DEF SettleReadListing
    <3> HIDE DEF v
    <3>5. QED
      BY <3>3, <3>4, ReadingTaken
  <2>3. QED
    BY <2>1, <2>2
<1>21. ASSUME NEW h \in Handlers,
              SettleReadWallet(h)
       PROVE  SeenTypes'
  BY <1>21 DEF SettleReadWallet, SeenTypes
<1>22. ASSUME NEW h \in Handlers,
              SettleFail(h)
       PROVE  SeenTypes'
  BY <1>22, FinishSeen DEF SettleFail
<1>23. ASSUME NEW h \in Handlers,
              SettleDebit(h)
       PROVE  SeenTypes'
  BY <1>23 DEF SettleDebit, SeenTypes, Book
<1>24. ASSUME NEW h \in Handlers,
              SettleCredit(h)
       PROVE  SeenTypes'
  BY <1>24 DEF SettleCredit, SeenTypes, Book
<1>25. ASSUME NEW h \in Handlers,
              SettleFee(h)
       PROVE  SeenTypes'
  BY <1>25 DEF SettleFee, SeenTypes, Book
<1>26. ASSUME NEW h \in Handlers,
              SettleTransfer(h)
       PROVE  SeenTypes'
  BY <1>26 DEF SettleTransfer, SeenTypes
<1>27. ASSUME NEW h \in Handlers,
              SettleReadSeller(h)
       PROVE  SeenTypes'
  <2>1. IsReading([seen[h] EXCEPT !.seller = Owned(Seller(Trade(h)))])
    BY FieldRead DEF SeenTypes
  <2>2. seen' = [seen EXCEPT ![h] = [seen[h] EXCEPT !.seller = Owned(Seller(Trade(h)))]]
    BY <1>27 DEF SettleReadSeller
  <2>3. QED
    BY <2>1, <2>2, ReadingTaken
<1>28. ASSUME NEW h \in Handlers,
              SettleReadBuyer(h)
       PROVE  SeenTypes'
  <2>1. IsReading([seen[h] EXCEPT !.buyer = Owned(Trade(h).buyer)])
    BY FieldRead DEF SeenTypes
  <2>2. seen' = [seen EXCEPT ![h] = [seen[h] EXCEPT !.buyer = Owned(Trade(h).buyer)]]
    BY <1>28 DEF SettleReadBuyer
  <2>3. QED
    BY <2>1, <2>2, ReadingTaken
<1>29. ASSUME NEW h \in Handlers,
              SettleSellerRow(h)
       PROVE  SeenTypes'
  BY <1>29 DEF SettleSellerRow, SeenTypes
<1>30. ASSUME NEW h \in Handlers,
              SettleBuyerRow(h)
       PROVE  SeenTypes'
  BY <1>30 DEF SettleBuyerRow, SeenTypes
<1>31. ASSUME NEW h \in Handlers,
              RecomputeRead(h)
       PROVE  SeenTypes'
  <2>1. IsReading([seen[h] EXCEPT !.cash = LedgerSettled(Head(todo[h]))])
    BY FieldRead DEF SeenTypes
  <2>2. seen' = [seen EXCEPT ![h] = [seen[h] EXCEPT !.cash = LedgerSettled(Head(todo[h]))]]
    BY <1>31 DEF RecomputeRead
  <2>3. QED
    BY <2>1, <2>2, ReadingTaken
<1>32. ASSUME NEW h \in Handlers,
              RecomputeWrite(h)
       PROVE  SeenTypes'
  <2>1. CASE Finish(h)
    BY <1>32, <2>1, FinishSeen
  <2>2. CASE ~Finish(h)
    BY <1>32, <2>2 DEF RecomputeWrite, SeenTypes, IsReading
  <2>3. QED
    BY <2>1, <2>2
<1>33. ASSUME NEW h \in Handlers,
              RecomputeFails(h)
       PROVE  SeenTypes'
  BY <1>33 DEF RecomputeFails, SeenTypes
<1>34. ASSUME NEW h \in Handlers,
              SettleListing(h)
       PROVE  SeenTypes'
  BY <1>34 DEF SettleListing, SeenTypes
<1>35. ASSUME NEW h \in Handlers,
              SettleDone(h)
       PROVE  SeenTypes'
  BY <1>35, FinishSeen DEF SettleDone
<1>36. ASSUME NEW h \in Handlers,
              Abort(h)
       PROVE  SeenTypes'
  BY <1>36, FinishSeen DEF Abort
<1>37. CASE UNCHANGED vars
  BY <1>37 DEF vars, store, local, SeenTypes
<1>38. QED
  BY <1>1, <1>2, <1>3, <1>4, <1>5, <1>6, <1>7, <1>8, <1>9, <1>10, <1>11,
     <1>12, <1>13, <1>14, <1>15, <1>16, <1>17, <1>18, <1>19, <1>20, <1>21,
     <1>22, <1>23, <1>24, <1>25, <1>26, <1>27, <1>28, <1>29, <1>30, <1>31,
     <1>32, <1>33, <1>34, <1>35, <1>36, <1>37 DEF Next, Arrive, Serve,
     Settle

(* Every step keeps the types of what handlers work on.                    *)
LEMMA StepLocalTypes ==
  LocalTypes /\ Works /\ [Next]_vars
    => LocalTypes'
<1> SUFFICES ASSUME LocalTypes, Works, [Next]_vars
             PROVE  LocalTypes'
  OBVIOUS
<1>1. ASSUME NEW h \in Handlers, NEW l \in Listings,
              ListReadOwned(h, l)
       PROVE  LocalTypes'
  BY <1>1 DEF ListReadOwned, Goto, LocalTypes, Places, Works
<1>2. ASSUME NEW h \in Handlers, NEW l \in Listings,
              UnlistRead(h, l)
       PROVE  LocalTypes'
  BY <1>2 DEF UnlistRead, Goto, LocalTypes, Places, Works
<1>3. ASSUME NEW h \in Handlers, NEW b \in Bids,
              BidRead(h, b)
       PROVE  LocalTypes'
  BY <1>3 DEF BidRead, Goto, LocalTypes, Places, Works
<1>4. ASSUME NEW h \in Handlers, NEW b \in Bids,
              CancelBidRead(h, b)
       PROVE  LocalTypes'
  BY <1>4 DEF CancelBidRead, TakeBid, Goto, LocalTypes, Places, Works
<1>5. ASSUME NEW h \in Handlers, NEW b \in Bids,
              RejectBidRead(h, b)
       PROVE  LocalTypes'
  BY <1>5 DEF RejectBidRead, TakeBid, Goto, LocalTypes, Places, Works
<1>6. ASSUME NEW h \in Handlers, NEW b \in Bids,
              AcceptRead(h, b)
       PROVE  LocalTypes'
  BY <1>6 DEF AcceptRead, TakeBid, Goto, LocalTypes, Places, Works
<1>7. ASSUME NEW h \in Handlers, NEW l \in Listings,
              NEW i \in Investors, NEW u \in BuyUnits,
              BuyRead(h, l, i, u)
       PROVE  LocalTypes'
  BY <1>7 DEF BuyRead, Goto, MayBuy, LocalTypes, Places
<1>8. ASSUME NEW h \in Handlers, NEW i \in Investors,
              GetWallet(h, i)
       PROVE  LocalTypes'
  BY <1>8 DEF GetWallet, Goto, LocalTypes, Places
<1>9. ASSUME NEW h \in Handlers,
              ListReadListed(h)
       PROVE  LocalTypes'
  <2>1. CASE Finish(h)
    BY <1>9, <2>1, FinishLocal DEF ListReadListed, LocalTypes
  <2>2. CASE ~Finish(h)
    BY <1>9, <2>2 DEF ListReadListed, Goto, LocalTypes, Places
  <2>3. QED
    BY <2>1, <2>2
<1>10. ASSUME NEW h \in Handlers,
              ListInsert(h)
       PROVE  LocalTypes'
  BY <1>10, FinishLocal DEF ListInsert, LocalTypes
<1>11. ASSUME NEW h \in Handlers,
              UnlistWrite(h)
       PROVE  LocalTypes'
  BY <1>11, FinishLocal DEF UnlistWrite, LocalTypes
<1>12. ASSUME NEW h \in Handlers,
              BidInsert(h)
       PROVE  LocalTypes'
  BY <1>12, FinishLocal DEF BidInsert, LocalTypes
<1>13. ASSUME NEW h \in Handlers,
              CancelBidWrite(h)
       PROVE  LocalTypes'
  BY <1>13, FinishLocal DEF CancelBidWrite, WriteBid, LocalTypes
<1>14. ASSUME NEW h \in Handlers,
              RejectBidWrite(h)
       PROVE  LocalTypes'
  BY <1>14, FinishLocal DEF RejectBidWrite, WriteBid, LocalTypes
<1>15. ASSUME NEW h \in Handlers,
              BuyCheck(h)
       PROVE  LocalTypes'
  <2>1. CASE Finish(h)
    BY <1>15, <2>1, FinishLocal DEF BuyCheck, LocalTypes
  <2>2. CASE ~Finish(h)
    BY <1>15, <2>2 DEF BuyCheck, Goto, LocalTypes, Places
  <2>3. QED
    BY <2>1, <2>2
<1>16. ASSUME NEW h \in Handlers, NEW t \in Trades,
              BuyInsert(h, t)
       PROVE  LocalTypes'
  BY <1>16 DEF BuyInsert, InsertTrade, Goto, LocalTypes, Places, Works
<1>17. ASSUME NEW h \in Handlers, NEW t \in Trades,
              AcceptInsert(h, t)
       PROVE  LocalTypes'
  BY <1>17 DEF AcceptInsert, InsertTrade, Goto, LocalTypes, Places, Works
<1>18. ASSUME NEW h \in Handlers,
              AcceptReadListing(h)
       PROVE  LocalTypes'
  <2>1. CASE Finish(h)
    BY <1>18, <2>1, FinishLocal DEF AcceptReadListing, LocalTypes
  <2>2. CASE ~Finish(h)
    BY <1>18, <2>2 DEF AcceptReadListing, Goto, LocalTypes, Places
  <2>3. QED
    BY <2>1, <2>2
<1>19. ASSUME NEW h \in Handlers,
              AcceptMark(h)
       PROVE  LocalTypes'
  BY <1>19 DEF AcceptMark, Goto, LocalTypes, Places
<1>20. ASSUME NEW h \in Handlers,
              SettleReadListing(h)
       PROVE  LocalTypes'
  <2>1. CASE Finish(h)
    BY <1>20, <2>1, FinishLocal DEF SettleReadListing, LocalTypes
  <2>2. CASE ~Finish(h)
    BY <1>20, <2>2 DEF SettleReadListing, Goto, LocalTypes, Places
  <2>3. QED
    BY <2>1, <2>2
<1>21. ASSUME NEW h \in Handlers,
              SettleReadWallet(h)
       PROVE  LocalTypes'
  BY <1>21 DEF SettleReadWallet, Goto, LocalTypes, Places
<1>22. ASSUME NEW h \in Handlers,
              SettleFail(h)
       PROVE  LocalTypes'
  BY <1>22, FinishLocal DEF SettleFail, LocalTypes
<1>23. ASSUME NEW h \in Handlers,
              SettleDebit(h)
       PROVE  LocalTypes'
  BY <1>23 DEF SettleDebit, Book, Goto, LocalTypes, Places
<1>24. ASSUME NEW h \in Handlers,
              SettleCredit(h)
       PROVE  LocalTypes'
  BY <1>24 DEF SettleCredit, Book, Goto, LocalTypes, Places
<1>25. ASSUME NEW h \in Handlers,
              SettleFee(h)
       PROVE  LocalTypes'
  BY <1>25 DEF SettleFee, Book, Goto, LocalTypes, Places
<1>26. ASSUME NEW h \in Handlers,
              SettleTransfer(h)
       PROVE  LocalTypes'
  BY <1>26 DEF SettleTransfer, Goto, LocalTypes, Places
<1>27. ASSUME NEW h \in Handlers,
              SettleReadSeller(h)
       PROVE  LocalTypes'
  BY <1>27 DEF SettleReadSeller, Goto, LocalTypes, Places
<1>28. ASSUME NEW h \in Handlers,
              SettleReadBuyer(h)
       PROVE  LocalTypes'
  BY <1>28 DEF SettleReadBuyer, Goto, LocalTypes, Places
<1>29. ASSUME NEW h \in Handlers,
              SettleSellerRow(h)
       PROVE  LocalTypes'
  BY <1>29 DEF SettleSellerRow, Goto, LocalTypes, Places
<1>30. ASSUME NEW h \in Handlers,
              SettleBuyerRow(h)
       PROVE  LocalTypes'
  BY <1>30 DEF SettleBuyerRow, Goto, LocalTypes, Places
<1>31. ASSUME NEW h \in Handlers,
              RecomputeRead(h)
       PROVE  LocalTypes'
  BY <1>31 DEF RecomputeRead, Goto, LocalTypes, Places
<1>32. ASSUME NEW h \in Handlers,
              RecomputeWrite(h)
       PROVE  LocalTypes'
  <2>1. CASE Finish(h)
    BY <1>32, <2>1, FinishLocal DEF RecomputeWrite, LocalTypes
  <2>2. CASE ~Finish(h)
    BY <1>32, <2>2 DEF RecomputeWrite, Goto, LocalTypes, Places
  <2>3. QED
    BY <2>1, <2>2
<1>33. ASSUME NEW h \in Handlers,
              RecomputeFails(h)
       PROVE  LocalTypes'
  BY <1>33 DEF RecomputeFails, LocalTypes, Places
<1>34. ASSUME NEW h \in Handlers,
              SettleListing(h)
       PROVE  LocalTypes'
  BY <1>34 DEF SettleListing, Goto, LocalTypes, Places
<1>35. ASSUME NEW h \in Handlers,
              SettleDone(h)
       PROVE  LocalTypes'
  BY <1>35, FinishLocal DEF SettleDone, LocalTypes
<1>36. ASSUME NEW h \in Handlers,
              Abort(h)
       PROVE  LocalTypes'
  <2>1. failures' \in Nat
    BY <1>36 DEF Abort, LocalTypes
  <2>2. QED
    BY <1>36, <2>1, FinishLocal DEF Abort
<1>37. CASE UNCHANGED vars
  BY <1>37 DEF vars, store, local, LocalTypes
<1>38. QED
  BY <1>1, <1>2, <1>3, <1>4, <1>5, <1>6, <1>7, <1>8, <1>9, <1>10, <1>11,
     <1>12, <1>13, <1>14, <1>15, <1>16, <1>17, <1>18, <1>19, <1>20, <1>21,
     <1>22, <1>23, <1>24, <1>25, <1>26, <1>27, <1>28, <1>29, <1>30, <1>31,
     <1>32, <1>33, <1>34, <1>35, <1>36, <1>37 DEF Next, Arrive, Serve,
     Settle

(* Types, with what the settlement is known to have done.                  *)
LEMMA StepMarketTypes ==
  SettlementInv /\ MarketTypes /\ [Next]_vars => MarketTypes'
BY StepListingTypes, StepOrderTypes, StepSeenTypes, StepLocalTypes
   DEF SettlementInv, MarketTypes

(* Every variable keeps its type, whatever overlaps or dies: a listing     *)
(* never shows a negative fill, and no acceptance trades negative units.   *)
THEOREM TypeCorrect == Spec => []TypeOK
<1>1. SettlementInv /\ MarketTypes => TypeOK
  BY DEF SettlementInv, Works, Counts, MarketTypes, ListingTypes, OrderTypes,
         LocalTypes, TypeOK
<1>2. QED
  BY InitMarketTypes, SettlementInvariant, StepMarketTypes, <1>1, PTL DEF Spec

-----------------------------------------------------------------------------
(* What holds when requests are served one after another and none is lost. *)
OneHandler ==
  /\ \A g, h \in Handlers : g = h
  /\ MaxFailures = 0

(* The status a handler has read is still that of its listing.             *)
ListingKnown ==
  \A h \in Handlers :
    /\ pc[h] \in {"list_check", "list_insert"}
         => listing[work[h].listing].status = Absent
    /\ pc[h] = "unlist_write" => listing[work[h].listing].status \in Open
    /\ pc[h] \in Settling \ {"accept_mark", "st_listing", "st_done"}
         => (work[h].trade \in Trades
               => listing[Trade(h).listing].status \in Open)

(* The status it has read is still that of its bid, and the trade it makes *)
(* of a bid names the bid.                                                 *)
BidKnown ==
  \A h \in Handlers :
    /\ pc[h] = "bid_insert" => bid[work[h].bid] = Absent
    /\ pc[h] \in {"accept_listing", "accept_insert"}
         => work[h].bid \in Bids /\ bid[work[h].bid] = "active"
    /\ pc[h] \in {"buy_check", "buy_insert"} => order[h].bid = None
    /\ pc[h] = "accept_insert" => order[h].bid = work[h].bid
    /\ pc[h] = "accept_mark" => Trade(h).bid = work[h].bid

(* A bid that was traded is closed, or about to be; and was traded once.   *)
Closed == {"accepted", "rejected", "cancelled"}

BidsClosed ==
  \A t \in Trades :
    trade[t].bid \in Bids =>
      \/ bid[trade[t].bid] \in Closed
      \/ \E h \in Handlers : pc[h] = "accept_mark" /\ work[h].trade = t

TradedOnce ==
  \A s, t \in Trades :
    trade[s].bid \in Bids /\ trade[s].bid = trade[t].bid => s = t

(* The inductive invariant of serial behaviours.                           *)
SerialInv ==
  SettlementInv /\ MarketTypes /\ ListingKnown /\ BidKnown /\ BidsClosed /\
  TradedOnce

(* Nothing is listed, bid or traded at first.                              *)
LEMMA InitSerialInv == Init => SerialInv
<1> SUFFICES ASSUME Init PROVE SerialInv
  OBVIOUS
<1>1. ListingKnown /\ BidKnown /\ BidsClosed /\ TradedOnce
  BY DEF Init, ListingKnown, BidKnown, BidsClosed, TradedOnce, NoOrder,
         Settling, BeforeDebit, AfterTransfer
<1>2. QED
  BY <1>1, InitSettlementInv, InitMarketTypes DEF SerialInv

(* No handler is lost, no recompute fails.                                 *)
LEMMA NothingFails ==
  ASSUME OneHandler, LocalTypes, NEW h \in Handlers
  PROVE  ~RecomputeFails(h) /\ ~Abort(h)
BY DEF OneHandler, LocalTypes, RecomputeFails, Abort

(* One handler at a time, what was read of a listing stays true.           *)
LEMMA StepListingKnown ==
  OneHandler /\ ListingKnown /\ ListingTypes /\ OrderTypes /\ LocalTypes /\
     Works /\ Placed /\ [Next]_vars
    => ListingKnown'
<1> SUFFICES ASSUME OneHandler, ListingKnown, ListingTypes, OrderTypes,
                    LocalTypes, Works, Placed, [Next]_vars
             PROVE  ListingKnown'
  OBVIOUS
<1> USE DEF OneHandler, ListingKnown, ListingTypes, LocalTypes, Works,
            Placed, Settling, BeforeDebit, AfterTransfer, Open
<1>1. ASSUME NEW h \in Handlers, NEW l \in Listings,
              ListReadOwned(h, l)
       PROVE  ListingKnown'
  BY <1>1 DEF ListReadOwned, store, Goto, Trade, Absent
<1>2. ASSUME NEW h \in Handlers, NEW l \in Listings,
              UnlistRead(h, l)
       PROVE  ListingKnown'
  BY <1>2 DEF UnlistRead, store, Goto, Trade, Absent
<1>3. ASSUME NEW h \in Handlers, NEW b \in Bids,
              BidRead(h, b)
       PROVE  ListingKnown'
  BY <1>3 DEF BidRead, store, Goto, Trade, Absent
<1>4. ASSUME NEW h \in Handlers, NEW b \in Bids,
              CancelBidRead(h, b)
       PROVE  ListingKnown'
  BY <1>4 DEF CancelBidRead, store, TakeBid, Goto, Trade, Absent
<1>5. ASSUME NEW h \in Handlers, NEW b \in Bids,
              RejectBidRead(h, b)
       PROVE  ListingKnown'
  BY <1>5 DEF RejectBidRead, store, TakeBid, Goto, Trade, Absent
<1>6. ASSUME NEW h \in Handlers, NEW b \in Bids,
              AcceptRead(h, b)
       PROVE  ListingKnown'
  BY <1>6 DEF AcceptRead, store, TakeBid, Goto, Trade, Absent
<1>7. ASSUME NEW h \in Handlers, NEW l \in Listings,
              NEW i \in Investors, NEW u \in BuyUnits,
              BuyRead(h, l, i, u)
       PROVE  ListingKnown'
  BY <1>7 DEF BuyRead, store, Goto, Trade, Absent
<1>8. ASSUME NEW h \in Handlers, NEW i \in Investors,
              GetWallet(h, i)
       PROVE  ListingKnown'
  BY <1>8 DEF GetWallet, store, Goto, Trade, Absent
<1>9. ASSUME NEW h \in Handlers,
              ListReadListed(h)
       PROVE  ListingKnown'
  BY <1>9 DEF ListReadListed, store, Goto, Finish, Trade, Absent
<1>10. ASSUME NEW h \in Handlers,
              ListInsert(h)
       PROVE  ListingKnown'
  BY <1>10 DEF ListInsert, store, Finish, Trade, Absent
<1>11. ASSUME NEW h \in Handlers,
              UnlistWrite(h)
       PROVE  ListingKnown'
  BY <1>11 DEF UnlistWrite, store, Finish, Trade, Absent
<1>12. ASSUME NEW h \in Handlers,
              BidInsert(h)
       PROVE  ListingKnown'
  BY <1>12 DEF BidInsert, store, Finish, Trade, Absent
<1>13. ASSUME NEW h \in Handlers,
              CancelBidWrite(h)
       PROVE  ListingKnown'
  BY <1>13 DEF CancelBidWrite, store, WriteBid, Finish, Trade, Absent
<1>14. ASSUME NEW h \in Handlers,
              RejectBidWrite(h)
       PROVE  ListingKnown'
  BY <1>14 DEF RejectBidWrite, store, WriteBid, Finish, Trade, Absent
<1>15. ASSUME NEW h \in Handlers,
              BuyCheck(h)
       PROVE  ListingKnown'
  BY <1>15 DEF BuyCheck, store, Goto, Finish, Trade, Absent
<1>16. ASSUME NEW h \in Handlers, NEW t \in Trades,
              BuyInsert(h, t)
       PROVE  ListingKnown'
  BY <1>16 DEF BuyInsert, store, InsertTrade, Goto, Trade, Absent
<1>17. ASSUME NEW h \in Handlers, NEW t \in Trades,
              AcceptInsert(h, t)
       PROVE  ListingKnown'
  BY <1>17 DEF AcceptInsert, store, InsertTrade, Goto, Trade, Absent
<1>18. ASSUME NEW h \in Handlers,
              AcceptReadListing(h)
       PROVE  ListingKnown'
  BY <1>18 DEF AcceptReadListing, store, Goto, Finish, Trade, Absent
<1>19. ASSUME NEW h \in Handlers,
              AcceptMark(h)
       PROVE  ListingKnown'
  BY <1>19 DEF AcceptMark, store, Goto, Trade, Absent
<1>20. ASSUME NEW h \in Handlers,
              SettleReadListing(h)
       PROVE  ListingKnown'
  <2>1. pc[h] = "st_listing" /\ UNCHANGED <<listing, trade>>
    BY <1>20 DEF SettleReadListing, store
  <2>2. CASE listing[Trade(h).listing].status \in Open
    <3>1. pc' = [pc EXCEPT ![h] = "st_wallet"] /\ work' = work
      BY <1>20, <2>2 DEF SettleReadListing, Goto
    <3>2. pc'[h] = "st_wallet" /\ Trade(h)' = Trade(h)
      BY <2>1, <3>1 DEF Trade
    <3>3. QED
      BY <2>1, <2>2, <3>1, <3>2
  <2>3. CASE listing[Trade(h).listing].status \notin Open
    <3>1. pc' = [pc EXCEPT ![h] = "idle"]
      BY <1>20, <2>3 DEF SettleReadListing, Finish
    <3>2. pc'[h] = "idle"
      BY <3>1
    <3>3. QED
      BY <3>2
  <2>4. QED
    BY <2>2, <2>3
<1>21. ASSUME NEW h \in Handlers,
              SettleReadWallet(h)
       PROVE  ListingKnown'
  BY <1>21 DEF SettleReadWallet, store, Goto, Trade, Absent
<1>22. ASSUME NEW h \in Handlers,
              SettleFail(h)
       PROVE  ListingKnown'
  BY <1>22 DEF SettleFail, store, Finish, Trade, Absent
<1>23. ASSUME NEW h \in Handlers,
              SettleDebit(h)
       PROVE  ListingKnown'
  BY <1>23 DEF SettleDebit, store, Book, Goto, Trade, Absent
<1>24. ASSUME NEW h \in Handlers,
              SettleCredit(h)
       PROVE  ListingKnown'
  BY <1>24 DEF SettleCredit, store, Book, Goto, Trade, Absent
<1>25. ASSUME NEW h \in Handlers,
              SettleFee(h)
       PROVE  ListingKnown'
  BY <1>25 DEF SettleFee, store, Book, Goto, Trade, Absent
<1>26. ASSUME NEW h \in Handlers,
              SettleTransfer(h)
       PROVE  ListingKnown'
  BY <1>26 DEF SettleTransfer, store, Goto, Trade, Absent
<1>27. ASSUME NEW h \in Handlers,
              SettleReadSeller(h)
       PROVE  ListingKnown'
  BY <1>27 DEF SettleReadSeller, store, Goto, Trade, Absent
<1>28. ASSUME NEW h \in Handlers,
              SettleReadBuyer(h)
       PROVE  ListingKnown'
  BY <1>28 DEF SettleReadBuyer, store, Goto, Trade, Absent
<1>29. ASSUME NEW h \in Handlers,
              SettleSellerRow(h)
       PROVE  ListingKnown'
  BY <1>29 DEF SettleSellerRow, store, Goto, Trade, Absent
<1>30. ASSUME NEW h \in Handlers,
              SettleBuyerRow(h)
       PROVE  ListingKnown'
  BY <1>30 DEF SettleBuyerRow, store, Goto, Trade, Absent
<1>31. ASSUME NEW h \in Handlers,
              RecomputeRead(h)
       PROVE  ListingKnown'
  BY <1>31 DEF RecomputeRead, store, Goto, Trade, Absent
<1>32. ASSUME NEW h \in Handlers,
              RecomputeWrite(h)
       PROVE  ListingKnown'
  <2>1. pc[h] = "w_write" /\ UNCHANGED <<listing, trade>>
    BY <1>32 DEF RecomputeWrite
  <2>2. CASE work[h].trade # None
    <3>1. pc'[h] \in {"w_read", "st_fill"} /\ work' = work
      BY <1>32, <2>2 DEF RecomputeWrite, Goto
    <3>2. QED
      BY <2>1, <3>1 DEF Trade
  <2>3. CASE work[h].trade = None
    <3>1. pc'[h] = "idle"
      BY <1>32, <2>3 DEF RecomputeWrite, Finish
    <3>2. QED
      BY <3>1
  <2>4. QED
    BY <2>2, <2>3
<1>33. ASSUME NEW h \in Handlers,
              RecomputeFails(h)
       PROVE  ListingKnown'
  BY <1>33, NothingFails
<1>34. ASSUME NEW h \in Handlers,
              SettleListing(h)
       PROVE  ListingKnown'
  BY <1>34 DEF SettleListing, store, Goto, Trade, Absent
<1>35. ASSUME NEW h \in Handlers,
              SettleDone(h)
       PROVE  ListingKnown'
  BY <1>35 DEF SettleDone, store, Finish, Trade, Absent
<1>36. ASSUME NEW h \in Handlers,
              Abort(h)
       PROVE  ListingKnown'
  BY <1>36, NothingFails
<1>37. CASE UNCHANGED vars
  BY <1>37 DEF vars, store, local, Trade
<1> HIDE DEF OneHandler, ListingKnown, ListingTypes, LocalTypes, Works,
             Placed, Settling, BeforeDebit, AfterTransfer, Open
<1>38. QED
  BY <1>1, <1>2, <1>3, <1>4, <1>5, <1>6, <1>7, <1>8, <1>9, <1>10, <1>11,
     <1>12, <1>13, <1>14, <1>15, <1>16, <1>17, <1>18, <1>19, <1>20, <1>21,
     <1>22, <1>23, <1>24, <1>25, <1>26, <1>27, <1>28, <1>29, <1>30, <1>31,
     <1>32, <1>33, <1>34, <1>35, <1>36, <1>37 DEF Next, Arrive, Serve,
     Settle

(* Likewise what was read of a bid.                                        *)
LEMMA StepBidKnown ==
  OneHandler /\ BidKnown /\ ListingTypes /\ OrderTypes /\ LocalTypes /\
     Works /\ Placed /\ [Next]_vars
    => BidKnown'
<1> SUFFICES ASSUME OneHandler, BidKnown, ListingTypes, OrderTypes,
                    LocalTypes, Works, Placed, [Next]_vars
             PROVE  BidKnown'
  OBVIOUS
<1> USE DEF OneHandler, BidKnown, ListingTypes, OrderTypes, LocalTypes,
            Works, Placed, Settling, BeforeDebit, AfterTransfer
<1>1. ASSUME NEW h \in Handlers, NEW l \in Listings,
              ListReadOwned(h, l)
       PROVE  BidKnown'
  BY <1>1 DEF ListReadOwned, store, Goto, Trade
<1>2. ASSUME NEW h \in Handlers, NEW l \in Listings,
              UnlistRead(h, l)
       PROVE  BidKnown'
  BY <1>2 DEF UnlistRead, store, Goto, Trade
<1>3. ASSUME NEW h \in Handlers, NEW b \in Bids,
              BidRead(h, b)
       PROVE  BidKnown'
  BY <1>3 DEF BidRead, store, Goto, Trade
<1>4. ASSUME NEW h \in Handlers, NEW b \in Bids,
              CancelBidRead(h, b)
       PROVE  BidKnown'
  BY <1>4 DEF CancelBidRead, store, TakeBid, Goto, Trade
<1>5. ASSUME NEW h \in Handlers, NEW b \in Bids,
              RejectBidRead(h, b)
       PROVE  BidKnown'
  BY <1>5 DEF RejectBidRead, store, TakeBid, Goto, Trade
<1>6. ASSUME NEW h \in Handlers, NEW b \in Bids,
              AcceptRead(h, b)
       PROVE  BidKnown'
  BY <1>6 DEF AcceptRead, store, TakeBid, Goto, Trade
<1>7. ASSUME NEW h \in Handlers, NEW l \in Listings,
              NEW i \in Investors, NEW u \in BuyUnits,
              BuyRead(h, l, i, u)
       PROVE  BidKnown'
  BY <1>7 DEF BuyRead, store, Goto, Trade
<1>8. ASSUME NEW h \in Handlers, NEW i \in Investors,
              GetWallet(h, i)
       PROVE  BidKnown'
  BY <1>8 DEF GetWallet, store, Goto, Trade
<1>9. ASSUME NEW h \in Handlers,
              ListReadListed(h)
       PROVE  BidKnown'
  BY <1>9 DEF ListReadListed, store, Goto, Finish, Trade
<1>10. ASSUME NEW h \in Handlers,
              ListInsert(h)
       PROVE  BidKnown'
  BY <1>10 DEF ListInsert, store, Finish, Trade
<1>11. ASSUME NEW h \in Handlers,
              UnlistWrite(h)
       PROVE  BidKnown'
  BY <1>11 DEF UnlistWrite, store, Finish, Trade
<1>12. ASSUME NEW h \in Handlers,
              BidInsert(h)
       PROVE  BidKnown'
  BY <1>12 DEF BidInsert, store, Finish, Trade
<1>13. ASSUME NEW h \in Handlers,
              CancelBidWrite(h)
       PROVE  BidKnown'
  BY <1>13 DEF CancelBidWrite, store, WriteBid, Finish, Trade
<1>14. ASSUME NEW h \in Handlers,
              RejectBidWrite(h)
       PROVE  BidKnown'
  BY <1>14 DEF RejectBidWrite, store, WriteBid, Finish, Trade
<1>15. ASSUME NEW h \in Handlers,
              BuyCheck(h)
       PROVE  BidKnown'
  BY <1>15 DEF BuyCheck, store, Goto, Finish, Trade
<1>16. ASSUME NEW h \in Handlers, NEW t \in Trades,
              BuyInsert(h, t)
       PROVE  BidKnown'
  BY <1>16 DEF BuyInsert, store, InsertTrade, Goto, Trade
<1>17. ASSUME NEW h \in Handlers, NEW t \in Trades,
              AcceptInsert(h, t)
       PROVE  BidKnown'
  BY <1>17 DEF AcceptInsert, store, InsertTrade, Goto, Trade
<1>18. ASSUME NEW h \in Handlers,
              AcceptReadListing(h)
       PROVE  BidKnown'
  BY <1>18 DEF AcceptReadListing, store, Goto, Finish, Trade
<1>19. ASSUME NEW h \in Handlers,
              AcceptMark(h)
       PROVE  BidKnown'
  BY <1>19 DEF AcceptMark, store, Goto, Trade
<1>20. ASSUME NEW h \in Handlers,
              SettleReadListing(h)
       PROVE  BidKnown'
  BY <1>20 DEF SettleReadListing, store, Goto, Finish, Trade
<1>21. ASSUME NEW h \in Handlers,
              SettleReadWallet(h)
       PROVE  BidKnown'
  BY <1>21 DEF SettleReadWallet, store, Goto, Trade
<1>22. ASSUME NEW h \in Handlers,
              SettleFail(h)
       PROVE  BidKnown'
  BY <1>22 DEF SettleFail, store, Finish, Trade
<1>23. ASSUME NEW h \in Handlers,
              SettleDebit(h)
       PROVE  BidKnown'
  BY <1>23 DEF SettleDebit, store, Book, Goto, Trade
<1>24. ASSUME NEW h \in Handlers,
              SettleCredit(h)
       PROVE  BidKnown'
  BY <1>24 DEF SettleCredit, store, Book, Goto, Trade
<1>25. ASSUME NEW h \in Handlers,
              SettleFee(h)
       PROVE  BidKnown'
  BY <1>25 DEF SettleFee, store, Book, Goto, Trade
<1>26. ASSUME NEW h \in Handlers,
              SettleTransfer(h)
       PROVE  BidKnown'
  BY <1>26 DEF SettleTransfer, store, Goto, Trade
<1>27. ASSUME NEW h \in Handlers,
              SettleReadSeller(h)
       PROVE  BidKnown'
  BY <1>27 DEF SettleReadSeller, store, Goto, Trade
<1>28. ASSUME NEW h \in Handlers,
              SettleReadBuyer(h)
       PROVE  BidKnown'
  BY <1>28 DEF SettleReadBuyer, store, Goto, Trade
<1>29. ASSUME NEW h \in Handlers,
              SettleSellerRow(h)
       PROVE  BidKnown'
  BY <1>29 DEF SettleSellerRow, store, Goto, Trade
<1>30. ASSUME NEW h \in Handlers,
              SettleBuyerRow(h)
       PROVE  BidKnown'
  BY <1>30 DEF SettleBuyerRow, store, Goto, Trade
<1>31. ASSUME NEW h \in Handlers,
              RecomputeRead(h)
       PROVE  BidKnown'
  BY <1>31 DEF RecomputeRead, store, Goto, Trade
<1>32. ASSUME NEW h \in Handlers,
              RecomputeWrite(h)
       PROVE  BidKnown'
  BY <1>32 DEF RecomputeWrite, store, Goto, Finish, Trade
<1>33. ASSUME NEW h \in Handlers,
              RecomputeFails(h)
       PROVE  BidKnown'
  BY <1>33, NothingFails
<1>34. ASSUME NEW h \in Handlers,
              SettleListing(h)
       PROVE  BidKnown'
  BY <1>34 DEF SettleListing, store, Goto, Trade
<1>35. ASSUME NEW h \in Handlers,
              SettleDone(h)
       PROVE  BidKnown'
  BY <1>35 DEF SettleDone, store, Finish, Trade
<1>36. ASSUME NEW h \in Handlers,
              Abort(h)
       PROVE  BidKnown'
  BY <1>36, NothingFails
<1>37. CASE UNCHANGED vars
  BY <1>37 DEF vars, store, local, Trade
<1> HIDE DEF OneHandler, BidKnown, ListingTypes, OrderTypes, LocalTypes,
             Works, Placed, Settling, BeforeDebit, AfterTransfer
<1>38. QED
  BY <1>1, <1>2, <1>3, <1>4, <1>5, <1>6, <1>7, <1>8, <1>9, <1>10, <1>11,
     <1>12, <1>13, <1>14, <1>15, <1>16, <1>17, <1>18, <1>19, <1>20, <1>21,
     <1>22, <1>23, <1>24, <1>25, <1>26, <1>27, <1>28, <1>29, <1>30, <1>31,
     <1>32, <1>33, <1>34, <1>35, <1>36, <1>37 DEF Next, Arrive, Serve,
     Settle

(* A bid that was traded stays closed.                                     *)
LEMMA StepBidsClosed ==
  OneHandler /\ BidKnown /\ BidsClosed /\ ListingTypes /\ OrderTypes /\
     LocalTypes /\ Works /\ Placed /\ [Next]_vars
    => BidsClosed'
<1> SUFFICES ASSUME OneHandler, BidKnown, BidsClosed, ListingTypes,
                    OrderTypes, LocalTypes, Works, Placed, [Next]_vars
             PROVE  BidsClosed'
  OBVIOUS
<1> USE DEF OneHandler, BidKnown, BidsClosed, ListingTypes, OrderTypes,
            LocalTypes, Works, Placed, Closed, Absent, Settling,
            BeforeDebit, AfterTransfer
<1>1. ASSUME NEW h \in Handlers, NEW l \in Listings,
              ListReadOwned(h, l)
       PROVE  BidsClosed'
  BY <1>1 DEF ListReadOwned, store, Goto, Trade
<1>2. ASSUME NEW h \in Handlers, NEW l \in Listings,
              UnlistRead(h, l)
       PROVE  BidsClosed'
  BY <1>2 DEF UnlistRead, store, Goto, Trade
<1>3. ASSUME NEW h \in Handlers, NEW b \in Bids,
              BidRead(h, b)
       PROVE  BidsClosed'
  BY <1>3 DEF BidRead, store, Goto, Trade
<1>4. ASSUME NEW h \in Handlers, NEW b \in Bids,
              CancelBidRead(h, b)
       PROVE  BidsClosed'
  BY <1>4 DEF CancelBidRead, store, TakeBid, Goto, Trade
<1>5. ASSUME NEW h \in Handlers, NEW b \in Bids,
              RejectBidRead(h, b)
       PROVE  BidsClosed'
  BY <1>5 DEF RejectBidRead, store, TakeBid, Goto, Trade
<1>6. ASSUME NEW h \in Handlers, NEW b \in Bids,
              AcceptRead(h, b)
       PROVE  BidsClosed'
  BY <1>6 DEF AcceptRead, store, TakeBid, Goto, Trade
<1>7. ASSUME NEW h \in Handlers, NEW l \in Listings,
              NEW i \in Investors, NEW u \in BuyUnits,
              BuyRead(h, l, i, u)
       PROVE  BidsClosed'
  BY <1>7 DEF BuyRead, store, Goto, Trade
<1>8. ASSUME NEW h \in Handlers, NEW i \in Investors,
              GetWallet(h, i)
       PROVE  BidsClosed'
  BY <1>8 DEF GetWallet, store, Goto, Trade
<1>9. ASSUME NEW h \in Handlers,
              ListReadListed(h)
       PROVE  BidsClosed'
  BY <1>9 DEF ListReadListed, store, Goto, Finish, Trade
<1>10. ASSUME NEW h \in Handlers,
              ListInsert(h)
       PROVE  BidsClosed'
  BY <1>10 DEF ListInsert, store, Finish, Trade
<1>11. ASSUME NEW h \in Handlers,
              UnlistWrite(h)
       PROVE  BidsClosed'
  BY <1>11 DEF UnlistWrite, store, Finish, Trade
<1>12. ASSUME NEW h \in Handlers,
              BidInsert(h)
       PROVE  BidsClosed'
  <2>1. /\ bid' = [bid EXCEPT ![work[h].bid] = "active"] /\ trade' = trade
        /\ pc[h] = "bid_insert" /\ bid[work[h].bid] = Absent
    BY <1>12 DEF BidInsert, BidKnown
  <2>2. \A t \in Trades : trade[t].bid \in Bids => bid[trade[t].bid] \in Closed
    BY <2>1 DEF BidsClosed
  <2>3. \A t \in Trades : trade[t].bid \in Bids => trade[t].bid # work[h].bid
    BY <2>1, <2>2 DEF Closed, Absent
  <2>4. QED
    BY <2>1, <2>2, <2>3 DEF BidsClosed, ListingTypes
<1>13. ASSUME NEW h \in Handlers,
              CancelBidWrite(h)
       PROVE  BidsClosed'
  <2>1. /\ bid' = [bid EXCEPT ![work[h].bid] = "cancelled"] /\ trade' = trade
        /\ pc[h] # "accept_mark"
    BY <1>13 DEF CancelBidWrite, WriteBid
  <2>2. \A t \in Trades : trade[t].bid \in Bids => bid[trade[t].bid] \in Closed
    BY <2>1 DEF BidsClosed
  <2>3. QED
    BY <2>1, <2>2 DEF BidsClosed, ListingTypes, Closed
<1>14. ASSUME NEW h \in Handlers,
              RejectBidWrite(h)
       PROVE  BidsClosed'
  <2>1. /\ bid' = [bid EXCEPT ![work[h].bid] = "rejected"] /\ trade' = trade
        /\ pc[h] # "accept_mark"
    BY <1>14 DEF RejectBidWrite, WriteBid
  <2>2. \A t \in Trades : trade[t].bid \in Bids => bid[trade[t].bid] \in Closed
    BY <2>1 DEF BidsClosed
  <2>3. QED
    BY <2>1, <2>2 DEF BidsClosed, ListingTypes, Closed
<1>15. ASSUME NEW h \in Handlers,
              BuyCheck(h)
       PROVE  BidsClosed'
  BY <1>15 DEF BuyCheck, store, Goto, Finish, Trade
<1>16. ASSUME NEW h \in Handlers, NEW t \in Trades,
              BuyInsert(h, t)
       PROVE  BidsClosed'
  BY <1>16 DEF BuyInsert, store, InsertTrade, Goto, Trade
<1>17. ASSUME NEW h \in Handlers, NEW t \in Trades,
              AcceptInsert(h, t)
       PROVE  BidsClosed'
  BY <1>17 DEF AcceptInsert, store, InsertTrade, Goto, Trade
<1>18. ASSUME NEW h \in Handlers,
              AcceptReadListing(h)
       PROVE  BidsClosed'
  BY <1>18 DEF AcceptReadListing, store, Goto, Finish, Trade
<1>19. ASSUME NEW h \in Handlers,
              AcceptMark(h)
       PROVE  BidsClosed'
  <2>1. /\ bid' = [bid EXCEPT ![work[h].bid] = "accepted"] /\ trade' = trade
        /\ pc[h] = "accept_mark" /\ Trade(h).bid = work[h].bid
    BY <1>19 DEF AcceptMark, Goto, BidKnown
  <2>2. ASSUME NEW t \in Trades, trade[t].bid \in Bids
        PROVE  bid'[trade[t].bid] \in Closed
    <3>1. CASE bid[trade[t].bid] \in Closed
      BY <2>1, <2>2, <3>1 DEF ListingTypes, Closed
    <3>2. CASE work[h].trade = t
      BY <2>1, <2>2, <3>2 DEF ListingTypes, Closed, Trade
    <3>3. QED
      BY <2>2, <3>1, <3>2 DEF BidsClosed
  <2>3. QED
    BY <2>1, <2>2 DEF BidsClosed
<1>20. ASSUME NEW h \in Handlers,
              SettleReadListing(h)
       PROVE  BidsClosed'
  BY <1>20 DEF SettleReadListing, store, Goto, Finish, Trade
<1>21. ASSUME NEW h \in Handlers,
              SettleReadWallet(h)
       PROVE  BidsClosed'
  BY <1>21 DEF SettleReadWallet, store, Goto, Trade
<1>22. ASSUME NEW h \in Handlers,
              SettleFail(h)
       PROVE  BidsClosed'
  BY <1>22 DEF SettleFail, store, Finish, Trade
<1>23. ASSUME NEW h \in Handlers,
              SettleDebit(h)
       PROVE  BidsClosed'
  BY <1>23 DEF SettleDebit, store, Book, Goto, Trade
<1>24. ASSUME NEW h \in Handlers,
              SettleCredit(h)
       PROVE  BidsClosed'
  BY <1>24 DEF SettleCredit, store, Book, Goto, Trade
<1>25. ASSUME NEW h \in Handlers,
              SettleFee(h)
       PROVE  BidsClosed'
  BY <1>25 DEF SettleFee, store, Book, Goto, Trade
<1>26. ASSUME NEW h \in Handlers,
              SettleTransfer(h)
       PROVE  BidsClosed'
  BY <1>26 DEF SettleTransfer, store, Goto, Trade
<1>27. ASSUME NEW h \in Handlers,
              SettleReadSeller(h)
       PROVE  BidsClosed'
  BY <1>27 DEF SettleReadSeller, store, Goto, Trade
<1>28. ASSUME NEW h \in Handlers,
              SettleReadBuyer(h)
       PROVE  BidsClosed'
  BY <1>28 DEF SettleReadBuyer, store, Goto, Trade
<1>29. ASSUME NEW h \in Handlers,
              SettleSellerRow(h)
       PROVE  BidsClosed'
  BY <1>29 DEF SettleSellerRow, store, Goto, Trade
<1>30. ASSUME NEW h \in Handlers,
              SettleBuyerRow(h)
       PROVE  BidsClosed'
  BY <1>30 DEF SettleBuyerRow, store, Goto, Trade
<1>31. ASSUME NEW h \in Handlers,
              RecomputeRead(h)
       PROVE  BidsClosed'
  BY <1>31 DEF RecomputeRead, store, Goto, Trade
<1>32. ASSUME NEW h \in Handlers,
              RecomputeWrite(h)
       PROVE  BidsClosed'
  BY <1>32 DEF RecomputeWrite, store, Goto, Finish, Trade
<1>33. ASSUME NEW h \in Handlers,
              RecomputeFails(h)
       PROVE  BidsClosed'
  BY <1>33, NothingFails
<1>34. ASSUME NEW h \in Handlers,
              SettleListing(h)
       PROVE  BidsClosed'
  BY <1>34 DEF SettleListing, store, Goto, Trade
<1>35. ASSUME NEW h \in Handlers,
              SettleDone(h)
       PROVE  BidsClosed'
  BY <1>35 DEF SettleDone, store, Finish, Trade
<1>36. ASSUME NEW h \in Handlers,
              Abort(h)
       PROVE  BidsClosed'
  BY <1>36, NothingFails
<1>37. CASE UNCHANGED vars
  BY <1>37 DEF vars, store, local
<1> HIDE DEF OneHandler, BidKnown, BidsClosed, ListingTypes, OrderTypes,
             LocalTypes, Works, Placed, Closed, Absent, Settling,
             BeforeDebit, AfterTransfer
<1>38. QED
  BY <1>1, <1>2, <1>3, <1>4, <1>5, <1>6, <1>7, <1>8, <1>9, <1>10, <1>11,
     <1>12, <1>13, <1>14, <1>15, <1>16, <1>17, <1>18, <1>19, <1>20, <1>21,
     <1>22, <1>23, <1>24, <1>25, <1>26, <1>27, <1>28, <1>29, <1>30, <1>31,
     <1>32, <1>33, <1>34, <1>35, <1>36, <1>37 DEF Next, Arrive, Serve,
     Settle

(* A bid is not traded again.                                              *)
LEMMA StepTradedOnce ==
  OneHandler /\ BidKnown /\ BidsClosed /\ TradedOnce /\ OrderTypes /\
     LocalTypes /\ Placed /\ [Next]_vars
    => TradedOnce'
<1> SUFFICES ASSUME OneHandler, BidKnown, BidsClosed, TradedOnce,
                    OrderTypes, LocalTypes, Placed, [Next]_vars
             PROVE  TradedOnce'
  OBVIOUS
<1> USE DEF BidKnown, BidsClosed, TradedOnce, OrderTypes, LocalTypes, Closed
<1>1. ASSUME NEW h \in Handlers, NEW l \in Listings,
              ListReadOwned(h, l)
       PROVE  TradedOnce'
  BY <1>1 DEF ListReadOwned, store, Trade, OneHandler
<1>2. ASSUME NEW h \in Handlers, NEW l \in Listings,
              UnlistRead(h, l)
       PROVE  TradedOnce'
  BY <1>2 DEF UnlistRead, store, Trade, OneHandler
<1>3. ASSUME NEW h \in Handlers, NEW b \in Bids,
              BidRead(h, b)
       PROVE  TradedOnce'
  BY <1>3 DEF BidRead, store, Trade, OneHandler
<1>4. ASSUME NEW h \in Handlers, NEW b \in Bids,
              CancelBidRead(h, b)
       PROVE  TradedOnce'
  BY <1>4 DEF CancelBidRead, store, TakeBid, Trade, OneHandler
<1>5. ASSUME NEW h \in Handlers, NEW b \in Bids,
              RejectBidRead(h, b)
       PROVE  TradedOnce'
  BY <1>5 DEF RejectBidRead, store, TakeBid, Trade, OneHandler
<1>6. ASSUME NEW h \in Handlers, NEW b \in Bids,
              AcceptRead(h, b)
       PROVE  TradedOnce'
  BY <1>6 DEF AcceptRead, store, TakeBid, Trade, OneHandler
<1>7. ASSUME NEW h \in Handlers, NEW l \in Listings,
              NEW i \in Investors, NEW u \in BuyUnits,
              BuyRead(h, l, i, u)
       PROVE  TradedOnce'
  BY <1>7 DEF BuyRead, store, Trade, OneHandler
<1>8. ASSUME NEW h \in Handlers, NEW i \in Investors,
              GetWallet(h, i)
       PROVE  TradedOnce'
  BY <1>8 DEF GetWallet, store, Trade, OneHandler
<1>9. ASSUME NEW h \in Handlers,
              ListReadListed(h)
       PROVE  TradedOnce'
  BY <1>9 DEF ListReadListed, store, Trade, OneHandler
<1>10. ASSUME NEW h \in Handlers,
              ListInsert(h)
       PROVE  TradedOnce'
  BY <1>10 DEF ListInsert, store, Trade, OneHandler
<1>11. ASSUME NEW h \in Handlers,
              UnlistWrite(h)
       PROVE  TradedOnce'
  BY <1>11 DEF UnlistWrite, store, Trade, OneHandler
<1>12. ASSUME NEW h \in Handlers,
              BidInsert(h)
       PROVE  TradedOnce'
  BY <1>12 DEF BidInsert, store, Trade, OneHandler
<1>13. ASSUME NEW h \in Handlers,
              CancelBidWrite(h)
       PROVE  TradedOnce'
  BY <1>13 DEF CancelBidWrite, store, WriteBid, Trade, OneHandler
<1>14. ASSUME NEW h \in Handlers,
              RejectBidWrite(h)
       PROVE  TradedOnce'
  BY <1>14 DEF RejectBidWrite, store, WriteBid, Trade, OneHandler
<1>15. ASSUME NEW h \in Handlers,
              BuyCheck(h)
       PROVE  TradedOnce'
  BY <1>15 DEF BuyCheck, store, Trade, OneHandler
<1>16. ASSUME NEW h \in Handlers, NEW t \in Trades,
              BuyInsert(h, t)
       PROVE  TradedOnce'
  <2>1. order[h].bid = None /\ trade' = [trade EXCEPT ![t] = order[h]]
    BY <1>16 DEF BuyInsert, InsertTrade, Goto
  <2>2. \A s \in Trades : trade'[s].bid \in Bids => s # t /\ trade'[s] = trade[s]
    BY <2>1
  <2>3. QED
    BY <2>2
<1>17. ASSUME NEW h \in Handlers, NEW t \in Trades,
              AcceptInsert(h, t)
       PROVE  TradedOnce'
  <2>1. /\ pc[h] = "accept_insert" /\ bid[order[h].bid] = "active"
        /\ trade' = [trade EXCEPT ![t] = order[h]]
    BY <1>17 DEF AcceptInsert, InsertTrade, Goto
  <2>2. \A s \in Trades : trade[s].bid \in Bids => bid[trade[s].bid] \in Closed
    BY <2>1 DEF OneHandler
  <2>3. \A s \in Trades : trade[s].bid \in Bids => trade[s].bid # order[h].bid
    BY <2>1, <2>2
  <2>4. /\ trade'[t] = order[h]
        /\ \A s \in Trades : s # t => trade'[s] = trade[s]
    BY <2>1
  <2>5. QED
    BY <2>3, <2>4
<1>18. ASSUME NEW h \in Handlers,
              AcceptReadListing(h)
       PROVE  TradedOnce'
  BY <1>18 DEF AcceptReadListing, store, Trade, OneHandler
<1>19. ASSUME NEW h \in Handlers,
              AcceptMark(h)
       PROVE  TradedOnce'
  BY <1>19 DEF AcceptMark, store, Trade, OneHandler
<1>20. ASSUME NEW h \in Handlers,
              SettleReadListing(h)
       PROVE  TradedOnce'
  BY <1>20 DEF SettleReadListing, store, Trade, OneHandler
<1>21. ASSUME NEW h \in Handlers,
              SettleReadWallet(h)
       PROVE  TradedOnce'
  BY <1>21 DEF SettleReadWallet, store, Trade, OneHandler
<1>22. ASSUME NEW h \in Handlers,
              SettleFail(h)
       PROVE  TradedOnce'
  BY <1>22 DEF SettleFail, store, Trade, OneHandler
<1>23. ASSUME NEW h \in Handlers,
              SettleDebit(h)
       PROVE  TradedOnce'
  BY <1>23 DEF SettleDebit, store, Book, Trade, OneHandler
<1>24. ASSUME NEW h \in Handlers,
              SettleCredit(h)
       PROVE  TradedOnce'
  BY <1>24 DEF SettleCredit, store, Book, Trade, OneHandler
<1>25. ASSUME NEW h \in Handlers,
              SettleFee(h)
       PROVE  TradedOnce'
  BY <1>25 DEF SettleFee, store, Book, Trade, OneHandler
<1>26. ASSUME NEW h \in Handlers,
              SettleTransfer(h)
       PROVE  TradedOnce'
  BY <1>26 DEF SettleTransfer, store, Trade, OneHandler
<1>27. ASSUME NEW h \in Handlers,
              SettleReadSeller(h)
       PROVE  TradedOnce'
  BY <1>27 DEF SettleReadSeller, store, Trade, OneHandler
<1>28. ASSUME NEW h \in Handlers,
              SettleReadBuyer(h)
       PROVE  TradedOnce'
  BY <1>28 DEF SettleReadBuyer, store, Trade, OneHandler
<1>29. ASSUME NEW h \in Handlers,
              SettleSellerRow(h)
       PROVE  TradedOnce'
  BY <1>29 DEF SettleSellerRow, store, Trade, OneHandler
<1>30. ASSUME NEW h \in Handlers,
              SettleBuyerRow(h)
       PROVE  TradedOnce'
  BY <1>30 DEF SettleBuyerRow, store, Trade, OneHandler
<1>31. ASSUME NEW h \in Handlers,
              RecomputeRead(h)
       PROVE  TradedOnce'
  BY <1>31 DEF RecomputeRead, store, Trade, OneHandler
<1>32. ASSUME NEW h \in Handlers,
              RecomputeWrite(h)
       PROVE  TradedOnce'
  BY <1>32 DEF RecomputeWrite, store, Trade, OneHandler
<1>33. ASSUME NEW h \in Handlers,
              RecomputeFails(h)
       PROVE  TradedOnce'
  BY <1>33, NothingFails
<1>34. ASSUME NEW h \in Handlers,
              SettleListing(h)
       PROVE  TradedOnce'
  BY <1>34 DEF SettleListing, store, Trade, OneHandler
<1>35. ASSUME NEW h \in Handlers,
              SettleDone(h)
       PROVE  TradedOnce'
  BY <1>35 DEF SettleDone, store, Trade, OneHandler
<1>36. ASSUME NEW h \in Handlers,
              Abort(h)
       PROVE  TradedOnce'
  BY <1>36, NothingFails
<1>37. CASE UNCHANGED vars
  BY <1>37 DEF vars, store, local
<1> HIDE DEF BidKnown, BidsClosed, TradedOnce, OrderTypes, LocalTypes,
             Closed
<1>38. QED
  BY <1>1, <1>2, <1>3, <1>4, <1>5, <1>6, <1>7, <1>8, <1>9, <1>10, <1>11,
     <1>12, <1>13, <1>14, <1>15, <1>16, <1>17, <1>18, <1>19, <1>20, <1>21,
     <1>22, <1>23, <1>24, <1>25, <1>26, <1>27, <1>28, <1>29, <1>30, <1>31,
     <1>32, <1>33, <1>34, <1>35, <1>36, <1>37 DEF Next, Arrive, Serve,
     Settle

LEMMA StepSerialInv ==
  OneHandler /\ SerialInv /\ [Next]_vars => SerialInv'
BY StepDocuments, StepWorks, StepCounts, StepEffect, StepPlaced,
   StepExclusive, StepProgress, StepUntouched, StepConserved,
   StepMarketTypes, StepListingKnown, StepBidKnown, StepBidsClosed,
   StepTradedOnce
DEF SerialInv, SettlementInv, Unmoved, MarketTypes

(* The invariant of every serial behaviour.                                *)
THEOREM SerialInvariant ==
  ASSUME OneHandler
  PROVE  Spec => []SerialInv
BY InitSerialInv, StepSerialInv, PTL DEF Spec

(* A bid is accepted into one trade at most, when no request overlaps      *)
(* accept_bid and none is lost between its trade and its mark.             *)
THEOREM BidTradedOnceAlways ==
  ASSUME OneHandler
  PROVE  Spec => []BidTradedOnce
<1>1. ASSUME SerialInv, NEW b \in Bids
      PROVE  Cardinality({t \in Trades : trade[t].status # Absent
                                           /\ trade[t].bid = b}) <= 1
  <2> DEFINE S == {t \in Trades : trade[t].status # Absent /\ trade[t].bid = b}
  <2>1. \A s, t \in S : s = t
    <3>1. \A t \in S : t \in Trades /\ trade[t].bid = b
      OBVIOUS
    <3>2. QED
      BY <1>1, <3>1 DEF SerialInv, TradedOnce
  <2>2. CASE S = {}
    <3>1. Cardinality(S) = 0
      BY <2>2, FS_EmptySet
    <3>2. QED
      BY <3>1
  <2>3. ASSUME NEW t \in S
        PROVE  Cardinality(S) = 1
    <3>1. S = {t}
      BY <2>1
    <3>2. QED
      BY <3>1, FS_Singleton
  <2>4. QED
    BY <2>2, <2>3
<1>2. SerialInv => BidTradedOnce
  BY <1>1 DEF BidTradedOnce
<1>3. QED
  BY SerialInvariant, <1>2, PTL

(* A step writes a listing it knows to be open or absent.                  *)
LEMMA ClosedStays ==
  ASSUME OneHandler, SerialInv, [Next]_vars, NEW l \in Listings,
         listing[l].status \in {"filled", "cancelled"}
  PROVE  listing'[l].status = listing[l].status
<1> USE DEF SerialInv, MarketTypes, ListingTypes
<1>1. ASSUME NEW h \in Handlers, ListInsert(h)
      PROVE  listing'[l] = listing[l]
  BY <1>1 DEF ListInsert, ListingKnown, Absent
<1>2. ASSUME NEW h \in Handlers, UnlistWrite(h)
      PROVE  listing'[l] = listing[l]
  BY <1>2 DEF UnlistWrite, ListingKnown, Open
<1>3. ASSUME NEW h \in Handlers, SettleListing(h)
      PROVE  listing'[l] = listing[l]
  <2>1. work[h].trade \in Trades /\ pc[h] = "st_fill"
    BY <1>3 DEF SettlementInv, Placed, Settling, AfterTransfer,
           SettleListing, Goto
  <2>2. listing[Trade(h).listing].status \in Open
    BY <2>1 DEF ListingKnown, Settling, AfterTransfer
  <2>3. QED
    BY <1>3, <2>2 DEF SettleListing, Open
<1>4. ASSUME NEW h \in Handlers, Arrive(h)
      PROVE  listing' = listing
  BY <1>4 DEF Arrive, store, ListReadOwned, UnlistRead, BidRead, CancelBidRead,
         RejectBidRead, AcceptRead, TakeBid, BuyRead, GetWallet
<1>5. ASSUME NEW h \in Handlers, Serve(h)
      PROVE  listing' = listing \/ ListInsert(h) \/ UnlistWrite(h)
  BY <1>5 DEF Serve, store, ListReadListed, BidInsert, CancelBidWrite,
         RejectBidWrite, WriteBid, BuyCheck, BuyInsert, AcceptInsert,
         AcceptReadListing, AcceptMark
<1>6. ASSUME NEW h \in Handlers, Settle(h)
      PROVE  listing' = listing \/ SettleListing(h)
  BY <1>6 DEF Settle, store, SettleReadListing, SettleReadWallet, SettleFail,
         SettleDebit, SettleCredit, SettleFee, Book, SettleTransfer,
         SettleReadSeller, SettleReadBuyer, SettleSellerRow, SettleBuyerRow,
         RecomputeRead, RecomputeWrite, RecomputeFails, SettleDone
<1>7. ASSUME NEW h \in Handlers, Abort(h)
      PROVE  listing' = listing
  BY <1>7 DEF Abort, store
<1>8. ASSUME UNCHANGED vars
      PROVE  listing' = listing
  BY <1>8 DEF vars, store
<1>9. QED
  BY <1>1, <1>2, <1>3, <1>4, <1>5, <1>6, <1>7, <1>8 DEF Next

(* A listing that is filled or cancelled stays so, when no other request   *)
(* comes between the reading of its status and the write.                  *)
THEOREM ClosedListingStaysAlways ==
  ASSUME OneHandler
  PROVE  Spec => ClosedListingStays
<1>1. SerialInv /\ [Next]_vars =>
        [\A l \in Listings :
           listing[l].status \in {"filled", "cancelled"}
             => listing'[l].status = listing[l].status]_vars
  BY ClosedStays
<1>2. QED
  BY SerialInvariant, <1>1, PTL DEF Spec, ClosedListingStays

-----------------------------------------------------------------------------
(* What one trade contributes to the shares and to the money of an         *)
(* investor, and what a step that changes one trade does to them.          *)
Got(i, t)    == At(Shares, Bought(i), t)
Gave(i, t)   == At(Shares, Sold(i), t)
Spent(i, t)  == At(Paid, Bought(i), t)
Earned(i, t) == At(Received, Sold(i), t)

Alike(t) ==
  trade'[t] = trade[t] /\ booked'[t] = booked[t] /\ transfers'[t] = transfers[t]

(* What trades move are integers.                                          *)
LEMMA OrderAmounts ==
  ASSUME NEW o \in Orders \cup {NoOrder}
  PROVE  /\ o.units \in Nat /\ o.price \in Nat
         /\ Gross(o) \in Nat /\ Fee(o) \in Nat
<1>1. o.units \in Nat /\ o.price \in Nat
  BY DEF Orders, NoOrder
<1>2. Gross(o) \in Nat
  BY <1>1 DEF Gross
<1>3. Gross(o) * FeePct \in Nat
  BY <1>2
<1>4. Fee(o) \in Nat
  BY <1>3 DEF Fee
<1> QED
  BY <1>1, <1>2, <1>4

LEMMA Amounts ==
  \A t \in Trades :
    /\ OrderTypes /\ Counts =>
         Shares[t] \in Int /\ Paid[t] \in Int /\ Received[t] \in Int
    /\ OrderTypes' /\ Counts' =>
         Shares'[t] \in Int /\ Paid'[t] \in Int /\ Received'[t] \in Int
<1> SUFFICES ASSUME NEW t \in Trades
             PROVE  /\ OrderTypes /\ Counts =>
                         /\ Shares[t] \in Int
                         /\ Paid[t] \in Int
                         /\ Received[t] \in Int
                    /\ OrderTypes' /\ Counts' =>
                         /\ Shares'[t] \in Int
                         /\ Paid'[t] \in Int
                         /\ Received'[t] \in Int
  OBVIOUS
<1> USE DEF Counts, Reasons, OrderTypes
<1>1. ASSUME OrderTypes, Counts
      PROVE  Shares[t] \in Int /\ Paid[t] \in Int /\ Received[t] \in Int
  <2>1. /\ trade[t].units \in Nat /\ Gross(trade[t]) \in Nat
        /\ Fee(trade[t]) \in Nat
    BY <1>1, OrderAmounts
  <2>2. /\ transfers[t] \in Nat /\ booked[t]["secondary_purchase"] \in Nat
        /\ booked[t]["secondary_sale"] \in Nat
    BY <1>1
  <2>3. QED
    BY <2>1, <2>2 DEF Shares, Paid, Received
<1>2. ASSUME OrderTypes', Counts'
      PROVE  Shares'[t] \in Int /\ Paid'[t] \in Int /\ Received'[t] \in Int
  <2>1. /\ trade'[t].units \in Nat /\ Gross(trade'[t]) \in Nat
        /\ Fee(trade'[t]) \in Nat
    BY <1>2, OrderAmounts
  <2>2. /\ transfers'[t] \in Nat /\ booked'[t]["secondary_purchase"] \in Nat
        /\ booked'[t]["secondary_sale"] \in Nat
    BY <1>2
  <2>3. QED
    BY <2>1, <2>2 DEF Shares, Paid, Received
<1> QED
  BY <1>1, <1>2

LEMMA OwnedStep ==
  ASSUME OrderTypes, OrderTypes', Counts, Counts', NEW i \in Investors,
         NEW t \in Trades, \A s \in Trades \ {t} : Alike(s)
  PROVE  /\ Owned(i) \in Int
         /\ Owned(i)' = (((Owned(i) - Got(i, t)) + Gave(i, t)) + Got(i, t)')
                          - Gave(i, t)'
<1> DEFINE F == Shares
           B == Bought(i)
           S == Sold(i)
<1>1. /\ \A s \in Trades : F[s] \in Int
      /\ \A s \in Trades : F'[s] \in Int
      /\ B \in SUBSET Trades /\ S \in SUBSET Trades
      /\ B' \in SUBSET Trades /\ S' \in SUBSET Trades
  BY Amounts DEF Bought, Sold, Of
<1>2. \A s \in Trades \ {t} :
        At(F, B, s) = At(F', B', s) /\ At(F, S, s) = At(F', S', s)
  BY DEF At, Bought, Sold, Of, Shares, Alike
<1>3. /\ Owned(i) = Primary[i] + (SumFunctionOnSet(F, B) - SumFunctionOnSet(F, S))
      /\ Owned(i)' = Primary[i] + (SumFunctionOnSet(F', B')
                                     - SumFunctionOnSet(F', S'))
  BY DEF Owned
<1>4. Primary[i] \in Int /\ IsFiniteSet(Trades)
  OBVIOUS
<1>5. /\ Got(i, t) = At(F, B, t) /\ Gave(i, t) = At(F, S, t)
      /\ Got(i, t)' = At(F', B', t) /\ Gave(i, t)' = At(F', S', t)
  BY DEF Got, Gave
<1>6. SumFunctionOnSet(F', B')
        = (SumFunctionOnSet(F, B) - At(F, B, t)) + At(F', B', t)
  <2> HIDE DEF F, B, S
  <2> QED
    BY <1>1, <1>2, <1>4, SumShift
<1>7. SumFunctionOnSet(F', S')
        = (SumFunctionOnSet(F, S) - At(F, S, t)) + At(F', S', t)
  <2> HIDE DEF F, B, S
  <2> QED
    BY <1>1, <1>2, <1>4, SumShift
<1>8. /\ SumFunctionOnSet(F, B) \in Int /\ SumFunctionOnSet(F, S) \in Int
      /\ At(F, B, t) \in Int /\ At(F', B', t) \in Int
      /\ At(F, S, t) \in Int /\ At(F', S', t) \in Int
  <2>1. IsFiniteSet(B) /\ IsFiniteSet(S)
    BY <1>1, <1>4, FS_Subset
  <2> HIDE DEF F, B, S
  <2> QED
    BY <1>1, <2>1, SumInt DEF At
<1> HIDE DEF F, B, S
<1> QED
  BY <1>3, <1>4, <1>5, <1>6, <1>7, <1>8

LEMMA LedgerStep ==
  ASSUME OrderTypes, OrderTypes', Counts, Counts', NEW i \in Investors,
         NEW t \in Trades, \A s \in Trades \ {t} : Alike(s)
  PROVE  /\ LedgerSettled(i) \in Int
         /\ LedgerSettled(i)'
              = (((LedgerSettled(i) + Spent(i, t)) - Earned(i, t)) - Spent(i, t)')
                  + Earned(i, t)'
<1> DEFINE P == Paid
           R == Received
           B == Bought(i)
           S == Sold(i)
<1>1. /\ \A s \in Trades : P[s] \in Int /\ R[s] \in Int
      /\ \A s \in Trades : P'[s] \in Int /\ R'[s] \in Int
      /\ B \in SUBSET Trades /\ S \in SUBSET Trades
      /\ B' \in SUBSET Trades /\ S' \in SUBSET Trades
  BY Amounts DEF Bought, Sold, Of
<1>2. \A s \in Trades \ {t} :
        At(P, B, s) = At(P', B', s) /\ At(R, S, s) = At(R', S', s)
  BY DEF At, Bought, Sold, Of, Paid, Received, Alike
<1>3. /\ LedgerSettled(i) = (Cash[i] - SumFunctionOnSet(P, B))
                              + SumFunctionOnSet(R, S)
      /\ LedgerSettled(i)' = (Cash[i] - SumFunctionOnSet(P', B'))
                               + SumFunctionOnSet(R', S')
  BY DEF LedgerSettled
<1>4. Cash[i] \in Int /\ IsFiniteSet(Trades)
  OBVIOUS
<1>5. /\ Spent(i, t) = At(P, B, t) /\ Earned(i, t) = At(R, S, t)
      /\ Spent(i, t)' = At(P', B', t) /\ Earned(i, t)' = At(R', S', t)
  BY DEF Spent, Earned
<1>6. SumFunctionOnSet(P', B')
        = (SumFunctionOnSet(P, B) - At(P, B, t)) + At(P', B', t)
  <2> HIDE DEF P, R, B, S
  <2> QED
    BY <1>1, <1>2, <1>4, SumShift
<1>7. SumFunctionOnSet(R', S')
        = (SumFunctionOnSet(R, S) - At(R, S, t)) + At(R', S', t)
  <2> HIDE DEF P, R, B, S
  <2> QED
    BY <1>1, <1>2, <1>4, SumShift
<1>8. /\ SumFunctionOnSet(P, B) \in Int /\ SumFunctionOnSet(R, S) \in Int
      /\ At(P, B, t) \in Int /\ At(P', B', t) \in Int
      /\ At(R, S, t) \in Int /\ At(R', S', t) \in Int
  <2>1. IsFiniteSet(B) /\ IsFiniteSet(S)
    BY <1>1, <1>4, FS_Subset
  <2> HIDE DEF P, R, B, S
  <2> QED
    BY <1>1, <2>1, SumInt DEF At
<1> HIDE DEF P, R, B, S
<1> QED
  BY <1>3, <1>4, <1>5, <1>6, <1>7, <1>8

(* A settled trade counts as sold.                                         *)
SoldIn(l, t) ==
  IF Settled(t) /\ trade[t].listing = l THEN trade[t].units ELSE 0

LEMMA SoldStep ==
  ASSUME OrderTypes, OrderTypes', NEW l \in Listings,
         NEW t \in Trades, \A s \in Trades \ {t} : trade'[s] = trade[s]
  PROVE  /\ SoldOf(l) \in Int
         /\ SoldOf(l)' = (SoldOf(l) - SoldIn(l, t)) + SoldIn(l, t)'
<1> DEFINE F == [s \in Trades |-> trade[s].units]
           S == {s \in Trades : Settled(s) /\ trade[s].listing = l}
<1>1. /\ \A s \in Trades : F[s] \in Int /\ F'[s] \in Int
      /\ S \in SUBSET Trades /\ S' \in SUBSET Trades
  BY OrderAmounts DEF OrderTypes
<1>2. \A s \in Trades \ {t} : At(F, S, s) = At(F', S', s)
  BY DEF At, Settled
<1>3. SoldOf(l) = SumFunctionOnSet(F, S) /\ SoldOf(l)' = SumFunctionOnSet(F', S')
  BY DEF SoldOf
<1>4. SoldIn(l, t) = At(F, S, t) /\ SoldIn(l, t)' = At(F', S', t)
  BY DEF SoldIn, At, Settled
<1> HIDE DEF F, S
<1>5. SumFunctionOnSet(F', S')
        = (SumFunctionOnSet(F, S) - At(F, S, t)) + At(F', S', t)
  BY <1>1, <1>2, SumShift
<1>6. SumFunctionOnSet(F, S) \in Int
  BY <1>1, FS_Subset, SumInt
<1> QED
  BY <1>3, <1>4, <1>5, <1>6

(* What a step may leave as it is: what investors own, what the ledger     *)
(* holds for them, and what listings have sold.                            *)
HoldingsKept == \A i \in Investors : Owned(i)' = Owned(i)
LedgerKept   == \A i \in Investors : LedgerSettled(i)' = LedgerSettled(i)
SalesKept    == \A l \in Listings : SoldOf(l)' = SoldOf(l)

Typed == OrderTypes /\ Counts

LEMMA DocumentedKeeps ==
  Documented => HoldingsKept /\ LedgerKept /\ SalesKept
<1> SUFFICES ASSUME Documented PROVE HoldingsKept /\ LedgerKept /\ SalesKept
  OBVIOUS
<1> USE DEF Documented
<1>1. /\ Shares' = Shares /\ Paid' = Paid /\ Received' = Received
      /\ \A i : Bought(i)' = Bought(i) /\ Sold(i)' = Sold(i)
  BY DEF Shares, Paid, Received, Bought, Sold, Of
<1>2. HoldingsKept
  BY <1>1 DEF HoldingsKept, Owned
<1>3. LedgerKept
  BY <1>1 DEF LedgerKept, LedgerSettled
<1>4. SalesKept
  BY DEF SalesKept, SoldOf, Settled
<1> QED
  BY <1>2, <1>3, <1>4

(* A trade that is inserted has moved nothing yet.                         *)
LEMMA InsertKeeps ==
  ASSUME Typed, Typed', Untouched, NEW h \in Handlers, NEW t \in Trades,
         Inserts(h, t)
  PROVE  HoldingsKept /\ LedgerKept /\ SalesKept
<1>1. /\ trade[t].status = Absent /\ trade' = [trade EXCEPT ![t] = order[h]]
      /\ order[h].status = "pending" /\ booked' = booked /\ transfers' = transfers
  BY DEF Inserts
<1>2. \A s \in Trades \ {t} : Alike(s)
  BY <1>1 DEF Alike, Typed, OrderTypes
<1>3. trade'[t] = order[h] /\ trade'[t].status = "pending"
  BY <1>1 DEF Typed, OrderTypes
<1>4. transfers[t] = 0 /\ Booked(t, 0, 0, 0)
  BY <1>1 DEF Untouched
<1>5. /\ trade'[t].units \in Int /\ Gross(trade'[t]) \in Int
      /\ Fee(trade'[t]) \in Int
  BY OrderAmounts DEF Typed, OrderTypes
<1>6. Shares'[t] = 0 /\ Paid'[t] = 0 /\ Received'[t] = 0
  BY <1>1, <1>4, <1>5 DEF Shares, Paid, Received, Booked
<1>7. ASSUME NEW i \in Investors
      PROVE  /\ Got(i, t) = 0 /\ Gave(i, t) = 0 /\ Spent(i, t) = 0
             /\ Earned(i, t) = 0 /\ Got(i, t)' = 0 /\ Gave(i, t)' = 0
             /\ Spent(i, t)' = 0 /\ Earned(i, t)' = 0
  BY <1>1, <1>6 DEF Got, Gave, Spent, Earned, At, Bought, Sold, Of
<1>8. HoldingsKept
  BY <1>2, <1>7, OwnedStep DEF HoldingsKept, Typed
<1>9. LedgerKept
  BY <1>2, <1>7, LedgerStep DEF LedgerKept, Typed
<1>10. ASSUME NEW l \in Listings
       PROVE  SoldOf(l)' = SoldOf(l)
  <2>1. SoldIn(l, t) = 0 /\ SoldIn(l, t)' = 0
    BY <1>1, <1>3 DEF SoldIn, Settled, Absent
  <2>2. \A s \in Trades \ {t} : trade'[s] = trade[s]
    BY <1>2 DEF Alike
  <2>3. QED
    BY <2>1, <2>2, SoldStep DEF Typed
<1>11. SalesKept
  BY <1>10 DEF SalesKept
<1> QED
  BY <1>8, <1>9, <1>11

(* A trade that is settled or has failed has moved what it had moved.      *)
LEMMA CloseKeeps ==
  ASSUME Typed, Typed', NEW t \in Trades, NEW s,
         trade[t].status = "pending", s \in {"settled", "failed"},
         trade' = [trade EXCEPT ![t].status = s], UNCHANGED <<booked, transfers>>
  PROVE  /\ HoldingsKept /\ LedgerKept
         /\ s = "failed" => SalesKept
         /\ s = "settled" =>
              \A l \in Listings :
                SoldOf(l)' = SoldOf(l)
                               + IF trade[t].listing = l THEN trade[t].units ELSE 0
<1>1. \A u \in Trades \ {t} : Alike(u)
  BY DEF Alike, Typed, OrderTypes
<1>2. /\ trade'[t].status = s /\ trade'[t].listing = trade[t].listing
      /\ trade'[t].buyer = trade[t].buyer /\ trade'[t].units = trade[t].units
      /\ trade'[t].price = trade[t].price
  <2>1. trade[t] \in Orders \cup {NoOrder}
    BY DEF Typed, OrderTypes
  <2>2. trade'[t] = [trade[t] EXCEPT !.status = s]
    BY DEF Typed, OrderTypes
  <2>3. QED
    BY <2>1, <2>2 DEF Orders, NoOrder
<1>3. /\ Gross(trade'[t]) = Gross(trade[t]) /\ Fee(trade'[t]) = Fee(trade[t])
      /\ Seller(trade'[t]) = Seller(trade[t])
  BY <1>2 DEF Gross, Fee, Seller
<1>4. Shares'[t] = Shares[t] /\ Paid'[t] = Paid[t] /\ Received'[t] = Received[t]
  BY <1>2, <1>3 DEF Shares, Paid, Received
<1>5. ASSUME NEW i \in Investors
      PROVE  /\ Got(i, t) \in Int /\ Gave(i, t) \in Int
             /\ Spent(i, t) \in Int /\ Earned(i, t) \in Int
             /\ Got(i, t)' = Got(i, t) /\ Gave(i, t)' = Gave(i, t)
             /\ Spent(i, t)' = Spent(i, t) /\ Earned(i, t)' = Earned(i, t)
  <2>1. (t \in Bought(i)' <=> t \in Bought(i)) /\ (t \in Sold(i)' <=> t \in Sold(i))
    BY <1>2, <1>3 DEF Bought, Sold, Of, Absent
  <2>2. Shares[t] \in Int /\ Paid[t] \in Int /\ Received[t] \in Int
    BY Amounts DEF Typed
  <2>3. QED
    BY <1>4, <2>1, <2>2 DEF Got, Gave, Spent, Earned, At
<1>6. HoldingsKept
  BY <1>1, <1>5, OwnedStep DEF HoldingsKept, Typed
<1>7. LedgerKept
  BY <1>1, <1>5, LedgerStep DEF LedgerKept, Typed
<1>8. ASSUME NEW l \in Listings
      PROVE  SoldOf(l)' = SoldOf(l) + IF s = "settled" /\ trade[t].listing = l
                                      THEN trade[t].units ELSE 0
  <2>1. \A u \in Trades \ {t} : trade'[u] = trade[u]
    BY <1>1 DEF Alike
  <2>2. SoldIn(l, t) = 0
    BY DEF SoldIn, Settled
  <2>3. SoldIn(l, t)' = IF s = "settled" /\ trade[t].listing = l
                        THEN trade[t].units ELSE 0
    BY <1>2 DEF SoldIn, Settled
  <2>4. SoldIn(l, t)' \in Int
    BY <2>3, OrderAmounts DEF Typed, OrderTypes
  <2>5. QED
    BY <2>1, <2>2, <2>3, <2>4, SoldStep DEF Typed
<1>9. s = "failed" => SalesKept
  <2>1. ASSUME s = "failed", NEW l \in Listings
        PROVE  SoldOf(l)' = SoldOf(l)
    <3>1. SoldOf(l) \in Int
      BY <1>1, SoldStep DEF Typed, Alike
    <3>2. QED
      BY <2>1, <3>1, <1>8
  <2>2. QED
    BY <2>1 DEF SalesKept
<1> QED
  BY <1>6, <1>7, <1>8, <1>9

(* The debit takes the gross amount of the trade from its buyer.           *)
LEMMA DebitPays ==
  ASSUME Typed, Typed', NEW h \in Handlers, Stage(h), work[h].trade \in Trades,
         Trade(h).status # Absent, SettleDebit(h)
  PROVE  /\ HoldingsKept /\ SalesKept
         /\ \A i \in Investors :
              LedgerSettled(i)' = LedgerSettled(i)
                - IF i = Trade(h).buyer THEN Gross(Trade(h)) ELSE 0
<1>0. PICK t \in Trades : t = work[h].trade
  OBVIOUS
<1>1. /\ pc[h] = "st_debit" /\ trade' = trade /\ transfers' = transfers
      /\ booked' = [booked EXCEPT ![t]["secondary_purchase"] = @ + 1]
  BY <1>0 DEF SettleDebit, Goto, Book
<1>2. Booked(t, 0, 0, 0) /\ transfers[t] = 0
  BY <1>0, <1>1 DEF Stage, BeforeDebit
<1>3. Booked(t, 1, 0, 0)'
  BY <1>1, <1>2 DEF Booked, Typed, Counts, Reasons
<1>4. \A s \in Trades \ {t} : Alike(s)
  BY <1>1 DEF Alike, Typed, Counts
<1>5. Trade(h) = trade[t] /\ t \in Trades
  BY <1>0 DEF Trade
<1>6. Gross(trade[t]) \in Int /\ Fee(trade[t]) \in Int
  BY <1>5, OrderAmounts DEF Typed, OrderTypes
<1>7. /\ Paid[t] = 0 /\ Received[t] = 0
      /\ Paid'[t] = Gross(trade[t]) /\ Received'[t] = 0
  BY <1>1, <1>2, <1>3, <1>5, <1>6 DEF Paid, Received, Booked
<1>8. ASSUME NEW i \in Investors
      PROVE  LedgerSettled(i)' = LedgerSettled(i)
               - IF i = trade[t].buyer THEN Gross(trade[t]) ELSE 0
  <2>1. /\ Spent(i, t) = 0 /\ Earned(i, t) = 0 /\ Earned(i, t)' = 0
        /\ Spent(i, t)' = IF i = trade[t].buyer THEN Gross(trade[t]) ELSE 0
    BY <1>1, <1>5, <1>7 DEF Spent, Earned, At, Bought, Sold, Of
  <2>2. QED
    BY <1>4, <1>5, <1>6, <2>1, LedgerStep DEF Typed
<1>9. HoldingsKept
  <2>1. Shares' = Shares /\ \A i : Bought(i)' = Bought(i) /\ Sold(i)' = Sold(i)
    BY <1>1 DEF Shares, Bought, Sold, Of
  <2>2. QED
    BY <2>1 DEF HoldingsKept, Owned
<1>10. SalesKept
  BY <1>1 DEF SalesKept, SoldOf, Settled
<1> QED
  BY <1>5, <1>8, <1>9, <1>10

(* The credit gives its seller the gross amount less the fee.              *)
LEMMA CreditPays ==
  ASSUME Typed, Typed', NEW h \in Handlers, Stage(h), work[h].trade \in Trades,
         Trade(h).status # Absent, SettleCredit(h)
  PROVE  /\ HoldingsKept /\ SalesKept
         /\ \A i \in Investors :
              LedgerSettled(i)' = LedgerSettled(i)
                + IF i = Seller(Trade(h)) THEN Gross(Trade(h)) - Fee(Trade(h)) ELSE 0
<1>0. PICK t \in Trades : t = work[h].trade
  OBVIOUS
<1>1. /\ pc[h] = "st_credit" /\ trade' = trade /\ transfers' = transfers
      /\ booked' = [booked EXCEPT ![t]["secondary_sale"] = @ + 1]
  BY <1>0 DEF SettleCredit, Goto, Book
<1>2. Booked(t, 1, 0, 0) /\ transfers[t] = 0
  BY <1>0, <1>1 DEF Stage, BeforeDebit
<1>3. Booked(t, 1, 1, 0)'
  BY <1>1, <1>2 DEF Booked, Typed, Counts, Reasons
<1>4. \A s \in Trades \ {t} : Alike(s)
  BY <1>1 DEF Alike, Typed, Counts
<1>5. Trade(h) = trade[t] /\ t \in Trades
  BY <1>0 DEF Trade
<1>6. Gross(trade[t]) \in Int /\ Fee(trade[t]) \in Int
  BY <1>5, OrderAmounts DEF Typed, OrderTypes
<1>7. /\ Paid[t] = Gross(trade[t]) /\ Received[t] = 0
      /\ Paid'[t] = Gross(trade[t]) /\ Received'[t] = Gross(trade[t]) - Fee(trade[t])
  BY <1>1, <1>2, <1>3, <1>5, <1>6 DEF Paid, Received, Booked
<1>8. ASSUME NEW i \in Investors
      PROVE  LedgerSettled(i)' = LedgerSettled(i)
               + IF i = Seller(trade[t]) THEN Gross(trade[t]) - Fee(trade[t]) ELSE 0
  <2>1. /\ Spent(i, t)' = Spent(i, t) /\ Spent(i, t) \in Int /\ Earned(i, t) = 0
        /\ Earned(i, t)' = IF i = Seller(trade[t])
                           THEN Gross(trade[t]) - Fee(trade[t]) ELSE 0
    BY <1>1, <1>5, <1>6, <1>7 DEF Spent, Earned, At, Bought, Sold, Of
  <2>2. QED
    BY <1>4, <1>5, <1>6, <2>1, LedgerStep DEF Typed
<1>9. HoldingsKept
  <2>1. Shares' = Shares /\ \A i : Bought(i)' = Bought(i) /\ Sold(i)' = Sold(i)
    BY <1>1 DEF Shares, Bought, Sold, Of
  <2>2. QED
    BY <2>1 DEF HoldingsKept, Owned
<1>10. SalesKept
  BY <1>1 DEF SalesKept, SoldOf, Settled
<1> QED
  BY <1>5, <1>8, <1>9, <1>10

(* The fee is the platform's.                                              *)
LEMMA FeeKeeps ==
  ASSUME Typed, NEW h \in Handlers, SettleFee(h)
  PROVE  HoldingsKept /\ LedgerKept /\ SalesKept
<1>1. /\ trade' = trade /\ transfers' = transfers
      /\ booked' = [booked EXCEPT ![work[h].trade]["platform_fee"] = @ + 1]
  BY DEF SettleFee, Book
<1>2. \A t \in Trades :
        /\ booked'[t]["secondary_purchase"] = booked[t]["secondary_purchase"]
        /\ booked'[t]["secondary_sale"] = booked[t]["secondary_sale"]
  BY <1>1 DEF Typed, Counts, Reasons
<1>3. /\ Shares' = Shares /\ Paid' = Paid /\ Received' = Received
      /\ \A i : Bought(i)' = Bought(i) /\ Sold(i)' = Sold(i)
  BY <1>1, <1>2 DEF Shares, Paid, Received, Bought, Sold, Of
<1>4. HoldingsKept
  BY <1>3 DEF HoldingsKept, Owned
<1>5. LedgerKept
  BY <1>3 DEF LedgerKept, LedgerSettled
<1>6. SalesKept
  BY <1>1 DEF SalesKept, SoldOf, Settled
<1> QED
  BY <1>4, <1>5, <1>6

(* The transfer moves the units of the trade.                              *)
LEMMA TransferMoves ==
  ASSUME Typed, Typed', NEW h \in Handlers, Stage(h), work[h].trade \in Trades,
         Trade(h).status # Absent, SettleTransfer(h)
  PROVE  /\ LedgerKept /\ SalesKept
         /\ \A i \in Investors :
              Owned(i)' = (Owned(i)
                + (IF i = Trade(h).buyer THEN Trade(h).units ELSE 0))
                - (IF i = Seller(Trade(h)) THEN Trade(h).units ELSE 0)
<1>0. PICK t \in Trades : t = work[h].trade
  OBVIOUS
<1>1. /\ pc[h] = "st_transfer" /\ trade' = trade /\ booked' = booked
      /\ transfers' = [transfers EXCEPT ![t] = @ + 1]
  BY <1>0 DEF SettleTransfer, Goto
<1>2. transfers[t] = 0
  BY <1>0, <1>1 DEF Stage
<1>3. transfers'[t] = 1
  BY <1>1, <1>2 DEF Typed, Counts
<1>4. \A s \in Trades \ {t} : Alike(s)
  BY <1>1 DEF Alike, Typed, Counts
<1>5. Trade(h) = trade[t] /\ t \in Trades
  BY <1>0 DEF Trade
<1>6. trade[t].units \in Int
  BY <1>5, OrderAmounts DEF Typed, OrderTypes
<1>7. Shares[t] = 0 /\ Shares'[t] = trade[t].units
  BY <1>1, <1>2, <1>3, <1>5, <1>6 DEF Shares
<1>8. ASSUME NEW i \in Investors
      PROVE  Owned(i)' = (Owned(i)
               + (IF i = trade[t].buyer THEN trade[t].units ELSE 0))
               - (IF i = Seller(trade[t]) THEN trade[t].units ELSE 0)
  <2>1. /\ Got(i, t) = 0 /\ Gave(i, t) = 0
        /\ Got(i, t)' = IF i = trade[t].buyer THEN trade[t].units ELSE 0
        /\ Gave(i, t)' = IF i = Seller(trade[t]) THEN trade[t].units ELSE 0
    BY <1>1, <1>5, <1>7 DEF Got, Gave, At, Bought, Sold, Of
  <2>2. QED
    BY <1>4, <1>5, <1>6, <2>1, OwnedStep DEF Typed
<1>9. LedgerKept
  <2>1. Paid' = Paid /\ Received' = Received
        /\ \A i : Bought(i)' = Bought(i) /\ Sold(i)' = Sold(i)
    BY <1>1 DEF Paid, Received, Bought, Sold, Of
  <2>2. QED
    BY <2>1 DEF LedgerKept, LedgerSettled
<1>10. SalesKept
  BY <1>1 DEF SalesKept, SoldOf, Settled
<1> QED
  BY <1>5, <1>8, <1>9, <1>10

-----------------------------------------------------------------------------
(* What a step is to the money, the shares and the listings when requests  *)
(* do not overlap: either a step of a settlement that pays or of a wallet  *)
(* that is recomputed, or one aside from them.                             *)
Paying == {"st_debit", "st_credit", "st_fee", "st_transfer", "st_seller_owned",
           "st_buyer_owned", "st_seller_row", "st_buyer_row", "w_read",
           "w_write", "st_fill", "st_done"}

Aside(h) ==
  /\ pc[h] \notin Paying /\ pc'[h] \notin Paying
  /\ UNCHANGED <<booked, transfers, row, wallet>>
  /\ \/ trade' = trade
     \/ \E t \in Trades : Inserts(h, t)
     \/ SettleFail(h)
  /\ listing' = listing \/ ListInsert(h) \/ UnlistWrite(h)
  /\ todo' = todo \/ todo' = [todo EXCEPT ![h] = <<>>]
  /\ pc'[h] = "list_check" => \E l \in Listings : ListReadOwned(h, l)
  /\ pc'[h] = "list_insert" => ListReadListed(h)

Pays(h) ==
  \/ \E i \in Investors : GetWallet(h, i)
  \/ SettleReadWallet(h)
  \/ SettleDebit(h) \/ SettleCredit(h) \/ SettleFee(h) \/ SettleTransfer(h)
  \/ SettleReadSeller(h) \/ SettleReadBuyer(h)
  \/ SettleSellerRow(h) \/ SettleBuyerRow(h)
  \/ RecomputeRead(h) \/ RecomputeWrite(h)
  \/ SettleListing(h) \/ SettleDone(h)

LEMMA StepKinds ==
  ASSUME OneHandler, LocalTypes, Works, Placed, [Next]_vars
  PROVE  (\E h \in Handlers : Aside(h) \/ Pays(h)) \/ UNCHANGED vars
<1> USE DEF LocalTypes, Aside, Paying, store
<1>1. ASSUME NEW h \in Handlers, NEW l \in Listings, ListReadOwned(h, l)
      PROVE  Aside(h)
  BY <1>1 DEF ListReadOwned, Goto
<1>2. ASSUME NEW h \in Handlers, NEW l \in Listings, UnlistRead(h, l)
      PROVE  Aside(h)
  BY <1>2 DEF UnlistRead, Goto
<1>3. ASSUME NEW h \in Handlers, NEW b \in Bids, BidRead(h, b)
      PROVE  Aside(h)
  BY <1>3 DEF BidRead, Goto
<1>4. ASSUME NEW h \in Handlers, NEW b \in Bids, CancelBidRead(h, b)
      PROVE  Aside(h)
  BY <1>4 DEF CancelBidRead, TakeBid, Goto
<1>5. ASSUME NEW h \in Handlers, NEW b \in Bids, RejectBidRead(h, b)
      PROVE  Aside(h)
  BY <1>5 DEF RejectBidRead, TakeBid, Goto
<1>6. ASSUME NEW h \in Handlers, NEW b \in Bids, AcceptRead(h, b)
      PROVE  Aside(h)
  BY <1>6 DEF AcceptRead, TakeBid, Goto
<1>7. ASSUME NEW h \in Handlers, NEW l \in Listings, NEW i \in Investors, NEW u \in BuyUnits, BuyRead(h, l, i, u)
      PROVE  Aside(h)
  BY <1>7 DEF BuyRead, Goto
<1>8. ASSUME NEW h \in Handlers, ListReadListed(h)
      PROVE  Aside(h)
  BY <1>8 DEF ListReadListed, Goto, Finish
<1>9. ASSUME NEW h \in Handlers, ListInsert(h)
      PROVE  Aside(h)
  BY <1>9 DEF ListInsert, Finish
<1>10. ASSUME NEW h \in Handlers, UnlistWrite(h)
      PROVE  Aside(h)
  BY <1>10 DEF UnlistWrite, Finish
<1>11. ASSUME NEW h \in Handlers, BidInsert(h)
      PROVE  Aside(h)
  BY <1>11 DEF BidInsert, Finish
<1>12. ASSUME NEW h \in Handlers, CancelBidWrite(h)
      PROVE  Aside(h)
  BY <1>12 DEF CancelBidWrite, WriteBid, Finish
<1>13. ASSUME NEW h \in Handlers, RejectBidWrite(h)
      PROVE  Aside(h)
  BY <1>13 DEF RejectBidWrite, WriteBid, Finish
<1>14. ASSUME NEW h \in Handlers, BuyCheck(h)
      PROVE  Aside(h)
  BY <1>14 DEF BuyCheck, Goto, Finish
<1>15. ASSUME NEW h \in Handlers, NEW t \in Trades, BuyInsert(h, t)
      PROVE  Aside(h)
  <2>1. order[h].status = "pending" /\ pc[h] = "buy_insert" /\ pc'[h] = "st_listing"
    BY <1>15 DEF BuyInsert, Goto, Placed
  <2>2. work'[h].trade = t
    BY <1>15 DEF BuyInsert, InsertTrade, Works
  <2>3. Inserts(h, t)
    BY <1>15, <2>1, <2>2 DEF BuyInsert, InsertTrade, Inserts
  <2>4. QED
    BY <1>15, <2>1, <2>3 DEF BuyInsert
<1>16. ASSUME NEW h \in Handlers, NEW t \in Trades, AcceptInsert(h, t)
      PROVE  Aside(h)
  <2>1. order[h].status = "pending" /\ pc[h] = "accept_insert" /\ pc'[h] = "accept_mark"
    BY <1>16 DEF AcceptInsert, Goto, Placed
  <2>2. work'[h].trade = t
    BY <1>16 DEF AcceptInsert, InsertTrade, Works
  <2>3. Inserts(h, t)
    BY <1>16, <2>1, <2>2 DEF AcceptInsert, InsertTrade, Inserts
  <2>4. QED
    BY <1>16, <2>1, <2>3 DEF AcceptInsert
<1>17. ASSUME NEW h \in Handlers, AcceptReadListing(h)
      PROVE  Aside(h)
  BY <1>17 DEF AcceptReadListing, Goto, Finish
<1>18. ASSUME NEW h \in Handlers, AcceptMark(h)
      PROVE  Aside(h)
  BY <1>18 DEF AcceptMark, Goto
<1>19. ASSUME NEW h \in Handlers, SettleReadListing(h)
      PROVE  Aside(h)
  BY <1>19 DEF SettleReadListing, Goto, Finish
<1>20. ASSUME NEW h \in Handlers, SettleFail(h)
      PROVE  Aside(h)
  BY <1>20 DEF SettleFail, Finish
<1>21. ASSUME NEW h \in Handlers
      PROVE  ~RecomputeFails(h) /\ ~Abort(h)
  BY NothingFails
<1> HIDE DEF LocalTypes, Aside, Paying, store
<1> QED
  BY <1>1, <1>2, <1>3, <1>4, <1>5, <1>6, <1>7, <1>8, <1>9, <1>10,
     <1>11, <1>12, <1>13, <1>14, <1>15, <1>16, <1>17, <1>18, <1>19, <1>20,
     <1>21
     DEF Pays, Next, Arrive, Serve, Settle

(* What a trade asks for its listing still has, up to the tolerance, and   *)
(* the fill that was read is the fill.                                     *)
FillKnown ==
  \A h \in Handlers :
    /\ pc[h] \in {"buy_check", "buy_insert", "accept_insert"} =>
         /\ order[h].listing \in Listings
         /\ order[h].units <= Remaining(order[h].listing) + Slack
    /\ pc[h] \in Settling \ {"st_done"} /\ work[h].trade \in Trades =>
         /\ Trade(h).listing \in Listings
         /\ Trade(h).units <= Remaining(Trade(h).listing) + Slack
    /\ pc[h] \in Settling \ {"accept_mark", "st_listing", "st_done"}
         /\ work[h].trade \in Trades =>
         seen[h].filled = listing[Trade(h).listing].filled

LEMMA StepFillKnown ==
  OneHandler /\ FillKnown /\ ListingTypes /\ OrderTypes /\ SeenTypes /\
     LocalTypes /\ Works /\ Placed /\ [Next]_vars
    => FillKnown'
<1> SUFFICES ASSUME OneHandler, FillKnown, ListingTypes, OrderTypes,
                    SeenTypes, LocalTypes, Works, Placed, [Next]_vars
             PROVE  FillKnown'
  OBVIOUS
<1> USE DEF OneHandler, FillKnown, LocalTypes, Works, Placed, Settling,
            BeforeDebit, AfterTransfer, Remaining
<1>1. ASSUME NEW h \in Handlers, NEW l \in Listings,
              ListReadOwned(h, l)
       PROVE  FillKnown'
  BY <1>1 DEF ListReadOwned, store, Goto, Trade
<1>2. ASSUME NEW h \in Handlers, NEW l \in Listings,
              UnlistRead(h, l)
       PROVE  FillKnown'
  BY <1>2 DEF UnlistRead, store, Goto, Trade
<1>3. ASSUME NEW h \in Handlers, NEW b \in Bids,
              BidRead(h, b)
       PROVE  FillKnown'
  BY <1>3 DEF BidRead, store, Goto, Trade
<1>4. ASSUME NEW h \in Handlers, NEW b \in Bids,
              CancelBidRead(h, b)
       PROVE  FillKnown'
  BY <1>4 DEF CancelBidRead, store, TakeBid, Goto, Trade
<1>5. ASSUME NEW h \in Handlers, NEW b \in Bids,
              RejectBidRead(h, b)
       PROVE  FillKnown'
  BY <1>5 DEF RejectBidRead, store, TakeBid, Goto, Trade
<1>6. ASSUME NEW h \in Handlers, NEW b \in Bids,
              AcceptRead(h, b)
       PROVE  FillKnown'
  BY <1>6 DEF AcceptRead, store, TakeBid, Goto, Trade
<1>7. ASSUME NEW h \in Handlers, NEW l \in Listings,
              NEW i \in Investors, NEW u \in BuyUnits,
              BuyRead(h, l, i, u)
       PROVE  FillKnown'
  <2>1. /\ pc'[h] = "buy_check" /\ UNCHANGED <<listing, trade, work>>
        /\ order'[h].listing = l /\ order'[h].units = u
    BY <1>7 DEF BuyRead, Goto, store, OrderTypes
  <2>2. u <= Remaining(l) + Slack
    BY <1>7 DEF BuyRead, MayBuy
  <2>3. QED
    BY <2>1, <2>2
<1>8. ASSUME NEW h \in Handlers, NEW i \in Investors,
              GetWallet(h, i)
       PROVE  FillKnown'
  BY <1>8 DEF GetWallet, store, Goto, Trade
<1>9. ASSUME NEW h \in Handlers,
              ListReadListed(h)
       PROVE  FillKnown'
  BY <1>9 DEF ListReadListed, store, Goto, Finish, Trade
<1>10. ASSUME NEW h \in Handlers,
              ListInsert(h)
       PROVE  FillKnown'
  BY <1>10 DEF ListInsert, store, Finish, Trade
<1>11. ASSUME NEW h \in Handlers,
              UnlistWrite(h)
       PROVE  FillKnown'
  BY <1>11 DEF UnlistWrite, store, Finish, Trade
<1>12. ASSUME NEW h \in Handlers,
              BidInsert(h)
       PROVE  FillKnown'
  BY <1>12 DEF BidInsert, store, Finish, Trade
<1>13. ASSUME NEW h \in Handlers,
              CancelBidWrite(h)
       PROVE  FillKnown'
  BY <1>13 DEF CancelBidWrite, store, WriteBid, Finish, Trade
<1>14. ASSUME NEW h \in Handlers,
              RejectBidWrite(h)
       PROVE  FillKnown'
  BY <1>14 DEF RejectBidWrite, store, WriteBid, Finish, Trade
<1>15. ASSUME NEW h \in Handlers,
              BuyCheck(h)
       PROVE  FillKnown'
  BY <1>15 DEF BuyCheck, store, Goto, Finish, Trade
<1>16. ASSUME NEW h \in Handlers, NEW t \in Trades,
              BuyInsert(h, t)
       PROVE  FillKnown'
  <2>1. /\ pc[h] = "buy_insert" /\ pc'[h] = "st_listing"
        /\ listing' = listing
    BY <1>16 DEF BuyInsert, Goto
  <2>2. work'[h].trade = t /\ trade'[t] = order[h]
    BY <1>16 DEF BuyInsert, InsertTrade, OrderTypes
  <2>3. QED
    BY <2>1, <2>2 DEF Trade
<1>17. ASSUME NEW h \in Handlers, NEW t \in Trades,
              AcceptInsert(h, t)
       PROVE  FillKnown'
  <2>1. /\ pc[h] = "accept_insert" /\ pc'[h] = "accept_mark"
        /\ listing' = listing
    BY <1>17 DEF AcceptInsert, Goto
  <2>2. work'[h].trade = t /\ trade'[t] = order[h]
    BY <1>17 DEF AcceptInsert, InsertTrade, OrderTypes
  <2>3. QED
    BY <2>1, <2>2 DEF Trade
<1>18. ASSUME NEW h \in Handlers,
              AcceptReadListing(h)
       PROVE  FillKnown'
  <2> DEFINE b == work[h].bid
             l == ListingOfBid[b]
  <2>1. pc[h] = "accept_listing" /\ b \in Bids /\ UNCHANGED <<listing, trade>>
    BY <1>18 DEF AcceptReadListing, store
  <2>2. CASE listing[l].status \in Open
    <3>1. /\ pc' = [pc EXCEPT ![h] = "accept_insert"]
          /\ order' = [order EXCEPT ![h] =
               [status |-> "pending", listing |-> l, bid |-> b,
                buyer |-> BidderOf[b], price |-> BidPrice[b],
                units |-> AcceptedUnits(b, Remaining(l))]]
          /\ work' = work
      BY <1>18, <2>2 DEF AcceptReadListing, Goto
    <3>2. /\ pc'[h] = "accept_insert" /\ order'[h].listing = l
          /\ order'[h].units = AcceptedUnits(b, Remaining(l))
      BY <3>1 DEF OrderTypes
    <3>3. l \in Listings /\ Remaining(l) \in Nat
      BY <2>1, <2>2 DEF ListingTypes
    <3>4. BidUnits[b] \in Nat
      BY <2>1
    <3> HIDE DEF l, b, Remaining
    <3>5. AcceptedUnits(b, Remaining(l)) <= Remaining(l) + Slack
      BY <3>3, <3>4 DEF AcceptedUnits
    <3>6. order'[h].listing \in Listings
          /\ order'[h].units <= Remaining(l) + Slack
      BY <3>2, <3>3, <3>5
    <3>7. \A g \in Handlers : g = h
      OBVIOUS
    <3>8. order'[h].units
            <= (UnitsOf[order'[h].listing] - listing'[order'[h].listing].filled) + Slack
      BY <2>1, <3>2, <3>6 DEF Remaining
    <3>9. QED
      BY <3>2, <3>6, <3>7, <3>8 DEF Remaining
  <2>3. CASE listing[l].status \notin Open
    <3>1. pc'[h] = "idle"
      BY <1>18, <2>3 DEF AcceptReadListing, Finish
    <3>2. QED
      BY <3>1
  <2>4. QED
    BY <2>2, <2>3
<1>19. ASSUME NEW h \in Handlers,
              AcceptMark(h)
       PROVE  FillKnown'
  BY <1>19 DEF AcceptMark, store, Goto, Trade
<1>20. ASSUME NEW h \in Handlers,
              SettleReadListing(h)
       PROVE  FillKnown'
  <2>1. pc[h] = "st_listing" /\ UNCHANGED <<listing, trade>>
    BY <1>20 DEF SettleReadListing, store
  <2>2. CASE listing[Trade(h).listing].status \in Open
    <3>1. /\ pc'[h] = "st_wallet" /\ work' = work
          /\ seen' = [seen EXCEPT ![h].filled = listing[Trade(h).listing].filled]
      BY <1>20, <2>2 DEF SettleReadListing, Goto
    <3>2. seen'[h].filled = listing[Trade(h).listing].filled
      BY <3>1 DEF SeenTypes, IsReading
    <3>3. Trade(h)' = Trade(h)
      BY <2>1, <3>1 DEF Trade
    <3>4. QED
      BY <2>1, <3>1, <3>2, <3>3
  <2>3. CASE listing[Trade(h).listing].status \notin Open
    <3>1. pc' = [pc EXCEPT ![h] = "idle"]
      BY <1>20, <2>3 DEF SettleReadListing, Finish
    <3>2. pc'[h] = "idle"
      BY <3>1
    <3>3. QED
      BY <3>2
  <2>4. QED
    BY <2>2, <2>3
<1>21. ASSUME NEW h \in Handlers,
              SettleReadWallet(h)
       PROVE  FillKnown'
  BY <1>21 DEF SettleReadWallet, store, Goto, Trade
<1>22. ASSUME NEW h \in Handlers,
              SettleFail(h)
       PROVE  FillKnown'
  <2>1. pc'[h] = "idle"
    BY <1>22 DEF SettleFail, Finish
  <2>2. QED
    BY <2>1
<1>23. ASSUME NEW h \in Handlers,
              SettleDebit(h)
       PROVE  FillKnown'
  BY <1>23 DEF SettleDebit, store, Book, Goto, Trade
<1>24. ASSUME NEW h \in Handlers,
              SettleCredit(h)
       PROVE  FillKnown'
  BY <1>24 DEF SettleCredit, store, Book, Goto, Trade
<1>25. ASSUME NEW h \in Handlers,
              SettleFee(h)
       PROVE  FillKnown'
  BY <1>25 DEF SettleFee, store, Book, Goto, Trade
<1>26. ASSUME NEW h \in Handlers,
              SettleTransfer(h)
       PROVE  FillKnown'
  BY <1>26 DEF SettleTransfer, store, Goto, Trade
<1>27. ASSUME NEW h \in Handlers,
              SettleReadSeller(h)
       PROVE  FillKnown'
  BY <1>27 DEF SettleReadSeller, store, Goto, Trade
<1>28. ASSUME NEW h \in Handlers,
              SettleReadBuyer(h)
       PROVE  FillKnown'
  BY <1>28 DEF SettleReadBuyer, store, Goto, Trade
<1>29. ASSUME NEW h \in Handlers,
              SettleSellerRow(h)
       PROVE  FillKnown'
  BY <1>29 DEF SettleSellerRow, store, Goto, Trade
<1>30. ASSUME NEW h \in Handlers,
              SettleBuyerRow(h)
       PROVE  FillKnown'
  BY <1>30 DEF SettleBuyerRow, store, Goto, Trade
<1>31. ASSUME NEW h \in Handlers,
              RecomputeRead(h)
       PROVE  FillKnown'
  BY <1>31 DEF RecomputeRead, store, Goto, Trade
<1>32. ASSUME NEW h \in Handlers,
              RecomputeWrite(h)
       PROVE  FillKnown'
  <2>1. pc[h] = "w_write" /\ UNCHANGED <<listing, trade>>
    BY <1>32 DEF RecomputeWrite
  <2>2. CASE work[h].trade # None
    <3>1. pc'[h] \in {"w_read", "st_fill"} /\ UNCHANGED <<work, seen>>
      BY <1>32, <2>2 DEF RecomputeWrite, Goto
    <3>2. QED
      BY <2>1, <3>1 DEF Trade
  <2>3. CASE work[h].trade = None
    <3>1. pc'[h] = "idle"
      BY <1>32, <2>3 DEF RecomputeWrite, Finish
    <3>2. QED
      BY <3>1
  <2>4. QED
    BY <2>2, <2>3
<1>33. ASSUME NEW h \in Handlers,
              RecomputeFails(h)
       PROVE  FillKnown'
  BY <1>33, NothingFails
<1>34. ASSUME NEW h \in Handlers,
              SettleListing(h)
       PROVE  FillKnown'
  BY <1>34 DEF SettleListing, store, Goto, Trade
<1>35. ASSUME NEW h \in Handlers,
              SettleDone(h)
       PROVE  FillKnown'
  <2>1. pc'[h] = "idle"
    BY <1>35 DEF SettleDone, Finish
  <2>2. QED
    BY <2>1
<1>36. ASSUME NEW h \in Handlers,
              Abort(h)
       PROVE  FillKnown'
  BY <1>36, NothingFails
<1>37. CASE UNCHANGED vars
  BY <1>37 DEF vars, store, local, Trade
<1> HIDE DEF OneHandler, FillKnown, LocalTypes, Works, Placed, Settling,
             BeforeDebit, AfterTransfer, Remaining
<1>38. QED
  BY <1>1, <1>2, <1>3, <1>4, <1>5, <1>6, <1>7, <1>8, <1>9, <1>10, <1>11,
     <1>12, <1>13, <1>14, <1>15, <1>16, <1>17, <1>18, <1>19, <1>20, <1>21,
     <1>22, <1>23, <1>24, <1>25, <1>26, <1>27, <1>28, <1>29, <1>30, <1>31,
     <1>32, <1>33, <1>34, <1>35, <1>36, <1>37 DEF Next, Arrive, Serve,
     Settle

-----------------------------------------------------------------------------
(* What investors own, what the ledger holds for them, what they list, and *)
(* what listings have sold.                                                *)
OwnedOf  == [i \in Investors |-> Owned(i)]
LedgerOf == [i \in Investors |-> LedgerSettled(i)]
ListedOf == [i \in Investors |-> Listed(i)]
SoldBy   == [l \in Listings |-> SoldOf(l)]

(* Rows.  From the transfer to the writing of its row, the row of a party  *)
(* to the trade is stale; what a handler has computed for it is the truth. *)
RowStale(h, i) ==
  \/ /\ pc[h] \in {"st_seller_owned", "st_buyer_owned", "st_seller_row"}
     /\ i \in {Trade(h).buyer, Seller(Trade(h))}
  \/ pc[h] = "st_buyer_row" /\ i = Trade(h).buyer

RowFits ==
  /\ row = [i \in Investors |-> row[i]]
  /\ \A h \in Handlers :
       /\ pc[h] \in {"st_buyer_owned", "st_seller_row"}
            => seen[h].seller = OwnedOf[Seller(Trade(h))]
       /\ pc[h] \in {"st_seller_row", "st_buyer_row"}
            => seen[h].buyer = OwnedOf[Trade(h).buyer]
  /\ \A i \in Investors :
       row[i] = OwnedOf[i] \/ (\E h \in Handlers : RowStale(h, i))

(* Wallets.  From the debit to its recompute, the wallet of a party to the *)
(* trade is stale; the recompute goes through the buyer, then the seller.  *)
WalletStale(h, i) ==
  \/ /\ pc[h] \in {"st_credit", "st_fee", "st_transfer", "st_seller_owned",
                   "st_buyer_owned", "st_seller_row", "st_buyer_row"}
     /\ i \in {Trade(h).buyer, Seller(Trade(h))}
  \/ /\ pc[h] \in {"w_read", "w_write"} /\ work[h].trade \in Trades
     /\ i = Seller(Trade(h)) \/ (i = Trade(h).buyer /\ Len(todo[h]) = 2)

Queue(h) ==
  \/ /\ work[h].trade \in Trades
     /\ \/ todo[h] = <<Trade(h).buyer, Seller(Trade(h))>>
        \/ todo[h] = <<Seller(Trade(h))>>
  \/ /\ work[h].trade = None
     /\ \E i \in Investors : todo[h] = <<i>>

WalletFits ==
  /\ wallet = [i \in Investors |-> wallet[i]]
  /\ todo = [h \in Handlers |-> todo[h]]
  /\ \A h \in Handlers :
       /\ pc[h] \in {"w_read", "w_write"} => Queue(h)
       /\ pc[h] = "w_write" => seen[h].cash = LedgerOf[Head(todo[h])]
  /\ \A i \in Investors :
       wallet[i] = LedgerOf[i] \/ (\E h \in Handlers : WalletStale(h, i))

(* Cash.  Whoever is about to be debited can pay.                          *)
CashFits ==
  /\ \A i \in Investors : LedgerOf[i] >= -Slack
  /\ \A h \in Handlers :
       pc[h] = "st_debit" =>
         Gross(Trade(h)) <= LedgerOf[Trade(h).buyer] + Slack

(* Fills.  The fill of a listing is ahead of its sales by the trade that   *)
(* awaits its last write.                                                  *)
FillFits ==
  /\ \A l \in Listings :
       /\ listing[l].status = Absent => listing[l].filled = 0
       /\ listing[l].filled <= UnitsOf[l] + Slack
       /\ \/ \E h \in Handlers : pc[h] = "st_done" /\ Trade(h).listing = l
          \/ listing[l].filled = SoldBy[l]
  /\ \A h \in Handlers :
       pc[h] = "st_done" =>
         listing[Trade(h).listing].filled
           = SoldBy[Trade(h).listing] + Trade(h).units

(* Offers.  From the transfer to the fill of its listing, the seller has   *)
(* listed the units it no longer owns; then the tolerance of this sale,    *)
(* until the sale counts.                                                  *)
Tolerance(i) == Slack * (1 + Cardinality(SalesOf(i)))

Delivered(h, i) ==
  /\ pc[h] \in AfterTransfer /\ work[h].trade \in Trades
  /\ i = Seller(Trade(h))

Debt(h, i) ==
  IF Delivered(h, i)
  THEN IF pc[h] = "st_done" THEN Slack ELSE Trade(h).units
  ELSE 0

ListedFits ==
  /\ \A h \in Handlers :
       /\ pc[h] = "list_check" =>
            seen[h].seller = OwnedOf[SellerOf[work[h].listing]]
       /\ pc[h] = "list_insert" =>
            LET l == work[h].listing
            IN  UnitsOf[l] <= (OwnedOf[SellerOf[l]] - ListedOf[SellerOf[l]]) + Slack
  /\ \A i \in Investors :
       \/ ListedOf[i] <= OwnedOf[i] + Tolerance(i)
       \/ \E h \in Handlers :
            ListedOf[i] <= (OwnedOf[i] + Tolerance(i)) + Debt(h, i)

(* The inductive invariant of what is bought and sold.                     *)
BalanceInv ==
  SerialInv /\ FillKnown /\ RowFits /\ WalletFits /\ FillFits /\ ListedFits

(* The trade of a handler is pending, between two investors.               *)
LEMMA Parties ==
  ASSUME SerialInv, NEW h \in Handlers
  PROVE  /\ work[h].trade \in Trades =>
              /\ Trade(h) \in Orders /\ Trade(h).status = "pending"
              /\ Trade(h).buyer \in Investors /\ Seller(Trade(h)) \in Investors
              /\ Trade(h).listing \in Listings /\ Trade(h).units \in Nat
              /\ Gross(Trade(h)) \in Nat /\ Fee(Trade(h)) \in Nat
         /\ pc[h] \in Paying \ {"w_read", "w_write"} => work[h].trade \in Trades
         /\ Stage(h) /\ Typed
         /\ LocalTypes /\ Works /\ Placed /\ Untouched
<1>1. pc[h] \in Paying \ {"w_read", "w_write"} => work[h].trade \in Trades
  BY DEF SerialInv, SettlementInv, Placed, Paying, Settling, BeforeDebit, AfterTransfer
<1>2. Stage(h) /\ Typed /\ LocalTypes /\ Works /\ Placed /\ Untouched
  BY DEF SerialInv, SettlementInv, Progress, Typed, MarketTypes
<1>3. ASSUME work[h].trade \in Trades
      PROVE  /\ Trade(h) \in Orders /\ Trade(h).status = "pending"
             /\ Trade(h).buyer \in Investors /\ Seller(Trade(h)) \in Investors
             /\ Trade(h).listing \in Listings /\ Trade(h).units \in Nat
             /\ Gross(Trade(h)) \in Nat /\ Fee(Trade(h)) \in Nat
  <2>1. Trade(h).status = "pending"
    BY <1>2, <1>3 DEF Placed, Trade
  <2>2. Trade(h) \in Orders
    BY <1>2, <1>3, <2>1 DEF Typed, OrderTypes, Trade, NoOrder, Absent
  <2>3. QED
    BY <2>1, <2>2, OrderAmounts DEF Orders, Seller
<1> QED
  BY <1>1, <1>2, <1>3

LEMMA TruthTypes ==
  ASSUME Typed
  PROVE  /\ \A i \in Investors : OwnedOf[i] \in Int /\ LedgerOf[i] \in Int
         /\ \A l \in Listings : SoldBy[l] \in Int
<1>1. ASSUME NEW i \in Investors
      PROVE  Owned(i) \in Int /\ LedgerSettled(i) \in Int
  <2> DEFINE B == Bought(i)
             S == Sold(i)
  <2>1. /\ \A t \in Trades : Shares[t] \in Int /\ Paid[t] \in Int /\ Received[t] \in Int
        /\ B \in SUBSET Trades /\ S \in SUBSET Trades
    BY Amounts DEF Typed, Bought, Sold, Of
  <2>2. IsFiniteSet(B) /\ IsFiniteSet(S)
    BY <2>1, FS_Subset
  <2>3. /\ Owned(i) = Primary[i] + (SumFunctionOnSet(Shares, B)
                                      - SumFunctionOnSet(Shares, S))
        /\ LedgerSettled(i) = (Cash[i] - SumFunctionOnSet(Paid, B))
                                 + SumFunctionOnSet(Received, S)
    BY DEF Owned, LedgerSettled
  <2> HIDE DEF B, S
  <2>4. /\ SumFunctionOnSet(Shares, B) \in Int /\ SumFunctionOnSet(Shares, S) \in Int
        /\ SumFunctionOnSet(Paid, B) \in Int /\ SumFunctionOnSet(Received, S) \in Int
    BY <2>1, <2>2, SumInt
  <2>5. QED
    BY <2>3, <2>4
<1>2. ASSUME NEW l \in Listings
      PROVE  SoldOf(l) \in Int
  <2> DEFINE F == [t \in Trades |-> trade[t].units]
             S == {t \in Trades : Settled(t) /\ trade[t].listing = l}
  <2>1. \A t \in Trades : F[t] \in Int
    BY OrderAmounts DEF Typed, OrderTypes
  <2>2. S \in SUBSET Trades /\ IsFiniteSet(S)
    BY FS_Subset
  <2>3. SoldOf(l) = SumFunctionOnSet(F, S)
    BY DEF SoldOf
  <2> HIDE DEF F, S
  <2>4. QED
    BY <2>1, <2>2, <2>3, SumInt
<1> QED
  BY <1>1, <1>2 DEF OwnedOf, LedgerOf, SoldBy

LEMMA TruthsKept ==
  /\ HoldingsKept => OwnedOf' = OwnedOf
  /\ LedgerKept => LedgerOf' = LedgerOf
  /\ SalesKept => SoldBy' = SoldBy
BY DEF HoldingsKept, LedgerKept, SalesKept, OwnedOf, LedgerOf, SoldBy

(* A step aside leaves money, shares and sales as they are.                *)
LEMMA AsideKeeps ==
  ASSUME SerialInv, SerialInv', NEW h \in Handlers, Aside(h)
  PROVE  OwnedOf' = OwnedOf /\ LedgerOf' = LedgerOf /\ SoldBy' = SoldBy
<1>1. Typed /\ Typed' /\ Untouched /\ UNCHANGED <<booked, transfers>>
  BY DEF SerialInv, SettlementInv, MarketTypes, Typed, Aside
<1>2. CASE trade' = trade
  BY <1>1, <1>2, DocumentedKeeps, TruthsKept DEF Documented
<1>3. ASSUME NEW t \in Trades, Inserts(h, t)
      PROVE  OwnedOf' = OwnedOf /\ LedgerOf' = LedgerOf /\ SoldBy' = SoldBy
  BY <1>1, <1>3, InsertKeeps, TruthsKept
<1>4. CASE SettleFail(h)
  <2>1. PICK t \in Trades : t = work[h].trade
    BY <1>4 DEF SettleFail, SerialInv, SettlementInv, Placed, Settling, BeforeDebit
  <2>2. trade[t].status = "pending"
    BY <2>1, Parties DEF Trade
  <2>3. trade' = [trade EXCEPT ![t].status = "failed"]
    BY <1>4, <2>1 DEF SettleFail
  <2>4. QED
    BY <1>1, <2>2, <2>3, CloseKeeps, TruthsKept
<1>5. QED
  BY <1>2, <1>3, <1>4 DEF Aside

(* A step that pays moves one of them.                                     *)
LEMMA PaysKeeps ==
  ASSUME SerialInv, SerialInv', NEW h \in Handlers, Pays(h)
  PROVE  /\ OwnedOf' = OwnedOf \/ SettleTransfer(h)
         /\ LedgerOf' = LedgerOf \/ SettleDebit(h) \/ SettleCredit(h)
         /\ SoldBy' = SoldBy \/ SettleDone(h)
         /\ trade' = trade \/ SettleDone(h)
<1>1. Typed /\ Typed' /\ Stage(h)
  BY Parties DEF SerialInv, SettlementInv, MarketTypes, Typed
<1>2. CASE \/ \E i \in Investors : GetWallet(h, i)
           \/ SettleReadWallet(h)
           \/ SettleReadSeller(h) \/ SettleReadBuyer(h)
           \/ SettleSellerRow(h) \/ SettleBuyerRow(h)
           \/ RecomputeRead(h) \/ RecomputeWrite(h) \/ SettleListing(h)
  <2>1. Documented
    BY <1>2 DEF Documented, store, GetWallet, SettleReadWallet, SettleReadSeller,
           SettleReadBuyer, SettleSellerRow, SettleBuyerRow, RecomputeRead,
           RecomputeWrite, SettleListing
  <2>2. QED
    BY <2>1, DocumentedKeeps, TruthsKept DEF Documented
<1>3. CASE SettleDebit(h) \/ SettleCredit(h) \/ SettleFee(h) \/ SettleTransfer(h)
  <2>1. /\ trade' = trade
        /\ pc[h] \in {"st_debit", "st_credit", "st_fee", "st_transfer"}
    BY <1>3 DEF SettleDebit, SettleCredit, SettleFee, SettleTransfer, Book, Goto
  <2>2. work[h].trade \in Trades /\ Trade(h).status # Absent
    BY <2>1, Parties DEF Paying, Absent
  <2>3. QED
    BY <1>1, <1>3, <2>1, <2>2, DebitPays, CreditPays, FeeKeeps, TransferMoves,
       TruthsKept
<1>4. CASE SettleDone(h)
  <2>1. PICK t \in Trades : t = work[h].trade
    BY <1>4, Parties DEF SettleDone, Paying
  <2>2. trade[t].status = "pending"
    BY <2>1, Parties DEF Trade
  <2>3. trade' = [trade EXCEPT ![t].status = "settled"]
        /\ UNCHANGED <<booked, transfers>>
    BY <1>4, <2>1 DEF SettleDone
  <2>4. QED
    BY <1>1, <1>4, <2>2, <2>3, CloseKeeps, TruthsKept
<1>5. QED
  BY <1>2, <1>3, <1>4 DEF Pays

(* What the four steps that move one of them do.                           *)
LEMMA PaysMoves ==
  ASSUME SerialInv, SerialInv', NEW h \in Handlers
  PROVE  /\ SettleTransfer(h) => \A i \in Investors :
              OwnedOf'[i] = (OwnedOf[i]
                + (IF i = Trade(h).buyer THEN Trade(h).units ELSE 0))
                - (IF i = Seller(Trade(h)) THEN Trade(h).units ELSE 0)
         /\ SettleDebit(h) => \A i \in Investors :
              LedgerOf'[i] = LedgerOf[i]
                - IF i = Trade(h).buyer THEN Gross(Trade(h)) ELSE 0
         /\ SettleCredit(h) => \A i \in Investors :
              LedgerOf'[i] = LedgerOf[i]
                + IF i = Seller(Trade(h)) THEN Gross(Trade(h)) - Fee(Trade(h)) ELSE 0
         /\ SettleDone(h) => \A l \in Listings :
              SoldBy'[l] = SoldBy[l]
                + IF Trade(h).listing = l THEN Trade(h).units ELSE 0
<1>1. Typed /\ Typed' /\ Stage(h)
  BY Parties DEF SerialInv, SettlementInv, MarketTypes, Typed
<1>2. ASSUME SettleTransfer(h) \/ SettleDebit(h) \/ SettleCredit(h) \/ SettleDone(h)
      PROVE  work[h].trade \in Trades /\ Trade(h).status = "pending"
  BY <1>2, Parties
     DEF SettleTransfer, SettleDebit, SettleCredit, SettleDone, Goto, Paying
<1>3. ASSUME SettleTransfer(h)
      PROVE  \A i \in Investors :
               OwnedOf'[i] = (OwnedOf[i]
                 + (IF i = Trade(h).buyer THEN Trade(h).units ELSE 0))
                 - (IF i = Seller(Trade(h)) THEN Trade(h).units ELSE 0)
  BY <1>1, <1>2, <1>3, TransferMoves DEF OwnedOf, Absent
<1>4. ASSUME SettleDebit(h)
      PROVE  \A i \in Investors :
               LedgerOf'[i] = LedgerOf[i]
                 - IF i = Trade(h).buyer THEN Gross(Trade(h)) ELSE 0
  BY <1>1, <1>2, <1>4, DebitPays DEF LedgerOf, Absent
<1>5. ASSUME SettleCredit(h)
      PROVE  \A i \in Investors :
               LedgerOf'[i] = LedgerOf[i]
                 + IF i = Seller(Trade(h)) THEN Gross(Trade(h)) - Fee(Trade(h)) ELSE 0
  BY <1>1, <1>2, <1>5, CreditPays DEF LedgerOf, Absent
<1>6. ASSUME SettleDone(h)
      PROVE  \A l \in Listings :
               SoldBy'[l] = SoldBy[l]
                 + IF Trade(h).listing = l THEN Trade(h).units ELSE 0
  <2>1. PICK t \in Trades : t = work[h].trade
    BY <1>2, <1>6
  <2>2. trade[t] = Trade(h) /\ trade[t].status = "pending"
    BY <1>2, <1>6, <2>1 DEF Trade
  <2>3. trade' = [trade EXCEPT ![t].status = "settled"]
        /\ UNCHANGED <<booked, transfers>>
    BY <1>6, <2>1 DEF SettleDone
  <2>4. \A l \in Listings :
          SoldOf(l)' = SoldOf(l) + IF trade[t].listing = l THEN trade[t].units ELSE 0
    BY <1>1, <2>2, <2>3, CloseKeeps
  <2>5. QED
    BY <2>2, <2>4 DEF SoldBy
<1>7. QED
  BY <1>3, <1>4, <1>5, <1>6

(* A step that changes nothing changes none of them.                       *)
LEMMA StutterKeeps ==
  ASSUME UNCHANGED vars
  PROVE  /\ OwnedOf' = OwnedOf /\ LedgerOf' = LedgerOf /\ SoldBy' = SoldBy
         /\ UNCHANGED <<listing, trade, row, wallet, pc, work, seen, todo>>
         /\ \A h \in Handlers : Trade(h)' = Trade(h)
<1>1. UNCHANGED <<listing, trade, booked, transfers, row, wallet, pc, work, seen, todo>>
  BY DEF vars, store, local
<1>2. Documented
  BY <1>1 DEF Documented
<1>3. \A h \in Handlers : Trade(h)' = Trade(h)
  BY <1>1 DEF Trade
<1> QED
  BY <1>1, <1>2, <1>3, DocumentedKeeps, TruthsKept

RowPlaces == {"st_seller_owned", "st_buyer_owned", "st_seller_row", "st_buyer_row"}

(* At each step of a settlement the rows fit what investors own.           *)
LEMMA StepRowFits ==
  ASSUME OneHandler, SerialInv, SerialInv', RowFits, [Next]_vars
  PROVE  RowFits'
<1>1. ASSUME NEW h \in Handlers, pc[h] \notin RowPlaces, pc'[h] \notin RowPlaces,
             row' = row, OwnedOf' = OwnedOf
      PROVE  RowFits'
  BY <1>1 DEF RowFits, RowStale, RowPlaces, OneHandler
<1>2. ASSUME UNCHANGED vars
      PROVE  RowFits'
  BY <1>2, StutterKeeps DEF RowFits, RowStale
<1>3. ASSUME NEW h \in Handlers, Aside(h)
      PROVE  RowFits'
  BY <1>1, <1>3, AsideKeeps DEF Aside, Paying, RowPlaces
<1>4. ASSUME NEW h \in Handlers, Pays(h)
      PROVE  RowFits'
  <2>1. pc \in [Handlers -> Places] /\ SeenTypes /\ \A g \in Handlers : g = h
    BY DEF SerialInv, MarketTypes, LocalTypes, OneHandler
  <2>2. CASE SettleTransfer(h) \/ SettleReadSeller(h) \/ SettleReadBuyer(h)
             \/ SettleSellerRow(h) \/ SettleBuyerRow(h)
    <3>1. work[h].trade \in Trades
      BY <2>2, Parties DEF Paying, SettleTransfer, SettleReadSeller,
             SettleReadBuyer, SettleSellerRow, SettleBuyerRow, Goto
    <3> PICK b \in Investors, s \in Investors :
               b = Trade(h).buyer /\ s = Seller(Trade(h))
      BY <3>1, Parties
    <3>2. trade' = trade /\ work' = work
      BY <2>2 DEF Book, store, SettleTransfer, SettleReadSeller,
             SettleReadBuyer, SettleSellerRow, SettleBuyerRow
    <3>3. Trade(h)' = Trade(h)
      BY <3>2 DEF Trade
    <3>4. CASE SettleTransfer(h)
      <4>1. pc[h] = "st_transfer" /\ pc'[h] = "st_seller_owned" /\ row' = row
        BY <2>1, <3>4 DEF SettleTransfer, Goto
      <4>2. \A i \in Investors \ {b, s} : OwnedOf'[i] = OwnedOf[i]
        <5>1. \A i \in Investors : OwnedOf[i] \in Int
          BY Parties, TruthTypes
        <5>2. QED
          BY <3>4, <5>1, PaysMoves
      <4>3. \A i \in Investors : row[i] = OwnedOf[i]
        BY <2>1, <4>1 DEF RowFits, RowStale
      <4>4. \A i \in Investors : row'[i] = OwnedOf'[i] \/ RowStale(h, i)'
        BY <3>3, <4>1, <4>2, <4>3 DEF RowStale
      <4>5. QED
        BY <2>1, <4>1, <4>4 DEF RowFits
    <3>5. OwnedOf' = OwnedOf \/ SettleTransfer(h)
      BY <1>4, PaysKeeps
    <3>6. CASE SettleReadSeller(h) /\ ~SettleTransfer(h)
      <4>1. pc[h] = "st_seller_owned" /\ pc'[h] = "st_buyer_owned" /\ row' = row
        BY <2>1, <3>6 DEF SettleReadSeller, Goto, store
      <4>2. seen'[h].seller = OwnedOf[s]
        BY <2>1, <3>6 DEF SettleReadSeller, SeenTypes, IsReading, OwnedOf
      <4>3. QED
        BY <2>1, <3>3, <3>5, <3>6, <4>1, <4>2 DEF RowFits, RowStale
    <3>7. CASE SettleReadBuyer(h) /\ ~SettleTransfer(h)
      <4>1. pc[h] = "st_buyer_owned" /\ pc'[h] = "st_seller_row" /\ row' = row
        BY <2>1, <3>7 DEF SettleReadBuyer, Goto, store
      <4>2. seen'[h].buyer = OwnedOf[b] /\ seen'[h].seller = seen[h].seller
        BY <2>1, <3>7 DEF SettleReadBuyer, SeenTypes, IsReading, OwnedOf
      <4>3. QED
        BY <2>1, <3>3, <3>5, <3>7, <4>1, <4>2 DEF RowFits, RowStale
    <3>8. CASE SettleSellerRow(h) /\ ~SettleTransfer(h)
      <4>1. /\ pc[h] = "st_seller_row" /\ pc'[h] = "st_buyer_row" /\ seen' = seen
            /\ row' = [row EXCEPT ![s] = seen[h].seller]
        BY <2>1, <3>8 DEF SettleSellerRow, Goto
      <4>2. QED
        BY <2>1, <3>3, <3>5, <3>8, <4>1 DEF RowFits, RowStale
    <3>9. CASE SettleBuyerRow(h) /\ ~SettleTransfer(h)
      <4>1. /\ pc[h] = "st_buyer_row" /\ pc'[h] = "w_read" /\ seen' = seen
            /\ row' = [row EXCEPT ![b] = seen[h].buyer]
        BY <2>1, <3>9 DEF SettleBuyerRow, Goto
      <4>2. QED
        BY <2>1, <3>3, <3>5, <3>9, <4>1 DEF RowFits, RowStale
    <3>10. QED
      BY <2>2, <3>4, <3>6, <3>7, <3>8, <3>9
  <2>3. CASE ~(SettleTransfer(h) \/ SettleReadSeller(h) \/ SettleReadBuyer(h)
               \/ SettleSellerRow(h) \/ SettleBuyerRow(h))
    <3>1. /\ row' = row /\ pc[h] \notin RowPlaces /\ pc'[h] \notin RowPlaces
      BY <1>4, <2>1, <2>3 DEF Pays, RowPlaces, store, GetWallet, SettleReadWallet,
             SettleDebit, SettleCredit, SettleFee, Book, RecomputeRead, RecomputeWrite,
             SettleListing, SettleDone, Goto, Finish
    <3>2. OwnedOf' = OwnedOf
      BY <1>4, <2>3, PaysKeeps
    <3>3. QED
      BY <1>1, <3>1, <3>2
  <2>4. QED
    BY <2>2, <2>3
<1>5. (\E h \in Handlers : Aside(h) \/ Pays(h)) \/ UNCHANGED vars
  BY StepKinds DEF SerialInv, SettlementInv, MarketTypes
<1>6. QED
  BY <1>2, <1>3, <1>4, <1>5

Settles == {"st_credit", "st_fee", "st_transfer", "st_seller_owned",
            "st_buyer_owned", "st_seller_row", "st_buyer_row"}

(* At each step the wallets fit the ledger.                                *)
LEMMA StepWalletFits ==
  ASSUME OneHandler, SerialInv, SerialInv', WalletFits, [Next]_vars
  PROVE  WalletFits'
<1>1. ASSUME NEW h \in Handlers,
             pc[h] \notin Settles \cup {"w_read", "w_write"},
             pc'[h] \notin Settles \cup {"w_read", "w_write"},
             wallet' = wallet, LedgerOf' = LedgerOf,
             todo' = todo \/ todo' = [todo EXCEPT ![h] = <<>>]
      PROVE  WalletFits'
  BY <1>1 DEF WalletFits, WalletStale, Settles, OneHandler
<1>2. ASSUME UNCHANGED vars
      PROVE  WalletFits'
  BY <1>2, StutterKeeps DEF WalletFits, WalletStale, Queue
<1>3. ASSUME NEW h \in Handlers, Aside(h)
      PROVE  WalletFits'
  BY <1>1, <1>3, AsideKeeps DEF Aside, Paying, Settles
<1>4. ASSUME NEW h \in Handlers, Pays(h)
      PROVE  WalletFits'
  <2>1. /\ pc \in [Handlers -> Places] /\ SeenTypes /\ Works
        /\ \A g \in Handlers : g = h
        /\ \A i \in Investors : LedgerOf[i] \in Int
    BY Parties, TruthTypes DEF SerialInv, MarketTypes, LocalTypes, OneHandler
  <2>2. LedgerOf' = LedgerOf \/ SettleDebit(h) \/ SettleCredit(h)
    BY <1>4, PaysKeeps
  <2>3. CASE SettleReadWallet(h) \/ SettleListing(h) \/ SettleDone(h)
    <3>1. /\ pc[h] \notin Settles \cup {"w_read", "w_write"}
          /\ pc'[h] \notin Settles \cup {"w_read", "w_write"}
          /\ wallet' = wallet /\ ~SettleDebit(h) /\ ~SettleCredit(h)
          /\ todo' = todo \/ todo' = [todo EXCEPT ![h] = <<>>]
      BY <2>1, <2>3 DEF SettleReadWallet, SettleListing, SettleDone, store,
             Goto, Finish, SettleDebit, SettleCredit, Settles
    <3>2. QED
      BY <1>1, <2>2, <3>1
  <2>4. CASE SettleDebit(h)
    <3>1. /\ pc[h] = "st_debit" /\ pc'[h] = "st_credit"
          /\ UNCHANGED <<wallet, trade, work, todo>>
      BY <2>1, <2>4 DEF SettleDebit, Book, Goto
    <3>2. Trade(h)' = Trade(h)
      BY <3>1 DEF Trade
    <3>3. \A i \in Investors : i # Trade(h).buyer => LedgerOf'[i] = LedgerOf[i]
      BY <2>1, <2>4, PaysMoves
    <3>4. \A i \in Investors : wallet[i] = LedgerOf[i]
      BY <2>1, <3>1 DEF WalletFits, WalletStale
    <3>5. \A i \in Investors : wallet'[i] = LedgerOf'[i] \/ WalletStale(h, i)'
      BY <3>1, <3>2, <3>3, <3>4 DEF WalletStale
    <3>6. QED
      BY <2>1, <3>1, <3>5 DEF WalletFits
  <2>5. CASE SettleCredit(h) \/ SettleFee(h) \/ SettleTransfer(h)
             \/ SettleReadSeller(h) \/ SettleReadBuyer(h) \/ SettleSellerRow(h)
    <3>1. /\ pc[h] \in Settles /\ pc'[h] \in Settles /\ ~SettleDebit(h)
          /\ UNCHANGED <<wallet, trade, work, todo>>
      BY <2>1, <2>5 DEF SettleCredit, SettleFee, Book, SettleTransfer,
             SettleReadSeller, SettleReadBuyer, SettleSellerRow, SettleDebit,
             Goto, store, Settles
    <3>2. Trade(h)' = Trade(h)
      BY <3>1 DEF Trade
    <3>3. \A i \in Investors : i # Seller(Trade(h)) => LedgerOf'[i] = LedgerOf[i]
      BY <2>1, <2>2, <3>1, PaysMoves
    <3>4. \A i \in Investors : wallet'[i] = LedgerOf'[i] \/ WalletStale(h, i)'
      BY <2>1, <3>1, <3>2, <3>3 DEF WalletFits, WalletStale, Settles
    <3>5. QED
      BY <2>1, <3>1, <3>4 DEF WalletFits, Settles
  <2>6. CASE SettleBuyerRow(h)
    <3>1. /\ pc[h] = "st_buyer_row" /\ pc'[h] = "w_read"
          /\ todo' = [todo EXCEPT ![h] = <<Trade(h).buyer, Seller(Trade(h))>>]
          /\ UNCHANGED <<wallet, trade, work>> /\ LedgerOf' = LedgerOf
      BY <2>1, <2>2, <2>6 DEF SettleBuyerRow, Goto, SettleDebit, SettleCredit
    <3>2. Trade(h)' = Trade(h) /\ work[h].trade \in Trades
      BY <3>1, Parties DEF Trade, Paying
    <3>3. todo'[h] = <<Trade(h).buyer, Seller(Trade(h))>>
      BY <3>1 DEF WalletFits
    <3>4. Queue(h)'
      BY <3>1, <3>2, <3>3 DEF Queue
    <3>5. \A i \in Investors : wallet'[i] = LedgerOf'[i] \/ WalletStale(h, i)'
      BY <2>1, <3>1, <3>2, <3>3 DEF WalletFits, WalletStale
    <3>6. QED
      BY <2>1, <3>1, <3>4, <3>5 DEF WalletFits
  <2>7. ASSUME NEW i \in Investors, GetWallet(h, i)
        PROVE  WalletFits'
    <3>1. /\ pc[h] = "idle" /\ pc'[h] = "w_read" /\ todo' = [todo EXCEPT ![h] = <<i>>]
          /\ UNCHANGED <<wallet, trade, work>> /\ LedgerOf' = LedgerOf
      BY <2>1, <2>2, <2>7 DEF GetWallet, Goto, store, SettleDebit, SettleCredit
    <3>2. work[h].trade = None
      BY <3>1, Parties DEF Placed, Settling, BeforeDebit, AfterTransfer
    <3>3. todo'[h] = <<i>>
      BY <3>1 DEF WalletFits
    <3>4. Queue(h)'
      BY <3>1, <3>2, <3>3 DEF Queue
    <3>5. \A j \in Investors : wallet'[j] = LedgerOf'[j]
      BY <2>1, <3>1 DEF WalletFits, WalletStale
    <3>6. QED
      BY <2>1, <3>1, <3>4, <3>5 DEF WalletFits
  <2>8. CASE RecomputeRead(h)
    <3>1. /\ pc[h] = "w_read" /\ pc'[h] = "w_write"
          /\ UNCHANGED <<wallet, trade, work, todo>> /\ LedgerOf' = LedgerOf
          /\ seen' = [seen EXCEPT ![h].cash = LedgerSettled(Head(todo[h]))]
      BY <2>1, <2>2, <2>8 DEF RecomputeRead, Goto, store, SettleDebit, SettleCredit
    <3>2. Queue(h)
      BY <3>1 DEF WalletFits
    <3>3. Head(todo[h]) \in Investors
      BY <3>2, Parties DEF Queue
    <3>4. seen'[h].cash = LedgerOf[Head(todo[h])]
      BY <2>1, <3>1, <3>3 DEF SeenTypes, IsReading, LedgerOf
    <3>5. Trade(h)' = Trade(h)
      BY <3>1 DEF Trade
    <3>6. Queue(h)'
      BY <3>1, <3>2, <3>5 DEF Queue
    <3>7. \A i \in Investors : wallet'[i] = LedgerOf'[i] \/ WalletStale(h, i)'
      BY <2>1, <3>1, <3>5 DEF WalletFits, WalletStale
    <3>8. QED
      BY <2>1, <3>1, <3>4, <3>6, <3>7 DEF WalletFits
  <2>9. CASE RecomputeWrite(h)
    <3>1. /\ pc[h] = "w_write" /\ trade' = trade /\ LedgerOf' = LedgerOf
          /\ wallet' = [wallet EXCEPT ![Head(todo[h])] = seen[h].cash]
      BY <2>1, <2>2, <2>9 DEF RecomputeWrite, SettleDebit, SettleCredit, Goto
    <3>2. Queue(h) /\ seen[h].cash = LedgerOf[Head(todo[h])]
      BY <3>1 DEF WalletFits
    <3>3. Head(todo[h]) \in Investors
      BY <3>2, Parties DEF Queue
    <3>4. \A i \in Investors :
            wallet'[i] = LedgerOf'[i] \/ (wallet'[i] = wallet[i] /\ i # Head(todo[h]))
      BY <3>1, <3>2, <3>3 DEF WalletFits
    <3>5. CASE work[h].trade \in Trades
      <4>1. /\ todo' = [todo EXCEPT ![h] = Tail(@)] /\ work' = work
            /\ pc' = [pc EXCEPT ![h] = IF Len(todo[h]) > 1 THEN "w_read" ELSE "st_fill"]
        BY <2>9, <3>5 DEF RecomputeWrite, Goto
      <4>2. todo'[h] = Tail(todo[h]) /\ Trade(h)' = Trade(h)
        BY <3>1, <4>1 DEF WalletFits, Trade
      <4>3. CASE todo[h] = <<Trade(h).buyer, Seller(Trade(h))>>
        <5>1. /\ todo'[h] = <<Seller(Trade(h))>> /\ pc'[h] = "w_read"
              /\ Head(todo[h]) = Trade(h).buyer
          BY <2>1, <4>1, <4>2, <4>3
        <5>2. Queue(h)'
          BY <3>5, <4>1, <4>2, <5>1 DEF Queue
        <5>3. \A i \in Investors : wallet'[i] = LedgerOf'[i] \/ WalletStale(h, i)'
          BY <2>1, <3>1, <3>4, <3>5, <4>1, <4>2, <5>1 DEF WalletFits, WalletStale
        <5>4. QED
          BY <2>1, <3>1, <4>1, <5>1, <5>2, <5>3 DEF WalletFits
      <4>4. CASE todo[h] = <<Seller(Trade(h))>>
        <5>1. pc'[h] = "st_fill" /\ Head(todo[h]) = Seller(Trade(h)) /\ Len(todo[h]) = 1
          BY <2>1, <4>1, <4>4
        <5>2. \A i \in Investors : i # Head(todo[h]) => ~WalletStale(h, i)
          BY <3>1, <5>1 DEF WalletStale, Settles
        <5>3. \A i \in Investors : wallet'[i] = LedgerOf'[i]
          BY <2>1, <3>1, <3>4, <5>2 DEF WalletFits
        <5>4. QED
          BY <2>1, <3>1, <4>1, <5>1, <5>3 DEF WalletFits
      <4>5. QED
        BY <3>2, <3>5, <4>3, <4>4 DEF Queue
    <3>6. CASE work[h].trade = None
      <4>1. Finish(h)
        BY <2>9, <3>6 DEF RecomputeWrite
      <4>2. pc'[h] = "idle" /\ todo' = [todo EXCEPT ![h] = <<>>]
        BY <2>1, <4>1 DEF Finish
      <4>3. \A i \in Investors : ~WalletStale(h, i)
        BY <3>1, <3>6 DEF WalletStale, Settles
      <4>4. \A i \in Investors : wallet'[i] = LedgerOf'[i]
        BY <2>1, <3>1, <3>4, <4>3 DEF WalletFits
      <4>5. /\ wallet' = [i \in Investors |-> wallet'[i]]
            /\ todo' = [g \in Handlers |-> todo'[g]]
        BY <3>1, <4>2 DEF WalletFits
      <4>6. QED
        BY <2>1, <4>2, <4>4, <4>5 DEF WalletFits
    <3>7. QED
      BY <2>1, <3>5, <3>6 DEF Works
  <2>10. QED
    BY <1>4, <2>3, <2>4, <2>5, <2>6, <2>7, <2>8, <2>9 DEF Pays
<1>5. (\E h \in Handlers : Aside(h) \/ Pays(h)) \/ UNCHANGED vars
  BY StepKinds DEF SerialInv, SettlementInv, MarketTypes
<1>6. QED
  BY <1>2, <1>3, <1>4, <1>5

(* At each step the ledger holds what it owes, up to the tolerance.  A fee *)
(* above the price would take it from the seller: hence the hypothesis.    *)
LEMMA StepCashFits ==
  ASSUME OneHandler, FeePct <= 100, SerialInv, SerialInv', WalletFits, CashFits,
         [Next]_vars
  PROVE  CashFits'
<1>1. ASSUME NEW h \in Handlers, pc'[h] # "st_debit", LedgerOf' = LedgerOf
      PROVE  CashFits'
  BY <1>1 DEF CashFits, OneHandler
<1>2. ASSUME UNCHANGED vars
      PROVE  CashFits'
  BY <1>2, StutterKeeps DEF CashFits
<1>3. ASSUME NEW h \in Handlers, Aside(h)
      PROVE  CashFits'
  BY <1>1, <1>3, AsideKeeps DEF Aside, Paying
<1>4. ASSUME NEW h \in Handlers, Pays(h)
      PROVE  CashFits'
  <2>1. /\ pc \in [Handlers -> Places] /\ \A g \in Handlers : g = h
        /\ \A i \in Investors : LedgerOf[i] \in Int
    BY Parties, TruthTypes DEF SerialInv, MarketTypes, LocalTypes, OneHandler
  <2>2. LedgerOf' = LedgerOf \/ SettleDebit(h) \/ SettleCredit(h)
    BY <1>4, PaysKeeps
  <2>3. CASE SettleReadWallet(h)
    <3>1. /\ pc[h] = "st_wallet" /\ work' = work /\ trade' = trade
          /\ pc'[h] = "st_debit" => Affords(Trade(h))
          /\ LedgerOf' = LedgerOf
      BY <2>1, <2>2, <2>3 DEF SettleReadWallet, Goto, store, SettleDebit, SettleCredit
    <3>2. work[h].trade \in Trades
      BY <3>1, Parties DEF Placed, Settling, BeforeDebit
    <3>3. Trade(h)' = Trade(h)
      BY <3>1 DEF Trade
    <3>4. \A i \in Investors : wallet[i] = LedgerOf[i]
      BY <2>1, <3>1 DEF WalletFits, WalletStale
    <3>5. pc'[h] = "st_debit" => Gross(Trade(h)) <= LedgerOf[Trade(h).buyer] + Slack
      BY <3>1, <3>2, <3>4, Parties DEF Affords
    <3>6. QED
      BY <2>1, <3>1, <3>3, <3>5 DEF CashFits
  <2>4. CASE SettleDebit(h)
    <3>1. pc[h] = "st_debit" /\ pc'[h] = "st_credit"
      BY <2>1, <2>4 DEF SettleDebit, Goto
    <3>2. Trade(h).buyer \in Investors /\ Gross(Trade(h)) \in Nat
      BY <3>1, Parties DEF Paying
    <3>3. Gross(Trade(h)) <= LedgerOf[Trade(h).buyer] + Slack
      BY <3>1 DEF CashFits
    <3>4. \A i \in Investors : LedgerOf'[i] >= -Slack
      <4>1. ASSUME NEW i \in Investors, i # Trade(h).buyer
            PROVE  LedgerOf'[i] >= -Slack
        <5>1. LedgerOf'[i] = LedgerOf[i]
          BY <2>1, <2>4, <4>1, PaysMoves
        <5>2. QED
          BY <5>1 DEF CashFits
      <4>2. LedgerOf'[Trade(h).buyer] = LedgerOf[Trade(h).buyer] - Gross(Trade(h))
        BY <2>4, <3>2, PaysMoves
      <4>3. LedgerOf'[Trade(h).buyer] >= -Slack
        BY <2>1, <3>2, <3>3, <4>2
      <4>4. QED
        BY <4>1, <4>3
    <3>5. QED
      BY <2>1, <3>1, <3>4 DEF CashFits
  <2>5. CASE SettleCredit(h)
    <3>1. pc[h] = "st_credit" /\ pc'[h] # "st_debit"
      BY <2>1, <2>5 DEF SettleCredit, Goto
    <3>2. /\ work[h].trade \in Trades /\ Gross(Trade(h)) \in Nat
          /\ Fee(Trade(h)) \in Nat
      BY <3>1, Parties DEF Paying
    <3>3. Fee(Trade(h)) <= Gross(Trade(h))
      <4>1. ASSUME NEW n \in Nat
            PROVE  (n * FeePct + 50) \div 100 <= n
        <5>1. n * FeePct <= n * 100
          BY FeePct \in Nat
        <5>2. n * FeePct \in Nat
          OBVIOUS
        <5>3. QED
          BY <5>1, <5>2
      <4>2. QED
        BY <3>2, <4>1 DEF Fee
    <3>4. \A i \in Investors : LedgerOf'[i] >= -Slack
      <4>1. ASSUME NEW i \in Investors
            PROVE  LedgerOf'[i] >= LedgerOf[i]
        BY <2>1, <2>5, <3>2, <3>3, PaysMoves
      <4>2. \A i \in Investors : LedgerOf'[i] \in Int
        BY Parties, TruthTypes, <2>5, <2>1, <3>2, PaysMoves
      <4>3. QED
        BY <2>1, <4>1, <4>2 DEF CashFits
    <3>5. QED
      BY <2>1, <3>1, <3>4 DEF CashFits
  <2>6. CASE ~SettleReadWallet(h) /\ ~SettleDebit(h) /\ ~SettleCredit(h)
    <3>1. pc'[h] # "st_debit"
      BY <1>4, <2>1, <2>6 DEF Pays, store, GetWallet, SettleFee, Book,
             SettleTransfer, SettleReadSeller, SettleReadBuyer,
             SettleSellerRow, SettleBuyerRow, RecomputeRead, RecomputeWrite,
             SettleListing, SettleDone, Goto, Finish
    <3>2. QED
      BY <1>1, <2>2, <2>6, <3>1
  <2>7. QED
    BY <2>3, <2>4, <2>5, <2>6
<1>5. (\E h \in Handlers : Aside(h) \/ Pays(h)) \/ UNCHANGED vars
  BY StepKinds DEF SerialInv, SettlementInv, MarketTypes
<1>6. QED
  BY <1>2, <1>3, <1>4, <1>5

(* At each step the fills are what was sold.                               *)
LEMMA StepFillFits ==
  ASSUME OneHandler, SerialInv, SerialInv', FillKnown, FillFits, [Next]_vars
  PROVE  FillFits'
<1>1. ASSUME NEW h \in Handlers, pc[h] # "st_done", pc'[h] # "st_done",
             SoldBy' = SoldBy,
             \A l \in Listings :
               /\ listing'[l].filled = listing[l].filled
               /\ listing'[l].status = Absent => listing[l].status = Absent
      PROVE  FillFits'
  BY <1>1 DEF FillFits, OneHandler
<1>2. ASSUME UNCHANGED vars
      PROVE  FillFits'
  BY <1>2, StutterKeeps DEF FillFits
<1>3. ASSUME NEW h \in Handlers, Aside(h)
      PROVE  FillFits'
  <2>1. pc[h] # "st_done" /\ pc'[h] # "st_done" /\ SoldBy' = SoldBy
    BY <1>3, AsideKeeps DEF Aside, Paying
  <2>2. CASE listing' = listing
    BY <1>1, <2>1, <2>2
  <2>3. ListingTypes /\ ListingKnown /\ LocalTypes
    BY DEF SerialInv, MarketTypes
  <2>4. CASE ListInsert(h)
    <3>1. pc[h] = "list_insert"
      BY <2>4 DEF ListInsert
    <3>2. PICK l \in Listings : l = work[h].listing
      BY <2>3, <3>1 DEF LocalTypes
    <3>3. listing[l].status = Absent /\ listing[l].filled = 0
      BY <2>3, <3>1, <3>2 DEF ListingKnown, FillFits
    <3>4. listing' = [listing EXCEPT ![l] = [status |-> "active", filled |-> 0]]
      BY <2>4, <3>2 DEF ListInsert
    <3>5. \A k \in Listings :
            /\ listing'[k].filled = listing[k].filled
            /\ listing'[k].status = Absent => listing[k].status = Absent
      BY <2>3, <3>3, <3>4 DEF ListingTypes
    <3>6. QED
      BY <1>1, <2>1, <3>5
  <2>5. CASE UnlistWrite(h)
    <3>1. \A k \in Listings :
            /\ listing'[k].filled = listing[k].filled
            /\ listing'[k].status = Absent => listing[k].status = Absent
      BY <2>3, <2>5 DEF UnlistWrite, ListingTypes, Absent
    <3>2. QED
      BY <1>1, <2>1, <3>1
  <2>6. QED
    BY <1>3, <2>2, <2>4, <2>5 DEF Aside
<1>4. ASSUME NEW h \in Handlers, Pays(h)
      PROVE  FillFits'
  <2>1. /\ pc \in [Handlers -> Places] /\ ListingTypes
        /\ \A g \in Handlers : g = h
        /\ \A l \in Listings : SoldBy[l] \in Int
    BY Parties, TruthTypes DEF SerialInv, MarketTypes, LocalTypes, OneHandler
  <2>2. SoldBy' = SoldBy \/ SettleDone(h)
    BY <1>4, PaysKeeps
  <2>3. CASE SettleListing(h)
    <3>1. /\ pc[h] = "st_fill" /\ pc'[h] = "st_done" /\ work' = work
          /\ trade' = trade /\ SoldBy' = SoldBy
      BY <2>1, <2>2, <2>3 DEF SettleListing, Goto, SettleDone
    <3>2. work[h].trade \in Trades /\ Trade(h)' = Trade(h)
      BY <3>1, Parties DEF Paying, Trade
    <3> PICK l \in Listings, u \in Nat : l = Trade(h).listing /\ u = Trade(h).units
      BY <3>2, Parties
    <3>3. seen[h].filled = listing[l].filled /\ u <= (UnitsOf[l] - listing[l].filled) + Slack
      BY <3>1, <3>2 DEF FillKnown, Settling, AfterTransfer, Remaining
    <3>4. PICK s \in {"filled", "partially_filled"} :
            listing' = [listing EXCEPT ![l] =
                          [status |-> s, filled |-> seen[h].filled + u]]
      BY <2>3 DEF SettleListing
    <3>5. /\ listing'[l].filled = listing[l].filled + u
          /\ listing'[l].status # Absent
          /\ \A k \in Listings \ {l} : listing'[k] = listing[k]
      BY <2>1, <3>3, <3>4 DEF ListingTypes, Absent
    <3>6. listing[l].filled \in Nat /\ listing[l].filled = SoldBy[l]
      BY <2>1, <3>1 DEF ListingTypes, FillFits
    <3>7. listing'[l].filled <= UnitsOf[l] + Slack
      BY <3>3, <3>5, <3>6
    <3>8. QED
      BY <2>1, <3>1, <3>2, <3>5, <3>6, <3>7 DEF FillFits
  <2>4. CASE SettleDone(h)
    <3>1. pc[h] = "st_done" /\ pc'[h] = "idle" /\ listing' = listing
      BY <2>1, <2>4 DEF SettleDone, Finish
    <3>2. work[h].trade \in Trades
      BY <3>1, Parties DEF Paying
    <3> PICK l \in Listings, u \in Nat : l = Trade(h).listing /\ u = Trade(h).units
      BY <3>2, Parties
    <3>3. /\ SoldBy'[l] = SoldBy[l] + u
          /\ \A k \in Listings \ {l} : SoldBy'[k] = SoldBy[k]
      BY <2>1, <2>4, PaysMoves
    <3>4. listing[l].filled = SoldBy[l] + u
      BY <3>1 DEF FillFits
    <3>5. \A k \in Listings \ {l} : listing[k].filled = SoldBy[k]
      BY <2>1 DEF FillFits
    <3>6. \A k \in Listings : listing'[k].filled = SoldBy'[k]
      BY <3>1, <3>3, <3>4, <3>5
    <3>7. QED
      BY <2>1, <3>1, <3>6 DEF FillFits
  <2>5. CASE ~SettleListing(h) /\ ~SettleDone(h)
    <3>1. pc[h] # "st_done" /\ pc'[h] # "st_done" /\ listing' = listing
      BY <1>4, <2>1, <2>5 DEF Pays, store, GetWallet, SettleReadWallet,
             SettleDebit, SettleCredit, SettleFee, Book,
             SettleTransfer, SettleReadSeller, SettleReadBuyer,
             SettleSellerRow, SettleBuyerRow, RecomputeRead, RecomputeWrite,
             Goto, Finish
    <3>2. QED
      BY <1>1, <2>2, <2>5, <3>1
  <2>6. QED
    BY <2>3, <2>4, <2>5
<1>5. (\E h \in Handlers : Aside(h) \/ Pays(h)) \/ UNCHANGED vars
  BY StepKinds DEF SerialInv, SettlementInv, MarketTypes
<1>6. QED
  BY <1>2, <1>3, <1>4, <1>5

-----------------------------------------------------------------------------
(* What is listed changes with the listings, and the tolerance with the    *)
(* sales.                                                                  *)
Left == [l \in Listings |-> IF Remaining(l) > 0 THEN Remaining(l) ELSE 0]

Offer(i, l) == At(Left, OpenListings(i), l)

LEMMA LeftTypes ==
  \A l \in Listings : /\ ListingTypes => Left[l] \in Nat
                      /\ ListingTypes' => Left'[l] \in Nat
<1> SUFFICES ASSUME NEW l \in Listings
             PROVE  /\ ListingTypes => Left[l] \in Nat
                    /\ ListingTypes' => Left'[l] \in Nat
  OBVIOUS
<1>1. ListingTypes => Left[l] \in Nat
  BY DEF ListingTypes, Left, Remaining
<1>2. ListingTypes' => Left'[l] \in Nat
  BY DEF ListingTypes, Left, Remaining
<1> QED
  BY <1>1, <1>2

LEMMA ListedStep ==
  ASSUME ListingTypes, ListingTypes', NEW i \in Investors, NEW l \in Listings,
         \A k \in Listings \ {l} : listing'[k] = listing[k]
  PROVE  /\ ListedOf[i] \in Nat /\ Offer(i, l) \in Nat /\ Offer(i, l)' \in Nat
         /\ ListedOf'[i] = (ListedOf[i] - Offer(i, l)) + Offer(i, l)'
<1> DEFINE F == Left
           S == OpenListings(i)
<1>1. /\ \A k \in Listings : F[k] \in Nat /\ F'[k] \in Nat
      /\ S \in SUBSET Listings /\ S' \in SUBSET Listings
  BY LeftTypes DEF OpenListings
<1>2. \A k \in Listings \ {l} : At(F, S, k) = At(F', S', k)
  BY DEF At, Left, Remaining, OpenListings
<1>3. ListedOf[i] = SumFunctionOnSet(F, S) /\ ListedOf'[i] = SumFunctionOnSet(F', S')
  BY DEF ListedOf, Listed, Left
<1>4. Offer(i, l) = At(F, S, l) /\ Offer(i, l)' = At(F', S', l)
  BY DEF Offer
<1> HIDE DEF F, S
<1>5. SumFunctionOnSet(F', S')
        = (SumFunctionOnSet(F, S) - At(F, S, l)) + At(F', S', l)
  BY <1>1, <1>2, SumShift
<1>6. SumFunctionOnSet(F, S) \in Nat /\ At(F, S, l) \in Nat /\ At(F', S', l) \in Nat
  BY <1>1, FS_Subset, SumNat DEF At
<1> QED
  BY <1>3, <1>4, <1>5, <1>6

LEMMA ListedNat ==
  ASSUME ListingTypes, NEW i \in Investors
  PROVE  ListedOf[i] \in Nat
<1> DEFINE S == OpenListings(i)
<1>1. S \in SUBSET Listings /\ \A k \in Listings : Left[k] \in Nat
  BY LeftTypes DEF OpenListings
<1>2. ListedOf[i] = SumFunctionOnSet(Left, S)
  BY DEF ListedOf, Listed, Left
<1> HIDE DEF S
<1> QED
  BY <1>1, <1>2, FS_Subset, SumNat

LEMMA ToleranceTypes ==
  ASSUME NEW i \in Investors
  PROVE  Tolerance(i) \in Nat /\ Slack <= Tolerance(i)
<1>1. Cardinality(SalesOf(i)) \in Nat
  BY FS_Subset, FS_CardinalityType, SalesOf(i) \in SUBSET Trades DEF SalesOf
<1>2. \A n \in Nat : Slack * (1 + n) \in Nat /\ Slack <= Slack * (1 + n)
  OBVIOUS
<1> QED
  BY <1>1, <1>2 DEF Tolerance

LEMMA ListedDebt ==
  ASSUME OneHandler, SerialInv, NEW h \in Handlers
  PROVE  /\ \A i \in Investors : Debt(h, i) \in Nat
         /\ ListedFits => \A i \in Investors :
              ListedOf[i] <= (OwnedOf[i] + Tolerance(i)) + Debt(h, i)
<1>1. ASSUME NEW i \in Investors
      PROVE  Debt(h, i) \in Nat
  BY Parties DEF Delivered, Debt
<1>2. ASSUME ListedFits, NEW i \in Investors
      PROVE  ListedOf[i] <= (OwnedOf[i] + Tolerance(i)) + Debt(h, i)
  <2>1. OwnedOf[i] \in Int /\ Tolerance(i) \in Nat /\ ListedOf[i] \in Int
    BY Parties, TruthTypes, ToleranceTypes, ListedNat DEF SerialInv, MarketTypes
  <2>2. \/ ListedOf[i] <= OwnedOf[i] + Tolerance(i)
        \/ ListedOf[i] <= (OwnedOf[i] + Tolerance(i)) + Debt(h, i)
    BY <1>2 DEF ListedFits, OneHandler
  <2>3. QED
    BY <1>1, <2>1, <2>2
<1> QED
  BY <1>1, <1>2

(* No tolerance or sale is gained without a sale.                          *)
LEMMA SalesSame ==
  ASSUME OrderTypes, NEW h \in Handlers,
         trade' = trade \/ (\E t \in Trades : Inserts(h, t))
           \/ (SettleFail(h) /\ Placed /\ Works)
  PROVE  \A i \in Investors : Tolerance(i)' = Tolerance(i)
<1>1. CASE trade' = trade
  BY <1>1 DEF Tolerance, SalesOf, Settled
<1>2. ASSUME NEW t \in Trades, Inserts(h, t)
      PROVE  \A i \in Investors : SalesOf(i)' = SalesOf(i)
  <2>1. /\ trade[t].status = Absent /\ trade'[t].status = "pending"
        /\ \A s \in Trades \ {t} : trade'[s] = trade[s]
    BY <1>2 DEF Inserts, OrderTypes
  <2>2. QED
    BY <2>1 DEF SalesOf, Settled, Absent
<1>3. ASSUME SettleFail(h), Placed, Works
      PROVE  \A i \in Investors : SalesOf(i)' = SalesOf(i)
  <2>1. PICK t \in Trades : t = work[h].trade
    BY <1>3 DEF SettleFail, Placed, Settling, BeforeDebit
  <2>2. trade[t].status = "pending"
    BY <1>3, <2>1 DEF Placed
  <2>3. /\ \A s \in Trades \ {t} : trade'[s] = trade[s]
        /\ trade'[t] = [trade[t] EXCEPT !.status = "failed"]
    BY <1>3, <2>1 DEF SettleFail, OrderTypes
  <2>4. trade'[t].status = "failed"
    BY <2>3 DEF OrderTypes, Orders, NoOrder
  <2>5. ~Settled(t) /\ ~Settled(t)'
    BY <2>2, <2>4 DEF Settled
  <2>6. \A s \in Trades \ {t} :
          (Settled(s)' <=> Settled(s)) /\ Seller(trade'[s]) = Seller(trade[s])
    BY <2>3 DEF Settled
  <2>7. QED
    BY <2>5, <2>6 DEF SalesOf
<1> QED
  BY <1>1, <1>2, <1>3 DEF Tolerance

(* At each step investors own what they list, or are about to.             *)
LEMMA AsideListedFits ==
  ASSUME OneHandler, SerialInv, SerialInv', ListedFits, NEW h \in Handlers,
         Aside(h)
  PROVE  ListedFits'
<1>1. /\ OwnedOf' = OwnedOf /\ \A g \in Handlers : g = h
      /\ ListingTypes /\ ListingTypes' /\ SeenTypes /\ LocalTypes /\ Works
      /\ ListingKnown /\ OrderTypes /\ Placed
  BY AsideKeeps DEF SerialInv, SettlementInv, MarketTypes, OneHandler
<1>2. \A i \in Investors :
        /\ OwnedOf[i] \in Int /\ Tolerance(i) \in Nat /\ Slack <= Tolerance(i)
        /\ ListedOf[i] \in Nat
  BY <1>1, Parties, TruthTypes, ToleranceTypes, ListedNat
<1>3. \A i \in Investors : Tolerance(i)' = Tolerance(i)
  BY <1>1, SalesSame DEF Aside
<1>4. \A i \in Investors : Debt(h, i) = 0 /\ Debt(h, i)' = 0
  BY DEF Aside, Debt, Delivered, Paying, AfterTransfer
<1>5. \A i \in Investors : ListedOf[i] <= OwnedOf[i] + Tolerance(i)
  BY <1>2, <1>4, ListedDebt
<1>6. CASE listing' = listing
  <2>1. ListedOf' = ListedOf
    BY <1>6 DEF ListedOf, Listed, OpenListings, Remaining
  <2>2. \A i \in Investors : ListedOf'[i] <= OwnedOf'[i] + Tolerance(i)'
    BY <1>1, <1>3, <1>5, <2>1
  <2>3. ASSUME pc'[h] = "list_check"
        PROVE  seen'[h].seller = OwnedOf'[SellerOf[work'[h].listing]]
    <3>1. PICK l \in Listings : ListReadOwned(h, l)
      BY <2>3 DEF Aside
    <3>2. work'[h].listing = l
      BY <1>1, <3>1 DEF ListReadOwned, Works
    <3>3. seen'[h].seller = Owned(SellerOf[l])
      BY <1>1, <3>1 DEF ListReadOwned, SeenTypes, IsReading
    <3>4. QED
      BY <1>1, <3>2, <3>3 DEF OwnedOf
  <2>4. ASSUME pc'[h] = "list_insert"
        PROVE  LET l == work'[h].listing
               IN  UnitsOf[l] <= (OwnedOf'[SellerOf[l]] - ListedOf'[SellerOf[l]]) + Slack
    <3>1. ListReadListed(h) /\ pc[h] = "list_check"
      BY <2>4 DEF Aside, ListReadListed
    <3>2. PICK l \in Listings : l = work[h].listing
      BY <1>1, <3>1 DEF LocalTypes
    <3>3. work'[h].listing = l /\ UnitsOf[l] <= (seen[h].seller - Listed(SellerOf[l])) + Slack
      BY <1>1, <2>4, <3>1, <3>2 DEF ListReadListed, Finish, LocalTypes
    <3>4. seen[h].seller = OwnedOf[SellerOf[l]]
      BY <3>1, <3>2 DEF ListedFits
    <3>5. Listed(SellerOf[l]) = ListedOf[SellerOf[l]]
      BY DEF ListedOf
    <3>6. QED
      BY <1>1, <2>1, <3>3, <3>4, <3>5
  <2>5. QED
    BY <1>1, <2>2, <2>3, <2>4 DEF ListedFits
<1>7. ASSUME pc'[h] \notin {"list_check", "list_insert"},
             \A i \in Investors : ListedOf'[i] <= OwnedOf[i] + Tolerance(i)
      PROVE  ListedFits'
  BY <1>1, <1>3, <1>7 DEF ListedFits
<1>8. CASE ListInsert(h)
  <2>1. pc[h] = "list_insert" /\ pc'[h] = "idle"
    BY <1>1, <1>8 DEF ListInsert, Finish, LocalTypes
  <2>2. PICK l \in Listings : l = work[h].listing
    BY <1>1, <2>1 DEF LocalTypes
  <2>3. listing' = [listing EXCEPT ![l] = [status |-> "active", filled |-> 0]]
    BY <1>8, <2>2 DEF ListInsert
  <2>4. \A k \in Listings \ {l} : listing'[k] = listing[k]
    BY <1>1, <2>3 DEF ListingTypes
  <2>5. Offer(SellerOf[l], l)' <= UnitsOf[l]
    BY <1>1, <2>3 DEF ListingTypes, Offer, At, Left, Remaining
  <2>6. UnitsOf[l] <= (OwnedOf[SellerOf[l]] - ListedOf[SellerOf[l]]) + Slack
    BY <2>1, <2>2 DEF ListedFits
  <2>7. ListedOf'[SellerOf[l]] <= OwnedOf[SellerOf[l]] + Tolerance(SellerOf[l])
    <3>1. ListedOf'[SellerOf[l]] <= ListedOf[SellerOf[l]] + UnitsOf[l]
      <4>1. /\ Offer(SellerOf[l], l) \in Nat /\ Offer(SellerOf[l], l)' \in Nat
            /\ ListedOf'[SellerOf[l]] = (ListedOf[SellerOf[l]] - Offer(SellerOf[l], l))
                                           + Offer(SellerOf[l], l)'
        BY <1>1, <2>4, ListedStep
      <4>2. QED
        BY <1>2, <2>5, <4>1
    <3>2. ListedOf'[SellerOf[l]] \in Int
      BY <1>1, <2>4, ListedStep
    <3>3. QED
      BY <1>2, <2>6, <3>1, <3>2
  <2>8. ASSUME NEW i \in Investors, i # SellerOf[l]
        PROVE  ListedOf'[i] = ListedOf[i]
    <3>1. Offer(i, l) = 0 /\ Offer(i, l)' = 0
      BY <2>8 DEF Offer, At, OpenListings
    <3>2. QED
      BY <1>1, <1>2, <2>4, <3>1, ListedStep
  <2>9. QED
    BY <1>5, <1>7, <2>1, <2>7, <2>8
<1>9. CASE UnlistWrite(h)
  <2>1. pc[h] = "unlist_write" /\ pc'[h] = "idle"
    BY <1>1, <1>9 DEF UnlistWrite, Finish, LocalTypes
  <2>2. PICK l \in Listings : l = work[h].listing
    BY <1>1, <2>1 DEF LocalTypes
  <2>3. listing' = [listing EXCEPT ![l].status = "cancelled"]
    BY <1>9, <2>2 DEF UnlistWrite
  <2>4. /\ \A k \in Listings \ {l} : listing'[k] = listing[k]
        /\ listing'[l].status = "cancelled"
    BY <1>1, <2>3 DEF ListingTypes
  <2>5. ASSUME NEW i \in Investors
        PROVE  ListedOf'[i] <= OwnedOf[i] + Tolerance(i)
    <3>1. Offer(i, l)' = 0
      BY <2>4 DEF Offer, At, OpenListings, Open
    <3>2. /\ Offer(i, l) \in Nat /\ Offer(i, l)' \in Nat
          /\ ListedOf'[i] = (ListedOf[i] - Offer(i, l)) + Offer(i, l)'
      BY <1>1, <2>4, ListedStep
    <3>3. ListedOf'[i] <= ListedOf[i] /\ ListedOf'[i] \in Int
      BY <1>2, <3>1, <3>2
    <3>4. QED
      BY <1>2, <1>5, <3>3
  <2>6. QED
    BY <1>7, <2>1, <2>5
<1> QED
  BY <1>6, <1>8, <1>9 DEF Aside

LEMMA PaysListedFits ==
  ASSUME OneHandler, SerialInv, SerialInv', FillKnown, ListedFits,
         NEW h \in Handlers, Pays(h)
  PROVE  ListedFits'
<1>1. /\ pc \in [Handlers -> Places] /\ \A g \in Handlers : g = h
      /\ ListingTypes /\ ListingTypes' /\ Works
      /\ OrderTypes /\ Placed /\ ListingKnown
  BY DEF SerialInv, SettlementInv, MarketTypes, OneHandler, LocalTypes
<1>2. \A i \in Investors :
        /\ OwnedOf[i] \in Int /\ Tolerance(i) \in Nat /\ ListedOf[i] \in Nat
        /\ Debt(h, i) \in Nat
        /\ ListedOf[i] <= (OwnedOf[i] + Tolerance(i)) + Debt(h, i)
  BY <1>1, Parties, TruthTypes, ToleranceTypes, ListedNat, ListedDebt
<1>3. pc'[h] \notin {"list_check", "list_insert"}
  BY <1>1 DEF Pays, store, GetWallet, SettleReadWallet, SettleDebit,
         SettleCredit, SettleFee, Book, SettleTransfer, SettleReadSeller,
         SettleReadBuyer, SettleSellerRow, SettleBuyerRow, RecomputeRead,
         RecomputeWrite, SettleListing, SettleDone, Goto, Finish
<1>4. ASSUME \A i \in Investors :
               ListedOf'[i] <= (OwnedOf'[i] + Tolerance(i)') + Debt(h, i)'
      PROVE  ListedFits'
  BY <1>1, <1>3, <1>4 DEF ListedFits
<1>5. OwnedOf' = OwnedOf \/ SettleTransfer(h)
  BY PaysKeeps
<1>6. trade' = trade => \A i \in Investors : Tolerance(i)' = Tolerance(i)
  BY DEF Tolerance, SalesOf, Settled
<1>7. listing' = listing => ListedOf' = ListedOf
  BY DEF ListedOf, Listed, OpenListings, Remaining
<1>8. CASE SettleTransfer(h)
  <2>1. /\ pc[h] = "st_transfer" /\ pc'[h] = "st_seller_owned" /\ work' = work
        /\ trade' = trade /\ listing' = listing
    BY <1>1, <1>8 DEF SettleTransfer, Goto
  <2>2. work[h].trade \in Trades /\ Trade(h)' = Trade(h)
    BY <2>1, Parties DEF Paying, Trade
  <2> PICK b \in Investors, s \in Investors, u \in Nat :
             b = Trade(h).buyer /\ s = Seller(Trade(h)) /\ u = Trade(h).units
    BY <2>2, Parties
  <2>3. ASSUME NEW i \in Investors
        PROVE  ListedOf'[i] <= (OwnedOf'[i] + Tolerance(i)') + Debt(h, i)'
    <3>1. Debt(h, i) = 0
      BY <2>1 DEF Debt, Delivered, AfterTransfer
    <3>2. Debt(h, i)' = IF i = s THEN u ELSE 0
      BY <2>1, <2>2 DEF Debt, Delivered, AfterTransfer
    <3>3. OwnedOf'[i] = (OwnedOf[i] + (IF i = b THEN u ELSE 0)) - (IF i = s THEN u ELSE 0)
      BY <1>8, PaysMoves
    <3>4. ListedOf'[i] = ListedOf[i] /\ Tolerance(i)' = Tolerance(i)
      BY <1>6, <1>7, <2>1
    <3>5. QED
      BY <1>2, <3>1, <3>2, <3>3, <3>4
  <2>4. QED
    BY <1>4, <2>3
<1>9. CASE SettleListing(h)
  <2>1. /\ pc[h] = "st_fill" /\ pc'[h] = "st_done" /\ work' = work /\ trade' = trade
        /\ OwnedOf' = OwnedOf
    BY <1>1, <1>5, <1>9 DEF SettleListing, Goto, SettleTransfer
  <2>2. work[h].trade \in Trades /\ Trade(h)' = Trade(h)
    BY <2>1, Parties DEF Paying, Trade
  <2> PICK l \in Listings, u \in Nat : l = Trade(h).listing /\ u = Trade(h).units
    BY <2>2, Parties
  <2>3. /\ seen[h].filled = listing[l].filled
        /\ u <= (UnitsOf[l] - listing[l].filled) + Slack
        /\ listing[l].status \in Open
    BY <1>1, <2>1, <2>2 DEF FillKnown, ListingKnown, Settling, AfterTransfer, Remaining
  <2>4. listing' = [listing EXCEPT ![l] =
             [status |-> IF UnitsOf[l] - (seen[h].filled + u) <= Slack
                         THEN "filled" ELSE "partially_filled",
              filled |-> seen[h].filled + u]]
    BY <1>9 DEF SettleListing
  <2>5. /\ listing'[l].filled = listing[l].filled + u
        /\ listing'[l].status = IF UnitsOf[l] - (listing[l].filled + u) <= Slack
                                THEN "filled" ELSE "partially_filled"
        /\ \A k \in Listings \ {l} : listing'[k] = listing[k]
    BY <1>1, <2>3, <2>4 DEF ListingTypes
  <2>6. listing[l].filled \in Nat /\ listing[l].filled <= UnitsOf[l] /\ UnitsOf[l] \in Nat
    BY <1>1, <2>3 DEF ListingTypes
  <2>7. Offer(SellerOf[l], l) = UnitsOf[l] - listing[l].filled
    BY <2>3, <2>6 DEF Offer, At, Left, Remaining, OpenListings
  <2>8. Offer(SellerOf[l], l)' + u <= (UnitsOf[l] - listing[l].filled) + Slack
    <3>1. CASE UnitsOf[l] - (listing[l].filled + u) <= Slack
      <4>1. Offer(SellerOf[l], l)' = 0
        BY <2>5, <3>1 DEF Offer, At, OpenListings, Open
      <4>2. QED
        BY <2>3, <2>6, <4>1
    <3>2. CASE ~(UnitsOf[l] - (listing[l].filled + u) <= Slack)
      <4>1. UnitsOf[l] - listing'[l].filled > 0
        BY <2>5, <2>6, <3>2
      <4>2. Offer(SellerOf[l], l)' = UnitsOf[l] - listing'[l].filled
        BY <2>5, <3>2, <4>1 DEF Offer, At, Left, Remaining, OpenListings, Open
      <4>3. QED
        BY <2>5, <2>6, <4>2
    <3>3. QED
      BY <3>1, <3>2
  <2>9. ASSUME NEW i \in Investors
        PROVE  ListedOf'[i] <= (OwnedOf'[i] + Tolerance(i)') + Debt(h, i)'
    <3>1. Tolerance(i)' = Tolerance(i) /\ OwnedOf'[i] = OwnedOf[i]
      BY <1>6, <2>1
    <3>2. /\ Debt(h, i) = IF i = SellerOf[l] THEN u ELSE 0
          /\ Debt(h, i)' = IF i = SellerOf[l] THEN Slack ELSE 0
      BY <2>1, <2>2 DEF Debt, Delivered, AfterTransfer, Seller
    <3>3. /\ Offer(i, l) \in Nat /\ Offer(i, l)' \in Nat
          /\ ListedOf'[i] = (ListedOf[i] - Offer(i, l)) + Offer(i, l)'
      BY <1>1, <2>5, ListedStep
    <3>4. CASE i = SellerOf[l]
      BY <1>2, <2>6, <2>7, <2>8, <3>1, <3>2, <3>3, <3>4
    <3>5. CASE i # SellerOf[l]
      <4>1. Offer(i, l) = 0 /\ Offer(i, l)' = 0
        BY <3>5 DEF Offer, At, OpenListings
      <4>2. QED
        BY <1>2, <3>1, <3>2, <3>3, <3>5, <4>1
    <3>6. QED
      BY <3>4, <3>5
  <2>10. QED
    BY <1>4, <2>9
<1>10. CASE SettleDone(h)
  <2>11. pc[h] = "st_done" /\ pc'[h] = "idle" /\ listing' = listing
    BY <1>1, <1>10 DEF SettleDone, Finish
  <2>12. ~SettleTransfer(h)
    BY <2>11 DEF SettleTransfer, Goto
  <2>1. /\ pc[h] = "st_done" /\ pc'[h] = "idle" /\ listing' = listing
        /\ OwnedOf' = OwnedOf
    BY <1>5, <2>11, <2>12
  <2>2. PICK t \in Trades : t = work[h].trade
    BY <2>1, Parties DEF Paying
  <2>3. Trade(h) = trade[t] /\ trade[t].status = "pending" /\ trade[t] \in Orders
    BY <2>2, Parties DEF Trade
  <2>4. /\ trade'[t] = [trade[t] EXCEPT !.status = "settled"]
        /\ \A r \in Trades \ {t} : trade'[r] = trade[r]
    BY <1>1, <1>10, <2>2 DEF SettleDone, OrderTypes
  <2>5. trade'[t].status = "settled" /\ Seller(trade'[t]) = Seller(trade[t])
    BY <2>3, <2>4 DEF Orders, Seller
  <2>6. ~Settled(t) /\ Settled(t)'
    BY <2>3, <2>5 DEF Settled
  <2>7. \A r \in Trades \ {t} :
          (Settled(r)' <=> Settled(r)) /\ Seller(trade'[r]) = Seller(trade[r])
    BY <2>4 DEF Settled
  <2>8. ASSUME NEW i \in Investors
        PROVE  Tolerance(i)' = Tolerance(i)
                                 + IF i = Seller(trade[t]) THEN Slack ELSE 0
    <3>1. CASE i # Seller(trade[t])
      <4>1. SalesOf(i)' = SalesOf(i)
        BY <2>5, <2>7, <3>1 DEF SalesOf
      <4>2. QED
        BY <1>2, <3>1, <4>1 DEF Tolerance
    <3>2. CASE i = Seller(trade[t])
      <4>1. SalesOf(i)' = SalesOf(i) \cup {t} /\ t \notin SalesOf(i)
        BY <2>5, <2>6, <2>7, <3>2 DEF SalesOf
      <4>2. IsFiniteSet(SalesOf(i))
        BY FS_Subset, SalesOf(i) \in SUBSET Trades DEF SalesOf
      <4>3. /\ Cardinality(SalesOf(i)') = Cardinality(SalesOf(i)) + 1
            /\ Cardinality(SalesOf(i)) \in Nat
        BY <4>1, <4>2, FS_AddElement, FS_CardinalityType
      <4>4. \A n \in Nat : Slack * (1 + (n + 1)) = Slack * (1 + n) + Slack
        OBVIOUS
      <4>5. QED
        BY <3>2, <4>3, <4>4 DEF Tolerance
    <3>3. QED
      BY <3>1, <3>2
  <2>9. ASSUME NEW i \in Investors
        PROVE  ListedOf'[i] <= (OwnedOf'[i] + Tolerance(i)') + Debt(h, i)'
    <3>1. Debt(h, i) = (IF i = Seller(trade[t]) THEN Slack ELSE 0) /\ Debt(h, i)' = 0
      BY <2>1, <2>2, <2>3 DEF Debt, Delivered, AfterTransfer
    <3>2. ListedOf'[i] = ListedOf[i] /\ OwnedOf'[i] = OwnedOf[i]
      BY <1>7, <2>1
    <3>3. QED
      BY <1>2, <2>8, <3>1, <3>2
  <2>10. QED
    BY <1>4, <2>9
<1>11. CASE ~SettleTransfer(h) /\ ~SettleListing(h) /\ ~SettleDone(h)
  <2>1. trade' = trade /\ listing' = listing /\ OwnedOf' = OwnedOf
    <3>1. trade' = trade /\ listing' = listing
      BY <1>11 DEF Pays, store, GetWallet, SettleReadWallet,
             SettleDebit, SettleCredit, SettleFee, Book,
             SettleReadSeller, SettleReadBuyer, SettleSellerRow,
             SettleBuyerRow, RecomputeRead, RecomputeWrite
    <3>2. QED
      BY <1>5, <1>11, <3>1
  <2>2. \A i \in Investors : Debt(h, i)' = Debt(h, i)
    <3>1. CASE RecomputeWrite(h)
      <4>1. CASE work[h].trade = None
        <5>1. work'[h].trade = None
          <6>1. Finish(h)
            BY <3>1, <4>1 DEF RecomputeWrite
          <6>2. work' = [work EXCEPT ![h] = Fresh]
            BY <6>1 DEF Finish
          <6>3. work'[h] = Fresh
            BY <1>1, <6>2 DEF Works
          <6>4. QED
            BY <6>3 DEF Fresh
        <5>2. QED
          BY <4>1, <5>1 DEF Debt, Delivered
      <4>2. CASE work[h].trade # None
        <5>1. /\ pc[h] = "w_write" /\ pc'[h] \in {"w_read", "st_fill"}
              /\ work' = work
          BY <1>1, <3>1, <4>2 DEF RecomputeWrite, Goto
        <5>2. Trade(h)' = Trade(h)
          BY <2>1, <5>1 DEF Trade
        <5>3. QED
          BY <5>1, <5>2 DEF Debt, Delivered, AfterTransfer
      <4>3. QED
        BY <4>1, <4>2
    <3>2. ASSUME NEW j \in Investors, GetWallet(h, j)
          PROVE  \A i \in Investors : Debt(h, i)' = Debt(h, i)
      <4>1. pc[h] = "idle" /\ work' = work
        BY <3>2 DEF GetWallet, Goto
      <4>2. work[h].trade = None
        BY <1>1, <4>1 DEF Placed, Settling, BeforeDebit, AfterTransfer
      <4>3. QED
        BY <4>1, <4>2 DEF Debt, Delivered
    <3>3. CASE SettleReadWallet(h) \/ SettleDebit(h) \/ SettleCredit(h) \/ SettleFee(h)
      <4>1. pc[h] \notin AfterTransfer /\ pc'[h] \notin AfterTransfer
        BY <1>1, <3>3 DEF SettleReadWallet, SettleDebit, SettleCredit, SettleFee,
               Goto, AfterTransfer
      <4>2. QED
        BY <4>1 DEF Debt, Delivered
    <3>4. CASE SettleReadSeller(h) \/ SettleReadBuyer(h) \/ SettleSellerRow(h)
               \/ SettleBuyerRow(h) \/ RecomputeRead(h)
      <4>1. /\ pc[h] \in AfterTransfer \ {"st_done"}
            /\ pc'[h] \in AfterTransfer \ {"st_done"} /\ work' = work
        BY <1>1, <3>4 DEF SettleReadSeller, SettleReadBuyer, SettleSellerRow,
               SettleBuyerRow, RecomputeRead, Goto, AfterTransfer
      <4>2. Trade(h)' = Trade(h)
        BY <2>1, <4>1 DEF Trade
      <4>3. QED
        BY <4>1, <4>2 DEF Debt, Delivered
    <3>5. QED
      BY <1>11, <3>1, <3>2, <3>3, <3>4 DEF Pays
  <2>3. QED
    BY <1>2, <1>4, <1>6, <1>7, <2>1, <2>2
<1> QED
  BY <1>8, <1>9, <1>10, <1>11

LEMMA StepListedFits ==
  ASSUME OneHandler, SerialInv, SerialInv', FillKnown, ListedFits, [Next]_vars
  PROVE  ListedFits'
<1>1. ASSUME UNCHANGED vars
      PROVE  ListedFits'
  <2>1. ListedOf' = ListedOf
    BY <1>1, StutterKeeps DEF ListedOf, Listed, OpenListings, Remaining
  <2>2. \A i \in Investors : Tolerance(i)' = Tolerance(i)
    BY <1>1, StutterKeeps DEF Tolerance, SalesOf, Settled
  <2>3. \A h \in Handlers, i \in Investors : Debt(h, i)' = Debt(h, i)
    BY <1>1, StutterKeeps DEF Debt, Delivered
  <2>4. QED
    BY <1>1, <2>1, <2>2, <2>3, StutterKeeps DEF ListedFits
<1>2. (\E h \in Handlers : Aside(h) \/ Pays(h)) \/ UNCHANGED vars
  BY StepKinds DEF SerialInv, SettlementInv, MarketTypes
<1> QED
  BY <1>1, <1>2, AsideListedFits, PaysListedFits

(* At the start nothing is bought, listed or settled, and every row and    *)
(* every wallet shows what its owner began with.                           *)
LEMMA InitBalances ==
  Init => FillKnown /\ RowFits /\ WalletFits /\ CashFits /\ FillFits /\ ListedFits
<1> SUFFICES ASSUME Init
             PROVE  FillKnown /\ RowFits /\ WalletFits /\ CashFits /\ FillFits
                      /\ ListedFits
  OBVIOUS
<1>1. /\ \A h \in Handlers : pc[h] = "idle"
      /\ \A t \in Trades : trade[t].status = Absent
      /\ \A l \in Listings : listing[l].status = Absent /\ listing[l].filled = 0
  BY DEF Init, NoOrder
<1>2. ASSUME NEW i \in Investors
      PROVE  Bought(i) = {} /\ Sold(i) = {} /\ OpenListings(i) = {}
  BY <1>1 DEF Bought, Sold, Of, OpenListings, Open, Absent
<1>3. ASSUME NEW i \in Investors
      PROVE  /\ OwnedOf[i] = Primary[i] /\ LedgerOf[i] = Cash[i] /\ ListedOf[i] = 0
             /\ Primary[i] \in Nat /\ Cash[i] \in Nat
  <2>1. /\ SumFunctionOnSet(Shares, {}) = 0 /\ SumFunctionOnSet(Paid, {}) = 0
        /\ SumFunctionOnSet(Received, {}) = 0
        /\ SumFunctionOnSet([l \in Listings |->
             IF Remaining(l) > 0 THEN Remaining(l) ELSE 0], {}) = 0
    BY SumEmpty
  <2>2. Owned(i) = Primary[i] + 0 - 0
    BY <1>2, <2>1 DEF Owned
  <2>3. LedgerSettled(i) = Cash[i] - 0 + 0
    BY <1>2, <2>1 DEF LedgerSettled
  <2>4. Listed(i) = 0
    BY <1>2, <2>1 DEF Listed
  <2>5. QED
    BY <2>2, <2>3, <2>4 DEF OwnedOf, LedgerOf, ListedOf
<1>4. ASSUME NEW l \in Listings
      PROVE  SoldBy[l] = 0
  <2>1. {t \in Trades : Settled(t) /\ trade[t].listing = l} = {}
    BY <1>1 DEF Settled, Absent
  <2>2. SumFunctionOnSet([t \in Trades |-> trade[t].units], {}) = 0
    BY SumEmpty
  <2>3. QED
    BY <2>1, <2>2 DEF SoldBy, SoldOf
<1>5. FillKnown
  BY <1>1 DEF FillKnown, Settling, BeforeDebit, AfterTransfer
<1>6. RowFits
  <2>1. row = Primary
    BY DEF Init
  <2>2. QED
    BY <1>1, <1>3, <2>1 DEF RowFits
<1>7. WalletFits
  <2>1. wallet = Cash /\ todo = [h \in Handlers |-> <<>>]
    BY DEF Init
  <2>2. QED
    BY <1>1, <1>3, <2>1 DEF WalletFits
<1>8. CashFits
  BY <1>1, <1>3 DEF CashFits
<1>9. FillFits
  BY <1>1, <1>4 DEF FillFits
<1>10. ListedFits
  BY <1>1, <1>3, ToleranceTypes DEF ListedFits
<1> QED
  BY <1>5, <1>6, <1>7, <1>8, <1>9, <1>10

(* The invariant of what is bought and sold.                               *)
THEOREM BalanceInvariant ==
  ASSUME OneHandler
  PROVE  Spec => []BalanceInv
<1>1. Init => BalanceInv
  BY InitSerialInv, InitBalances DEF BalanceInv
<1>2. BalanceInv /\ [Next]_vars => BalanceInv'
  <2> SUFFICES ASSUME BalanceInv, [Next]_vars
               PROVE  BalanceInv'
    OBVIOUS
  <2>1. SerialInv /\ SerialInv'
    BY StepSerialInv DEF BalanceInv
  <2>2. FillKnown'
    BY <2>1, StepFillKnown DEF BalanceInv, SerialInv, SettlementInv, MarketTypes
  <2>3. RowFits' /\ WalletFits' /\ FillFits' /\ ListedFits'
    BY <2>1, StepRowFits, StepWalletFits, StepFillFits, StepListedFits
    DEF BalanceInv
  <2>4. QED
    BY <2>1, <2>2, <2>3 DEF BalanceInv
<1>3. QED
  BY <1>1, <1>2, PTL DEF Spec

(* I13 of lumen_consistency.py: when no request is being served, the row   *)
(* of an investor is its primary investment and its transfers.             *)
THEOREM RowsAreOwnedAlways ==
  ASSUME OneHandler
  PROVE  Spec => []RowsAreOwned
<1>1. BalanceInv => RowsAreOwned
  BY DEF BalanceInv, RowFits, RowStale, RowsAreOwned, Idle, OwnedOf
<1>2. QED
  BY BalanceInvariant, <1>1, PTL

(* I3: when no request is being served, the wallet is the sum of the       *)
(* ledger.                                                                 *)
THEOREM WalletsAreLedgerAlways ==
  ASSUME OneHandler
  PROVE  Spec => []WalletsAreLedger
<1>1. BalanceInv => WalletsAreLedger
  BY DEF BalanceInv, WalletFits, WalletStale, WalletsAreLedger, Idle, LedgerOf
<1>2. QED
  BY BalanceInvariant, <1>1, PTL

(* At rest a listing's filled_units_uah is what its settled trades sold.   *)
THEOREM FillIsSoldAlways ==
  ASSUME OneHandler
  PROVE  Spec => []FillIsSold
<1>1. BalanceInv => FillIsSold
  BY DEF BalanceInv, FillFits, FillIsSold, Idle, SoldBy
<1>2. QED
  BY BalanceInvariant, <1>1, PTL

(* No listing sells more than it offers, up to the tolerance of the        *)
(* comparison with what remained.                                          *)
THEOREM NotOversoldAlways ==
  ASSUME OneHandler
  PROVE  Spec => []NotOversold
<1>1. ASSUME BalanceInv, NEW l \in Listings
      PROVE  SoldOf(l) <= UnitsOf[l] + Slack
  <2>1. SoldOf(l) = SoldBy[l] /\ SoldBy[l] \in Int
    BY <1>1, TruthTypes DEF Typed, SoldBy, BalanceInv, SerialInv, SettlementInv,
       MarketTypes
  <2>2. listing[l].filled \in Nat /\ listing[l].filled <= UnitsOf[l] + Slack
    BY <1>1 DEF BalanceInv, FillFits, SerialInv, MarketTypes, ListingTypes
  <2>3. CASE listing[l].filled = SoldBy[l]
    BY <2>1, <2>2, <2>3
  <2>4. CASE listing[l].filled # SoldBy[l]
    <3>1. PICK h \in Handlers : pc[h] = "st_done" /\ Trade(h).listing = l
      BY <1>1, <2>4 DEF BalanceInv, FillFits
    <3>2. work[h].trade \in Trades
      BY <1>1, <3>1 DEF BalanceInv, SerialInv, SettlementInv, Placed,
             Settling, AfterTransfer
    <3>3. Trade(h).units \in Nat
      BY <1>1, <3>2, Parties DEF BalanceInv
    <3>4. listing[l].filled = SoldBy[l] + Trade(h).units
      BY <1>1, <3>1 DEF BalanceInv, FillFits
    <3>5. QED
      BY <2>1, <2>2, <3>3, <3>4
  <2>5. QED
    BY <2>3, <2>4
<1>2. BalanceInv => NotOversold
  BY <1>1 DEF NotOversold
<1>3. QED
  BY BalanceInvariant, <1>2, PTL

(* What an investor offers it owns, up to the tolerance of its listings    *)
(* and of its sales.                                                       *)
THEOREM ListedIsOwnedAlways ==
  ASSUME OneHandler
  PROVE  Spec => []ListedIsOwned
<1>1. ASSUME BalanceInv, Idle, NEW i \in Investors
      PROVE  Listed(i) <= Owned(i) + Slack * (1 + Cardinality(SalesOf(i)))
  <2>1. \A h \in Handlers : Debt(h, i) = 0
    BY <1>1 DEF Idle, Debt, Delivered, AfterTransfer
  <2>2. OwnedOf[i] \in Int /\ Tolerance(i) \in Nat
    BY <1>1, TruthTypes, ToleranceTypes DEF Typed, BalanceInv, SerialInv,
       SettlementInv, MarketTypes
  <2>3. ListedOf[i] <= OwnedOf[i] + Tolerance(i)
    BY <1>1, <2>1, <2>2 DEF BalanceInv, ListedFits
  <2>4. QED
    BY <2>3 DEF ListedOf, OwnedOf, Tolerance
<1>2. BalanceInv => ListedIsOwned
  BY <1>1 DEF ListedIsOwned
<1>3. QED
  BY BalanceInvariant, <1>2, PTL

(* I6: purchases never take a wallet below zero, provided the fee is not   *)
(* more than the price: PLATFORM_FEE_PCT is read from the environment, and *)
(* a seller that pays more than it gets may lose money by selling.         *)
THEOREM CashCoversAlways ==
  ASSUME OneHandler, FeePct <= 100
  PROVE  Spec => []CashCovers
<1>1. Init => CashFits
  BY InitBalances
<1>2. BalanceInv /\ CashFits /\ BalanceInv' /\ [Next]_vars => CashFits'
  BY StepCashFits DEF BalanceInv
<1>3. CashFits => CashCovers
  BY DEF CashFits, CashCovers, LedgerOf
<1>4. QED
  BY BalanceInvariant, <1>1, <1>2, <1>3, PTL DEF Spec
=============================================================================
