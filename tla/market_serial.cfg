SPECIFICATION Spec
CONSTANTS
  seller = seller
  buyer = buyer
  other = other
  l1 = l1
  l2 = l2
  b1 = b1
  t1 = t1
  t2 = t2
  t3 = t3
  h1 = h1
  h2 = h2
  None = None
  Investors = {seller, buyer, other}
  Listings = {l1, l2}
  Bids = {b1}
  Trades = {t1, t2, t3}
  Handlers = {h1}
  SellerOf <- MCSellerOf
  UnitsOf <- MCUnitsOf
  AskOf <- MCAskOf
  ListingOfBid <- MCListingOfBid
  BidderOf <- MCBidderOf
  BidUnits <- MCBidUnits
  BidPrice <- MCBidPrice
  BuyUnits = {1, 2}
  MinListing = 1
  FeePct = 20
  Slack = 0
  Primary <- MCPrimary
  Cash <- MCCash
  MaxFailures = 0
INVARIANTS
  NotOversold
  FillIsSold
  ListedIsOwned
  RowsAreOwned
  WalletsAreLedger
  CashCovers
  BidTradedOnce
PROPERTIES
  ClosedListingStays
