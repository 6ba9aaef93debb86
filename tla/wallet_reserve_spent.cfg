SPECIFICATION Spec
CONSTANTS
  i1 = i1
  i2 = i2
  r1 = r1
  r2 = r2
  r3 = r3
  h1 = h1
  h2 = h2
  None = None
  Investors = {i1}
  Requests = {r1}
  Handlers = {h1}
  OwnerOf <- MCOwnerSingle
  AmountOf <- MCAmountSingle
  MinWithdrawal = 1
  Slack = 0
  Prices = {1}
  MarketSlack = 0
  Credits = {1}
  MaxIncome = 1
  MaxSpent = 1
  MaxAborts = 0
  MaxDebits = 1
INVARIANTS
  NoNegativeWallet
