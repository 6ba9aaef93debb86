SPECIFICATION Spec
CONSTANTS
  i1 = i1
  i2 = i2
  n1 = n1
  n2 = n2
  n3 = n3
  d1 = d1
  d2 = d2
  p1 = p1
  p2 = p2
  h1 = h1
  h2 = h2
  None = None
  Investors = {i1}
  Intents = {n1}
  Deals = {d1}
  Payments = {p1}
  Handlers = {h1, h2}
  InvestorOf <- MCInvestorSingle
  AmountOf <- MCAmountSingle
  MaxCredits = 1
  MaxFailures = 0
INVARIANTS
  CancelledNeverActive
CHECK_DEADLOCK FALSE
