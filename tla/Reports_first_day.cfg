SPECIFICATION BudgetsSpec
CONSTANTS
  chk = chk
  eur = eur
  brk = brk
  ann = ann
  bob = bob
  food = food
  pay = pay
  between = between
  vti = vti
  money = money
  usd = usd
  euro = euro
  Absent = Absent
  Accounts <- AllAccounts
  Investments <- Brokerages
  OwnerOf <- Holders
  CurrencyOf <- Currencies
  Opening <- Openings
  Base = usd
  Owners <- People
  TypeOf <- Types
  Securities <- Traded
  Cash = money
  FirstDay <- First
  LastDay <- LastOf
  RateTapes <- Rates
  PriceTapes <- Prices
  Observed <- Reporting
  Kinds <- Uncharted
  Posts <- Posted
  Dated <- Nearby
  Parts <- Halves
  Bars <- Weeks
  Charts <- Asked
  MaxSteps = 2
  PlanAmounts <- Planned
INVARIANT WindowReconciles
CHECK_DEADLOCK FALSE
